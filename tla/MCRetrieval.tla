---------------------------- MODULE MCRetrieval ----------------------------
(***************************************************************************)
(* A catalogue in miniature: a law that two sources carry as one document, *)
(* two internal sources that share a class cap, one source without hash.   *)
(***************************************************************************)
EXTENDS Retrieval

MCChunks == {"a1", "a2", "a3", "b1", "t1", "t2", "u1"}
MCSourceUids == {"a", "b", "t", "u"}
MCSourceUidOf == [c \in MCChunks |->
  CASE c \in {"a1", "a2", "a3"} -> "a" [] c = "b1" -> "b" [] c = "u1" -> "u" [] OTHER -> "t"]
MCDocumentShas == {"", "x", "y"}
MCDocumentShaOf == [c \in MCChunks |->
  CASE MCSourceUidOf[c] \in {"a", "b"} -> "x" [] MCSourceUidOf[c] = "t" -> "y" [] OTHER -> ""]
MCSourceClassOf == [c \in MCChunks |-> IF MCDocumentShaOf[c] = "x" THEN "GRUEN" ELSE "BLAU"]
MCClassLimit == [k \in {"BLAU"} |-> 2]
=============================================================================
