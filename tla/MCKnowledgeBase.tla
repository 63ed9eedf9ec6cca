--------------------------- MODULE MCKnowledgeBase ---------------------------
(***************************************************************************)
(* Small catalogues for KnowledgeBase.                                     *)
(***************************************************************************)
EXTENDS KnowledgeBase

(* Official sources only: a BAG decision and a law. *)
OfficialSources == {"bag", "law"}
OfficialImporterOf == [s \in OfficialSources |-> s]
OfficialClassOf == [s \in OfficialSources |-> "GRUEN"]

(* A hint source an administrator can approve, the members' download, a decision. *)
HintSources == {"bag", "pub", "mem"}
HintImporterOf == [s \in HintSources |-> CASE s = "bag" -> "bag"
                                           [] s = "pub" -> "evg_public"
                                           [] s = "mem" -> "evg_member"]
HintClassOf == [s \in HintSources |-> CASE s = "bag" -> "GRUEN"
                                        [] s = "pub" -> "GELB"
                                        [] s = "mem" -> "BLAU"]
=============================================================================
