--------------------------- MODULE MCSourceCatalog ---------------------------
(* A source of every importer. *)
EXTENDS SourceCatalog

MCSources == {"bag", "betrvg", "web", "pub", "mem"}

MCImporterOf == [s \in MCSources |-> CASE s = "web" -> "official_web"
                                       [] s = "pub" -> "evg_public"
                                       [] s = "mem" -> "evg_member"
                                       [] OTHER -> s]

MCClassOf == [s \in MCSources |-> CASE s \in {"web", "pub"} -> "GELB"
                                    [] s = "mem" -> "BLAU"
                                    [] OTHER -> "GRUEN"]

(* A BAG decision alone. *)
BagImporterOf == [s \in {"bag"} |-> "bag"]
BagClassOf == [s \in {"bag"} |-> "GRUEN"]
=============================================================================
