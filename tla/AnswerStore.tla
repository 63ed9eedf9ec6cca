----------------------------- MODULE AnswerStore -----------------------------
(***************************************************************************)
(* What the answer tables promise to every reader of the database (the     *)
(* guards, the export, the answer pages): an answer appears in one step,   *)
(* with all of its statements, their citations and its audit row, and      *)
(* afterwards nothing but the links from its citations to chunks changes.  *)
(*                                                                         *)
(* KnowledgeBase implements this specification: there an answer is read,   *)
(* built and written in many steps, any of which can fail.                 *)
(***************************************************************************)
EXTENDS Naturals, Sequences

CONSTANTS Requests,     \* one answer request each; also names the answer
          ChunkRows     \* the rows a citation can be taken from

VARIABLE answers        \* answers[r]: the rows of answer r that are visible

(***************************************************************************)
(* A citation keeps the label, reference and class of the chunk it was     *)
(* taken from; its foreign key chunk_id is set NULL when the chunk goes.   *)
(***************************************************************************)
Citation == [row : ChunkRows, linked : BOOLEAN]

AnswerRows == [row : BOOLEAN, items : Seq(Citation), audited : BOOLEAN]

NoAnswer == [row |-> FALSE, items |-> <<>>, audited |-> FALSE]

(***************************************************************************)
(* A complete answer: the answers row, at least one statement, each        *)
(* statement with its citation (an item is both), and the audit row.       *)
(***************************************************************************)
Complete(a) == a.row /\ a.items # <<>> /\ a.audited

(* The items of new are those of old, except that links may be gone. *)
SameButUnlinked(old, new) ==
  /\ new.row = old.row
  /\ new.audited = old.audited
  /\ DOMAIN new.items = DOMAIN old.items
  /\ \A i \in DOMAIN old.items :
       /\ new.items[i].row = old.items[i].row
       /\ new.items[i].linked => old.items[i].linked

Init == answers = [r \in Requests |-> NoAnswer]

Publish(r) ==
  /\ answers[r] = NoAnswer
  /\ answers'[r] \in AnswerRows
  /\ Complete(answers'[r])
  /\ \A i \in DOMAIN answers'[r].items : answers'[r].items[i].linked
  /\ \A q \in Requests \ {r} : answers'[q] = answers[q]

Unlink ==
  \A r \in Requests :
    /\ answers'[r] \in AnswerRows
    /\ SameButUnlinked(answers[r], answers'[r])

Next == (\E r \in Requests : Publish(r)) \/ Unlink

Spec == Init /\ [][Next]_answers
=============================================================================
