---------------------------- MODULE Checkpoint ----------------------------
(***************************************************************************)
(* What persistence promises the users of one board: a document that       *)
(* changes by one operation at a time, a checkpoint that only moves        *)
(* forward and is always a version of the document as it was, and after a  *)
(* crash the document of the last checkpoint and nothing else.  How many   *)
(* servers, boards and saves in flight there are does not show.            *)
(***************************************************************************)
EXTENDS Integers

CONSTANTS
  Shapes,   \* shape ids
  MaxOps    \* bound: the highest sequence number

VARIABLES
  doc,       \* the document: [seq, shapes]
  versions,  \* the shapes as they were after each sequence number
  saved      \* the checkpoint: [seq, shapes]

vars == <<doc, versions, saved>>

Blank == [x \in Shapes |-> 0]
Version(n) == [seq |-> n, shapes |-> versions[n]]

Init ==
  /\ versions = [n \in 0..MaxOps |-> Blank]
  /\ doc = Version(0)
  /\ saved = Version(0)

(* An operation writes a shape, or removes it.                             *)
Write(x, del) ==
  LET n == doc.seq + 1
      shapes == [doc.shapes EXCEPT ![x] = IF del THEN 0 ELSE n]
  IN
  /\ doc.seq < MaxOps
  /\ doc' = [seq |-> n, shapes |-> shapes]
  /\ versions' = [versions EXCEPT ![n] = shapes]
  /\ UNCHANGED saved

(* Some version between the last checkpoint and now becomes the next.      *)
Save ==
  /\ \E n \in saved.seq..doc.seq : saved' = Version(n)
  /\ UNCHANGED <<doc, versions>>

Crash ==
  /\ doc' = saved
  /\ UNCHANGED <<versions, saved>>

Next ==
  \/ \E x \in Shapes, del \in BOOLEAN : Write(x, del)
  \/ Save
  \/ Crash

Spec == Init /\ [][Next]_vars
============================================================================
