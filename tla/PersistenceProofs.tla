------------------------ MODULE PersistenceProofs ------------------------
(* Proofs of Persistence's safety properties for any number of servers,    *)
(* board goroutines, shapes, operations and restarts.                      *)
EXTENDS Persistence, TLAPS

(* What one applied operation does to the document is a document.          *)
LEMMA ApplyType ==
  ASSUME TypeOK, NEW b \in Boards, NEW x \in Shapes, NEW del \in BOOLEAN,
         ApplyShape(b, x, del)
  PROVE  /\ seq' = seq + 1 /\ seq' \in 1..MaxOps
         /\ shapes' \in Docs
         /\ hist' = [hist EXCEPT ![seq + 1] = shapes']
BY BoundsAssumption DEF ApplyShape, NextSeq, TypeOK, Docs

(* Type correctness of every step (broker, store and hub state).           *)
LEMMA TypeStep == TypeOK /\ [Next]_vars => TypeOK'
<1> SUFFICES ASSUME TypeOK, [Next]_vars PROVE TypeOK'
  OBVIOUS
<1> USE BoundsAssumption DEF TypeOK, Goto, Hold, Processes, Active, Saving, brokerVars
<1>0. Empty \in Docs
  BY DEF Empty, Docs
<1>17. NoSnapshot \in Snapshots
  BY <1>0 DEF NoSnapshot, Snapshots
<1>1. ASSUME NEW b \in Boards, Open(b) \/ CloseBoard(b) PROVE TypeOK'
  BY <1>1 DEF Open, CloseBoard
<1>2. ASSUME NEW b \in Boards, LoadSnapshot(b) PROVE TypeOK'
  BY <1>2 DEF LoadSnapshot
<1>3. ASSUME NEW b \in Boards, Hydrate(b) PROVE TypeOK'
  BY <1>3, <1>17 DEF Hydrate, Snapshots
<1>4. ASSUME NEW b \in Boards, HydrateError(b) PROVE TypeOK'
  BY <1>4, <1>17 DEF HydrateError, Mishaps
<1>5. ASSUME NEW b \in Boards, DrainBoard(b) PROVE TypeOK'
  <2>1. inflight' \subseteq Boards /\ mishaps' \subseteq Mishaps
    BY <1>5 DEF DrainBoard, Mishaps
  <2> QED
    BY <1>5, <2>1 DEF DrainBoard
<1>6. ASSUME NEW b \in Boards, NEW x \in Shapes, NEW del \in BOOLEAN,
             ApplyShape(b, x, del)
      PROVE  TypeOK'
  <2>1. UNCHANGED <<row, pc, snap, restarts, mishaps>> /\ known' = TRUE
        /\ inflight' \subseteq Boards
    BY <1>6 DEF ApplyShape
  <2>2. hist' \in [0..MaxOps -> Docs] /\ seq' \in 0..MaxOps /\ shapes' \in Docs
    BY <1>6, ApplyType
  <2> QED
    BY <2>1, <2>2
<1>7. ASSUME NEW k \in Coordinators, Tick(k) PROVE TypeOK'
  BY <1>7 DEF Tick
<1>8. ASSUME NEW p \in Processes, SnapshotAtomic(p) PROVE TypeOK'
  BY <1>8 DEF SnapshotAtomic, Snapshots
<1>9. ASSUME NEW p \in Processes, SnapshotShapes(p) PROVE TypeOK'
  BY <1>9 DEF SnapshotShapes, Snapshots
<1>10. ASSUME NEW p \in Processes, SnapshotSeq(p) PROVE TypeOK'
  BY <1>10 DEF SnapshotSeq, CounterRead, Snapshots
<1>11. ASSUME NEW p \in Processes, SaveSnapshot(p) PROVE TypeOK'
  <2>1. /\ \E y \in {"idle", "done"} : pc' = [pc EXCEPT ![p] = y]
        /\ row' = snap[p] \/ row' = row
        /\ snap' = [snap EXCEPT ![p] = NoSnapshot]
        /\ UNCHANGED <<brokerVars, inflight, restarts, mishaps>>
    BY <1>11 DEF SaveSnapshot, AfterSave
  <2> QED
    BY <2>1, <1>17
<1>12. ASSUME NEW p \in Processes, SaveError(p) PROVE TypeOK'
  <2>1. /\ \E y \in {"idle", "done"} : pc' = [pc EXCEPT ![p] = y]
        /\ mishaps' = mishaps \cup {"save"}
        /\ snap' = [snap EXCEPT ![p] = NoSnapshot]
        /\ UNCHANGED <<brokerVars, row, inflight, restarts>>
    BY <1>12 DEF SaveError, AfterSave
  <2>2. mishaps' \subseteq Mishaps
    BY <2>1 DEF Mishaps
  <2> QED
    BY <2>1, <2>2, <1>17
<1>16. ASSUME NEW kind \in Mishaps, LoseBroker(kind)
       PROVE  /\ seq' \in 0..MaxOps /\ restarts' \in 0..MaxRestarts
              /\ known' \in BOOLEAN /\ mishaps' \subseteq Mishaps /\ shapes' \in Docs
  <2>1. seq' \in 0..MaxOps /\ restarts' \in 0..MaxRestarts
    BY <1>16 DEF LoseBroker
  <2>2. known' \in BOOLEAN /\ mishaps' \subseteq Mishaps /\ shapes' \in Docs
    BY <1>16, <1>0 DEF LoseBroker
  <2> QED
    BY <2>1, <2>2
<1>13. ASSUME ColdRestart PROVE TypeOK'
  BY <1>13, <1>16, <1>17 DEF ColdRestart, Mishaps
<1>14. ASSUME RedisRestart PROVE TypeOK'
  BY <1>14, <1>16 DEF RedisRestart, Mishaps
<1>15. CASE UNCHANGED vars
  BY <1>15 DEF vars
<1> QED
  BY <1>1, <1>2, <1>3, <1>4, <1>5, <1>6, <1>7, <1>8, <1>9, <1>10, <1>11,
     <1>12, <1>13, <1>14, <1>15 DEF Next, BoardStep, SaveStep

(* The initial state is well typed.                                        *)
LEMMA TypeInit == Init => TypeOK
<1> SUFFICES ASSUME Init PROVE TypeOK
  OBVIOUS
<1>1. Empty \in Docs
  BY BoundsAssumption DEF Empty, Docs
<1>2. NoSnapshot \in Snapshots
  BY <1>1, BoundsAssumption DEF NoSnapshot, Snapshots
<1>3. hist \in [0..MaxOps -> Docs] /\ snap \in [Processes -> Snapshots]
  BY <1>1, <1>2 DEF Init
<1>4. seq \in 0..MaxOps /\ restarts \in 0..MaxRestarts
  BY BoundsAssumption DEF Init
<1> QED
  BY <1>1, <1>3, <1>4 DEF Init, TypeOK

(* Type correctness, in every mode of the broker and with every failure.   *)
THEOREM TypeCorrect == Spec => []TypeOK
BY TypeInit, TypeStep, PTL DEF Spec

----------------------------------------------------------------------------
(* The modes in which the durable row is faithful: the broker reads a      *)
(* snapshot atomically, is lost only together with its servers, and        *)
(* hydration does not fail.  Saves may fail and drains may happen.         *)
Sound == AtomicSnapshot /\ ~LiveRestart /\ ~HydrateFails

(* The same of a behaviour so far, whatever its mode allows.               *)
Unspoiled == mishaps \cap {"hydrate", "redis"} = {}

(* What has gone wrong stays on record.                                    *)
LEMMA MishapsGrow ==
  ASSUME [Next]_vars
  PROVE  mishaps \subseteq mishaps'
BY DEF Next, BoardStep, SaveStep, Open, LoadSnapshot, Hydrate, HydrateError,
   CloseBoard, DrainBoard, ApplyShape, Tick, SnapshotAtomic, SnapshotShapes,
   SnapshotSeq, SaveSnapshot, SaveError, ColdRestart, RedisRestart,
   LoseBroker, vars

(* Every step keeps the invariant, unless a hydration fails or Redis is    *)
(* lost.                                                                   *)
LEMMA FaithfulStep ==
  ASSUME AtomicSnapshot, PInv, [Next]_vars, Unspoiled'
  PROVE  PInv'
<1>0. TypeOK /\ TypeOK'
  BY TypeStep DEF PInv
<1> USE BoundsAssumption, NoRowAssumption
<1>t. /\ seq \in 0..MaxOps /\ hist \in [0..MaxOps -> Docs]
      /\ row # NoRow => row.seq \in 0..MaxOps
      /\ \A p \in Processes : snap[p].seq \in 0..MaxOps
  BY <1>0 DEF TypeOK, Snapshots
(* A process moves, and picks up nothing.                                  *)
<1>1. ASSUME UNCHANGED <<brokerVars, row>>,
             Warm' => Warm,
             \A p \in Processes :
               /\ pc'[p] \in {"write", "hydrate"} =>
                    pc'[p] = pc[p] /\ snap'[p] = snap[p]
               /\ pc'[p] # "seq"
      PROVE  PInv'
  BY <1>0, <1>1 DEF PInv, Faithful, WarmInv, HeldInv, Covers, brokerVars
<1>2. ASSUME NEW b \in Boards, Open(b) \/ CloseBoard(b) \/ DrainBoard(b)
      PROVE  PInv'
  <2>1. /\ UNCHANGED <<brokerVars, row, snap>>
        /\ \/ pc[b] = "open" /\ pc' = [pc EXCEPT ![b] = "shapes"]
           \/ /\ pc[b] = "idle" /\ pc' = [pc EXCEPT ![b] = "load"]
              /\ UNCHANGED inflight
    BY <1>2 DEF Open, CloseBoard, DrainBoard, Goto
  <2>2. Warm' => Warm
    BY <1>0, <2>1 DEF Warm, Processes, Saving, TypeOK
  <2> QED
    BY <1>0, <1>1, <2>1, <2>2 DEF PInv, TypeOK, Processes
<1>3. ASSUME NEW k \in Coordinators, Tick(k) PROVE PInv'
  <2>1. /\ UNCHANGED <<brokerVars, row, snap, inflight>>
        /\ pc' = [pc EXCEPT ![k] = "shapes"]
    BY <1>3 DEF Tick, Goto
  <2>2. Warm' => Warm
    BY <1>0, <2>1, ProcessAssumption DEF Warm, Processes, TypeOK
  <2> QED
    BY <1>0, <1>1, <2>1, <2>2 DEF PInv, TypeOK, Processes
<1>4. ASSUME NEW p \in Processes, SaveError(p) PROVE PInv'
  <2>1. /\ UNCHANGED <<brokerVars, row, inflight>>
        /\ snap' = [snap EXCEPT ![p] = NoSnapshot]
        /\ \E x \in {"idle", "done"} : pc' = [pc EXCEPT ![p] = x]
    BY <1>4 DEF SaveError, AfterSave, Hold
  <2>2. Warm' => Warm
    BY <1>0, <2>1 DEF Warm, Saving, TypeOK
  <2> QED
    BY <1>0, <1>1, <2>1, <2>2 DEF PInv, TypeOK
<1>5. ASSUME NEW b \in Boards, LoadSnapshot(b) PROVE PInv'
  <2>1. UNCHANGED <<brokerVars, row, inflight>> /\ pc[b] = "load"
    BY <1>5 DEF LoadSnapshot, Goto
  <2>2. CASE row = NoRow
    <3>1. UNCHANGED snap /\ pc' = [pc EXCEPT ![b] = "open"]
      BY <1>5, <2>2 DEF LoadSnapshot, Goto
    <3> QED
      BY <1>0, <2>1, <2>2, <3>1
         DEF PInv, Faithful, WarmInv, HeldInv, Covers, brokerVars, TypeOK
  <2>3. CASE row # NoRow
    <3>1. /\ snap' = [snap EXCEPT ![b] = row]
          /\ pc' = [pc EXCEPT ![b] = "hydrate"]
      BY <1>5, <2>3 DEF LoadSnapshot, Goto, Hold
    <3>2. Warm' => Warm
      BY <1>0, <2>1, <3>1 DEF Warm, Saving, Processes, TypeOK
    <3>3. HeldInv'
      BY <1>0, <1>t, <2>1, <2>3, <3>1
         DEF HeldInv, PInv, Faithful, brokerVars, TypeOK, Processes
    <3> QED
      BY <1>0, <2>1, <3>1, <3>2, <3>3
         DEF PInv, Faithful, WarmInv, Covers, brokerVars, TypeOK, Processes
  <2> QED
    BY <2>2, <2>3
<1>6. ASSUME NEW b \in Boards, Hydrate(b) PROVE PInv'
  <2>1. /\ pc[b] = "hydrate" /\ pc' = [pc EXCEPT ![b] = "open"]
        /\ snap' = [snap EXCEPT ![b] = NoSnapshot]
        /\ UNCHANGED <<row, inflight, hist>>
    BY <1>6 DEF Hydrate, Goto, Hold
  <2>2. /\ row # NoRow /\ snap[b].shapes = hist[snap[b].seq]
        /\ snap[b].seq <= row.seq
        /\ snap[b].seq = row.seq \/ row.seq <= seq
    BY <2>1 DEF PInv, HeldInv, Processes
  <2>3. /\ shapes' = hist[seq'] /\ Covers(seq') /\ seq <= seq'
    <3>1. CASE Fresh
      <4>1. seq = 0 /\ seq' = snap[b].seq /\ shapes' = snap[b].shapes
        BY <1>6, <3>1 DEF Fresh, Hydrate
      <4> QED
        BY <1>t, <2>2, <4>1 DEF Covers, Processes
    <3>2. CASE ~Fresh
      <4>1. UNCHANGED <<seq, shapes>> /\ ~(seq = 0 /\ shapes = Empty)
        BY <1>6, <3>2 DEF Fresh, Hydrate
      <4> QED
        BY <1>t, <4>1 DEF PInv, Faithful, WarmInv, Covers
    <3> QED
      BY <3>1, <3>2
  <2>4. HeldInv'
    BY <1>0, <1>t, <2>1, <2>3 DEF HeldInv, PInv, Covers, TypeOK
  <2>5. Faithful' /\ WarmInv'
    BY <2>1, <2>3 DEF Faithful, WarmInv, Covers, PInv
  <2> QED
    BY <1>0, <2>1, <2>4, <2>5 DEF PInv, TypeOK, Processes
<1>7. ASSUME NEW b \in Boards, NEW x \in Shapes, NEW del \in BOOLEAN,
             ApplyShape(b, x, del)
      PROVE  PInv'
  <2>1. /\ UNCHANGED <<row, pc, snap>>
        /\ pc[b] = "open" \/ b \in inflight
        /\ inflight' \subseteq inflight
    BY <1>7 DEF ApplyShape
  <2>2. /\ seq' = seq + 1 /\ seq' \in 1..MaxOps
        /\ hist' = [hist EXCEPT ![seq + 1] = shapes']
    BY <1>0, <1>7, ApplyType
  <2>3. Warm
    BY <2>1 DEF Warm, Processes
  <2>4. Covers(seq)
    BY <2>3 DEF PInv, WarmInv
  <2>5. \A n \in 0..seq : hist'[n] = hist[n]
    BY <1>t, <2>2
  <2>6. Faithful' /\ hist'[0] = Empty
    BY <1>t, <2>1, <2>2, <2>4, <2>5 DEF Faithful, Covers, PInv
  <2>7. WarmInv'
    BY <1>t, <2>1, <2>2, <2>4 DEF WarmInv, Covers
  <2>8. HeldInv'
    BY <1>t, <2>1, <2>2, <2>4, <2>5 DEF HeldInv, Covers, PInv
  <2> QED
    BY <1>0, <2>1, <2>6, <2>7, <2>8 DEF PInv
<1>8. ASSUME NEW p \in Processes, SnapshotAtomic(p) PROVE PInv'
  <2>1. /\ pc[p] = "shapes" /\ pc' = [pc EXCEPT ![p] = "write"]
        /\ snap' = [snap EXCEPT ![p] = [seq |-> seq, shapes |-> shapes]]
        /\ UNCHANGED <<seq, shapes, hist, row, inflight>>
    BY <1>8 DEF SnapshotAtomic, Goto, Hold, brokerVars
  <2>2. Warm' => Warm
    BY <1>0, <2>1 DEF Warm, Saving, TypeOK
  <2>3. HeldInv'
    BY <1>0, <1>t, <2>1 DEF HeldInv, PInv, Faithful, TypeOK
  <2> QED
    BY <1>0, <2>1, <2>2, <2>3 DEF PInv, Faithful, WarmInv, Covers, TypeOK
<1>9. ASSUME NEW p \in Processes, SaveSnapshot(p) PROVE PInv'
  <2>1. /\ pc[p] = "write" /\ \E y \in {"idle", "done"} : pc' = [pc EXCEPT ![p] = y]
        /\ row' = IF Accepts(snap[p]) THEN snap[p] ELSE row
        /\ snap' = [snap EXCEPT ![p] = NoSnapshot]
        /\ UNCHANGED <<seq, shapes, hist, inflight>>
    BY <1>9 DEF SaveSnapshot, Goto, Hold, AfterSave, brokerVars
  <2>2. snap[p].shapes = hist[snap[p].seq] /\ snap[p].seq <= seq
    BY <2>1 DEF PInv, HeldInv
  <2>3. Warm' => Warm
    BY <1>0, <2>1 DEF Warm, Saving, Processes, TypeOK
  <2>4. CASE Accepts(snap[p])
    <3>1. /\ row' # NoRow /\ row'.seq <= seq /\ row'.shapes = hist[row'.seq]
          /\ row # NoRow => row.seq <= row'.seq
      BY <1>0, <1>t, <2>1, <2>2, <2>4
         DEF Accepts, PInv, Faithful, TypeOK, Snapshots
    <3>2. HeldInv'
      BY <1>0, <1>t, <2>1, <3>1 DEF HeldInv, PInv, TypeOK, Snapshots
    <3> QED
      BY <1>0, <2>1, <3>1, <3>2 DEF PInv, Faithful, WarmInv, Covers, TypeOK
  (* A refused save leaves the row, also of a board not yet hydrated.      *)
  <2>5. CASE ~Accepts(snap[p])
    <3>1. row' = row
      BY <2>1, <2>5
    <3>2. HeldInv'
      BY <1>0, <2>1, <3>1 DEF HeldInv, PInv, TypeOK
    <3> QED
      BY <1>0, <2>1, <2>3, <3>1, <3>2 DEF PInv, Faithful, WarmInv, Covers, TypeOK
  <2> QED
    BY <2>4, <2>5
<1>10. ASSUME ColdRestart PROVE PInv'
  <2>1. /\ seq' = 0 /\ shapes' = Empty /\ UNCHANGED <<row, hist>>
        /\ inflight' = {}
        /\ \A p \in Processes : pc'[p] \in {"idle", "done"}
    BY <1>10 DEF ColdRestart, LoseBroker
  <2>2. ~Warm'
    BY <2>1 DEF Warm, Saving, Processes
  <2> QED
    BY <1>0, <2>1, <2>2 DEF PInv, Faithful, WarmInv, HeldInv
<1>11. ASSUME UNCHANGED vars PROVE PInv'
  BY <1>0, <1>11 DEF vars, brokerVars, PInv, Faithful, WarmInv, HeldInv, Covers, Warm
<1>12. ASSUME RedisRestart \/ \E b \in Boards : HydrateError(b) PROVE FALSE
  <2>1. "redis" \in mishaps' \/ "hydrate" \in mishaps'
    BY <1>12 DEF RedisRestart, LoseBroker, HydrateError
  <2> QED
    BY <2>1 DEF Unspoiled
<1> QED
  BY <1>2, <1>3, <1>4, <1>5, <1>6, <1>7, <1>8, <1>9, <1>10, <1>11, <1>12
     DEF Next, BoardStep, SaveStep, SnapshotShapes, SnapshotSeq, PInv, Goto

(* A board nobody has opened yet satisfies it.                             *)
LEMMA FaithfulInit ==
  ASSUME Init
  PROVE  PInv
<1>1. hist[0] = Empty /\ shapes = hist[seq] /\ row = NoRow
  BY BoundsAssumption DEF Init
<1>2. \A p \in Processes : pc[p] = "idle"
  BY DEF Init
<1> QED
  BY <1>1, <1>2, TypeInit DEF PInv, Faithful, WarmInv, HeldInv, Covers

(* With an atomic snapshot the broker, the row and the snapshots in flight *)
(* between them agree, in any mode, as long as no hydration has failed and *)
(* the broker was lost only together with its servers (persistence.go:27-68,*)
(* memory.go:104-153).                                                     *)
THEOREM UnspoiledInductive ==
  ASSUME AtomicSnapshot PROVE Spec => [](Unspoiled => PInv)
<1>1. Init => (Unspoiled => PInv)
  BY FaithfulInit
<1>2. (Unspoiled => PInv) /\ [Next]_vars => (Unspoiled => PInv)'
  <2> SUFFICES ASSUME Unspoiled => PInv, [Next]_vars, Unspoiled' PROVE PInv'
    OBVIOUS
  <2>1. Unspoiled
    BY MishapsGrow DEF Unspoiled
  <2> QED
    BY <2>1, FaithfulStep
<1> QED
  BY <1>1, <1>2, PTL DEF Spec

(* Where hydration cannot fail and the broker cannot be lost on its own,   *)
(* they always agree (persistence.go:27-68, memory.go:104-153).            *)
THEOREM Inductive == ASSUME Sound PROVE Spec => []PInv
<1>1. Init => Unspoiled
  BY DEF Init, Unspoiled
<1>2. Unspoiled /\ [Next]_vars => Unspoiled'
  <2> SUFFICES ASSUME Unspoiled, [Next]_vars PROVE Unspoiled'
    OBVIOUS
  <2>1. CASE UNCHANGED mishaps
    BY <2>1 DEF Unspoiled
  <2>2. ASSUME NEW S \in SUBSET {"drain", "save", "crash"},
               mishaps' = mishaps \cup S
        PROVE  Unspoiled'
    BY <2>2 DEF Unspoiled
  <2>3. ASSUME NEW b \in Boards, DrainBoard(b) PROVE Unspoiled'
    <3>1. PICK mid \in SUBSET {b} : mishaps' = mishaps \cup {"drain" : c \in mid}
      BY <2>3 DEF DrainBoard
    <3>2. {"drain" : c \in mid} \in SUBSET {"drain", "save", "crash"}
      OBVIOUS
    <3> QED
      BY <2>2, <3>1, <3>2
  <2>4. ASSUME ColdRestart \/ \E q \in Processes : SaveError(q) PROVE Unspoiled'
    BY <2>2, <2>4 DEF ColdRestart, LoseBroker, SaveError
  <2> QED
    BY <2>1, <2>3, <2>4 DEF Next, BoardStep, SaveStep, Open, LoadSnapshot,
       Hydrate, HydrateError, CloseBoard, ApplyShape, Tick, SnapshotAtomic,
       SnapshotShapes, SnapshotSeq, SaveSnapshot, RedisRestart, Sound, vars
<1> QED
  BY <1>1, <1>2, UnspoiledInductive, PTL DEF Spec, Sound

(* The broker's document and the durable row are what the clients'         *)
(* operations made them, across crashes, hydrations, failed saves and any  *)
(* number of servers (ADR 0004).                                           *)
THEOREM RowFaithful == ASSUME Sound PROVE Spec => []Faithful
<1>1. PInv => Faithful
  BY DEF PInv
<1> QED
  BY <1>1, Inductive, PTL

(* Snapshots of one sequence number are one snapshot: with an atomic read  *)
(* redundant saves of several servers are harmless, as ADR 0004 says; what *)
(* breaks it for Redis is its two-step read (redis.go:118-145).            *)
THEOREM SameRow == ASSUME Sound PROVE Spec => SameSeqSameRow
<1>1. PInv /\ [Next]_vars =>
        [row # NoRow /\ row'.seq = row.seq /\ row.shapes = hist[row.seq] =>
           row' = row]_row
  <2> SUFFICES ASSUME PInv, Next, row # NoRow, row'.seq = row.seq,
                      row.shapes = hist[row.seq]
               PROVE  row' = row
    BY DEF vars
  <2>1. row' = row \/ \E p \in Processes : SaveSnapshot(p)
    BY DEF Next, BoardStep, SaveStep, Open, LoadSnapshot, Hydrate,
       HydrateError, CloseBoard, DrainBoard, ApplyShape, Tick, SnapshotAtomic,
       SnapshotShapes, SnapshotSeq, SaveError, ColdRestart, RedisRestart
  <2>2. ASSUME NEW p \in Processes, SaveSnapshot(p) PROVE row' = row
    <3>1. /\ row' = row \/ row' = snap[p]
          /\ snap[p].shapes = hist[snap[p].seq]
      BY <2>2 DEF SaveSnapshot, Goto, PInv, HeldInv
    <3> QED
      BY <3>1 DEF PInv, TypeOK, Snapshots
  <2> QED
    BY <2>1, <2>2
<1> QED
  BY <1>1, Inductive, PTL DEF Spec, SameSeqSameRow

----------------------------------------------------------------------------
(* The final checkpoint.                                                   *)

(* As long as nothing has gone wrong, a document the row does not have is  *)
(* in the hands of a board that has still to save it.                      *)
Pending ==
  \E b \in Boards :
    \/ pc[b] \in {"load", "hydrate", "open", "shapes"}
    \/ pc[b] = "write" /\ snap[b].seq = seq

FinalInv ==
  mishaps = {} =>
    /\ inflight = {}
    /\ seq > 0 => Pending \/ row = [seq |-> seq, shapes |-> shapes]

(* A save of a board or a coordinator leaves nothing behind                *)
(* (persistOnClose and persistBoards, persistence.go:40-68).               *)
LEMMA FinalSave ==
  ASSUME PInv, FinalInv, mishaps = {}, NEW p \in Processes, SaveSnapshot(p),
         seq > 0
  PROVE  Pending' \/ row' = [seq |-> seq, shapes |-> shapes]
<1>1. /\ pc[p] = "write" /\ \E y \in {"idle", "done"} : pc' = [pc EXCEPT ![p] = y]
      /\ row' = IF Accepts(snap[p]) THEN snap[p] ELSE row
      /\ snap' = [snap EXCEPT ![p] = NoSnapshot]
      /\ UNCHANGED <<seq, shapes, hist>>
  BY DEF SaveSnapshot, Goto, Hold, AfterSave, brokerVars
<1>2. /\ snap[p].shapes = hist[snap[p].seq] /\ snap[p].seq <= seq
      /\ shapes = hist[seq] /\ snap[p] \in Snapshots /\ seq \in Nat
  BY <1>1, BoundsAssumption DEF PInv, HeldInv, Faithful, TypeOK
<1>3. snap[p].seq = seq => snap[p] = [seq |-> seq, shapes |-> shapes]
  BY <1>2 DEF Snapshots
<1>4. CASE \E b \in Boards \ {p} :
             \/ pc[b] \in {"load", "hydrate", "open", "shapes"}
             \/ pc[b] = "write" /\ snap[b].seq = seq
  BY <1>1, <1>4 DEF Pending, PInv, TypeOK, Processes
<1>5. CASE p \in Boards /\ snap[p].seq = seq
  <2>1. Covers(seq)
    BY <1>1, <1>5 DEF PInv, WarmInv, Warm, Saving
  <2>2. Accepts(snap[p])
    BY <1>2, <1>5, <2>1 DEF Accepts, Covers
  <2> QED
    BY <1>1, <1>3, <1>5, <2>2
<1>6. CASE row = [seq |-> seq, shapes |-> shapes]
  <2>1. Accepts(snap[p]) => snap[p].seq = seq
    BY <1>2, <1>6, NoRowAssumption DEF Accepts, PInv, TypeOK, Snapshots
  <2> QED
    BY <1>1, <1>3, <1>6, <2>1
<1> QED
  BY <1>1, <1>4, <1>5, <1>6 DEF FinalInv, Pending

(* Every step keeps it.                                                    *)
LEMMA FinalStep ==
  ASSUME AtomicSnapshot, PInv, FinalInv, [Next]_vars
  PROVE  FinalInv'
<1> SUFFICES ASSUME mishaps' = {}
             PROVE  /\ inflight' = {}
                    /\ seq' > 0 => Pending'
                         \/ row' = [seq |-> seq', shapes |-> shapes']
  BY DEF FinalInv
<1>0. TypeOK /\ mishaps = {} /\ inflight = {} /\ seq \in Nat
  BY MishapsGrow, BoundsAssumption DEF FinalInv, PInv, TypeOK
<1>1. ASSUME NEW b \in Boards, NEW y \in {"load", "hydrate", "open", "shapes"},
             pc' = [pc EXCEPT ![b] = y]
      PROVE  Pending'
  BY <1>0, <1>1 DEF Pending, TypeOK, Processes
<1>2. ASSUME NEW b \in Boards,
             Open(b) \/ LoadSnapshot(b) \/ Hydrate(b) \/ CloseBoard(b)
      PROVE  inflight' = {} /\ Pending'
  <2>1. /\ UNCHANGED inflight
        /\ \E y \in {"load", "hydrate", "open", "shapes"} :
             pc' = [pc EXCEPT ![b] = y]
    BY <1>2 DEF Open, LoadSnapshot, Hydrate, CloseBoard, Goto
  <2> QED
    BY <1>0, <1>1, <2>1
<1>3. ASSUME NEW b \in Boards, DrainBoard(b) PROVE inflight' = {} /\ Pending'
  <2>1. PICK mid \in SUBSET {b} :
          /\ inflight' = inflight \cup mid
          /\ mishaps' = mishaps \cup {"drain" : c \in mid}
    BY <1>3 DEF DrainBoard
  <2>2. mid = {}
    BY <2>1
  <2>3. pc' = [pc EXCEPT ![b] = "shapes"]
    BY <1>3 DEF DrainBoard, Goto
  <2> QED
    BY <1>0, <1>1, <2>1, <2>2, <2>3
<1>4. ASSUME NEW b \in Boards, NEW x \in Shapes, NEW del \in BOOLEAN,
             ApplyShape(b, x, del)
      PROVE  inflight' = {} /\ Pending'
  BY <1>0, <1>4 DEF ApplyShape, Pending
<1>5. ASSUME NEW k \in Coordinators, Tick(k)
      PROVE  inflight' = {} /\ (Pending => Pending')
             /\ UNCHANGED <<seq, shapes, row>>
  <2>1. /\ UNCHANGED <<seq, shapes, row, snap, inflight>> /\ k \notin Boards
        /\ pc' = [pc EXCEPT ![k] = "shapes"]
    BY <1>5, ProcessAssumption DEF Tick, Goto, brokerVars
  <2> QED
    BY <1>0, <2>1 DEF Pending, TypeOK
<1>6. ASSUME NEW p \in Processes, SnapshotAtomic(p)
      PROVE  inflight' = {} /\ (Pending => Pending')
             /\ UNCHANGED <<seq, shapes, row>>
  <2>1. /\ UNCHANGED <<seq, shapes, row, inflight>> /\ pc[p] = "shapes"
        /\ pc' = [pc EXCEPT ![p] = "write"]
        /\ snap' = [snap EXCEPT ![p] = [seq |-> seq, shapes |-> shapes]]
    BY <1>6 DEF SnapshotAtomic, Goto, Hold, brokerVars
  <2>2. ASSUME NEW b \in Boards,
               \/ pc[b] \in {"load", "hydrate", "open", "shapes"}
               \/ pc[b] = "write" /\ snap[b].seq = seq
        PROVE  Pending'
    <3>1. CASE b = p
      BY <1>0, <2>1, <3>1 DEF Pending, TypeOK
    <3>2. CASE b # p
      BY <1>0, <2>1, <2>2, <3>2 DEF Pending, TypeOK
    <3> QED
      BY <3>1, <3>2
  <2> QED
    BY <1>0, <2>1, <2>2 DEF Pending
<1>7. ASSUME NEW p \in Processes, SaveSnapshot(p)
      PROVE  inflight' = {} /\ UNCHANGED <<seq, shapes>>
             /\ (seq > 0 => Pending' \/ row' = [seq |-> seq, shapes |-> shapes])
  BY <1>0, <1>7, FinalSave DEF SaveSnapshot, brokerVars
<1>8. ASSUME \/ ColdRestart \/ RedisRestart \/ \E p \in Processes : SaveError(p)
             \/ \E b \in Boards : HydrateError(b)
      PROVE  FALSE
  BY <1>8 DEF ColdRestart, RedisRestart, LoseBroker, SaveError, HydrateError
<1>9. CASE UNCHANGED vars
  BY <1>0, <1>9 DEF vars, brokerVars, FinalInv, Pending
<1> QED
  BY <1>0, <1>2, <1>3, <1>4, <1>5, <1>6, <1>7, <1>8, <1>9
     DEF Next, BoardStep, SaveStep, SnapshotShapes, SnapshotSeq, FinalInv,
         PInv, Goto

(* When every board has stopped and nothing went wrong the row has every   *)
(* operation: the last save in flight always covers the last operation,    *)
(* however boards, servers and coordinators overlap (ADR 0004,             *)
(* board.go:111-118).                                                      *)
THEOREM FinalCheckpoint ==
  ASSUME AtomicSnapshot PROVE Spec => []AllClosedDurable
<1>1. Init => FinalInv
  BY DEF Init, FinalInv
<1>2. (Unspoiled => PInv) /\ FinalInv /\ [Next]_vars => FinalInv'
  <2> SUFFICES ASSUME Unspoiled => PInv, FinalInv, [Next]_vars, mishaps' = {}
               PROVE  FinalInv'
    BY DEF FinalInv
  <2>1. Unspoiled
    BY MishapsGrow DEF Unspoiled
  <2> QED
    BY <2>1, FinalStep
<1>3. FinalInv => AllClosedDurable
  BY DEF FinalInv, Pending, AllClosedDurable
<1> QED
  BY <1>1, <1>2, <1>3, UnspoiledInductive, PTL DEF Spec

----------------------------------------------------------------------------
(* What holds of the sequence numbers in every mode, Redis' two-step read  *)
(* included.                                                               *)

(* A broker that serves clients is not behind the row, and one that is     *)
(* behind is one that Hydrate would fill; what a save holds is not ahead   *)
(* of the broker, what a hydration holds is the row or is not needed.      *)
SeqInv ==
  /\ ~known => seq = 0
  /\ Warm => Covers(seq)
  /\ Covers(seq) \/ (seq = 0 /\ Fresh)
  /\ \A p \in Processes :
       /\ pc[p] = "write" => snap[p].seq <= seq
       /\ pc[p] = "hydrate" =>
            /\ row # NoRow
            /\ snap[p].seq <= row.seq
            /\ snap[p].seq = row.seq \/ row.seq <= seq

(* Every step keeps it, unless a hydration fails or Redis is lost under    *)
(* open boards (hydrate, persistence.go:27-38; Hydrate, redis.go:155-187). *)
LEMMA SeqStep ==
  ASSUME TypeOK, SeqInv, [Next]_vars, Unspoiled'
  PROVE  SeqInv'
<1>t. /\ seq \in Nat
      /\ row # NoRow => row.seq \in Nat
      /\ \A p \in Processes : snap[p].seq \in Nat
  BY BoundsAssumption DEF TypeOK, Snapshots
<1>0. TypeOK'
  BY TypeStep
<1> USE BoundsAssumption, NoRowAssumption
<1>1. ASSUME UNCHANGED <<brokerVars, row>>,
             Warm' => Warm \/ row = NoRow,
             \A p \in Processes :
               pc'[p] \in {"write", "hydrate"} =>
                 pc'[p] = pc[p] /\ snap'[p] = snap[p]
      PROVE  SeqInv'
  BY <1>1 DEF SeqInv, Covers, Fresh, brokerVars
<1>2. ASSUME NEW b \in Boards, Open(b) \/ CloseBoard(b) \/ DrainBoard(b)
      PROVE  SeqInv'
  <2>1. /\ UNCHANGED <<brokerVars, row, snap>>
        /\ \/ pc[b] = "open" /\ pc' = [pc EXCEPT ![b] = "shapes"]
           \/ /\ pc[b] = "idle" /\ pc' = [pc EXCEPT ![b] = "load"]
              /\ UNCHANGED inflight
    BY <1>2 DEF Open, CloseBoard, DrainBoard, Goto
  <2>2. Warm' => Warm
    BY <2>1 DEF Warm, Processes, Saving, TypeOK
  <2> QED
    BY <1>1, <2>1, <2>2 DEF TypeOK, Processes
<1>3. ASSUME NEW k \in Coordinators, Tick(k) PROVE SeqInv'
  <2>1. /\ UNCHANGED <<brokerVars, row, snap, inflight>>
        /\ pc' = [pc EXCEPT ![k] = "shapes"]
    BY <1>3 DEF Tick, Goto
  <2>2. Warm' => Warm
    BY <2>1, ProcessAssumption DEF Warm, Processes, TypeOK
  <2> QED
    BY <1>1, <2>1, <2>2 DEF TypeOK, Processes
<1>4. ASSUME NEW p \in Processes, SaveError(p) PROVE SeqInv'
  <2>1. /\ UNCHANGED <<brokerVars, row, inflight>>
        /\ snap' = [snap EXCEPT ![p] = NoSnapshot]
        /\ \E x \in {"idle", "done"} : pc' = [pc EXCEPT ![p] = x]
    BY <1>4 DEF SaveError, AfterSave, Hold
  <2>2. Warm' => Warm
    BY <2>1 DEF Warm, Saving, TypeOK
  <2> QED
    BY <1>1, <2>1, <2>2 DEF TypeOK
<1>5. ASSUME NEW b \in Boards, LoadSnapshot(b) PROVE SeqInv'
  <2>1. UNCHANGED <<brokerVars, row, inflight>> /\ pc[b] = "load"
    BY <1>5 DEF LoadSnapshot, Goto
  <2>2. CASE row = NoRow
    <3>1. UNCHANGED snap /\ pc' = [pc EXCEPT ![b] = "open"]
      BY <1>5, <2>2 DEF LoadSnapshot, Goto
    <3> QED
      BY <1>1, <2>1, <2>2, <3>1 DEF TypeOK, Processes
  <2>3. CASE row # NoRow
    <3>1. /\ snap' = [snap EXCEPT ![b] = row]
          /\ pc' = [pc EXCEPT ![b] = "hydrate"]
      BY <1>5, <2>3 DEF LoadSnapshot, Goto, Hold
    <3>2. Warm' => Warm
      BY <2>1, <3>1 DEF Warm, Saving, Processes, TypeOK
    <3> QED
      BY <1>t, <2>1, <2>3, <3>1, <3>2
         DEF SeqInv, Covers, Fresh, brokerVars, TypeOK, Processes
  <2> QED
    BY <2>2, <2>3
<1>6. ASSUME NEW b \in Boards, Hydrate(b) PROVE SeqInv'
  <2>1. /\ pc[b] = "hydrate" /\ pc' = [pc EXCEPT ![b] = "open"]
        /\ snap' = [snap EXCEPT ![b] = NoSnapshot]
        /\ UNCHANGED <<row, inflight, hist>>
    BY <1>6 DEF Hydrate, Goto, Hold
  <2>2. /\ row # NoRow /\ snap[b].seq <= row.seq
        /\ snap[b].seq = row.seq \/ row.seq <= seq
    BY <2>1 DEF SeqInv, Processes
  <2>3. /\ Covers(seq') /\ seq <= seq'
        /\ ~known' => seq' = 0
    <3>1. CASE Fresh
      <4>1. seq = 0 /\ seq' = snap[b].seq /\ known' = TRUE
        BY <1>6, <3>1 DEF Fresh, SeqInv, Hydrate
      <4> QED
        BY <1>t, <2>2, <4>1 DEF Covers, Processes
    <3>2. CASE ~Fresh
      <4>1. UNCHANGED <<seq, known>>
        BY <1>6, <3>2 DEF Hydrate
      <4> QED
        BY <1>t, <3>2, <4>1 DEF SeqInv, Covers
    <3> QED
      BY <3>1, <3>2
  <2> QED
    BY <1>0, <1>t, <2>1, <2>3 DEF SeqInv, Covers, TypeOK
<1>7. ASSUME NEW b \in Boards, NEW x \in Shapes, NEW del \in BOOLEAN,
             ApplyShape(b, x, del)
      PROVE  SeqInv'
  <2>1. /\ UNCHANGED <<row, pc, snap>> /\ known' = TRUE
        /\ pc[b] = "open" \/ b \in inflight
        /\ seq' = seq + 1
    BY <1>7 DEF ApplyShape, NextSeq
  <2>2. Covers(seq)
    BY <2>1 DEF Warm, SeqInv
  <2> QED
    BY <1>t, <2>1, <2>2 DEF SeqInv, Covers
<1>8. ASSUME NEW p \in Processes, SnapshotAtomic(p) \/ SnapshotSeq(p)
      PROVE  SeqInv'
  <2>1. /\ pc[p] \in {"shapes", "seq"} /\ pc' = [pc EXCEPT ![p] = "write"]
        /\ snap'[p].seq = seq /\ \A q \in Processes \ {p} : snap'[q] = snap[q]
        /\ UNCHANGED <<seq, known, shapes, row, inflight>>
    BY <1>8 DEF SnapshotAtomic, SnapshotSeq, CounterRead, Goto, Hold,
                brokerVars, TypeOK, Snapshots
  <2>2. Warm' => Warm
    BY <2>1 DEF Warm, Saving, TypeOK
  <2> QED
    BY <1>t, <2>1, <2>2 DEF SeqInv, Covers, Fresh, TypeOK
<1>9. ASSUME NEW p \in Processes, SnapshotShapes(p) PROVE SeqInv'
  <2>1. /\ pc[p] = "shapes" /\ pc' = [pc EXCEPT ![p] = "seq"]
        /\ \A q \in Processes \ {p} : snap'[q] = snap[q]
        /\ UNCHANGED <<seq, known, shapes, row, inflight>>
    BY <1>9 DEF SnapshotShapes, Goto, Hold, brokerVars, TypeOK
  <2>2. Warm' => Warm
    BY <2>1 DEF Warm, Saving, TypeOK
  <2> QED
    BY <2>1, <2>2 DEF SeqInv, Covers, Fresh, TypeOK
<1>10. ASSUME NEW p \in Processes, SaveSnapshot(p) PROVE SeqInv'
  <2>1. /\ pc[p] = "write" /\ \E y \in {"idle", "done"} : pc' = [pc EXCEPT ![p] = y]
        /\ row' = IF Accepts(snap[p]) THEN snap[p] ELSE row
        /\ snap' = [snap EXCEPT ![p] = NoSnapshot]
        /\ UNCHANGED <<seq, known, shapes, inflight>>
    BY <1>10 DEF SaveSnapshot, Goto, Hold, AfterSave, brokerVars
  <2>2. snap[p].seq <= seq
    BY <2>1 DEF SeqInv
  <2>3. Warm' => Warm
    BY <2>1 DEF Warm, Saving, Processes, TypeOK
  <2>4. CASE Accepts(snap[p])
    <3>1. /\ row' # NoRow /\ row'.seq <= seq
          /\ row # NoRow => row.seq <= row'.seq
      BY <1>t, <2>1, <2>2, <2>4 DEF Accepts, TypeOK, Snapshots
    <3> QED
      BY <1>0, <1>t, <2>1, <3>1 DEF SeqInv, Covers, TypeOK, Snapshots
  <2>5. CASE ~Accepts(snap[p])
    BY <2>1, <2>3, <2>5 DEF SeqInv, Covers, Fresh, TypeOK
  <2> QED
    BY <2>4, <2>5
<1>11. ASSUME ColdRestart PROVE SeqInv'
  <2>1. /\ seq' = 0 /\ shapes' = Empty /\ known' = FALSE /\ UNCHANGED row
        /\ inflight' = {}
        /\ \A p \in Processes : pc'[p] \in {"idle", "done"}
    BY <1>11 DEF ColdRestart, LoseBroker
  <2>2. ~Warm'
    BY <2>1 DEF Warm, Saving, Processes
  <2> QED
    BY <2>1, <2>2 DEF SeqInv, Fresh
<1>12. CASE UNCHANGED vars
  BY <1>12 DEF vars, brokerVars, SeqInv, Covers, Warm, Fresh
<1>13. ASSUME RedisRestart \/ \E b \in Boards : HydrateError(b) PROVE FALSE
  <2>1. "redis" \in mishaps' \/ "hydrate" \in mishaps'
    BY <1>13 DEF RedisRestart, LoseBroker, HydrateError
  <2> QED
    BY <2>1 DEF Unspoiled
<1> QED
  BY <1>2, <1>3, <1>4, <1>5, <1>6, <1>7, <1>8, <1>9, <1>10, <1>11, <1>12,
     <1>13 DEF Next, BoardStep, SaveStep

(* A board that serves clients is never behind the store, with either      *)
(* broker, whatever servers share it, unless its hydration failed or Redis *)
(* lost its data since (board.go:80-83).                                   *)
THEOREM ServedHydrated == Spec => []OpenBoardHydrated
<1>1. Init => (Unspoiled => SeqInv)
  BY DEF Init, SeqInv, Covers, Warm, Saving, Processes
<1>2. TypeOK /\ (Unspoiled => SeqInv) /\ [Next]_vars => (Unspoiled => SeqInv)'
  <2> SUFFICES ASSUME TypeOK, Unspoiled => SeqInv, [Next]_vars, Unspoiled'
               PROVE  SeqInv'
    OBVIOUS
  <2>1. Unspoiled
    BY MishapsGrow DEF Unspoiled
  <2> QED
    BY <2>1, SeqStep
<1>3. (Unspoiled => SeqInv) => OpenBoardHydrated
  BY DEF Unspoiled, SeqInv, Warm, Serving, Covers, OpenBoardHydrated
<1> QED
  BY <1>1, <1>2, <1>3, TypeCorrect, PTL DEF Spec

(* No shape is newer than the sequence it is kept with, in the broker, in  *)
(* the row and in every snapshot that is complete; of one whose counter is *)
(* still to be read, none is newer than the counter.                       *)
CoverInv ==
  /\ ~known => seq = 0
  /\ \A x \in Shapes :
       /\ shapes[x] <= seq
       /\ row # NoRow => row.shapes[x] <= row.seq
       /\ \A p \in Processes :
            /\ pc[p] \in {"write", "hydrate"} =>
                 snap[p].shapes[x] <= snap[p].seq
            /\ pc[p] = "seq" => snap[p].shapes[x] <= seq

(* Every step keeps it, unless Redis is lost under open boards.            *)
LEMMA CoverStep ==
  ASSUME TypeOK, CoverInv, [Next]_vars, "redis" \notin mishaps'
  PROVE  CoverInv'
<1>t. /\ seq \in Nat
      /\ \A x \in Shapes : shapes[x] \in Nat
      /\ row # NoRow => row.seq \in Nat
      /\ \A p \in Processes : snap[p].seq \in Nat
      /\ \A p \in Processes, x \in Shapes : snap[p].shapes[x] \in Nat
  BY BoundsAssumption DEF TypeOK, Snapshots, Docs
<1> USE NoRowAssumption
(* A process moves, and picks up nothing.                                  *)
<1>1. ASSUME UNCHANGED <<brokerVars, row>>,
             \A p \in Processes :
               pc'[p] \in {"write", "hydrate", "seq"} =>
                 pc'[p] = pc[p] /\ snap'[p] = snap[p]
      PROVE  CoverInv'
  BY <1>1 DEF CoverInv, brokerVars
<1>2. ASSUME \/ \E b \in Boards : Open(b) \/ CloseBoard(b) \/ DrainBoard(b)
                                  \/ HydrateError(b)
             \/ \E k \in Coordinators : Tick(k)
             \/ \E p \in Processes : SaveError(p)
      PROVE  CoverInv'
  <2>1. /\ UNCHANGED <<brokerVars, row>>
        /\ \E p \in Processes, y \in {"load", "open", "shapes", "idle", "done"} :
             /\ pc' = [pc EXCEPT ![p] = y]
             /\ UNCHANGED snap \/ snap' = [snap EXCEPT ![p] = NoSnapshot]
    BY <1>2 DEF Open, CloseBoard, DrainBoard, HydrateError, Tick, SaveError,
                AfterSave, Goto, Hold, Processes
  <2> QED
    BY <1>1, <2>1 DEF TypeOK
<1>3. ASSUME NEW b \in Boards, LoadSnapshot(b) PROVE CoverInv'
  <2>1. CASE row = NoRow
    BY <1>1, <1>3, <2>1 DEF LoadSnapshot, Goto, TypeOK
  <2>2. CASE row # NoRow
    BY <1>3, <2>2 DEF LoadSnapshot, Goto, Hold, CoverInv, TypeOK, brokerVars
  <2> QED
    BY <2>1, <2>2
<1>4. ASSUME NEW b \in Boards, Hydrate(b) PROVE CoverInv'
  <2>1. /\ pc[b] = "hydrate" /\ pc' = [pc EXCEPT ![b] = "open"]
        /\ snap' = [snap EXCEPT ![b] = NoSnapshot]
        /\ UNCHANGED row /\ b \in Processes
    BY <1>4 DEF Hydrate, Goto, Hold, Processes
  <2>2. CASE Fresh
    <3>1. /\ seq = 0 /\ seq' = snap[b].seq /\ shapes' = snap[b].shapes
          /\ known' = TRUE
      BY <1>4, <2>2 DEF Fresh, CoverInv, Hydrate
    <3> QED
      BY <1>t, <2>1, <3>1 DEF CoverInv, TypeOK
  <2>3. CASE ~Fresh
    BY <1>4, <2>1, <2>3 DEF Hydrate, CoverInv, TypeOK
  <2> QED
    BY <2>2, <2>3
<1>5. ASSUME NEW b \in Boards, NEW y \in Shapes, NEW del \in BOOLEAN,
             ApplyShape(b, y, del)
      PROVE  CoverInv'
  <2>1. /\ UNCHANGED <<row, pc, snap>> /\ known' = TRUE
        /\ seq' = seq + 1
        /\ shapes' = [shapes EXCEPT ![y] = IF del THEN 0 ELSE seq + 1]
    BY <1>5 DEF ApplyShape, NextSeq
  <2>2. \A x \in Shapes : shapes'[x] \in {shapes[x], 0, seq + 1}
    BY <2>1 DEF TypeOK, Docs
  <2>3. \A x \in Shapes : shapes[x] <= seq
    BY DEF CoverInv
  <2>4. \A x \in Shapes : shapes'[x] <= seq'
    BY <1>t, <2>1, <2>2, <2>3
  <2> QED
    BY <1>t, <2>1, <2>4 DEF CoverInv
<1>6. ASSUME NEW p \in Processes,
             SnapshotAtomic(p) \/ SnapshotShapes(p) \/ SnapshotSeq(p)
      PROVE  CoverInv'
  <2>1. /\ UNCHANGED <<seq, known, shapes, row>>
        /\ \A q \in Processes \ {p} : pc'[q] = pc[q] /\ snap'[q] = snap[q]
        /\ \/ pc'[p] = "seq" /\ snap'[p].shapes = shapes
           \/ pc'[p] = "write" /\ snap'[p].shapes = shapes /\ snap'[p].seq = seq
           \/ /\ pc[p] = "seq" /\ pc'[p] = "write"
              /\ snap'[p].shapes = snap[p].shapes /\ snap'[p].seq = seq
    BY <1>6 DEF SnapshotAtomic, SnapshotShapes, SnapshotSeq, CounterRead, Goto,
                Hold, brokerVars, TypeOK, Snapshots
  <2> QED
    BY <2>1 DEF CoverInv
<1>7. ASSUME NEW p \in Processes, SaveSnapshot(p) PROVE CoverInv'
  <2>1. /\ pc[p] = "write"
        /\ \E y \in {"idle", "done"} : pc' = [pc EXCEPT ![p] = y]
        /\ row' = snap[p] \/ row' = row
        /\ snap' = [snap EXCEPT ![p] = NoSnapshot]
        /\ UNCHANGED <<seq, known, shapes>>
    BY <1>7 DEF SaveSnapshot, Goto, Hold, AfterSave, brokerVars
  <2> QED
    BY <2>1 DEF CoverInv, TypeOK
<1>8. ASSUME ColdRestart PROVE CoverInv'
  <2>1. /\ seq' = 0 /\ shapes' = Empty /\ UNCHANGED row
        /\ \A p \in Processes : pc'[p] \in {"idle", "done"}
    BY <1>8 DEF ColdRestart, LoseBroker
  <2> QED
    BY <2>1 DEF CoverInv, Empty
<1>9. ASSUME RedisRestart PROVE FALSE
  BY <1>9 DEF RedisRestart, LoseBroker
<1>10. CASE UNCHANGED vars
  BY <1>1, <1>10 DEF vars
<1> QED
  BY <1>2, <1>3, <1>4, <1>5, <1>6, <1>7, <1>8, <1>9, <1>10
     DEF Next, BoardStep, SaveStep

(* The durable row never has a shape newer than its own sequence, with     *)
(* either broker, through crashes, failed hydrations and saves that race   *)
(* with operations: Redis reads the shapes before the counter              *)
(* (redis.go:118-145).                                                     *)
THEOREM RowCovers == Spec => []RowCoversShapes
<1>1. Init => CoverInv
  BY DEF Init, CoverInv, Empty
<1>2. /\ TypeOK
      /\ "redis" \notin mishaps => CoverInv
      /\ [Next]_vars
      => ("redis" \notin mishaps => CoverInv)'
  BY CoverStep, MishapsGrow
<1>3. ("redis" \notin mishaps => CoverInv) => RowCoversShapes
  BY DEF CoverInv, RowCoversShapes
<1> QED
  BY <1>1, <1>2, <1>3, TypeCorrect, PTL DEF Spec

----------------------------------------------------------------------------
(* Persistence implements Checkpoint.                                      *)

(* Every state in which the invariant holds: the checkpoint is a version   *)
(* of the document, and the document is the broker's copy unless the       *)
(* broker is lost.                                                         *)
LEMMA Mapping ==
  ASSUME PInv
  PROVE  /\ Durable \in Snapshots
         /\ Durable = [seq |-> Durable.seq, shapes |-> hist[Durable.seq]]
         /\ Durable.seq <= seq => Current = [seq |-> seq, shapes |-> shapes]
         /\ ~(Durable.seq <= seq) => seq = 0 /\ Current = Durable
<1>1. Empty \in Docs /\ NoSnapshot \in Snapshots /\ NoSnapshot.seq = 0
  BY BoundsAssumption DEF Empty, Docs, NoSnapshot, Snapshots
<1>2. CASE row = NoRow
  <2>1. Durable = NoSnapshot /\ hist[0] = Empty
    BY <1>2 DEF Durable, PInv
  <2> QED
    BY <1>1, <2>1 DEF PInv, TypeOK, Current, NoSnapshot
<1>3. CASE row # NoRow
  <2>1. Durable = row /\ row \in Snapshots /\ row.shapes = hist[row.seq]
    BY <1>3 DEF Durable, PInv, TypeOK, Faithful
  <2>2. ~(row.seq <= seq) => seq = 0
    BY <1>3 DEF PInv, WarmInv, Covers
  <2> QED
    BY <2>1, <2>2 DEF Current, Snapshots
<1> QED
  BY <1>2, <1>3

(* Users of a board see nothing but a document that changes by one         *)
(* operation at a time, a checkpoint that moves forward, and after a crash *)
(* the checkpoint: for any number of servers, boards and saves in flight   *)
(* (ADR 0004).                                                             *)
THEOREM ImplementsCheckpoint == ASSUME Sound PROVE Spec => ActsAsCheckpoint
<1> USE BoundsAssumption, NoRowAssumption
<1>1. ASSUME Init PROVE Abstract!Init
  <2>1. /\ hist = [n \in 0..MaxOps |-> Abstract!Blank]
        /\ Durable = [seq |-> 0, shapes |-> Empty]
        /\ Current = [seq |-> 0, shapes |-> Empty]
    BY <1>1 DEF Init, Empty, Abstract!Blank, Durable, Current, NoSnapshot
  <2>2. hist[0] = Empty
    BY <1>1 DEF Init
  <2> QED
    BY <2>1, <2>2 DEF Abstract!Init, Abstract!Version
<1>2. ASSUME PInv, PInv', [Next]_vars
      PROVE  [Abstract!Next]_(Abstract!vars)
  <2>0. /\ TypeOK /\ seq \in 0..MaxOps /\ hist \in [0..MaxOps -> Docs]
        /\ Durable.seq \in 0..MaxOps
    BY <1>2, Mapping DEF PInv, TypeOK, Snapshots
  <2>1. ASSUME UNCHANGED <<seq, shapes, hist, row>>
        PROVE  UNCHANGED Abstract!vars
    BY <2>1 DEF Abstract!vars, Current, Durable
  <2>2. ASSUME NEW b \in Boards, Hydrate(b) PROVE UNCHANGED Abstract!vars
    <3>1. pc[b] = "hydrate" /\ UNCHANGED <<row, hist>>
      BY <2>2 DEF Hydrate, Goto
    <3>2. /\ row # NoRow /\ snap[b].shapes = hist[snap[b].seq]
          /\ snap[b].seq <= row.seq
          /\ snap[b].seq = row.seq \/ row.seq <= seq
      BY <1>2, <3>1 DEF PInv, HeldInv, Processes
    <3>3. Durable = row /\ Durable' = row
      BY <3>1, <3>2 DEF Durable
    <3>4. CASE Fresh
      <4>1. /\ seq = 0 /\ shapes = Empty
            /\ seq' = snap[b].seq /\ shapes' = snap[b].shapes
        BY <2>2, <3>4 DEF Fresh, Sound, Hydrate
      <4>2. seq' = row.seq
        BY <2>0, <2>2, <3>2, <3>3, <4>1 DEF TypeOK, Snapshots, Processes
      <4>3. Current' = row
        BY <1>2, <3>1, <3>2, <3>3, <4>1, <4>2, <2>0, Mapping DEF Current
      <4>4. Current = row
        BY <1>2, <2>0, <3>3, <4>1, Mapping DEF Current, PInv
      <4> QED
        BY <3>1, <3>3, <4>3, <4>4 DEF Abstract!vars
    <3>5. CASE ~Fresh
      BY <2>1, <2>2, <3>1, <3>5 DEF Hydrate
    <3> QED
      BY <3>4, <3>5
  <2>3. ASSUME NEW b \in Boards, NEW x \in Shapes, NEW del \in BOOLEAN,
               ApplyShape(b, x, del)
        PROVE  Abstract!Write(x, del)
    <3>1. /\ UNCHANGED row /\ seq < MaxOps
          /\ pc[b] = "open" \/ b \in inflight
          /\ seq' = seq + 1
          /\ shapes' = [shapes EXCEPT ![x] = IF del THEN 0 ELSE seq + 1]
      BY <2>3 DEF ApplyShape, NextSeq
    <3>2. hist' = [hist EXCEPT ![seq + 1] = shapes']
      BY <1>2, <2>3, ApplyType DEF PInv
    <3>3. Durable.seq <= seq /\ Durable' = Durable
      <4>1. Covers(seq)
        BY <1>2, <3>1 DEF PInv, WarmInv, Warm
      <4> QED
        BY <3>1, <4>1, <2>0 DEF Covers, Durable, NoSnapshot
    <3>4. /\ Current = [seq |-> seq, shapes |-> shapes]
          /\ Current' = [seq |-> seq + 1, shapes |-> shapes']
      BY <2>0, <3>1, <3>3 DEF Current
    <3> QED
      BY <3>1, <3>2, <3>3, <3>4 DEF Abstract!Write
  <2>4. ASSUME NEW p \in Processes, SaveSnapshot(p)
        PROVE  Abstract!Save \/ UNCHANGED Abstract!vars
    <3>1. /\ pc[p] = "write"
          /\ row' = IF Accepts(snap[p]) THEN snap[p] ELSE row
          /\ UNCHANGED <<seq, shapes, hist>>
      BY <2>4 DEF SaveSnapshot, Goto, brokerVars
    <3>2. /\ snap[p].shapes = hist[snap[p].seq] /\ snap[p].seq <= seq
          /\ snap[p] \in Snapshots
      BY <1>2, <3>1 DEF PInv, HeldInv, TypeOK
    <3>3. CASE Accepts(snap[p])
      <4>1. Durable' = snap[p] /\ Durable.seq <= snap[p].seq
        BY <2>0, <3>1, <3>2, <3>3
           DEF Accepts, Durable, NoSnapshot, TypeOK, Snapshots
      <4>2. /\ Current = [seq |-> seq, shapes |-> shapes]
            /\ Current' = Current
        BY <2>0, <3>1, <3>2, <4>1 DEF Current, Snapshots
      <4>3. snap[p].seq \in Durable.seq..Current.seq
        BY <2>0, <3>2, <4>1, <4>2 DEF Snapshots
      <4>4. Durable' = Abstract!Version(snap[p].seq)
        BY <3>2, <4>1 DEF Abstract!Version, Snapshots
      <4> QED
        BY <3>1, <4>2, <4>3, <4>4 DEF Abstract!Save
    <3>4. CASE ~Accepts(snap[p])
      BY <2>1, <3>1, <3>4
    <3> QED
      BY <3>3, <3>4
  <2>5. ASSUME ColdRestart PROVE Abstract!Crash
    <3>1. seq' = 0 /\ shapes' = Empty /\ UNCHANGED <<row, hist>>
      BY <2>5 DEF ColdRestart, LoseBroker
    <3>2. Durable' = Durable /\ hist[0] = Empty
      BY <1>2, <3>1 DEF Durable, PInv
    <3>3. Current' = Durable
      BY <1>2, <2>0, <3>1, <3>2, Mapping DEF Current
    <3> QED
      BY <3>1, <3>2, <3>3 DEF Abstract!Crash
  <2>6. ASSUME UNCHANGED <<brokerVars, row>> PROVE UNCHANGED Abstract!vars
    BY <2>1, <2>6 DEF brokerVars
  <2>7. CASE UNCHANGED vars
    BY <2>6, <2>7 DEF vars
  <2> QED
    BY <1>2, <2>2, <2>3, <2>4, <2>5, <2>6, <2>7
       DEF Next, BoardStep, SaveStep, Open, LoadSnapshot, HydrateError,
           CloseBoard, DrainBoard, Tick, SnapshotAtomic, SnapshotShapes,
           SnapshotSeq, SaveError, RedisRestart, Sound, Abstract!Next
<1> QED
  BY <1>1, <1>2, Inductive, PTL DEF Spec, ActsAsCheckpoint, Abstract!Spec
============================================================================
