---------------------------- MODULE Persistence ----------------------------
(***************************************************************************)
(* The durability of one board: the broker's hot copy (its sequence and    *)
(* its shapes), the row of the durable store, and the goroutines that copy *)
(* between them.  A board goroutine loads the row and hydrates the broker  *)
(* before it serves clients, and saves once more when it stops; a          *)
(* coordinator saves every open board on a timer.  Board goroutines and    *)
(* coordinators may belong to one server or to several: they meet only in  *)
(* the broker and the store.                                               *)
(*                                                                         *)
(* A document maps a shape to the sequence of the operation that last      *)
(* wrote it, 0 when the shape is not there: what a shape looks like does   *)
(* not matter, which write it comes from does.                             *)
(***************************************************************************)
EXTENDS Integers

CONSTANTS
  Boards,          \* board goroutines for this board, each runs once
  Coordinators,    \* snapshot coordinators, one per server
  Shapes,          \* shape ids
  NoRow,           \* the store has no row for the board
  MaxOps,          \* bound: the highest sequence the clients' operations reach
  MaxRestarts,     \* bound: how often the broker loses its state
  AtomicSnapshot,  \* the broker reads shapes and sequence in one step (Memory)
  LiveRestart,     \* the broker may lose its state under open boards (Redis)
  HydrateFails,    \* the load or the hydration of a board may fail
  SaveFails,       \* the read or the write of a save may fail
  Drains           \* boards may be stopped by Shutdown, clients still attached

ASSUME BoundsAssumption == MaxOps \in Nat /\ MaxRestarts \in Nat
ASSUME ProcessAssumption == Boards \cap Coordinators = {}
ASSUME ModeAssumption ==
  /\ AtomicSnapshot \in BOOLEAN /\ LiveRestart \in BOOLEAN
  /\ HydrateFails \in BOOLEAN /\ SaveFails \in BOOLEAN /\ Drains \in BOOLEAN

Docs == [Shapes -> 0..MaxOps]
Empty == [x \in Shapes |-> 0]
Snapshots == [seq : 0..MaxOps, shapes : Docs]
ASSUME NoRowAssumption == NoRow \notin Snapshots

VARIABLES
  seq,       \* the broker's sequence counter for the board
  known,     \* the sequence key exists
  shapes,    \* the broker's authoritative shapes
  row,       \* the board's row in the store
  pc,        \* where each board goroutine and coordinator is
  snap,      \* the snapshot it holds
  inflight,  \* boards with a client still inside applyShapeOp
  hist,      \* history: the document as it was after each sequence number
  restarts, mishaps   \* bookkeeping of what has gone wrong so far

brokerVars == <<seq, known, shapes, hist>>
vars == <<brokerVars, row, pc, snap, inflight, restarts, mishaps>>

Mishaps   == {"hydrate", "drain", "save", "crash", "redis"}
Processes == Boards \cup Coordinators
Serving   == {b \in Boards : pc[b] = "open"}
Listed    == {b \in Boards : pc[b] \in {"load", "hydrate", "open"}}
Saving    == {"shapes", "seq", "write"}
Active    == {"load", "hydrate", "open"} \cup Saving

TypeOK ==
  /\ seq \in 0..MaxOps
  /\ known \in BOOLEAN
  /\ shapes \in Docs
  /\ row \in Snapshots \cup {NoRow}
  /\ pc \in [Processes -> {"idle", "done"} \cup Active]
  /\ snap \in [Processes -> Snapshots]
  /\ inflight \subseteq Boards
  /\ hist \in [0..MaxOps -> Docs]
  /\ restarts \in 0..MaxRestarts
  /\ mishaps \subseteq Mishaps

NoSnapshot == [seq |-> 0, shapes |-> Empty]

Init ==
  /\ seq = 0 /\ known = FALSE /\ shapes = Empty
  /\ row = NoRow
  /\ pc = [p \in Processes |-> "idle"]
  /\ snap = [p \in Processes |-> NoSnapshot]
  /\ inflight = {}
  /\ hist = [n \in 0..MaxOps |-> Empty]
  /\ restarts = 0 /\ mishaps = {}

Goto(p, from, to) == pc[p] = from /\ pc' = [pc EXCEPT ![p] = to]
Hold(p, s) == snap' = [snap EXCEPT ![p] = s]

----------------------------------------------------------------------------
(* A board goroutine starts: hydrate.                                      *)

Open(b) ==
  /\ Goto(b, "idle", "load")
  /\ UNCHANGED <<brokerVars, row, snap, inflight, restarts, mishaps>>

(* LoadSnapshot: without a row there is nothing to hydrate.                *)
LoadSnapshot(b) ==
  /\ IF row = NoRow THEN Goto(b, "load", "open") /\ UNCHANGED snap
                    ELSE Goto(b, "load", "hydrate") /\ Hold(b, row)
  /\ UNCHANGED <<brokerVars, row, inflight, restarts, mishaps>>

(* Defect for the mutation runs: hydration does not look for live state.   *)
Fresh_Always == TRUE

(* The broker has no state: no sequence key (Redis), nothing in the map    *)
(* (Memory).                                                               *)
Fresh == IF AtomicSnapshot THEN seq = 0 /\ shapes = Empty ELSE ~known

(* Broker.Hydrate: install the loaded snapshot, only into an empty board.  *)
Hydrate(b) ==
  /\ Goto(b, "hydrate", "open")
  /\ IF Fresh
     THEN /\ seq' = snap[b].seq
          /\ known' = TRUE
          /\ shapes' = snap[b].shapes
     ELSE UNCHANGED <<seq, known, shapes>>
  /\ Hold(b, NoSnapshot)
  /\ UNCHANGED <<row, inflight, hist, restarts, mishaps>>

(* The store or the broker returns an error: it is logged, the board opens.*)
HydrateError(b) ==
  /\ HydrateFails
  /\ Goto(b, "load", "open") \/ Goto(b, "hydrate", "open")
  /\ mishaps' = mishaps \cup {"hydrate"}
  /\ Hold(b, NoSnapshot)
  /\ UNCHANGED <<brokerVars, row, inflight, restarts>>

----------------------------------------------------------------------------
(* Clients' operations.                                                    *)

(* Defect for the mutation runs: a delete takes no sequence number.        *)
NextSeq_SkipDelete(del) == IF del THEN seq ELSE seq + 1

NextSeq(del) == seq + 1

(* ApplyShape: the next sequence and the write, or the removal, of one     *)
(* shape in one step.                                                      *)
ApplyShape(b, x, del) ==
  LET n == NextSeq(del)
      doc == [shapes EXCEPT ![x] = IF del THEN 0 ELSE n]
  IN
  /\ pc[b] = "open" \/ b \in inflight
  /\ seq < MaxOps
  /\ seq' = n
  /\ known' = TRUE
  /\ shapes' = doc
  /\ hist' = [hist EXCEPT ![n] = doc]
  /\ inflight' = inflight \ {b}
  /\ UNCHANGED <<row, pc, snap, restarts, mishaps>>

----------------------------------------------------------------------------
(* Saves.                                                                  *)

(* The coordinator's tick finds the board in the registry, where it is     *)
(* from before its hydration on.                                           *)
Tick(k) ==
  /\ Listed # {}
  /\ Goto(k, "idle", "shapes")
  /\ UNCHANGED <<brokerVars, row, snap, inflight, restarts, mishaps>>

(* The last client has been released: its read pump is gone before.        *)
CloseBoard(b) ==
  /\ Goto(b, "open", "shapes")
  /\ UNCHANGED <<brokerVars, row, snap, inflight, restarts, mishaps>>

(* Shutdown stops the board; a client's read pump may be inside            *)
(* applyShapeOp, which nothing waits for.                                  *)
DrainBoard(b) ==
  /\ Drains
  /\ Goto(b, "open", "shapes")
  /\ \E mid \in SUBSET {b} :
       /\ inflight' = inflight \cup mid
       /\ mishaps' = mishaps \cup {"drain" : c \in mid}
  /\ UNCHANGED <<brokerVars, row, snap, restarts>>

(* Broker.Snapshot of Memory: shapes and sequence under one lock.          *)
SnapshotAtomic(p) ==
  /\ AtomicSnapshot
  /\ Goto(p, "shapes", "write")
  /\ Hold(p, [seq |-> seq, shapes |-> shapes])
  /\ UNCHANGED <<brokerVars, row, inflight, restarts, mishaps>>

(* Broker.Snapshot of Redis: HGETALL, then GET of the counter.             *)
SnapshotShapes(p) ==
  /\ ~AtomicSnapshot
  /\ Goto(p, "shapes", "seq")
  /\ Hold(p, [seq |-> 0, shapes |-> shapes])
  /\ UNCHANGED <<brokerVars, row, inflight, restarts, mishaps>>

(* Defect for the mutation runs: a failed GET counts as a missing counter. *)
CounterRead_ErrorIsNil == 0

(* The counter as GET returns it; a missing key means zero.                *)
CounterRead == seq

SnapshotSeq(p) ==
  /\ Goto(p, "seq", "write")
  /\ Hold(p, [snap[p] EXCEPT !.seq = CounterRead])
  /\ UNCHANGED <<brokerVars, row, inflight, restarts, mishaps>>

(* Where a save leaves the goroutine: run returns, the coordinator selects.*)
AfterSave(p) == IF p \in Boards THEN "done" ELSE "idle"

Accepts_Reversed(s) == row = NoRow \/ s.seq <= row.seq

(* The sequence guard of SaveSnapshot.                                     *)
Accepts(s) == row = NoRow \/ s.seq >= row.seq

SaveSnapshot(p) ==
  /\ Goto(p, "write", AfterSave(p))
  /\ row' = IF Accepts(snap[p]) THEN snap[p] ELSE row
  /\ Hold(p, NoSnapshot)
  /\ UNCHANGED <<brokerVars, inflight, restarts, mishaps>>

(* The read or the write fails: logged, and nothing is saved.              *)
SaveError(p) ==
  /\ SaveFails
  /\ pc[p] \in Saving /\ pc' = [pc EXCEPT ![p] = AfterSave(p)]
  /\ mishaps' = mishaps \cup {"save"}
  /\ Hold(p, NoSnapshot)
  /\ UNCHANGED <<brokerVars, row, inflight, restarts>>

----------------------------------------------------------------------------
(* Failures.                                                               *)

LoseBroker(kind) ==
  /\ restarts < MaxRestarts
  /\ restarts' = restarts + 1
  /\ mishaps' = mishaps \cup {kind}
  /\ seq' = 0 /\ known' = FALSE /\ shapes' = Empty

(* The servers crash, and the broker with them: all that is left is the    *)
(* row.  Boards that never started are the ones of the next life.          *)
ColdRestart ==
  /\ LoseBroker("crash")
  /\ pc' = [p \in Processes |->
              IF p \in Boards /\ pc[p] # "idle" THEN "done" ELSE "idle"]
  /\ snap' = [p \in Processes |-> NoSnapshot]
  /\ inflight' = {}
  /\ UNCHANGED <<row, hist>>

(* Redis restarts empty while the servers go on.                           *)
RedisRestart ==
  /\ LiveRestart
  /\ LoseBroker("redis")
  /\ UNCHANGED <<row, pc, snap, inflight, hist>>

----------------------------------------------------------------------------
BoardStep(b) == LoadSnapshot(b) \/ Hydrate(b)

SaveStep(p) ==
  SnapshotAtomic(p) \/ SnapshotShapes(p) \/ SnapshotSeq(p) \/ SaveSnapshot(p)

Next ==
  \/ \E b \in Boards :
       \/ Open(b) \/ BoardStep(b) \/ HydrateError(b)
       \/ CloseBoard(b) \/ DrainBoard(b)
       \/ \E x \in Shapes, del \in BOOLEAN : ApplyShape(b, x, del)
  \/ \E k \in Coordinators : Tick(k)
  \/ \E p \in Processes : SaveStep(p) \/ SaveError(p)
  \/ ColdRestart \/ RedisRestart

Spec == Init /\ [][Next]_vars

(* Broker and store calls end (persistTimeout), and the ticker ticks.      *)
Fairness ==
  /\ \A b \in Boards : WF_vars(BoardStep(b))
  /\ \A p \in Processes : WF_vars(SaveStep(p))
  /\ \A k \in Coordinators : WF_vars(Tick(k))

FairSpec == Spec /\ Fairness

----------------------------------------------------------------------------
(* Properties.                                                             *)

(* What the broker holds is the document of its sequence number, and so is *)
(* the row: sequence order equals store order (broker.go:13-16), also      *)
(* across crashes, hydrations and saves in flight.                         *)
Faithful ==
  /\ shapes = hist[seq]
  /\ row # NoRow => row.shapes = hist[row.seq]

(* A board that serves clients is not behind the store: its durable state  *)
(* was loaded before its first client was served (board.go:80-83), unless  *)
(* that failed or Redis has lost it since.                                 *)
OpenBoardHydrated ==
  mishaps \cap {"hydrate", "redis"} = {} =>
    (Serving # {} /\ row # NoRow => row.seq <= seq)

(* No shape in the row is newer than the row's own sequence: a sequence a  *)
(* hydrated broker hands out next was never used by a shape it holds       *)
(* (redis.go:118-145 reads the shapes first), unless Redis loses its data  *)
(* between the two reads.                                                  *)
RowCoversShapes ==
  row # NoRow /\ "redis" \notin mishaps => \A x \in Shapes : row.shapes[x] <= row.seq

(* The final checkpoint: when every board has stopped, nothing failed and  *)
(* no drain overtook an operation, the row has every one of them (ADR      *)
(* 0004, "guarantees a final checkpoint").                                 *)
AllClosedDurable ==
  (\A b \in Boards : pc[b] \in {"idle", "done"}) /\ mishaps = {} /\ seq > 0 =>
    row = [seq |-> seq, shapes |-> shapes]

(* "Redundant snapshots from multiple instances are harmless: idempotent,  *)
(* seq-guarded upserts" (ADR 0004): a row that has every operation up to   *)
(* its sequence is not replaced by a different one of the same sequence.   *)
SameSeqSameRow ==
  [][row # NoRow /\ row'.seq = row.seq /\ row.shapes = hist[row.seq] =>
       row' = row]_row

(* Every operation becomes durable, unless something fails or a drain      *)
(* overtakes one ("bounds worst-case data loss to the interval").          *)
EventuallyDurable ==
  \A n \in 1..MaxOps :
    (seq = n) ~> (mishaps # {} \/ (row # NoRow /\ row.seq >= n))


----------------------------------------------------------------------------
(* Persistence implements Checkpoint, for an atomic snapshot and a broker  *)
(* that is lost only together with its servers.                            *)

(* What the store would give back.                                         *)
Durable == IF row = NoRow THEN NoSnapshot ELSE row

(* What the next client sees: the broker's copy, or the row a board will   *)
(* hydrate a lost broker from.                                             *)
Current ==
  IF Durable.seq <= seq THEN [seq |-> seq, shapes |-> shapes] ELSE Durable

Abstract == INSTANCE Checkpoint
              WITH doc <- Current, versions <- hist, saved <- Durable

(* Whatever boards, coordinators, servers and crashes do to broker and     *)
(* store, users see a document with checkpoints: the hot copy, the row and *)
(* the hydration from it are one (ADR 0004, persistence.go:27-68).         *)
ActsAsCheckpoint == Abstract!Spec

----------------------------------------------------------------------------
(* The inductive invariant behind Faithful, for an atomic snapshot and a   *)
(* broker that is lost only together with its servers.                     *)

Warm == \/ \E p \in Boards : pc[p] \in {"open"} \cup Saving
        \/ inflight # {}

Covers(n) == row # NoRow => row.seq <= n

(* A broker someone has used since it was last lost is not behind the row; *)
(* one nobody has used is empty.                                           *)
WarmInv ==
  /\ Warm => Covers(seq)
  /\ Covers(seq) \/ (seq = 0 /\ shapes = Empty)

(* A snapshot on its way to the store, or out of it, is one that was.      *)
HeldInv ==
  \A p \in Processes :
    /\ pc[p] \in {"write", "hydrate"} => snap[p].shapes = hist[snap[p].seq]
    /\ pc[p] = "write" => snap[p].seq <= seq
    /\ pc[p] = "hydrate" =>
         /\ row # NoRow
         /\ snap[p].seq <= row.seq
         /\ snap[p].seq = row.seq \/ row.seq <= seq

(* The row and the broker are faithful, and stay so whatever is in flight. *)
PInv ==
  /\ TypeOK
  /\ Faithful
  /\ hist[0] = Empty
  /\ WarmInv
  /\ HeldInv
  /\ \A p \in Processes : pc[p] # "seq"
============================================================================
