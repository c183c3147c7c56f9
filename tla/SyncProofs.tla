----------------------------- MODULE SyncProofs -----------------------------
(* Proofs of Sync's safety properties, for any number of browsers, servers *)
(* and shapes, any number of operations, connections and faults, and any   *)
(* capacity of the two channels.                                           *)
EXTENDS Sync, QueueProofs, TLAPS

----------------------------------------------------------------------------
(* The inductive invariant.                                                *)

(* An operation that is in the log l as it is.                             *)
Logged(l, op) == op.seq \in 1..Len(l) /\ l[op.seq] = op

(* Operations with the sequence number n are in the queue; the queue holds *)
(* no snapshot; it holds one at most.                                      *)
Carries(q, n) == \E m \in Range(q) \cap Ops : m.seq = n
Plain(q) == Range(q) \subseteq Ops
OneSnapshot(q) ==
  \A j, k \in 1..Len(q) : q[j] \notin Ops /\ q[k] \notin Ops => j = k

(* v is the version of shape x that the operations K of the log l leave.   *)
Version(l, x, v, K) ==
  \/ v = Absent /\ \A n \in K : l[n].id # x
  \/ \E m \in K : /\ l[m].id = x
                  /\ \A n \in K : l[n].id = x => n <= m
                  /\ v = IF l[m].del THEN Absent ELSE m

(* A snapshot of some moment since sequence number n.                      *)
TakenSince(l, m, n) ==
  /\ n <= m.seq /\ m.seq <= Len(l)
  /\ \A x \in Shapes : Version(l, x, m.shapes[x], 1..m.seq)

(* The broker's document is what the log makes of it.                      *)
BrokerInv ==
  /\ \A n \in 1..seq : log[n].seq = n /\ log[n].id \in used
  /\ \A x \in Shapes : Version(log, x, shapes[x], 1..seq)

(* Whatever is requested is a shape someone drew; whatever is on its way   *)
(* was sequenced.                                                          *)
TransitInv ==
  /\ \A c \in Clients :
       /\ out[c] # None => out[c].id \in used
       /\ pub[c] # None => Logged(log, pub[c])
       /\ \A m \in Range(send[c]) \cap Ops : Logged(log, m)
  /\ \A i \in Servers : \A m \in Range(sub[i]) : Logged(log, m)

(* A connection, its board and the one snapshot it is sent.                *)
Joined(c) ==
  /\ conn[c] = "off" <=> at[c] = None
  /\ conn[c] = "off" => send[c] = << >>
  /\ conn[c] # "off" => board[at[c]] # "closed"
  /\ base[c] <= seq /\ got[c] \subseteq 1..seq
  /\ conn[c] = "fetched" => TakenSince(log, held[c], base[c])
  /\ conn[c] # "ready" => Plain(send[c])
  /\ OneSnapshot(send[c])
  /\ \A m \in Range(send[c]) \ Ops : TakenSince(log, m, base[c])

JoinInv == \A c \in Clients : Joined(c)

(* Where operation n is, for a registered client: known, queued for it, in *)
(* its server's subscription or lost to it, or not published yet.          *)
Placed(c, n) ==
  \/ n <= base[c] \/ n \in got[c]
  \/ Carries(send[c], n) \/ Carries(sub[at[c]], n)
  \/ n \in lost[at[c]]
  \/ \E d \in Clients : pub[d] # None /\ pub[d].seq = n

GapInv ==
  \A c \in Clients :
    conn[c] # "off" /\ board[at[c]] = "open" => \A n \in 1..seq : Placed(c, n)

(* The snapshot has arrived.                                               *)
Synced(c) == conn[c] = "ready" /\ Plain(send[c])

(* The operations c knows of.                                              *)
Heard(c) == 1..base[c] \cup got[c]

(* A shape c has drawn and not heard of yet.                               *)
Awaited(c, x) ==
  /\ replica[c][x] = 0
  /\ \A n \in Heard(c) : log[n].id # x
  /\ \/ out[c] # None /\ out[c].id = x
     \/ \E n \in 1..seq : log[n].id = x

(* A replica shows what the operations it has heard of make of a shape.    *)
Shows(c, x) == Version(log, x, replica[c][x], Heard(c)) \/ Awaited(c, x)

ReplicaInv ==
  \A c \in Clients, x \in Shapes : Synced(c) /\ x \notin spoiled[c] => Shows(c, x)

SInv == TypeOK /\ BrokerInv /\ TransitInv /\ JoinInv /\ GapInv /\ ReplicaInv

----------------------------------------------------------------------------
(* Facts about messages and queues.                                        *)

(* An operation and a snapshot cannot be confused.                         *)
LEMMA Distinct == \A m \in Snapshots : m \notin Ops
<1> SUFFICES ASSUME NEW m \in Snapshots, m \in Ops PROVE FALSE
  OBVIOUS
<1>1. DOMAIN m = {"seq", "shapes"}
  BY DEF Snapshots
<1>2. DOMAIN m = {"seq", "id", "del"}
  BY DEF Ops
<1> QED BY <1>1, <1>2

(* An empty queue holds nothing.                                           *)
LEMMA EmptyQueue == Range(<< >>) = {} /\ OneSnapshot(<< >>)
BY DEF Range, OneSnapshot

(* A queue has one snapshot at most as long as the one appended is the     *)
(* first, and is plain once it is taken.                                   *)
LEMMA SnapshotQueue ==
  ASSUME NEW q \in Seq(Messages), OneSnapshot(q)
  PROVE  /\ \A m \in Messages : m \in Ops \/ Plain(q) => OneSnapshot(Append(q, m))
         /\ q # << >> => OneSnapshot(Tail(q))
         /\ q # << >> /\ Head(q) \notin Ops => Plain(Tail(q))
<1>1. ASSUME NEW m \in Messages, m \in Ops \/ Plain(q)
      PROVE  OneSnapshot(Append(q, m))
  <2> DEFINE r == Append(q, m)
  <2>1. /\ Len(q) \in Nat /\ Len(r) = Len(q) + 1 /\ r[Len(q) + 1] = m
        /\ \A j \in 1..Len(q) : r[j] = q[j]
    BY QueueTypes
  <2>2. \A j \in 1..Len(r) : j = Len(q) + 1 \/ j \in 1..Len(q)
    BY <2>1
  <2>3. Plain(q) => \A j \in 1..Len(q) : q[j] \in Ops
    BY RangeEquality DEF Plain
  <2> HIDE DEF r
  <2>4. OneSnapshot(r)
    BY <1>1, <2>1, <2>2, <2>3 DEF OneSnapshot
  <2> QED BY <2>4 DEF r
<1>2. ASSUME q # << >>
      PROVE  OneSnapshot(Tail(q)) /\ (Head(q) \notin Ops => Plain(Tail(q)))
  <2> DEFINE r == Tail(q)
  <2>1. /\ Len(q) \in Nat /\ Len(q) >= 1 /\ Len(r) = Len(q) - 1
        /\ Head(q) = q[1] /\ r \in Seq(Messages)
        /\ \A j \in 1..Len(q) - 1 : r[j] = q[j + 1]
    BY <1>2, QueueTypes
  <2>2. \A j \in 1..Len(r) : j \in Int /\ j + 1 \in 1..Len(q) /\ j + 1 # 1 /\ r[j] = q[j + 1]
    BY <2>1
  <2>3. 1 \in 1..Len(q)
    BY <2>1
  <2>4. Range(r) = {r[j] : j \in 1..Len(r)}
    BY <2>1, RangeEquality
  <2> HIDE DEF r
  <2>5. OneSnapshot(r)
    <3> SUFFICES ASSUME NEW j \in 1..Len(r), NEW k \in 1..Len(r),
                        r[j] \notin Ops, r[k] \notin Ops
                 PROVE  j = k
      BY DEF OneSnapshot
    <3>1. j + 1 = k + 1
      BY <2>2 DEF OneSnapshot
    <3> QED BY <2>2, <3>1
  <2>6. Head(q) \notin Ops => Plain(r)
    BY <2>1, <2>2, <2>3, <2>4 DEF OneSnapshot, Plain
  <2> QED BY <2>5, <2>6 DEF r
<1> QED BY <1>1, <1>2

----------------------------------------------------------------------------
(* Types.                                                                  *)

(* Nothing is drawn, sequenced or queued at the start.                     *)
LEMMA TypeInit == Init => TypeOK
<1> SUFFICES ASSUME Init PROVE TypeOK
  OBVIOUS
<1>1. Blank \in Documents /\ 0 \in 0..MaxOps
  BY SyncBounds DEF Blank, Documents, Absent
<1>2. NoSnapshot \in Snapshots
  BY <1>1 DEF NoSnapshot, Snapshots
<1>3. << >> \in Seq(Ops) /\ << >> \in Seq(Messages) /\ Len(<< >>) = 0
  OBVIOUS
<1> QED BY <1>1, <1>2, <1>3, SyncBounds DEF Init, TypeOK

(* Closing connections leaves everything well typed.                       *)
LEMMA DropTypes ==
  ASSUME TypeOK, NEW S, Drop(S)
  PROVE  /\ seq' \in 0..MaxOps /\ shapes' \in Documents
         /\ out' \in [Clients -> Requests \cup {None}]
         /\ board' \in [Servers -> {"closed", "open", "deaf"}]
         /\ at' \in [Clients -> Servers \cup {None}]
         /\ conn' \in [Clients -> {"off", "register", "fetched"} \cup Pumping]
         /\ held' \in [Clients -> Snapshots]
         /\ replica' \in [Clients -> Documents]
         /\ used' \subseteq Shapes /\ conns' \in 0..MaxConns
         /\ log' \in Seq(Ops) /\ Len(log') = seq'
         /\ base' \in [Clients -> 0..MaxOps]
         /\ got' \in [Clients -> SUBSET (1..MaxOps)]
         /\ spoiled' \in [Clients -> SUBSET Shapes]
<1>1. Blank \in Documents /\ 0 \in 0..MaxOps
  BY SyncBounds DEF Blank, Documents, Absent
<1>2. NoSnapshot \in Snapshots
  BY <1>1 DEF NoSnapshot, Snapshots
<1>3. UNCHANGED <<seq, shapes, log, replica, used, conns>>
  BY DEF Drop, brokerVars
<1>4. /\ out' \in [Clients -> Requests \cup {None}]
      /\ held' \in [Clients -> Snapshots]
      /\ at' \in [Clients -> Servers \cup {None}]
  BY <1>2 DEF Drop, TypeOK
<1>5. /\ board' \in [Servers -> {"closed", "open", "deaf"}]
      /\ conn' \in [Clients -> {"off", "register", "fetched"} \cup Pumping]
  BY DEF Drop, TypeOK
<1>6. /\ base' \in [Clients -> 0..MaxOps]
      /\ got' \in [Clients -> SUBSET (1..MaxOps)]
      /\ spoiled' \in [Clients -> SUBSET Shapes]
  BY <1>1 DEF Drop, TypeOK
<1> QED BY <1>3, <1>4, <1>5, <1>6 DEF TypeOK

(* Ending connections, and the subscriptions of the boards they empty,     *)
(* leaves the queues within their capacity.                                *)
LEMMA EndTypes ==
  ASSUME TypeOK, NEW S, NEW s,
         s \in [Servers -> Seq(Ops)], \A i \in Servers : Len(s[i]) <= SubBuffer
  PROVE  /\ Ended(S, s) \in [Servers -> Seq(Ops)]
         /\ \A i \in Servers : Len(Ended(S, s)[i]) <= SubBuffer
         /\ \A l \in [Servers -> SUBSET (1..MaxOps)] :
              Forgotten(S, l) \in [Servers -> SUBSET (1..MaxOps)]
<1>1. << >> \in Seq(Ops) /\ Len(<< >>) = 0 /\ 0 <= SubBuffer
  BY SyncBounds
<1> QED BY <1>1 DEF Ended, Forgotten

(* Connections that end outside a dispatch leave everything well typed.    *)
LEMMA HangupTypes == ASSUME TypeOK, NEW S, Hangup(S) PROVE TypeOK'
<1>1. << >> \in Seq(Messages) /\ Len(<< >>) = 0 /\ 0 <= SendBuffer
  BY SyncBounds
<1>2. /\ send' \in [Clients -> Seq(Messages)]
      /\ \A c \in Clients : Len(send'[c]) <= SendBuffer
  BY <1>1 DEF Hangup, TypeOK
<1>3. /\ sub' \in [Servers -> Seq(Ops)]
      /\ \A i \in Servers : Len(sub'[i]) <= SubBuffer
      /\ lost' \in [Servers -> SUBSET (1..MaxOps)]
  BY EndTypes DEF Hangup, TypeOK
<1>4. UNCHANGED <<pub, faults>>
  BY DEF Hangup
<1> QED BY <1>2, <1>3, <1>4, DropTypes DEF Hangup, TypeOK

(* Every step keeps the types; that a snapshot spoils shapes and nothing   *)
(* else needs that a browser has only heard of what was sequenced.         *)
LEMMA TypeStep == TypeOK /\ JoinInv /\ [Next]_vars => TypeOK'
<1> SUFFICES ASSUME TypeOK, JoinInv, [Next]_vars PROVE TypeOK'
  OBVIOUS
<1> USE SyncBounds
<1>a. ASSUME NEW c \in Clients, out[c] # None
      PROVE  out[c] \in Requests /\ out[c].id \in Shapes /\ out[c].del \in BOOLEAN
  BY <1>a DEF TypeOK, Requests
<1>b. ASSUME NEW c \in Clients, pub[c] # None
      PROVE  pub[c] \in Ops /\ pub[c].seq \in 1..MaxOps
  BY <1>b DEF TypeOK, Ops
<1>1. ASSUME NEW c \in Clients, NEW x \in Shapes, Draw(c, x) PROVE TypeOK'
  <2>1. replica' \in [Clients -> Documents] /\ used' \subseteq Shapes
    BY <1>1 DEF Draw, TypeOK, Documents
  <2>2. out' \in [Clients -> Requests \cup {None}]
    BY <1>1 DEF Draw, SendRequest, TypeOK, Requests
  <2> QED BY <1>1, <2>1, <2>2 DEF Draw, TypeOK, brokerVars, boardVars, joinVars
<1>2. ASSUME NEW c \in Clients, NEW x \in Shapes, NEW del \in BOOLEAN, Edit(c, x, del)
      PROVE  TypeOK'
  <2>1. out' \in [Clients -> Requests \cup {None}]
    BY <1>2 DEF Edit, SendRequest, TypeOK, Requests
  <2> QED BY <1>2, <2>1 DEF Edit, TypeOK, brokerVars, boardVars, joinVars, clientVars
<1>3. ASSUME NEW c \in Clients, ApplyShape(c) PROVE TypeOK'
  <2> DEFINE op == [seq |-> seq + 1, id |-> out[c].id, del |-> out[c].del]
  <2>1. seq < MaxOps /\ out[c] # None
    BY <1>3 DEF ApplyShape, ReadsRequest
  <2>2. op \in Ops /\ op.seq = seq + 1 /\ op.seq \in 0..MaxOps
    BY <2>1, <1>a DEF TypeOK, Ops
  <2>3. /\ seq' = op.seq /\ pub' = [pub EXCEPT ![c] = op] /\ log' = Append(log, op)
        /\ shapes' = [shapes EXCEPT ![op.id] = IF op.del THEN Absent ELSE op.seq]
        /\ out' = [out EXCEPT ![c] = None]
    BY <1>3 DEF ApplyShape, ReadsRequest
  <2>a. op.id \in Shapes /\ (IF op.del THEN Absent ELSE op.seq) \in -1..MaxOps
    BY <2>2 DEF Ops, Absent
  <2> HIDE DEF op
  <2>4. shapes' \in Documents
    BY <2>a, <2>3 DEF TypeOK, Documents
  <2>5. log' \in Seq(Ops) /\ Len(log') = seq'
    BY <2>2, <2>3, QueueTypes DEF TypeOK
  <2>6. pub' \in [Clients -> Ops \cup {None}] /\ out' \in [Clients -> Requests \cup {None}]
    BY <2>2, <2>3 DEF TypeOK
  <2> QED BY <1>3, <2>2, <2>3, <2>4, <2>5, <2>6
          DEF ApplyShape, TypeOK, boardVars, joinVars, clientVars
<1>4. ASSUME NEW c \in Clients, ApplyError(c) PROVE TypeOK'
  <2>1. faults' \in 0..MaxFaults
    BY <1>4 DEF ApplyError, Fault, TypeOK
  <2>2. out' \in [Clients -> Requests \cup {None}] /\ out[c] # None
    BY <1>4 DEF ApplyError, ReadsRequest, TypeOK
  <2>3. spoiled' \in [Clients -> SUBSET Shapes]
    BY <1>4, <2>2, <1>a DEF ApplyError, TypeOK
  <2> QED BY <1>4, <2>1, <2>2, <2>3 DEF ApplyError, TypeOK, brokerVars, boardVars, joinVars
<1>5. ASSUME NEW c \in Clients, NEW miss \in SUBSET Servers, Publish(c, miss) PROVE TypeOK'
  <2>1. faults' \in 0..MaxFaults
    BY <1>5 DEF Publish, Fault, TypeOK
  <2>2. pub[c] # None /\ pub[c] \in Ops /\ pub[c].seq \in 1..MaxOps
    BY <1>5, <1>b DEF Publish
  <2>3. lost' \in [Servers -> SUBSET (1..MaxOps)]
    BY <1>5, <2>2 DEF Publish, TypeOK
  <2>4. ASSUME NEW i \in Servers
        PROVE  /\ Append(sub[i], pub[c]) \in Seq(Ops)
               /\ Len(Append(sub[i], pub[c])) = Len(sub[i]) + 1
               /\ Len(sub[i]) \in Nat /\ Len(sub[i]) <= SubBuffer
               /\ sub[i] \in Seq(Ops)
    BY <2>2, QueueTypes DEF TypeOK
  <2>5. sub' \in [Servers -> Seq(Ops)]
    BY <1>5, <2>4 DEF Publish
  <2>6. ASSUME NEW i \in Servers PROVE Len(sub'[i]) <= SubBuffer
    BY <1>5, <2>4 DEF Publish, Missing
  <2>7. pub' \in [Clients -> Ops \cup {None}]
    BY <1>5 DEF Publish, TypeOK
  <2> QED BY <1>5, <2>1, <2>3, <2>5, <2>6, <2>7
          DEF Publish, TypeOK, brokerVars, joinVars, clientVars
<1>6. ASSUME NEW c \in Clients, NEW i \in Servers, Register(c, i) PROVE TypeOK'
  <2>1. /\ conn' \in [Clients -> {"off", "register", "fetched"} \cup Pumping]
        /\ at' \in [Clients -> Servers \cup {None}]
    BY <1>6 DEF Register, TypeOK
  <2>2. /\ base' \in [Clients -> 0..MaxOps]
        /\ got' \in [Clients -> SUBSET (1..MaxOps)]
        /\ conns' \in 0..MaxConns
    BY <1>6 DEF Register, TypeOK
  <2> QED BY <1>6, <2>1, <2>2 DEF Register, TypeOK, brokerVars, boardVars
<1>7. ASSUME NEW c \in Clients, FetchSnapshot(c) PROVE TypeOK'
  <2>1. conn' \in [Clients -> {"off", "register", "fetched"} \cup Pumping]
    BY <1>7 DEF FetchSnapshot, TypeOK
  <2>2. held' \in [Clients -> Snapshots]
    BY <1>7 DEF FetchSnapshot, TypeOK, Snapshots
  <2> QED BY <1>7, <2>1, <2>2 DEF FetchSnapshot, TypeOK, brokerVars, boardVars, clientVars
<1>8. ASSUME NEW c \in Clients, FetchError(c) PROVE TypeOK'
  <2>1. conn' \in [Clients -> {"off", "register", "fetched"} \cup Pumping]
    BY <1>8 DEF FetchError, TypeOK, Pumping
  <2>2. faults' \in 0..MaxFaults
    BY <1>8 DEF FetchError, Fault, TypeOK
  <2> QED BY <1>8, <2>1, <2>2 DEF FetchError, TypeOK, brokerVars, boardVars, clientVars
<1>9. ASSUME NEW c \in Clients, DeliverSnapshot(c) PROVE TypeOK'
  <2>1. CASE Hangup({c})
    BY <2>1, HangupTypes
  <2>2. CASE ~Hangup({c})
    <3>1. /\ ~Full(c)
          /\ send' = [send EXCEPT ![c] = Append(@, held[c])]
          /\ conn' = [conn EXCEPT ![c] = "ready"]
          /\ held' = [held EXCEPT ![c] = NoSnapshot]
          /\ UNCHANGED <<brokerVars, out, pub, boardVars, at, conns, clientVars, faults>>
      BY <1>9, <2>2 DEF DeliverSnapshot
    <3>2. /\ Append(send[c], held[c]) \in Seq(Messages)
          /\ Len(Append(send[c], held[c])) = Len(send[c]) + 1
          /\ Len(send[c]) \in Nat
      <4>1. send[c] \in Seq(Messages) /\ held[c] \in Messages
        BY DEF TypeOK, Messages
      <4> QED BY <4>1, QueueTypes
    <3>3. /\ send' \in [Clients -> Seq(Messages)]
          /\ \A d \in Clients : Len(send'[d]) <= SendBuffer
      BY <3>1, <3>2 DEF TypeOK, Full
    <3>4. NoSnapshot \in Snapshots
      BY DEF NoSnapshot, Snapshots, Blank, Documents, Absent
    <3>5. held' \in [Clients -> Snapshots]
      BY <3>1, <3>4 DEF TypeOK
    <3>6. conn' \in [Clients -> {"off", "register", "fetched"} \cup Pumping]
      BY <3>1 DEF TypeOK, Pumping
    <3> QED BY <3>1, <3>3, <3>5, <3>6 DEF TypeOK, brokerVars, boardVars, clientVars
  <2> QED BY <2>1, <2>2
<1>10. ASSUME NEW c \in Clients, Disconnect(c) PROVE TypeOK'
  BY <1>10, HangupTypes DEF Disconnect
<1>11. ASSUME NEW c \in Clients, Receive(c) PROVE TypeOK'
  <2> DEFINE m == Head(send[c])
  <2>1. /\ send[c] # << >> /\ send' = [send EXCEPT ![c] = Tail(@)]
        /\ IF IsSnapshot(m) THEN ReceiveSnapshot(c, m) ELSE ReceiveOp(c, m)
        /\ UNCHANGED <<brokerVars, out, pub, boardVars, joinVars, used, faults>>
    BY <1>11 DEF Receive
  <2>2. /\ m \in Messages /\ Tail(send[c]) \in Seq(Messages)
        /\ Len(Tail(send[c])) = Len(send[c]) - 1 /\ Len(send[c]) \in Nat
        /\ Len(send[c]) <= SendBuffer
    BY <2>1, QueueTypes DEF TypeOK
  <2>3. /\ send' \in [Clients -> Seq(Messages)]
        /\ \A d \in Clients : Len(send'[d]) <= SendBuffer
    BY <2>1, <2>2 DEF TypeOK
  <2> HIDE DEF m
  <2>4. /\ replica' \in [Clients -> Documents]
        /\ base' \in [Clients -> 0..MaxOps]
        /\ got' \in [Clients -> SUBSET (1..MaxOps)]
        /\ spoiled' \in [Clients -> SUBSET Shapes]
    <3>1. CASE IsSnapshot(m)
      <4>1. m \in Snapshots
        BY <2>2, <3>1 DEF IsSnapshot, Messages
      <4>2. m.seq \in 0..MaxOps /\ m.shapes \in Documents
        BY <4>1 DEF Snapshots
      <4>3. ReceiveSnapshot(c, m)
        BY <2>1, <3>1
      <4>4. /\ replica' \in [Clients -> Documents]
            /\ base' \in [Clients -> 0..MaxOps]
            /\ got' \in [Clients -> SUBSET (1..MaxOps)]
        BY <4>2, <4>3 DEF ReceiveSnapshot, TypeOK
      <4>5. \A n \in got[c] : log[n].id \in Shapes
        <5> SUFFICES ASSUME NEW n \in got[c] PROVE log[n] \in Ops
          BY DEF Ops
        <5>1. n \in 1..Len(log)
          BY DEF JoinInv, Joined, TypeOK
        <5> QED BY <5>1, QueueTypes DEF TypeOK
      <4>6. spoiled' \in [Clients -> SUBSET Shapes]
        BY <4>3, <4>5 DEF ReceiveSnapshot, TypeOK
      <4> QED BY <4>4, <4>6
    <3>2. CASE ~IsSnapshot(m)
      <4>1. m \in Ops /\ m.seq \in 1..MaxOps /\ m.id \in Shapes
        BY <2>2, <3>2 DEF IsSnapshot, Ops
      <4>2. ReceiveOp(c, m)
        BY <2>1, <3>2
      <4>3. ApplyOp(replica[c], m) \in Documents
        BY <4>1 DEF ApplyOp, TypeOK, Documents, Absent
      <4> QED BY <4>1, <4>2, <4>3 DEF ReceiveOp, TypeOK
    <3> QED BY <3>1, <3>2
  <2> QED BY <2>1, <2>3, <2>4 DEF TypeOK, brokerVars, boardVars, joinVars

<1>12. ASSUME NEW i \in Servers, OpenBoard(i) PROVE TypeOK'
  <2>1. faults' \in 0..MaxFaults /\ board' \in [Servers -> {"closed", "open", "deaf"}]
    BY <1>12 DEF OpenBoard, Fault, TypeOK
  <2> QED BY <1>12, <2>1 DEF OpenBoard, TypeOK, brokerVars, joinVars, clientVars
<1>13. ASSUME NEW i \in Servers, Dispatch(i) PROVE TypeOK'
  <2> DEFINE full == {c \in Registered(i) : Full(c)}
             next == [sub EXCEPT ![i] = Tail(@)]
  <2>1. /\ sub[i] # << >> /\ Drop(full)
        /\ sub' = Ended(full, next) /\ lost' = Forgotten(full, lost)
        /\ send' = [c \in Clients |->
                     IF c \in full THEN << >>
                     ELSE IF c \in Registered(i) THEN Append(send[c], Head(sub[i]))
                     ELSE send[c]]
        /\ UNCHANGED <<pub, faults>>
    BY <1>13 DEF Dispatch
  <2>2. sub[i] \in Seq(Ops) /\ Len(sub[i]) <= SubBuffer
    BY DEF TypeOK
  <2>3. /\ Head(sub[i]) \in Ops /\ Tail(sub[i]) \in Seq(Ops)
        /\ Len(Tail(sub[i])) = Len(sub[i]) - 1 /\ Len(sub[i]) \in Nat
    BY <2>1, <2>2, QueueTypes
  <2>4. next \in [Servers -> Seq(Ops)] /\ \A j \in Servers : Len(next[j]) <= SubBuffer
    BY <2>2, <2>3 DEF TypeOK
  <2>5. ASSUME NEW c \in Clients
        PROVE  /\ send[c] \in Seq(Messages) /\ Len(send[c]) <= SendBuffer
               /\ Len(send[c]) \in Nat
               /\ Append(send[c], Head(sub[i])) \in Seq(Messages)
               /\ Len(Append(send[c], Head(sub[i]))) = Len(send[c]) + 1
    <3>1. Head(sub[i]) \in Messages /\ send[c] \in Seq(Messages) /\ Len(send[c]) <= SendBuffer
      BY <2>3 DEF Messages, TypeOK
    <3> QED BY <3>1, QueueTypes
  <2>6. << >> \in Seq(Messages) /\ Len(<< >>) = 0
    OBVIOUS
  <2>7. send' \in [Clients -> Seq(Messages)]
    BY <2>1, <2>5, <2>6
  <2>8. ASSUME NEW c \in Clients PROVE Len(send'[c]) <= SendBuffer
    <3>1. CASE c \in full
      BY <2>1, <2>6, <3>1
    <3>2. CASE c \notin full /\ c \in Registered(i)
      BY <2>1, <2>5, <3>2 DEF Full
    <3>3. CASE c \notin full /\ c \notin Registered(i)
      BY <2>1, <2>5, <3>3
    <3> QED BY <3>1, <3>2, <3>3
  <2> HIDE DEF full, next
  <2>9. /\ sub' \in [Servers -> Seq(Ops)]
        /\ \A j \in Servers : Len(sub'[j]) <= SubBuffer
        /\ lost' \in [Servers -> SUBSET (1..MaxOps)]
    BY <2>1, <2>4, EndTypes DEF TypeOK
  <2> QED BY <2>1, <2>7, <2>8, <2>9, DropTypes DEF TypeOK
<1>14. ASSUME NEW i \in Servers, Crash(i) PROVE TypeOK'
  <2> DEFINE dead == Connected(i)
             unpublished == {pub[c].seq : c \in {d \in dead : pub[d] # None}}
             l == [j \in Servers |-> IF board[j] = "open" THEN lost[j] \cup unpublished
                                                          ELSE lost[j]]
  <2>1. /\ Fault /\ Drop(dead)
        /\ sub' = Ended(dead, sub) /\ lost' = Forgotten(dead, l)
        /\ send' = [c \in Clients |-> IF c \in dead THEN << >> ELSE send[c]]
        /\ pub' = [c \in Clients |-> IF c \in dead THEN None ELSE pub[c]]
    BY <1>14 DEF Crash
  <2>2. unpublished \subseteq 1..MaxOps
    BY <1>b DEF Connected
  <2>3. l \in [Servers -> SUBSET (1..MaxOps)]
    BY <2>2 DEF TypeOK
  <2>4. << >> \in Seq(Messages) /\ Len(<< >>) = 0
    OBVIOUS
  <2>5. /\ send' \in [Clients -> Seq(Messages)]
        /\ \A c \in Clients : Len(send'[c]) <= SendBuffer
        /\ pub' \in [Clients -> Ops \cup {None}]
    BY <2>1, <2>4 DEF TypeOK
  <2>6. faults' \in 0..MaxFaults
    BY <2>1 DEF Fault, TypeOK
  <2> HIDE DEF dead, l
  <2>7. /\ sub' \in [Servers -> Seq(Ops)]
        /\ \A j \in Servers : Len(sub'[j]) <= SubBuffer
        /\ lost' \in [Servers -> SUBSET (1..MaxOps)]
    BY <2>1, <2>3, EndTypes DEF TypeOK
  <2> QED BY <2>1, <2>5, <2>6, <2>7, DropTypes DEF TypeOK
<1>15. CASE UNCHANGED vars
  BY <1>15 DEF TypeOK, vars, brokerVars, boardVars, joinVars, clientVars
<1> QED BY <1>1, <1>2, <1>3, <1>4, <1>5, <1>6, <1>7, <1>8, <1>9, <1>10, <1>11,
           <1>12, <1>13, <1>14, <1>15 DEF Next

----------------------------------------------------------------------------
(* Versions and the log.                                                   *)

(* Operations on other shapes, and a longer log, leave a version as it is. *)
LEMMA VersionKept ==
  ASSUME NEW l, NEW k, NEW x, NEW v, NEW K, NEW L,
         K \subseteq L, \A n \in K : k[n] = l[n],
         \A n \in L \ K : k[n].id # x,
         Version(l, x, v, K)
  PROVE  Version(k, x, v, L)
BY DEF Version

(* Two sets of operations that agree on shape x leave one version of it.   *)
LEMMA VersionUnique ==
  ASSUME NEW l, NEW x, NEW v, NEW w, NEW K \in SUBSET Nat, NEW L \in SUBSET K,
         \A n \in K \ L : l[n].id # x,
         Version(l, x, v, K), Version(l, x, w, L)
  PROVE  v = w
<1>1. \A n \in K : l[n].id = x => n \in L
  OBVIOUS
<1>2. CASE \A n \in K : l[n].id # x
  BY <1>1, <1>2 DEF Version
<1>3. CASE \E n \in K : l[n].id = x
  <2>1. PICK m \in K : /\ l[m].id = x
                       /\ \A n \in K : l[n].id = x => n <= m
                       /\ v = IF l[m].del THEN Absent ELSE m
    BY <1>3 DEF Version
  <2>2. PICK j \in L : /\ l[j].id = x
                       /\ \A n \in L : l[n].id = x => n <= j
                       /\ w = IF l[j].del THEN Absent ELSE j
    BY <1>1, <1>3 DEF Version
  <2>3. m <= j /\ j <= m /\ m \in Nat /\ j \in Nat
    BY <1>1, <2>1, <2>2
  <2>4. m = j
    BY <2>3
  <2> QED BY <2>1, <2>2, <2>4
<1> QED BY <1>2, <1>3

(* Only ApplyShape writes to the broker, and it appends to the log.        *)
LEMMA LogGrows ==
  ASSUME TypeOK, [Next]_vars
  PROVE  /\ seq \in Nat /\ seq' \in Nat /\ seq <= seq'
         /\ Len(log) = seq /\ Len(log') = seq'
         /\ \A n \in 1..seq : n \in 1..seq' /\ log'[n] = log[n]
         /\ used \subseteq used'
         /\ UNCHANGED brokerVars \/ \E c \in Clients : ApplyShape(c)
<1>1. CASE \E c \in Clients : ApplyShape(c)
  <2> PICK c \in Clients : ApplyShape(c)
    BY <1>1
  <2> DEFINE op == [seq |-> seq + 1, id |-> out[c].id, del |-> out[c].del]
  <2>1. seq' = seq + 1 /\ used' = used /\ log' = Append(log, op)
    BY DEF ApplyShape, clientVars
  <2>2. seq \in Nat /\ Len(log) = seq /\ log \in Seq(Ops)
    BY SyncBounds DEF TypeOK
  <2>3. out[c] \in Requests /\ seq + 1 \in 1..MaxOps
    BY SyncBounds DEF ApplyShape, ReadsRequest, TypeOK
  <2>4. op \in Ops
    BY <2>3 DEF Ops, Requests
  <2> HIDE DEF op
  <2>5. Len(log') = Len(log) + 1 /\ \A n \in 1..Len(log) : log'[n] = log[n]
    BY <2>1, <2>2, <2>4, QueueTypes
  <2> QED BY <1>1, <2>1, <2>2, <2>5
<1>2. CASE ~\E c \in Clients : ApplyShape(c)
  <2>1. UNCHANGED brokerVars /\ used \subseteq used'
    BY <1>2 DEF Next, vars, Draw, Edit, ApplyError, Publish, Register, FetchSnapshot,
                FetchError, DeliverSnapshot, Disconnect, Receive, OpenBoard, Dispatch,
                Crash, Hangup, Drop, clientVars
  <2>2. UNCHANGED <<seq, log>>
    BY <2>1 DEF brokerVars
  <2>3. seq \in Nat /\ Len(log) = seq
    BY SyncBounds DEF TypeOK
  <2> QED BY <2>1, <2>2, <2>3
<1> QED BY <1>1, <1>2

(* What is in the log stays there, and so does what a snapshot shows.      *)
LEMMA LogKept ==
  ASSUME TypeOK, [Next]_vars
  PROVE  /\ \A op : Logged(log, op) => Logged(log', op)
         /\ \A m \in Snapshots, n \in Nat :
              TakenSince(log, m, n) => TakenSince(log', m, n)
<1>1. /\ seq \in Nat /\ seq' \in Nat /\ seq <= seq'
      /\ Len(log) = seq /\ Len(log') = seq'
      /\ \A n \in 1..seq : n \in 1..seq' /\ log'[n] = log[n]
  BY LogGrows
<1>2. ASSUME NEW op, Logged(log, op) PROVE Logged(log', op)
  BY <1>1, <1>2 DEF Logged
<1>3. ASSUME NEW m \in Snapshots, NEW n \in Nat, TakenSince(log, m, n)
      PROVE  TakenSince(log', m, n)
  <2>1. m.seq \in Nat /\ m.seq <= seq /\ m.seq <= seq' /\ n <= m.seq
    BY <1>1, <1>3, SyncBounds DEF TakenSince, Snapshots
  <2>2. ASSUME NEW x \in Shapes PROVE Version(log', x, m.shapes[x], 1..m.seq)
    <3>1. Version(log, x, m.shapes[x], 1..m.seq)
      BY <1>3 DEF TakenSince
    <3> DEFINE K == 1..m.seq
    <3>2. \A j \in K : log'[j] = log[j]
      BY <1>1, <2>1
    <3>3. K \subseteq K /\ \A j \in K \ K : log'[j].id # x
      OBVIOUS
    <3> HIDE DEF K
    <3>4. Version(log, x, m.shapes[x], K)
      BY <3>1 DEF K
    <3>5. Version(log', x, m.shapes[x], K)
      BY <3>2, <3>3, <3>4, VersionKept
    <3> QED BY <3>5 DEF K
  <2> QED BY <1>1, <2>1, <2>2 DEF TakenSince
<1> QED BY <1>2, <1>3

(* The broker's document is the outcome of its log (broker.ApplyShape, and *)
(* the Redis script), and the log is of shapes someone drew.               *)
LEMMA BrokerStep == TypeOK /\ BrokerInv /\ TransitInv /\ [Next]_vars => BrokerInv'
<1> SUFFICES ASSUME TypeOK, BrokerInv, TransitInv, [Next]_vars PROVE BrokerInv'
  OBVIOUS
<1>1. /\ seq \in Nat /\ Len(log) = seq /\ used \subseteq used'
      /\ UNCHANGED brokerVars \/ \E c \in Clients : ApplyShape(c)
      /\ \A n \in 1..seq : n \in 1..seq' /\ log'[n] = log[n]
  BY LogGrows
<1>2. CASE UNCHANGED brokerVars
  BY <1>1, <1>2 DEF BrokerInv, brokerVars
<1>3. ASSUME NEW c \in Clients, ApplyShape(c) PROVE BrokerInv'
  <2> DEFINE op == [seq |-> seq + 1, id |-> out[c].id, del |-> out[c].del]
             v == IF op.del THEN Absent ELSE op.seq
  <2>1. /\ seq' = seq + 1 /\ log' = Append(log, op) /\ out[c] # None
        /\ shapes' = [shapes EXCEPT ![op.id] = v]
    BY <1>3 DEF ApplyShape, ReadsRequest
  <2>2. out[c] \in Requests /\ seq + 1 \in 1..MaxOps
    BY <1>3, SyncBounds DEF ApplyShape, ReadsRequest, TypeOK
  <2>3. op \in Ops /\ op.seq = seq + 1 /\ op.id \in used /\ op.id = out[c].id
    BY <2>1, <2>2 DEF Ops, Requests, TransitInv
  <2>v. v = IF op.del THEN Absent ELSE seq + 1
    BY <2>3
  <2> HIDE DEF op, v
  <2>4. log'[seq + 1] = op
    BY <1>1, <2>1, <2>3, QueueTypes DEF TypeOK
  <2>5. \A n \in 1..seq' : n \in 1..seq \/ n = seq + 1
    BY <1>1, <2>1
  <2>6. \A n \in 1..seq' : log'[n].seq = n /\ log'[n].id \in used'
    BY <1>1, <2>3, <2>4, <2>5 DEF BrokerInv
  <2>7. ASSUME NEW x \in Shapes PROVE Version(log', x, shapes'[x], 1..seq')
    <3>1. CASE x = op.id
      <4>1. shapes'[x] = v
        BY <2>1, <3>1 DEF TypeOK, Documents
      <4>2. /\ seq + 1 \in 1..seq' /\ log'[seq + 1].id = x
            /\ \A n \in 1..seq' : log'[n].id = x => n <= seq + 1
            /\ shapes'[x] = IF log'[seq + 1].del THEN Absent ELSE seq + 1
        BY <1>1, <2>1, <2>4, <2>v, <3>1, <4>1
      <4> QED BY <4>2 DEF Version
    <3>2. CASE x # op.id
      <4>1. shapes'[x] = shapes[x]
        BY <2>1, <3>2 DEF TypeOK, Documents
      <4>2. Version(log, x, shapes[x], 1..seq)
        BY DEF BrokerInv
      <4>3. \A n \in 1..seq' \ 1..seq : log'[n].id # x
        BY <2>4, <2>5, <3>2
      <4>4. 1..seq \subseteq 1..seq' /\ \A n \in 1..seq : log'[n] = log[n]
        BY <1>1
      <4> DEFINE K == 1..seq  L == 1..seq'
      <4>5. /\ K \subseteq L /\ \A n \in K : log'[n] = log[n]
            /\ \A n \in L \ K : log'[n].id # x
            /\ Version(log, x, shapes[x], K)
        BY <4>2, <4>3, <4>4
      <4> HIDE DEF K, L
      <4>6. Version(log', x, shapes[x], L)
        BY <4>5, VersionKept
      <4> QED BY <4>1, <4>6 DEF L
    <3> QED BY <3>1, <3>2
  <2> QED BY <2>6, <2>7 DEF BrokerInv
<1> QED BY <1>1, <1>2, <1>3

----------------------------------------------------------------------------
(* Messages on their way.                                                  *)

(* Connections end: what is on its way to the others stays as it is.       *)
LEMMA HangupTransit ==
  ASSUME TypeOK, TransitInv, [Next]_vars, NEW S, Hangup(S)
  PROVE  TransitInv'
<1>1. \A op : Logged(log, op) => Logged(log', op)
  BY LogKept
<1>2. \A c \in Clients : out'[c] # None => out'[c] = out[c]
  BY DEF Hangup, Drop
<1>3. \A c \in Clients : send'[c] = send[c] \/ Range(send'[c]) = {}
  BY EmptyQueue DEF Hangup
<1>4. \A i \in Servers : sub'[i] = sub[i] \/ Range(sub'[i]) = {}
  BY EmptyQueue DEF Hangup, Ended
<1>5. pub' = pub /\ used' = used
  BY DEF Hangup, Drop
<1> QED BY <1>1, <1>2, <1>3, <1>4, <1>5 DEF TransitInv

(* A message travels unchanged from the log to every browser: the read     *)
(* pump publishes what the broker sequenced, Board.dispatch copies what    *)
(* the subscription carries.                                               *)
LEMMA TransitStep == TypeOK /\ TransitInv /\ [Next]_vars => TransitInv'
<1> SUFFICES ASSUME TypeOK, TransitInv, [Next]_vars PROVE TransitInv'
  OBVIOUS
<1>l. \A op : Logged(log, op) => Logged(log', op)
  BY LogKept
<1>u. used \subseteq used'
  BY LogGrows
<1>f. ASSUME UNCHANGED <<out, pub, send, sub>> PROVE TransitInv'
  BY <1>f, <1>l, <1>u DEF TransitInv
<1>1. ASSUME NEW c \in Clients, NEW x \in Shapes, Draw(c, x) PROVE TransitInv'
  <2>1. UNCHANGED <<pub, send, sub>>
    BY <1>1 DEF Draw, boardVars
  <2>2. \A d \in Clients : out'[d] # None => out'[d] = out[d] \/ out'[d].id = x
    BY <1>1 DEF Draw, SendRequest, TypeOK
  <2>3. x \in used'
    BY <1>1 DEF Draw
  <2> QED BY <2>1, <2>2, <2>3, <1>l, <1>u DEF TransitInv
<1>2. ASSUME NEW c \in Clients, NEW x \in Shapes, NEW del \in BOOLEAN, Edit(c, x, del)
      PROVE  TransitInv'
  <2>1. UNCHANGED <<pub, send, sub>>
    BY <1>2 DEF Edit, boardVars
  <2>2. \A d \in Clients : out'[d] # None => out'[d] = out[d] \/ out'[d].id = x
    BY <1>2 DEF Edit, SendRequest, TypeOK
  <2>3. x \in used
    BY <1>2 DEF Edit
  <2> QED BY <2>1, <2>2, <2>3, <1>l, <1>u DEF TransitInv
<1>3. ASSUME NEW c \in Clients, ApplyShape(c) PROVE TransitInv'
  <2> DEFINE op == [seq |-> seq + 1, id |-> out[c].id, del |-> out[c].del]
  <2>1. /\ log' = Append(log, op) /\ pub' = [pub EXCEPT ![c] = op]
        /\ out' = [out EXCEPT ![c] = None] /\ UNCHANGED <<send, sub>>
    BY <1>3 DEF ApplyShape, ReadsRequest, boardVars
  <2>2. out[c] \in Requests /\ seq + 1 \in 1..MaxOps /\ log \in Seq(Ops) /\ Len(log) = seq
    BY <1>3, SyncBounds DEF ApplyShape, ReadsRequest, TypeOK
  <2>3. op \in Ops /\ op.seq = seq + 1
    BY <2>2 DEF Ops, Requests
  <2> HIDE DEF op
  <2>4. Logged(log', op)
    BY <2>1, <2>2, <2>3, QueueTypes DEF Logged
  <2>5. \A d \in Clients : pub'[d] = op \/ pub'[d] = pub[d]
    BY <2>1 DEF TypeOK
  <2>6. \A d \in Clients : out'[d] = None \/ out'[d] = out[d]
    BY <2>1 DEF TypeOK
  <2> QED BY <2>1, <2>4, <2>5, <2>6, <1>l, <1>u DEF TransitInv
<1>4. ASSUME NEW c \in Clients, ApplyError(c) PROVE TransitInv'
  <2>1. UNCHANGED <<pub, send, sub>>
    BY <1>4 DEF ApplyError, boardVars
  <2>2. \A d \in Clients : out'[d] = None \/ out'[d] = out[d]
    BY <1>4 DEF ApplyError, ReadsRequest, TypeOK
  <2> QED BY <2>1, <2>2, <1>l, <1>u DEF TransitInv
<1>5. ASSUME NEW c \in Clients, NEW miss \in SUBSET Servers, Publish(c, miss)
      PROVE  TransitInv'
  <2>1. UNCHANGED <<out, send>> /\ pub[c] # None
    BY <1>5 DEF Publish
  <2>2. \A d \in Clients : pub'[d] = None \/ pub'[d] = pub[d]
    BY <1>5 DEF Publish, TypeOK
  <2>3. pub[c] \in Ops /\ Logged(log, pub[c])
    BY <2>1 DEF TypeOK, TransitInv
  <2>4. ASSUME NEW i \in Servers
        PROVE  Range(sub'[i]) \subseteq Range(sub[i]) \cup {pub[c]}
    <3>1. Range(Append(sub[i], pub[c])) = Range(sub[i]) \cup {pub[c]}
      BY <2>3, AppendRange DEF TypeOK
    <3>2. sub'[i] = sub[i] \/ sub'[i] = Append(sub[i], pub[c])
      BY <1>5 DEF Publish
    <3> QED BY <3>1, <3>2
  <2> QED BY <2>1, <2>2, <2>3, <2>4, <1>l, <1>u DEF TransitInv
<1>6. ASSUME NEW c \in Clients, NEW i \in Servers, Register(c, i) PROVE TransitInv'
  BY <1>6, <1>f DEF Register, boardVars
<1>7. ASSUME NEW c \in Clients, FetchSnapshot(c) PROVE TransitInv'
  BY <1>7, <1>f DEF FetchSnapshot, boardVars
<1>8. ASSUME NEW c \in Clients, FetchError(c) PROVE TransitInv'
  BY <1>8, <1>f DEF FetchError, boardVars
<1>9. ASSUME NEW c \in Clients, DeliverSnapshot(c) PROVE TransitInv'
  <2>1. CASE Hangup({c})
    BY <2>1, HangupTransit
  <2>2. CASE ~Hangup({c})
    <3>1. send' = [send EXCEPT ![c] = Append(@, held[c])] /\ UNCHANGED <<out, pub, sub>>
      BY <1>9, <2>2 DEF DeliverSnapshot, boardVars
    <3>2. held[c] \in Snapshots /\ held[c] \notin Ops /\ held[c] \in Messages
      BY Distinct DEF TypeOK, Messages
    <3>3. Range(Append(send[c], held[c])) = Range(send[c]) \cup {held[c]}
      BY <3>2, AppendRange DEF TypeOK
    <3>4. ASSUME NEW d \in Clients
          PROVE  Range(send'[d]) \cap Ops \subseteq Range(send[d]) \cap Ops
      <4>1. CASE d = c
        BY <3>1, <3>2, <3>3, <4>1 DEF TypeOK
      <4>2. CASE d # c
        BY <3>1, <4>2 DEF TypeOK
      <4> QED BY <4>1, <4>2
    <3> QED BY <3>1, <3>4, <1>l, <1>u DEF TransitInv
  <2> QED BY <2>1, <2>2
<1>10. ASSUME NEW c \in Clients, Disconnect(c) PROVE TransitInv'
  BY <1>10, HangupTransit DEF Disconnect
<1>11. ASSUME NEW c \in Clients, Receive(c) PROVE TransitInv'
  <2>1. send[c] # << >> /\ send' = [send EXCEPT ![c] = Tail(@)] /\ UNCHANGED <<out, pub, sub>>
    BY <1>11 DEF Receive, boardVars
  <2>2. Range(Tail(send[c])) \subseteq Range(send[c])
    BY <2>1, TailRange DEF TypeOK
  <2>3. \A d \in Clients : Range(send'[d]) \subseteq Range(send[d])
    BY <2>1, <2>2 DEF TypeOK
  <2> QED BY <2>1, <2>3, <1>l, <1>u DEF TransitInv
<1>12. ASSUME NEW i \in Servers, OpenBoard(i) PROVE TransitInv'
  BY <1>12, <1>f DEF OpenBoard
<1>13. ASSUME NEW i \in Servers, Dispatch(i) PROVE TransitInv'
  <2> DEFINE full == {c \in Registered(i) : Full(c)}
             next == [sub EXCEPT ![i] = Tail(@)]
  <2>1. /\ sub[i] # << >> /\ Drop(full) /\ sub' = Ended(full, next)
        /\ send' = [c \in Clients |->
                     IF c \in full THEN << >>
                     ELSE IF c \in Registered(i) THEN Append(send[c], Head(sub[i]))
                     ELSE send[c]]
        /\ UNCHANGED pub
    BY <1>13 DEF Dispatch
  <2>2. /\ Head(sub[i]) \in Ops /\ Head(sub[i]) \in Range(sub[i])
        /\ Range(Tail(sub[i])) \subseteq Range(sub[i])
    BY <2>1, QueueTypes, TailRange DEF TypeOK
  <2>3. Logged(log, Head(sub[i]))
    BY <2>2 DEF TransitInv
  <2>4. ASSUME NEW c \in Clients
        PROVE  Range(send'[c]) \subseteq Range(send[c]) \cup {Head(sub[i])}
    <3>1. Range(Append(send[c], Head(sub[i]))) = Range(send[c]) \cup {Head(sub[i])}
      <4>1. send[c] \in Seq(Messages) /\ Head(sub[i]) \in Messages
        BY <2>2 DEF TypeOK, Messages
      <4> QED BY <4>1, AppendRange
    <3>2. send'[c] \in {<< >>, send[c], Append(send[c], Head(sub[i]))}
      BY <2>1
    <3> QED BY <3>1, <3>2, EmptyQueue
  <2>5. ASSUME NEW j \in Servers PROVE Range(sub'[j]) \subseteq Range(sub[j])
    <3>1. next[j] = sub[j] \/ (j = i /\ next[j] = Tail(sub[i]))
      BY DEF TypeOK
    <3> HIDE DEF next
    <3>2. sub'[j] = << >> \/ sub'[j] = next[j]
      BY <2>1 DEF Ended
    <3> QED BY <2>2, <3>1, <3>2, EmptyQueue
  <2>6. \A c \in Clients : out'[c] = None \/ out'[c] = out[c]
    BY <2>1 DEF Drop
  <2>7. UNCHANGED pub
    BY <2>1
  <2> QED BY <2>3, <2>4, <2>5, <2>6, <2>7, <1>l, <1>u DEF TransitInv
<1>14. ASSUME NEW i \in Servers, Crash(i) PROVE TransitInv'
  <2> DEFINE dead == Connected(i)
  <2>1. /\ Drop(dead) /\ sub' = Ended(dead, sub)
        /\ send' = [c \in Clients |-> IF c \in dead THEN << >> ELSE send[c]]
        /\ pub' = [c \in Clients |-> IF c \in dead THEN None ELSE pub[c]]
    BY <1>14 DEF Crash
  <2>2. \A c \in Clients : /\ out'[c] = None \/ out'[c] = out[c]
                           /\ pub'[c] = None \/ pub'[c] = pub[c]
    BY <2>1 DEF Drop
  <2>3. \A c \in Clients : send'[c] = send[c] \/ Range(send'[c]) = {}
    BY <2>1, EmptyQueue
  <2>4. \A j \in Servers : sub'[j] = sub[j] \/ Range(sub'[j]) = {}
    BY <2>1, EmptyQueue DEF Ended
  <2> QED BY <2>2, <2>3, <2>4, <1>l, <1>u DEF TransitInv
<1>15. CASE UNCHANGED vars
  BY <1>15, <1>f DEF vars, boardVars
<1> QED BY <1>1, <1>2, <1>3, <1>4, <1>5, <1>6, <1>7, <1>8, <1>9, <1>10, <1>11,
           <1>12, <1>13, <1>14, <1>15 DEF Next

----------------------------------------------------------------------------
(* Connections.                                                            *)

(* A connection that survives when those of S end keeps its board, and     *)
(* with it the subscription: Board.release closes a board with its last    *)
(* client only.                                                            *)
LEMMA DropClient ==
  ASSUME TypeOK, JoinInv, NEW S, Drop(S), NEW c \in Clients
  PROVE  /\ c \in S => /\ conn'[c] = "off" /\ at'[c] = None /\ out'[c] = None
                       /\ base'[c] = 0 /\ got'[c] = {}
         /\ c \notin S => /\ conn'[c] = conn[c] /\ at'[c] = at[c] /\ out'[c] = out[c]
                          /\ base'[c] = base[c] /\ got'[c] = got[c]
                          /\ held'[c] = held[c] /\ spoiled'[c] = spoiled[c]
         /\ c \notin S /\ conn[c] # "off" =>
              /\ at[c] \in Servers /\ board'[at[c]] = board[at[c]]
              /\ \A s : Ended(S, s)[at[c]] = s[at[c]]
              /\ \A l : Forgotten(S, l)[at[c]] = l[at[c]]
         /\ UNCHANGED <<replica, seq, log, used>>
<1>1. c \in S => /\ conn'[c] = "off" /\ at'[c] = None /\ out'[c] = None
                 /\ base'[c] = 0 /\ got'[c] = {}
  BY DEF Drop
<1>2. c \notin S => /\ conn'[c] = conn[c] /\ at'[c] = at[c] /\ out'[c] = out[c]
                    /\ base'[c] = base[c] /\ got'[c] = got[c]
                    /\ held'[c] = held[c] /\ spoiled'[c] = spoiled[c]
  BY DEF Drop
<1>3. ASSUME c \notin S, conn[c] # "off"
      PROVE  /\ at[c] \in Servers /\ board'[at[c]] = board[at[c]]
             /\ \A s : Ended(S, s)[at[c]] = s[at[c]]
             /\ \A l : Forgotten(S, l)[at[c]] = l[at[c]]
  <2>1. at[c] \in Servers
    BY <1>3 DEF TypeOK, JoinInv, Joined
  <2>2. at[c] \notin Emptied(S)
    BY <1>3, <2>1 DEF Emptied, Connected
  <2>3. board'[at[c]] = board[at[c]]
    BY <2>1, <2>2 DEF Drop
  <2> QED BY <2>1, <2>2, <2>3 DEF Ended, Forgotten
<1>4. UNCHANGED <<replica, seq, log, used>>
  BY DEF Drop, brokerVars
<1> QED BY <1>1, <1>2, <1>3, <1>4

(* What the invariant says of a connection survives a step that does not   *)
(* touch the connection, and holds when it is closed.                      *)
LEMMA JoinedKept ==
  ASSUME TypeOK, JoinInv, [Next]_vars, NEW c \in Clients
  PROVE  /\ /\ conn'[c] = conn[c] /\ at'[c] = at[c] /\ send'[c] = send[c]
            /\ base'[c] = base[c] /\ got'[c] = got[c] /\ held'[c] = held[c]
            /\ conn[c] # "off" => board'[at[c]] = board[at[c]]
            => Joined(c)'
         /\ /\ conn'[c] = "off" /\ at'[c] = None /\ send'[c] = << >>
            /\ base'[c] = 0 /\ got'[c] = {}
            => Joined(c)'
<1>1. /\ seq \in Nat /\ seq' \in Nat /\ seq <= seq'
      /\ \A n \in 1..seq : n \in 1..seq'
  BY LogGrows
<1>2. \A m \in Snapshots, n \in Nat :
        TakenSince(log, m, n) => TakenSince(log', m, n)
  BY LogKept
<1>3. ASSUME conn'[c] = conn[c], at'[c] = at[c], send'[c] = send[c],
             base'[c] = base[c], got'[c] = got[c], held'[c] = held[c],
             conn[c] # "off" => board'[at[c]] = board[at[c]]
      PROVE  Joined(c)'
  <2>1. Joined(c)
    BY DEF JoinInv
  <2>2. base[c] \in Nat /\ held[c] \in Snapshots
    BY SyncBounds DEF TypeOK
  <2>3. \A m \in Range(send[c]) \ Ops : m \in Snapshots
    <3>1. Range(send[c]) \subseteq Messages
      BY RangeOfSeq DEF TypeOK
    <3> QED BY <3>1 DEF Messages
  <2>4. base'[c] <= seq' /\ got'[c] \subseteq 1..seq'
    BY <1>1, <1>3, <2>1, <2>2 DEF Joined
  <2>5. conn'[c] = "fetched" => TakenSince(log', held'[c], base'[c])
    BY <1>2, <1>3, <2>1, <2>2 DEF Joined
  <2>6. \A m \in Range(send'[c]) \ Ops : TakenSince(log', m, base'[c])
    BY <1>2, <1>3, <2>1, <2>2, <2>3 DEF Joined
  <2> QED BY <1>3, <2>1, <2>4, <2>5, <2>6 DEF Joined
<1>4. ASSUME conn'[c] = "off", at'[c] = None, send'[c] = << >>,
             base'[c] = 0, got'[c] = {}
      PROVE  Joined(c)'
  BY <1>1, <1>4, EmptyQueue DEF Joined, Plain
<1> QED BY <1>3, <1>4

(* Connections that end leave the others joined as they are.               *)
LEMMA HangupJoined ==
  ASSUME TypeOK, JoinInv, [Next]_vars, NEW S, Hangup(S), NEW c \in Clients
  PROVE  Joined(c)'
<1>1. Drop(S) /\ send'[c] = IF c \in S THEN << >> ELSE send[c]
  BY DEF Hangup
<1> QED BY <1>1, DropClient, JoinedKept

(* Onboarding in its order (Client.Serve): registered on an open board,    *)
(* the snapshot fetched after that, delivered once, and everything a       *)
(* browser has counted as received was sequenced.                          *)
LEMMA JoinStep ==
  TypeOK /\ BrokerInv /\ TransitInv /\ JoinInv /\ [Next]_vars => JoinInv'
<1> SUFFICES ASSUME TypeOK, BrokerInv, TransitInv, JoinInv, [Next]_vars, NEW d \in Clients
             PROVE  Joined(d)'
  BY DEF JoinInv
<1>d. Joined(d)
  BY DEF JoinInv
<1>t. /\ send[d] \in Seq(Messages) /\ Range(send[d]) \subseteq Messages
      /\ base[d] \in Nat /\ held[d] \in Snapshots /\ held[d] \in Messages
      /\ held[d] \notin Ops
  BY SyncBounds, RangeOfSeq, Distinct DEF TypeOK, Messages
<1>s. \A m \in Range(send[d]) \ Ops : m \in Snapshots
  BY <1>t DEF Messages
<1>l. seq \in Nat /\ seq' \in Nat /\ Len(log) = seq
  BY LogGrows
<1>f. ASSUME UNCHANGED <<conn, at, send, base, got, held>>,
             conn[d] # "off" => board'[at[d]] = board[at[d]]
      PROVE  Joined(d)'
  BY <1>f, JoinedKept
<1>1. ASSUME NEW c \in Clients, NEW x \in Shapes, Draw(c, x) PROVE Joined(d)'
  BY <1>1, <1>f DEF Draw, boardVars, joinVars
<1>2. ASSUME NEW c \in Clients, NEW x \in Shapes, NEW del \in BOOLEAN, Edit(c, x, del)
      PROVE  Joined(d)'
  BY <1>2, <1>f DEF Edit, boardVars, joinVars, clientVars
<1>3. ASSUME NEW c \in Clients, ApplyShape(c) PROVE Joined(d)'
  BY <1>3, <1>f DEF ApplyShape, boardVars, joinVars, clientVars
<1>4. ASSUME NEW c \in Clients, ApplyError(c) PROVE Joined(d)'
  BY <1>4, <1>f DEF ApplyError, boardVars, joinVars
<1>5. ASSUME NEW c \in Clients, NEW miss \in SUBSET Servers, Publish(c, miss)
      PROVE  Joined(d)'
  BY <1>5, <1>f DEF Publish, joinVars, clientVars
<1>6. ASSUME NEW c \in Clients, NEW i \in Servers, Register(c, i) PROVE Joined(d)'
  <2>1. CASE d = c
    <3>1. /\ conn'[d] = "register" /\ at'[d] = i /\ got'[d] = {} /\ base'[d] = seq
          /\ send'[d] = send[d] /\ board'[i] = board[i] /\ board[i] # "closed"
          /\ conn[d] = "off" /\ seq' = seq
      BY <1>6, <2>1 DEF Register, Serving, TypeOK, boardVars, brokerVars
    <3>2. send'[d] = << >>
      BY <1>d, <3>1 DEF Joined
    <3> QED BY <1>l, <3>1, <3>2, EmptyQueue, SyncNames DEF Joined, Plain
  <2>2. CASE d # c
    BY <1>6, <2>2, JoinedKept DEF Register, TypeOK, boardVars
  <2> QED BY <2>1, <2>2
<1>7. ASSUME NEW c \in Clients, FetchSnapshot(c) PROVE Joined(d)'
  <2>1. CASE d = c
    <3>1. /\ conn'[d] = "fetched" /\ held'[d] = [seq |-> seq, shapes |-> shapes]
          /\ conn[d] = "register"
          /\ UNCHANGED <<at, board, send, seq, log, base, got>>
      BY <1>7, <2>1 DEF FetchSnapshot, TypeOK, boardVars, brokerVars, clientVars
    <3>2. TakenSince(log', held'[d], base'[d])
      BY <1>d, <1>l, <3>1 DEF TakenSince, BrokerInv, Joined
    <3> QED BY <1>d, <3>1, <3>2 DEF Joined
  <2>2. CASE d # c
    BY <1>7, <2>2, JoinedKept DEF FetchSnapshot, TypeOK, boardVars, clientVars
  <2> QED BY <2>1, <2>2
<1>8. ASSUME NEW c \in Clients, FetchError(c) PROVE Joined(d)'
  <2>1. CASE d = c
    <3>1. /\ conn'[d] = "blind" /\ conn[d] = "register"
          /\ UNCHANGED <<at, board, send, seq, log, base, got, held>>
      BY <1>8, <2>1 DEF FetchError, TypeOK, boardVars, brokerVars, clientVars
    <3> QED BY <1>d, <3>1 DEF Joined
  <2>2. CASE d # c
    BY <1>8, <2>2, JoinedKept DEF FetchError, TypeOK, boardVars, clientVars
  <2> QED BY <2>1, <2>2
<1>9. ASSUME NEW c \in Clients, DeliverSnapshot(c) PROVE Joined(d)'
  <2>1. CASE Hangup({c})
    BY <2>1, HangupJoined
  <2>2. CASE ~Hangup({c})
    <3>0. /\ conn[c] = "fetched"
          /\ send' = [send EXCEPT ![c] = Append(@, held[c])]
          /\ conn' = [conn EXCEPT ![c] = "ready"]
          /\ held' = [held EXCEPT ![c] = NoSnapshot]
          /\ UNCHANGED <<at, board, seq, log, base, got>>
      BY <1>9, <2>2 DEF DeliverSnapshot, boardVars, brokerVars, clientVars
    <3>1. CASE d = c
      <4>1. conn'[d] = "ready" /\ conn[d] = "fetched" /\ send'[d] = Append(send[d], held[d])
        BY <3>0, <3>1 DEF TypeOK
      <4>2. Range(send'[d]) = Range(send[d]) \cup {held[d]}
        BY <1>t, <4>1, AppendRange
      <4>3. OneSnapshot(send'[d])
        BY <1>d, <1>t, <4>1, SnapshotQueue DEF Joined
      <4>4. \A m \in Range(send'[d]) \ Ops : TakenSince(log, m, base[d])
        BY <1>d, <4>1, <4>2 DEF Joined
      <4> QED BY <1>d, <3>0, <4>1, <4>3, <4>4 DEF Joined
    <3>2. CASE d # c
      BY <3>0, <3>2, JoinedKept DEF TypeOK
    <3> QED BY <3>1, <3>2
  <2> QED BY <2>1, <2>2
<1>10. ASSUME NEW c \in Clients, Disconnect(c) PROVE Joined(d)'
  BY <1>10, HangupJoined DEF Disconnect
<1>11. ASSUME NEW c \in Clients, Receive(c) PROVE Joined(d)'
  <2> DEFINE m == Head(send[c])
  <2>1. /\ send[c] # << >> /\ send' = [send EXCEPT ![c] = Tail(@)]
        /\ conn[c] \in Pumping
        /\ IF IsSnapshot(m) THEN ReceiveSnapshot(c, m) ELSE ReceiveOp(c, m)
        /\ UNCHANGED <<conn, at, held, board, seq, log>>
    BY <1>11 DEF Receive, brokerVars, boardVars, joinVars
  <2>2. CASE d = c
    <3>1. send'[d] = Tail(send[d]) /\ Range(send[d]) = Range(Tail(send[d])) \cup {m}
      BY <1>t, <2>1, <2>2, TailRange DEF TypeOK
    <3>2. OneSnapshot(send'[d]) /\ (m \notin Ops => Plain(send'[d]))
      BY <1>d, <1>t, <2>1, <2>2, <3>1, SnapshotQueue DEF Joined
    <3> HIDE DEF m
    <3>3. conn[d] # "off" /\ conn[d] # "fetched"
      BY <2>1, <2>2 DEF Pumping
    <3>4. conn'[d] # "ready" => Plain(send'[d])
      BY <1>d, <2>1, <3>1 DEF Joined, Plain
    <3>5. CASE IsSnapshot(m)
      <4>1. m \in Snapshots /\ TakenSince(log, m, base[d])
        BY <1>d, <1>s, <3>1, <3>5 DEF IsSnapshot, Joined
      <4>2. base'[d] = m.seq /\ got'[d] = got[d] \ 1..m.seq
        BY <2>1, <2>2, <3>5 DEF ReceiveSnapshot, TypeOK
      <4>3. base'[d] <= seq' /\ got'[d] \subseteq 1..seq'
        BY <1>d, <1>l, <2>1, <4>1, <4>2 DEF TakenSince, Joined
      <4>4. Plain(send'[d])
        BY <3>2, <3>5 DEF IsSnapshot
      <4>5. \A k \in Range(send'[d]) \ Ops : TakenSince(log', k, base'[d])
        BY <4>4 DEF Plain
      <4> QED BY <1>d, <2>1, <3>2, <3>3, <3>4, <4>3, <4>5 DEF Joined
    <3>6. CASE ~IsSnapshot(m)
      <4>1. Logged(log, m)
        BY <2>2, <3>1, <3>6 DEF IsSnapshot, TransitInv
      <4>2. base' = base /\ got'[d] \subseteq got[d] \cup {m.seq}
        BY <2>1, <2>2, <3>6 DEF ReceiveOp, TypeOK
      <4>3. base'[d] <= seq' /\ got'[d] \subseteq 1..seq'
        BY <1>d, <1>l, <2>1, <4>1, <4>2 DEF Logged, Joined
      <4>5. \A k \in Range(send'[d]) \ Ops : TakenSince(log', k, base'[d])
        BY <1>d, <2>1, <3>1, <4>2 DEF Joined
      <4> QED BY <1>d, <2>1, <3>2, <3>3, <3>4, <4>3, <4>5 DEF Joined
    <3> QED BY <3>5, <3>6
  <2>3. CASE d # c
    <3>1. base'[d] = base[d] /\ got'[d] = got[d] /\ send'[d] = send[d]
      BY <2>1, <2>3 DEF ReceiveSnapshot, ReceiveOp, TypeOK
    <3> QED BY <2>1, <3>1, JoinedKept
  <2> QED BY <2>2, <2>3
<1>12. ASSUME NEW i \in Servers, OpenBoard(i) PROVE Joined(d)'
  <2>1. UNCHANGED <<conn, at, send, base, got, held>> /\ board[i] = "closed"
    BY <1>12 DEF OpenBoard, joinVars, clientVars
  <2>2. conn[d] # "off" => at[d] # i
    BY <1>d, <2>1 DEF Joined
  <2>3. conn[d] # "off" => board'[at[d]] = board[at[d]]
    BY <1>12, <2>2 DEF OpenBoard, TypeOK
  <2> QED BY <2>1, <2>3, <1>f
<1>13. ASSUME NEW i \in Servers, Dispatch(i) PROVE Joined(d)'
  <2> DEFINE full == {c \in Registered(i) : Full(c)}
             m == Head(sub[i])
  <2>1. /\ sub[i] # << >> /\ Drop(full)
        /\ send'[d] = IF d \in full THEN << >>
                      ELSE IF d \in Registered(i) THEN Append(send[d], m)
                      ELSE send[d]
    BY <1>13 DEF Dispatch
  <2>2. m \in Ops /\ m \in Messages
    BY <2>1, QueueTypes DEF TypeOK, Messages
  <2> HIDE DEF full, m
  <2>3. CASE d \in full \/ d \notin Registered(i)
    BY <2>1, <2>3, DropClient, JoinedKept
  <2>4. CASE d \notin full /\ d \in Registered(i)
    <3>1. at[d] = i /\ conn[d] # "off" /\ send'[d] = Append(send[d], m)
      BY <1>d, <2>1, <2>4, SyncNames DEF Joined, Registered, Connected
    <3>2. /\ conn'[d] = conn[d] /\ at'[d] = at[d] /\ base'[d] = base[d]
          /\ got'[d] = got[d] /\ held'[d] = held[d] /\ seq' = seq /\ log' = log
          /\ board'[at[d]] = board[at[d]]
      BY <2>1, <2>4, <3>1, DropClient
    <3>3. Range(send'[d]) = Range(send[d]) \cup {m}
      BY <1>t, <2>2, <3>1, AppendRange
    <3>4. OneSnapshot(send'[d])
      BY <1>d, <1>t, <2>2, <3>1, SnapshotQueue DEF Joined
    <3>5. Plain(send[d]) => Plain(send'[d])
      BY <2>2, <3>3 DEF Plain
    <3>6. \A k \in Range(send'[d]) \ Ops : TakenSince(log', k, base'[d])
      BY <1>d, <2>2, <3>2, <3>3 DEF Joined
    <3> QED BY <1>d, <3>1, <3>2, <3>4, <3>5, <3>6 DEF Joined
  <2> QED BY <2>3, <2>4
<1>14. ASSUME NEW i \in Servers, Crash(i) PROVE Joined(d)'
  <2>1. /\ Drop(Connected(i))
        /\ send'[d] = IF d \in Connected(i) THEN << >> ELSE send[d]
    BY <1>14 DEF Crash
  <2> QED BY <2>1, DropClient, JoinedKept
<1>15. CASE UNCHANGED vars
  BY <1>15, <1>f DEF vars, boardVars, joinVars, clientVars
<1> QED BY <1>1, <1>2, <1>3, <1>4, <1>5, <1>6, <1>7, <1>8, <1>9, <1>10, <1>11,
           <1>12, <1>13, <1>14, <1>15 DEF Next

----------------------------------------------------------------------------
(* No operation goes missing on the way.                                   *)

(* Connections that end misplace nothing for the others.                   *)
LEMMA HangupPlaced ==
  ASSUME TypeOK, JoinInv, NEW S, Hangup(S), NEW c \in Clients, conn'[c] # "off",
         NEW n, Placed(c, n)
  PROVE  Placed(c, n)'
<1>1. /\ Drop(S) /\ sub' = Ended(S, sub) /\ lost' = Forgotten(S, lost) /\ pub' = pub
      /\ send'[c] = IF c \in S THEN << >> ELSE send[c]
  BY DEF Hangup
<1>2. c \notin S /\ conn[c] # "off"
  BY <1>1, DropClient
<1>3. /\ at'[c] = at[c] /\ base'[c] = base[c] /\ got'[c] = got[c]
      /\ sub'[at[c]] = sub[at[c]] /\ lost'[at[c]] = lost[at[c]]
      /\ send'[c] = send[c]
  BY <1>1, <1>2, DropClient
<1> QED BY <1>1, <1>3 DEF Placed

(* An operation is placed for every client that is connected to a          *)
(* subscribed board: it is sequenced by one read pump, published to the    *)
(* subscriptions, dispatched to the queues and received, and nowhere in    *)
(* between does it get lost unnoticed, whichever connections end           *)
(* meanwhile; the fetch after the registration covers what came before.    *)
LEMMA GapStep ==
  TypeOK /\ TransitInv /\ JoinInv /\ GapInv /\ [Next]_vars => GapInv'
<1> SUFFICES ASSUME TypeOK, TransitInv, JoinInv, GapInv, [Next]_vars, NEW d \in Clients,
                    conn'[d] # "off", board'[at'[d]] = "open", NEW n \in 1..seq'
             PROVE  Placed(d, n)'
  BY DEF GapInv
<1>d. Joined(d)
  BY DEF JoinInv
<1>t. /\ send[d] \in Seq(Messages) /\ Range(send[d]) \subseteq Messages
      /\ base[d] \in Nat /\ seq \in Nat /\ held[d] \in Messages
  BY SyncBounds, RangeOfSeq DEF TypeOK, Messages
<1>k. ASSUME UNCHANGED seq, conn'[d] = conn[d], at'[d] = at[d],
             board'[at[d]] = board[at[d]]
      PROVE  Placed(d, n) /\ at[d] \in Servers
  BY <1>d, <1>k DEF GapInv, Joined, TypeOK
<1>f. ASSUME UNCHANGED <<seq, conn, at, board, send, sub, pub, lost, base, got>>
      PROVE  Placed(d, n)'
  BY <1>f, <1>k DEF Placed
<1>1. ASSUME NEW c \in Clients, NEW x \in Shapes, Draw(c, x) PROVE Placed(d, n)'
  BY <1>1, <1>f DEF Draw, brokerVars, boardVars, joinVars
<1>2. ASSUME NEW c \in Clients, NEW x \in Shapes, NEW del \in BOOLEAN, Edit(c, x, del)
      PROVE  Placed(d, n)'
  BY <1>2, <1>f DEF Edit, brokerVars, boardVars, joinVars, clientVars
<1>3. ASSUME NEW c \in Clients, ApplyShape(c) PROVE Placed(d, n)'
  <2> DEFINE op == [seq |-> seq + 1, id |-> out[c].id, del |-> out[c].del]
  <2>1. /\ seq' = seq + 1 /\ pub' = [pub EXCEPT ![c] = op] /\ pub[c] = None
        /\ UNCHANGED <<conn, at, board, send, sub, lost, base, got>>
    BY <1>3 DEF ApplyShape, ReadsRequest, boardVars, joinVars, clientVars
  <2>2. seq + 1 \in 1..MaxOps /\ out[c] \in Requests
    BY <1>3, SyncBounds DEF ApplyShape, ReadsRequest, TypeOK
  <2>3. op \in Ops /\ op.seq = seq + 1 /\ op # None
    BY <2>2, SyncNames DEF Ops, Requests
  <2> HIDE DEF op
  <2>4. pub'[c] = op /\ \A e \in Clients : e # c => pub'[e] = pub[e]
    BY <2>1 DEF TypeOK
  <2>5. CASE n = seq + 1
    BY <2>3, <2>4, <2>5 DEF Placed
  <2>6. CASE n # seq + 1
    <3>1. n \in 1..seq
      BY <1>t, <2>1, <2>6
    <3>2. Placed(d, n)
      BY <2>1, <3>1 DEF GapInv
    <3>3. (\E e \in Clients : pub[e] # None /\ pub[e].seq = n)
            => \E e \in Clients : pub'[e] # None /\ pub'[e].seq = n
      BY <2>1, <2>4
    <3> QED BY <2>1, <3>2, <3>3 DEF Placed
  <2> QED BY <2>5, <2>6
<1>4. ASSUME NEW c \in Clients, ApplyError(c) PROVE Placed(d, n)'
  BY <1>4, <1>f DEF ApplyError, brokerVars, boardVars, joinVars
<1>5. ASSUME NEW c \in Clients, NEW miss \in SUBSET Servers, Publish(c, miss)
      PROVE  Placed(d, n)'
  <2> DEFINE i == at[d]
  <2>1. /\ pub[c] # None /\ pub' = [pub EXCEPT ![c] = None]
        /\ UNCHANGED <<seq, conn, at, board, send, base, got>>
    BY <1>5 DEF Publish, brokerVars, joinVars, clientVars
  <2>2. Placed(d, n) /\ i \in Servers /\ board[i] = "open" /\ pub[c] \in Ops
    BY <2>1, <1>k DEF TypeOK
  <2> HIDE DEF i
  <2>3. \/ sub'[i] = Append(sub[i], pub[c]) /\ lost'[i] = lost[i]
        \/ sub'[i] = sub[i] /\ lost'[i] = lost[i] \cup {pub[c].seq}
    BY <1>5, <2>2 DEF Publish
  <2>4. Range(Append(sub[i], pub[c])) = Range(sub[i]) \cup {pub[c]}
    BY <2>2, AppendRange DEF TypeOK
  <2>5. Carries(sub[i], n) => Carries(sub'[i], n)
    BY <2>3, <2>4 DEF Carries
  <2>6. pub[c].seq = n => Carries(sub'[i], n) \/ n \in lost'[i]
    BY <2>2, <2>3, <2>4 DEF Carries
  <2>7. \A e \in Clients : e # c => pub'[e] = pub[e]
    BY <2>1 DEF TypeOK
  <2>8. lost[i] \subseteq lost'[i]
    BY <2>3
  <2> QED BY <2>1, <2>2, <2>5, <2>6, <2>7, <2>8 DEF Placed, i
<1>6. ASSUME NEW c \in Clients, NEW i \in Servers, Register(c, i) PROVE Placed(d, n)'
  <2>1. UNCHANGED <<seq, board, send, sub, pub, lost>>
    BY <1>6 DEF Register, brokerVars, boardVars
  <2>2. CASE d = c
    <3>1. base'[d] = seq
      BY <1>6, <2>2 DEF Register, TypeOK
    <3> QED BY <1>t, <2>1, <3>1 DEF Placed
  <2>3. CASE d # c
    <3>1. conn'[d] = conn[d] /\ at'[d] = at[d] /\ base'[d] = base[d] /\ got'[d] = got[d]
      BY <1>6, <2>3 DEF Register, TypeOK
    <3> QED BY <2>1, <3>1, <1>k DEF Placed
  <2> QED BY <2>2, <2>3
<1>7. ASSUME NEW c \in Clients, FetchSnapshot(c) PROVE Placed(d, n)'
  <2>1. UNCHANGED <<seq, at, board, send, sub, pub, lost, base, got>>
    BY <1>7 DEF FetchSnapshot, brokerVars, boardVars, clientVars
  <2>2. conn[d] # "off"
    BY <1>7 DEF FetchSnapshot, TypeOK
  <2>3. Placed(d, n)
    BY <2>1, <2>2 DEF GapInv
  <2> QED BY <2>1, <2>3 DEF Placed
<1>8. ASSUME NEW c \in Clients, FetchError(c) PROVE Placed(d, n)'
  <2>1. UNCHANGED <<seq, at, board, send, sub, pub, lost, base, got>>
    BY <1>8 DEF FetchError, brokerVars, boardVars, clientVars
  <2>2. conn[d] # "off"
    BY <1>8 DEF FetchError, TypeOK
  <2>3. Placed(d, n)
    BY <2>1, <2>2 DEF GapInv
  <2> QED BY <2>1, <2>3 DEF Placed
<1>h. ASSUME NEW c \in Clients, Hangup({c}) PROVE Placed(d, n)'
  <2>1. Drop({c})
    BY <1>h DEF Hangup
  <2>2. d # c /\ conn[d] # "off"
    BY <2>1, DropClient
  <2>3. UNCHANGED seq /\ conn'[d] = conn[d] /\ at'[d] = at[d] /\ board'[at[d]] = board[at[d]]
    BY <2>1, <2>2, DropClient
  <2> QED BY <1>h, <2>3, <1>k, HangupPlaced
<1>9. ASSUME NEW c \in Clients, DeliverSnapshot(c) PROVE Placed(d, n)'
  <2>1. CASE ~Hangup({c})
    <3>1. /\ conn[c] = "fetched"
          /\ send' = [send EXCEPT ![c] = Append(@, held[c])]
          /\ conn' = [conn EXCEPT ![c] = "ready"]
          /\ UNCHANGED <<seq, at, board, sub, pub, lost, base, got>>
      BY <1>9, <2>1 DEF DeliverSnapshot, brokerVars, boardVars, clientVars
    <3>2. conn[d] # "off"
      BY <3>1 DEF TypeOK
    <3>3. Placed(d, n)
      BY <3>1, <3>2 DEF GapInv
    <3>4. Range(Append(send[d], held[d])) = Range(send[d]) \cup {held[d]}
      BY <1>t, AppendRange
    <3>5. send'[d] = send[d] \/ send'[d] = Append(send[d], held[d])
      BY <3>1 DEF TypeOK
    <3>6. Carries(send[d], n) => Carries(send'[d], n)
      BY <3>4, <3>5 DEF Carries
    <3> QED BY <3>1, <3>3, <3>6 DEF Placed
  <2> QED BY <1>h, <2>1
<1>10. ASSUME NEW c \in Clients, Disconnect(c) PROVE Placed(d, n)'
  BY <1>10, <1>h DEF Disconnect
<1>11. ASSUME NEW c \in Clients, Receive(c) PROVE Placed(d, n)'
  <2> DEFINE m == Head(send[c])
  <2>1. /\ send[c] # << >> /\ send' = [send EXCEPT ![c] = Tail(@)]
        /\ IF IsSnapshot(m) THEN ReceiveSnapshot(c, m) ELSE ReceiveOp(c, m)
        /\ UNCHANGED <<conn, at, board, sub, pub, lost, seq>>
    BY <1>11 DEF Receive, brokerVars, boardVars, joinVars
  <2>2. Placed(d, n)
    BY <2>1, <1>k
  <2>3. CASE d = c
    <3>1. send'[d] = Tail(send[d]) /\ Range(send[d]) = Range(Tail(send[d])) \cup {m}
      BY <1>t, <2>1, <2>3, TailRange DEF TypeOK
    <3> HIDE DEF m
    <3>2. CASE IsSnapshot(m)
      <4>1. m \notin Ops /\ m \in Messages /\ m \in Range(send[d])
        BY <1>t, <3>1, <3>2 DEF IsSnapshot
      <4>2. m.seq \in Nat /\ base[d] <= m.seq
        BY <1>d, <4>1, SyncBounds DEF Messages, Snapshots, Joined, TakenSince
      <4>3. base'[d] = m.seq /\ got'[d] = got[d] \ 1..m.seq
        BY <2>1, <2>3, <3>2 DEF ReceiveSnapshot, TypeOK
      <4>4. Carries(send[d], n) => Carries(send'[d], n)
        BY <3>1, <4>1 DEF Carries
      <4>5. n <= base[d] \/ n \in got[d] => n <= base'[d] \/ n \in got'[d]
        BY <1>t, <4>2, <4>3
      <4> QED BY <2>1, <2>2, <4>4, <4>5 DEF Placed
    <3>3. CASE ~IsSnapshot(m)
      <4>1. m \in Ops
        BY <3>3 DEF IsSnapshot
      <4>2. base' = base /\ got'[d] = got[d] \cup ({m.seq} \ 1..base[d])
        BY <2>1, <2>3, <3>3 DEF ReceiveOp, TypeOK
      <4>3. Carries(send[d], n) => Carries(send'[d], n) \/ m.seq = n
        BY <3>1 DEF Carries
      <4>4. m.seq = n => n <= base'[d] \/ n \in got'[d]
        BY <1>t, <4>1, <4>2 DEF Ops
      <4> QED BY <2>1, <2>2, <4>2, <4>3, <4>4 DEF Placed
    <3> QED BY <3>2, <3>3
  <2>4. CASE d # c
    <3>1. base'[d] = base[d] /\ got'[d] = got[d] /\ send'[d] = send[d]
      BY <2>1, <2>4 DEF ReceiveSnapshot, ReceiveOp, TypeOK
    <3> QED BY <2>1, <2>2, <3>1 DEF Placed
  <2> QED BY <2>3, <2>4
<1>12. ASSUME NEW i \in Servers, OpenBoard(i) PROVE Placed(d, n)'
  <2>1. /\ UNCHANGED <<seq, conn, at, send, sub, pub, lost, base, got>>
        /\ board[i] = "closed"
    BY <1>12 DEF OpenBoard, brokerVars, joinVars, clientVars
  <2>2. at[d] # i
    BY <1>d, <2>1 DEF Joined
  <2>3. board'[at[d]] = board[at[d]]
    BY <1>12, <2>2 DEF OpenBoard, TypeOK
  <2> QED BY <2>1, <2>3, <1>k DEF Placed
<1>13. ASSUME NEW i \in Servers, Dispatch(i) PROVE Placed(d, n)'
  <2> DEFINE full == {c \in Registered(i) : Full(c)}
             m == Head(sub[i])
             next == [sub EXCEPT ![i] = Tail(@)]
  <2>1. /\ sub[i] # << >> /\ Drop(full)
        /\ sub' = Ended(full, next) /\ lost' = Forgotten(full, lost)
        /\ send'[d] = IF d \in full THEN << >>
                      ELSE IF d \in Registered(i) THEN Append(send[d], m)
                      ELSE send[d]
        /\ UNCHANGED pub
    BY <1>13 DEF Dispatch
  <2>2. m \in Ops /\ m \in Messages /\ Range(sub[i]) = Range(Tail(sub[i])) \cup {m}
    BY <2>1, QueueTypes, TailRange DEF TypeOK, Messages
  <2>3. next[i] = Tail(sub[i]) /\ \A j \in Servers : j # i => next[j] = sub[j]
    BY DEF TypeOK
  <2> HIDE DEF full, m, next
  <2>4. d \notin full /\ conn[d] # "off"
    BY <2>1, DropClient
  <2>5. /\ UNCHANGED seq /\ conn'[d] = conn[d] /\ at'[d] = at[d]
        /\ board'[at[d]] = board[at[d]]
        /\ base'[d] = base[d] /\ got'[d] = got[d]
        /\ sub'[at[d]] = next[at[d]] /\ lost'[at[d]] = lost[at[d]]
    BY <2>1, <2>4, DropClient
  <2>6. Placed(d, n) /\ at[d] \in Servers
    BY <2>5, <1>k
  <2>7. CASE at[d] = i
    <3>1. send'[d] = Append(send[d], m)
      BY <2>1, <2>4, <2>7 DEF Registered, Connected
    <3>2. Range(send'[d]) = Range(send[d]) \cup {m}
      BY <1>t, <2>2, <3>1, AppendRange
    <3>3. Carries(send[d], n) => Carries(send'[d], n)
      BY <3>2 DEF Carries
    <3>4. Carries(sub[i], n) => Carries(send'[d], n) \/ Carries(sub'[i], n)
      BY <2>2, <2>3, <2>5, <2>7, <3>2 DEF Carries
    <3> QED BY <2>1, <2>5, <2>6, <2>7, <3>3, <3>4 DEF Placed
  <2>8. CASE at[d] # i
    <3>1. send'[d] = send[d]
      BY <2>1, <2>4, <2>8 DEF Registered, Connected
    <3> QED BY <2>1, <2>3, <2>5, <2>6, <2>8, <3>1 DEF Placed
  <2> QED BY <2>7, <2>8
<1>14. ASSUME NEW i \in Servers, Crash(i) PROVE Placed(d, n)'
  <2> DEFINE dead == Connected(i)
             unpublished == {pub[c].seq : c \in {e \in dead : pub[e] # None}}
             l == [j \in Servers |-> IF board[j] = "open" THEN lost[j] \cup unpublished
                                                          ELSE lost[j]]
  <2>1. /\ Drop(dead) /\ sub' = Ended(dead, sub) /\ lost' = Forgotten(dead, l)
        /\ send'[d] = IF d \in dead THEN << >> ELSE send[d]
        /\ pub' = [c \in Clients |-> IF c \in dead THEN None ELSE pub[c]]
    BY <1>14 DEF Crash
  <2>2. ASSUME NEW e \in Clients, pub[e] # None, pub[e].seq = n
        PROVE  pub'[e] = pub[e] \/ n \in unpublished
    BY <2>1, <2>2
  <2>3. \A j \in Servers : board[j] = "open" => l[j] = lost[j] \cup unpublished
    OBVIOUS
  <2> HIDE DEF dead, l, unpublished
  <2>4. d \notin dead /\ conn[d] # "off"
    BY <2>1, DropClient
  <2>5. /\ UNCHANGED seq /\ conn'[d] = conn[d] /\ at'[d] = at[d]
        /\ board'[at[d]] = board[at[d]]
        /\ base'[d] = base[d] /\ got'[d] = got[d] /\ send'[d] = send[d]
        /\ sub'[at[d]] = sub[at[d]] /\ lost'[at[d]] = l[at[d]]
    BY <2>1, <2>4, DropClient
  <2>6. Placed(d, n) /\ at[d] \in Servers
    BY <2>5, <1>k
  <2>7. lost'[at[d]] = lost[at[d]] \cup unpublished
    BY <2>3, <2>5, <2>6
  <2> QED BY <2>2, <2>5, <2>6, <2>7 DEF Placed
<1>15. CASE UNCHANGED vars
  BY <1>15, <1>f DEF vars, brokerVars, boardVars, joinVars, clientVars
<1> QED BY <1>1, <1>2, <1>3, <1>4, <1>5, <1>6, <1>7, <1>8, <1>9, <1>10, <1>11,
           <1>12, <1>13, <1>14, <1>15 DEF Next

----------------------------------------------------------------------------
(* Replicas.                                                               *)

(* What a browser shows of a shape stays right in a step that touches      *)
(* neither its replica nor what it has heard; a request it has on the wire *)
(* may have been sequenced.                                                *)
LEMMA ShowsKept ==
  ASSUME TypeOK, JoinInv, [Next]_vars, NEW c \in Clients, NEW x \in Shapes,
         Shows(c, x), replica'[c] = replica[c], base'[c] = base[c], got'[c] = got[c],
         out[c] # None /\ out[c].id = x =>
           \/ out'[c] = out[c]
           \/ \E n \in 1..seq' : log'[n].id = x
  PROVE  Shows(c, x)'
<1>1. /\ seq \in Nat /\ seq' \in Nat /\ seq <= seq'
      /\ \A n \in 1..seq : n \in 1..seq' /\ log'[n] = log[n]
  BY LogGrows
<1>2. Heard(c)' = Heard(c)
  BY DEF Heard
<1>3. Heard(c) \subseteq 1..seq
  BY <1>1, SyncBounds DEF Heard, JoinInv, Joined, TypeOK
<1>4. \A n \in Heard(c) : log'[n] = log[n]
  BY <1>1, <1>3
<1>5. CASE Version(log, x, replica[c][x], Heard(c))
  <2> DEFINE K == Heard(c)  v == replica[c][x]
  <2>1. Version(log, x, v, K) /\ \A n \in K : log'[n] = log[n]
    BY <1>4, <1>5
  <2>2. K \subseteq K /\ \A n \in K \ K : log'[n].id # x
    OBVIOUS
  <2> HIDE DEF K, v
  <2>3. Version(log', x, v, K)
    BY <2>1, <2>2, VersionKept
  <2>4. Version(log', x, replica'[c][x], Heard(c)')
    BY <1>2, <2>3 DEF K, v
  <2> QED BY <2>4 DEF Shows
<1>6. CASE Awaited(c, x)
  <2>1. replica'[c][x] = 0 /\ \A n \in Heard(c)' : log'[n].id # x
    BY <1>2, <1>4, <1>6 DEF Awaited
  <2>2. \/ out'[c] # None /\ out'[c].id = x
        \/ \E n \in 1..seq' : log'[n].id = x
    BY <1>1, <1>6 DEF Awaited
  <2>3. Awaited(c, x)'
    BY <2>1, <2>2 DEF Awaited
  <2> QED BY <2>3 DEF Shows
<1> QED BY <1>5, <1>6 DEF Shows

(* Last-write-wins (handleMessage): an operation that no later one on the  *)
(* shape has overtaken with a delete leaves the version all heard          *)
(* operations leave, in whatever order they came.                          *)
LEMMA ReceiveOpShows ==
  ASSUME TypeOK, JoinInv, NEW c \in Clients, NEW m \in Ops, Logged(log, m),
         ReceiveOp(c, m), UNCHANGED <<log, seq, out>>,
         NEW x \in Shapes, Shows(c, x), x \notin spoiled'[c]
  PROVE  Shows(c, x)'
<1> DEFINE K == Heard(c)  L == K \cup {m.seq}  v == replica[c][x]
<1>1. /\ replica'[c] = ApplyOp(replica[c], m) /\ base'[c] = base[c]
      /\ got'[c] = got[c] \cup ({m.seq} \ 1..base[c])
      /\ spoiled'[c] = IF Overtaken(c, m) THEN spoiled[c] \cup {m.id} ELSE spoiled[c]
  BY DEF ReceiveOp, TypeOK
<1>2. Heard(c)' = L
  BY <1>1 DEF Heard
<1>3. /\ m.seq \in Nat /\ m.id \in Shapes /\ m.del \in BOOLEAN /\ log[m.seq] = m
      /\ m.seq \in 1..seq /\ seq \in Nat /\ m.seq # Absent /\ m.seq > 0
  BY SyncBounds DEF Ops, Logged, TypeOK, Absent
<1>4. K \subseteq 1..seq /\ K \subseteq Nat
  BY <1>3, SyncBounds DEF Heard, JoinInv, Joined, TypeOK
<1>5. m.id # x => replica'[c][x] = v
  BY <1>1 DEF ApplyOp, TypeOK, Documents
<1>6. m.id = x => replica'[c][x] = IF m.del THEN Absent
                                   ELSE IF v = Absent \/ m.seq >= v THEN m.seq ELSE v
  BY <1>1 DEF ApplyOp, Wins, TypeOK, Documents
<1>7. m.id = x => \A n \in K : n > m.seq /\ log[n].id = x => ~m.del /\ ~log[n].del
  BY <1>1 DEF Overtaken, Heard
<1>8. Version(log, x, v, K) \/ Awaited(c, x)
  BY DEF Shows
<1>a. Awaited(c, x) => /\ v = 0 /\ \A n \in K : log[n].id # x
                       /\ \/ out[c] # None /\ out[c].id = x
                          \/ \E n \in 1..seq : log[n].id = x
  BY DEF Awaited
<1>s. Version(log, x, replica'[c][x], L) => Shows(c, x)'
  BY <1>2 DEF Shows
<1>w. Heard(c)' = L /\ (Awaited(c, x)' => Shows(c, x)')
  BY <1>2 DEF Shows
<1>v. v \in Int
  BY DEF TypeOK, Documents
<1> HIDE DEF K, v
<1>9. CASE m.id # x
  <2>1. CASE Version(log, x, v, K)
    <3>1. K \subseteq L /\ (\A n \in K : log[n] = log[n]) /\ \A n \in L \ K : log[n].id # x
      BY <1>3, <1>9
    <3> HIDE DEF L
    <3>2. Version(log, x, v, L)
      BY <2>1, <3>1, VersionKept
    <3> QED BY <1>5, <1>9, <1>s, <3>2
  <2>2. CASE Awaited(c, x)
    <3>1. replica'[c][x] = 0 /\ \A n \in L : log[n].id # x
      BY <1>3, <1>5, <1>9, <1>a, <2>2
    <3>2. Awaited(c, x)'
      BY <1>w, <1>a, <2>2, <3>1 DEF Awaited
    <3> QED BY <1>w, <3>2
  <2> QED BY <1>8, <2>1, <2>2
<1>10. CASE m.id = x /\ \A n \in K : log[n].id = x => n <= m.seq
  <2>1. replica'[c][x] = IF m.del THEN Absent ELSE m.seq
    <3>1. CASE Awaited(c, x)
      BY <1>3, <1>6, <1>10, <1>a, <3>1
    <3>2. CASE Version(log, x, v, K)
      <4>1. v = Absent \/ v <= m.seq
        BY <1>10, <3>2 DEF Version
      <4> QED BY <1>3, <1>6, <1>10, <1>v, <4>1
    <3> QED BY <1>8, <3>1, <3>2
  <2>2. /\ m.seq \in L /\ log[m.seq].id = x
        /\ \A n \in L : log[n].id = x => n <= m.seq
        /\ replica'[c][x] = IF log[m.seq].del THEN Absent ELSE m.seq
    BY <1>3, <1>10, <2>1
  <2> HIDE DEF L
  <2>3. Version(log, x, replica'[c][x], L)
    BY <2>2 DEF Version
  <2> QED BY <1>s, <2>3
<1>11. CASE m.id = x /\ \E n \in K : log[n].id = x /\ n > m.seq
  <2>1. ~Awaited(c, x)
    BY <1>a, <1>11
  <2>2. PICK k \in K : /\ log[k].id = x
                       /\ \A n \in K : log[n].id = x => n <= k
                       /\ v = IF log[k].del THEN Absent ELSE k
    BY <1>8, <1>11, <2>1 DEF Version
  <2>3. k > m.seq /\ k \in Nat
    BY <1>3, <1>4, <1>11, <2>2
  <2>4. ~m.del /\ ~log[k].del
    BY <1>7, <1>11, <2>2, <2>3
  <2>5. v = k /\ replica'[c][x] = k
    BY <1>3, <1>6, <1>11, <2>2, <2>3, <2>4 DEF Absent
  <2>6. k \in L /\ \A n \in L : log[n].id = x => n <= k
    BY <1>3, <2>2, <2>3
  <2> HIDE DEF L
  <2>7. Version(log, x, replica'[c][x], L)
    BY <2>2, <2>4, <2>5, <2>6 DEF Version
  <2> QED BY <1>s, <2>7
<1> QED BY <1>3, <1>4, <1>9, <1>10, <1>11

(* A snapshot is the version of every shape at its sequence number, and    *)
(* what came live after that moment and is wiped by it is spoiled.         *)
LEMMA ReceiveSnapshotShows ==
  ASSUME TypeOK, JoinInv, NEW c \in Clients, NEW m \in Snapshots,
         TakenSince(log, m, base[c]), ReceiveSnapshot(c, m), UNCHANGED log,
         NEW x \in Shapes, x \notin spoiled'[c]
  PROVE  Shows(c, x)'
<1> DEFINE K == 1..m.seq  L == K \cup (got[c] \ K)  v == m.shapes[x]
<1>1. /\ replica'[c] = m.shapes /\ base'[c] = m.seq /\ got'[c] = got[c] \ K
      /\ spoiled'[c] = {log[n].id : n \in {k \in got[c] : k > m.seq}}
  BY DEF ReceiveSnapshot, TypeOK
<1>2. Heard(c)' = L
  BY <1>1 DEF Heard
<1>3. Version(log, x, v, K)
  BY DEF TakenSince
<1>4. \A n \in got[c] \ K : log[n].id # x
  <2>1. m.seq \in Nat /\ \A n \in got[c] : n \in Nat /\ n >= 1
    BY SyncBounds DEF Snapshots, TypeOK
  <2>2. \A n \in got[c] \ K : n > m.seq
    BY <2>1
  <2> QED BY <1>1, <2>2
<1>5. replica'[c][x] = v
  BY <1>1
<1> HIDE DEF K, v
<1>6. K \subseteq L /\ (\A n \in K : log[n] = log[n]) /\ \A n \in L \ K : log[n].id # x
  BY <1>4
<1> HIDE DEF L
<1>7. Version(log, x, v, L)
  BY <1>3, <1>6, VersionKept
<1> QED BY <1>2, <1>5, <1>7 DEF Shows

(* A browser that has its snapshot shows, of every shape that is not       *)
(* spoiled, what the operations it has heard of make of it.                *)
LEMMA ReplicaStep ==
  TypeOK /\ BrokerInv /\ TransitInv /\ JoinInv /\ ReplicaInv /\ [Next]_vars => ReplicaInv'
<1> SUFFICES ASSUME TypeOK, BrokerInv, TransitInv, JoinInv, ReplicaInv, [Next]_vars,
                    NEW d \in Clients, NEW y \in Shapes, Synced(d)', y \notin spoiled'[d]
             PROVE  Shows(d, y)'
  BY DEF ReplicaInv
<1>d. Joined(d) /\ conn'[d] = "ready" /\ Plain(send'[d])
  BY DEF JoinInv, Synced
<1>t. /\ send[d] \in Seq(Messages) /\ Range(send[d]) \subseteq Messages
      /\ held[d] \in Messages /\ held[d] \notin Ops
  BY RangeOfSeq, Distinct DEF TypeOK, Messages
<1>k. ASSUME conn[d] = "ready", Plain(send[d]), y \notin spoiled[d] PROVE Shows(d, y)
  BY <1>k DEF ReplicaInv, Synced
<1>f. ASSUME conn'[d] = conn[d], send'[d] = send[d], spoiled'[d] = spoiled[d],
             out'[d] = out[d], replica'[d] = replica[d], base'[d] = base[d], got'[d] = got[d]
      PROVE  Shows(d, y)'
  BY <1>d, <1>f, <1>k, ShowsKept
<1>1. ASSUME NEW c \in Clients, NEW x \in Shapes, Draw(c, x) PROVE Shows(d, y)'
  <2>1. /\ UNCHANGED <<conn, send, spoiled, base, got, seq, log>> /\ out[c] = None
        /\ x \notin used
    BY <1>1 DEF Draw, brokerVars, joinVars
  <2>2. CASE d # c
    <3>1. out'[d] = out[d] /\ replica'[d] = replica[d]
      BY <1>1, <2>2 DEF Draw, SendRequest, TypeOK
    <3> QED BY <2>1, <3>1, <1>f
  <2>3. CASE d = c /\ y # x
    <3>1. Shows(d, y)
      BY <1>d, <1>k, <2>1
    <3>2. replica'[d][y] = replica[d][y] /\ out[d] = None
      BY <1>1, <2>1, <2>3 DEF Draw, TypeOK, Documents
    <3>3. Heard(d)' = Heard(d)
      BY <2>1 DEF Heard
    <3> QED BY <2>1, <3>1, <3>2, <3>3 DEF Shows, Awaited
  <2>4. CASE d = c /\ y = x
    <3>1. replica'[d][y] = 0 /\ out'[d] = [id |-> x, del |-> FALSE] /\ conn[d] = "ready"
      BY <1>1, <1>d, <2>1, <2>4 DEF Draw, SendRequest, TypeOK, Documents
    <3>2. out'[d] # None /\ out'[d].id = y
      <4>1. out'[d] \in Requests /\ out'[d].id = x
        BY <3>1 DEF Requests
      <4>2. None \notin Requests
        BY SyncNames
      <4> QED BY <2>4, <4>1, <4>2
    <3>3. Heard(d) \subseteq 1..seq /\ Heard(d)' = Heard(d)
      BY <1>d, <2>1, SyncBounds DEF Heard, Joined, TypeOK
    <3>4. \A n \in Heard(d)' : log'[n].id # y
      BY <2>1, <2>4, <3>3 DEF BrokerInv
    <3>5. Awaited(d, y)'
      BY <3>1, <3>2, <3>4 DEF Awaited
    <3> QED BY <3>5 DEF Shows
  <2> QED BY <2>2, <2>3, <2>4
<1>2. ASSUME NEW c \in Clients, NEW x \in Shapes, NEW del \in BOOLEAN, Edit(c, x, del)
      PROVE  Shows(d, y)'
  <2>1. UNCHANGED <<conn, send, spoiled, replica, base, got>> /\ out[c] = None
    BY <1>2 DEF Edit, joinVars, clientVars
  <2>2. out[d] # None => out'[d] = out[d]
    BY <1>2, <2>1 DEF Edit, SendRequest, TypeOK
  <2> QED BY <1>d, <1>k, <2>1, <2>2, ShowsKept
<1>3. ASSUME NEW c \in Clients, ApplyShape(c) PROVE Shows(d, y)'
  <2> DEFINE op == [seq |-> seq + 1, id |-> out[c].id, del |-> out[c].del]
  <2>1. /\ UNCHANGED <<conn, send, spoiled, replica, base, got>>
        /\ seq' = seq + 1 /\ log' = Append(log, op) /\ out' = [out EXCEPT ![c] = None]
    BY <1>3 DEF ApplyShape, ReadsRequest, joinVars, clientVars
  <2>2. out[c] \in Requests /\ seq + 1 \in 1..MaxOps /\ Len(log) = seq /\ log \in Seq(Ops)
    BY <1>3, SyncBounds DEF ApplyShape, ReadsRequest, TypeOK
  <2>3. op \in Ops /\ op.id = out[c].id
    BY <2>2 DEF Ops, Requests
  <2> HIDE DEF op
  <2>4. seq + 1 \in 1..seq' /\ log'[seq + 1].id = out[c].id
    BY <2>1, <2>2, <2>3, QueueTypes
  <2>5. d # c => out'[d] = out[d]
    BY <2>1 DEF TypeOK
  <2>6. out[d] # None /\ out[d].id = y =>
          out'[d] = out[d] \/ \E n \in 1..seq' : log'[n].id = y
    BY <2>4, <2>5
  <2> QED BY <1>d, <1>k, <2>1, <2>6, ShowsKept
<1>4. ASSUME NEW c \in Clients, ApplyError(c) PROVE Shows(d, y)'
  <2>1. UNCHANGED <<conn, send, replica, base, got>>
    BY <1>4 DEF ApplyError, joinVars
  <2>2. /\ spoiled[d] \subseteq spoiled'[d]
        /\ d # c => out'[d] = out[d]
        /\ d = c => out[d].id \in spoiled'[d]
    BY <1>4 DEF ApplyError, ReadsRequest, TypeOK
  <2> QED BY <1>d, <1>k, <2>1, <2>2, ShowsKept
<1>5. ASSUME NEW c \in Clients, NEW miss \in SUBSET Servers, Publish(c, miss)
      PROVE  Shows(d, y)'
  BY <1>5, <1>f DEF Publish, joinVars, clientVars
<1>6. ASSUME NEW c \in Clients, NEW i \in Servers, Register(c, i) PROVE Shows(d, y)'
  <2>1. d # c
    BY <1>6, <1>d DEF Register, TypeOK
  <2> QED BY <1>6, <1>f, <2>1 DEF Register, TypeOK
<1>7. ASSUME NEW c \in Clients, FetchSnapshot(c) PROVE Shows(d, y)'
  <2>1. d # c
    BY <1>7, <1>d DEF FetchSnapshot, TypeOK
  <2> QED BY <1>7, <1>f, <2>1 DEF FetchSnapshot, TypeOK, clientVars
<1>8. ASSUME NEW c \in Clients, FetchError(c) PROVE Shows(d, y)'
  <2>1. d # c
    BY <1>8, <1>d DEF FetchError, TypeOK
  <2> QED BY <1>8, <1>f, <2>1 DEF FetchError, TypeOK, clientVars
<1>h. ASSUME NEW S, Drop(S), d \notin S => Plain(send'[d]) = Plain(send[d])
      PROVE  Shows(d, y)'
  <2>1. d \notin S
    BY <1>d, <1>h, DropClient
  <2>2. /\ conn'[d] = conn[d] /\ spoiled'[d] = spoiled[d] /\ out'[d] = out[d]
        /\ base'[d] = base[d] /\ got'[d] = got[d] /\ replica' = replica
    BY <1>h, <2>1, DropClient
  <2> QED BY <1>d, <1>h, <1>k, <2>1, <2>2, ShowsKept
<1>9. ASSUME NEW c \in Clients, DeliverSnapshot(c) PROVE Shows(d, y)'
  <2>1. CASE Hangup({c})
    BY <2>1, <1>h DEF Hangup
  <2>2. CASE ~Hangup({c})
    <3>1. /\ send' = [send EXCEPT ![c] = Append(@, held[c])]
          /\ conn' = [conn EXCEPT ![c] = "ready"]
          /\ UNCHANGED <<out, replica, base, got, spoiled>>
      BY <1>9, <2>2 DEF DeliverSnapshot, clientVars
    <3>2. d # c
      <4>1. Range(Append(send[d], held[d])) = Range(send[d]) \cup {held[d]}
        BY <1>t, AppendRange
      <4> QED BY <1>d, <1>t, <3>1, <4>1 DEF Plain, TypeOK
    <3> QED BY <3>1, <3>2, <1>f DEF TypeOK
  <2> QED BY <2>1, <2>2
<1>10. ASSUME NEW c \in Clients, Disconnect(c) PROVE Shows(d, y)'
  BY <1>10, <1>h DEF Disconnect, Hangup
<1>11. ASSUME NEW c \in Clients, Receive(c) PROVE Shows(d, y)'
  <2> DEFINE m == Head(send[c])
  <2>1. /\ send[c] # << >> /\ send' = [send EXCEPT ![c] = Tail(@)]
        /\ IF IsSnapshot(m) THEN ReceiveSnapshot(c, m) ELSE ReceiveOp(c, m)
        /\ UNCHANGED <<conn, seq, log, out>>
    BY <1>11 DEF Receive, brokerVars, joinVars
  <2>2. CASE d = c
    <3>1. send'[d] = Tail(send[d]) /\ Range(send[d]) = Range(Tail(send[d])) \cup {m}
      BY <1>t, <2>1, <2>2, TailRange DEF TypeOK
    <3> HIDE DEF m
    <3>2. CASE IsSnapshot(m)
      <4>1. m \in Snapshots /\ TakenSince(log, m, base[d])
        BY <1>d, <1>t, <3>1, <3>2 DEF IsSnapshot, Joined, Messages
      <4>2. ReceiveSnapshot(d, m)
        BY <2>1, <2>2, <3>2
      <4> QED BY <2>1, <4>1, <4>2, ReceiveSnapshotShows
    <3>3. CASE ~IsSnapshot(m)
      <4>1. m \in Ops /\ Logged(log, m)
        BY <3>1, <3>3 DEF IsSnapshot, TransitInv
      <4>2. ReceiveOp(d, m)
        BY <2>1, <2>2, <3>3
      <4>3. Plain(send[d])
        BY <1>d, <3>1, <4>1 DEF Plain
      <4>4. spoiled[d] \subseteq spoiled'[d]
        BY <4>2 DEF ReceiveOp, TypeOK
      <4>5. Shows(d, y)
        BY <1>d, <1>k, <2>1, <4>3, <4>4
      <4> QED BY <2>1, <4>1, <4>2, <4>5, ReceiveOpShows
    <3> QED BY <3>2, <3>3
  <2>3. CASE d # c
    <3>1. /\ base'[d] = base[d] /\ got'[d] = got[d] /\ send'[d] = send[d]
          /\ replica'[d] = replica[d] /\ spoiled'[d] = spoiled[d]
      BY <2>1, <2>3 DEF ReceiveSnapshot, ReceiveOp, TypeOK
    <3> QED BY <2>1, <3>1, <1>f
  <2> QED BY <2>2, <2>3
<1>12. ASSUME NEW i \in Servers, OpenBoard(i) PROVE Shows(d, y)'
  BY <1>12, <1>f DEF OpenBoard, joinVars, clientVars
<1>13. ASSUME NEW i \in Servers, Dispatch(i) PROVE Shows(d, y)'
  <2> DEFINE full == {c \in Registered(i) : Full(c)}
             m == Head(sub[i])
  <2>1. /\ sub[i] # << >> /\ Drop(full)
        /\ send'[d] = IF d \in full THEN << >>
                      ELSE IF d \in Registered(i) THEN Append(send[d], m)
                      ELSE send[d]
    BY <1>13 DEF Dispatch
  <2>2. m \in Ops /\ m \in Messages
    BY <2>1, QueueTypes DEF TypeOK, Messages
  <2> HIDE DEF full, m
  <2>3. Range(Append(send[d], m)) = Range(send[d]) \cup {m}
    BY <1>t, <2>2, AppendRange
  <2>4. Plain(Append(send[d], m)) = Plain(send[d])
    BY <2>2, <2>3 DEF Plain
  <2>5. d \notin full => Plain(send'[d]) = Plain(send[d])
    BY <2>1, <2>4
  <2> QED BY <1>h, <2>1, <2>5
<1>14. ASSUME NEW i \in Servers, Crash(i) PROVE Shows(d, y)'
  BY <1>14, <1>h DEF Crash
<1>15. CASE UNCHANGED vars
  BY <1>15, <1>f DEF vars, joinVars, clientVars
<1> QED BY <1>1, <1>2, <1>3, <1>4, <1>5, <1>6, <1>7, <1>8, <1>9, <1>10, <1>11,
           <1>12, <1>13, <1>14, <1>15 DEF Next

----------------------------------------------------------------------------
(* Theorems.                                                               *)

(* The invariant holds with nobody connected and nothing sequenced.        *)
LEMMA InductiveInit == Init => SInv
<1> SUFFICES ASSUME Init PROVE SInv
  OBVIOUS
<1>1. TypeOK
  BY TypeInit
<1>2. BrokerInv /\ GapInv
  BY DEF Init, BrokerInv, GapInv, Version, Blank
<1>3. TransitInv
  BY EmptyQueue DEF Init, TransitInv
<1>4. JoinInv
  <2> SUFFICES ASSUME NEW c \in Clients PROVE Joined(c)
    BY DEF JoinInv
  <2>1. /\ conn[c] = "off" /\ at[c] = None /\ send[c] = << >>
        /\ base[c] = 0 /\ got[c] = {} /\ seq = 0
    BY DEF Init
  <2> QED BY <2>1, EmptyQueue DEF Joined, Plain
<1>5. ReplicaInv
  BY DEF Init, ReplicaInv, Synced
<1> QED BY <1>1, <1>2, <1>3, <1>4, <1>5 DEF SInv

(* From the sequencing read pump to the last browser's screen: types, the  *)
(* log behind the document, what is on its way, onboarding, where every    *)
(* operation is, and what a replica shows, hold together in every state.   *)
THEOREM Inductive == Spec => []SInv
<1>1. Init => SInv
  BY InductiveInit
<1>2. SInv /\ [Next]_vars => SInv'
  BY TypeStep, BrokerStep, TransitStep, JoinStep, GapStep, ReplicaStep DEF SInv
<1> QED BY <1>1, <1>2, PTL DEF Spec

(* The state of the brokers, boards, queues and browsers is well formed,   *)
(* and no channel holds more than its capacity.                            *)
THEOREM TypeCorrect == Spec => []TypeOK
<1>1. SInv => TypeOK
  BY DEF SInv
<1> QED BY <1>1, Inductive, PTL

(* With the queues empty and everything published, an operation is known   *)
(* or lost.                                                                *)
LEMMA GapFree == SInv => NoGap
<1> SUFFICES ASSUME SInv, NEW c \in Clients, Settled(c), NEW n \in 1..seq
             PROVE  n <= base[c] \/ n \in got[c] \cup lost[at[c]]
  BY DEF NoGap
<1>1. conn[c] # "off" /\ board[at[c]] = "open"
  BY DEF Settled, Pumping
<1>2. Placed(c, n)
  BY <1>1 DEF SInv, GapInv
<1>3. ~Carries(send[c], n) /\ ~Carries(sub[at[c]], n)
  BY EmptyQueue DEF Settled, Carries
<1>4. ~\E d \in Clients : pub[d] # None /\ pub[d].seq = n
  BY DEF Settled
<1> QED BY <1>2, <1>3, <1>4 DEF Placed

(* Registering before fetching the snapshot (Client.Serve) leaves no gap,  *)
(* for any number of servers and clients, with kicks, crashes, lost        *)
(* messages and full channels anywhere.                                    *)
THEOREM GapNever == Spec => []NoGap
BY Inductive, GapFree, PTL

(* Every settled replica shows the broker's version of every shape, but    *)
(* for the exceptions Converged names: sequence numbers make the order in  *)
(* which the messages arrive irrelevant.                                   *)
THEOREM ReplicasConverge == Spec => []Converged
<1>1. ASSUME SInv PROVE Converged
  <2> SUFFICES ASSUME NEW c \in Clients, NEW x \in Shapes,
                      Settled(c), conn[c] = "ready", x \notin spoiled[c],
                      \A n \in lost[at[c]] : n > base[c] => log[n].id # x
               PROVE  replica[c][x] = shapes[x]
    BY DEF Converged
  <2>t. seq \in Nat /\ base[c] \in Nat /\ base[c] <= seq /\ got[c] \subseteq 1..seq
    BY <1>1, SyncBounds DEF SInv, TypeOK, JoinInv, Joined
  <2>1. Synced(c)
    BY EmptyQueue DEF Settled, Synced, Plain
  <2>2. Shows(c, x)
    BY <1>1, <2>1 DEF SInv, ReplicaInv
  <2>3. \A n \in 1..seq : log[n].id = x => n \in Heard(c)
    <3> SUFFICES ASSUME NEW n \in 1..seq, log[n].id = x PROVE n \in Heard(c)
      OBVIOUS
    <3>1. n <= base[c] \/ n \in got[c] \cup lost[at[c]]
      BY <1>1, GapFree DEF NoGap
    <3> QED BY <2>t, <3>1 DEF Heard
  <2>4. ~Awaited(c, x)
    BY <2>3 DEF Awaited, Settled
  <2>5. Version(log, x, replica[c][x], Heard(c)) /\ Version(log, x, shapes[x], 1..seq)
    BY <1>1, <2>2, <2>4 DEF Shows, SInv, BrokerInv
  <2> DEFINE K == 1..seq  L == Heard(c)  v == shapes[x]  w == replica[c][x]
  <2>6. K \in SUBSET Nat /\ L \in SUBSET K
    BY <2>t DEF Heard
  <2>7. /\ \A n \in K \ L : log[n].id # x
        /\ Version(log, x, v, K) /\ Version(log, x, w, L)
    BY <2>3, <2>5
  <2> HIDE DEF K, L, v, w
  <2>8. v = w
    BY <2>6, <2>7, VersionUnique
  <2> QED BY <2>8 DEF v, w
<1> QED BY <1>1, Inductive, PTL
============================================================================
