------------------------------- MODULE Sync -------------------------------
(***************************************************************************)
(* How an edit reaches every screen, on every server.  A client's read     *)
(* pump sequences and stores an operation in the shared broker             *)
(* (ApplyShape), then publishes it; every server with the board open has a *)
(* subscription that receives what is published, and copies each message   *)
(* into the send queue of its registered clients; the web client           *)
(* (web/src/App.tsx) applies what it receives to its replica.  A joining   *)
(* client is registered first, then fetches a snapshot, which the board    *)
(* puts into the same queue.                                               *)
(*                                                                         *)
(* A version is the sequence number of the write a shape comes from, 0 for *)
(* a shape the browser has drawn and not heard back about.                 *)
(***************************************************************************)
EXTENDS Integers, Sequences

CONSTANTS
  Clients,      \* browsers; each reconnects after a disconnect, anywhere
  Servers,      \* instances that share the broker
  Shapes,       \* shape ids
  None,         \* no operation, no server
  MaxOps,       \* bound: how many operations are sequenced
  MaxConns,     \* bound: how many connections are accepted
  MaxFaults,    \* bound: how often a broker call fails, Redis loses a message
                \* or a server crashes
  SubBuffer,    \* capacity of a subscription channel (256 in the code)
  SendBuffer,   \* capacity of a client's send channel (256 in the code)
  Deletes       \* clients send shape.delete

ASSUME SyncBounds ==
  /\ MaxOps \in Nat /\ MaxConns \in Nat /\ MaxFaults \in Nat
  /\ SubBuffer \in Nat \ {0} /\ SendBuffer \in Nat \ {0}
ASSUME SyncModes == Deletes \in BOOLEAN

Absent == -1
Documents == [Shapes -> -1..MaxOps]
Blank == [x \in Shapes |-> Absent]

Requests == [id : Shapes, del : BOOLEAN]
Ops == [seq : 1..MaxOps, id : Shapes, del : BOOLEAN]
Snapshots == [seq : 0..MaxOps, shapes : Documents]
Messages == Ops \cup Snapshots

ASSUME SyncNames == None \notin Servers \cup Requests \cup Ops

VARIABLES
  seq, shapes,  \* the broker's counter and authoritative document
  out,          \* the request a browser has sent and its read pump not read
  pub,          \* the operation a read pump has sequenced and not published
  board,        \* a server's board: closed, open, or deaf (no subscription)
  sub,          \* its subscription channel
  at,           \* the server a browser is connected to
  conn,         \* how far its connection is with joining
  held,         \* the snapshot Serve has fetched and not delivered
  send,         \* the send channel, and what is on the wire
  replica,      \* the browser's shapes
  used,         \* shape ids drawn so far
  conns, faults, \* how many connections and faults so far
  \* history
  log,          \* the operations in the order of their sequence numbers
  base,         \* a browser has to hear of everything after this sequence
  got,          \* the operations after base it has received
  spoiled,      \* shapes it may have wrong, and why is a known limit
  lost          \* operations a server's channel never carried

brokerVars == <<seq, shapes, log>>
boardVars  == <<board, sub, lost>>
joinVars   == <<at, conn, held, conns>>
clientVars == <<replica, used, base, got, spoiled>>
vars == <<brokerVars, out, pub, boardVars, joinVars, send, clientVars, faults>>

(* The pumps run: with a snapshot delivered, or with its fetch failed.     *)
Pumping == {"ready", "blind"}

TypeOK ==
  /\ seq \in 0..MaxOps
  /\ shapes \in Documents
  /\ out \in [Clients -> Requests \cup {None}]
  /\ pub \in [Clients -> Ops \cup {None}]
  /\ board \in [Servers -> {"closed", "open", "deaf"}]
  /\ sub \in [Servers -> Seq(Ops)]
  /\ \A i \in Servers : Len(sub[i]) <= SubBuffer
  /\ at \in [Clients -> Servers \cup {None}]
  /\ conn \in [Clients -> {"off", "register", "fetched"} \cup Pumping]
  /\ held \in [Clients -> Snapshots]
  /\ send \in [Clients -> Seq(Messages)]
  /\ \A c \in Clients : Len(send[c]) <= SendBuffer
  /\ replica \in [Clients -> Documents]
  /\ used \subseteq Shapes
  /\ conns \in 0..MaxConns /\ faults \in 0..MaxFaults
  /\ log \in Seq(Ops) /\ Len(log) = seq
  /\ base \in [Clients -> 0..MaxOps]
  /\ got \in [Clients -> SUBSET (1..MaxOps)]
  /\ spoiled \in [Clients -> SUBSET Shapes]
  /\ lost \in [Servers -> SUBSET (1..MaxOps)]

NoSnapshot == [seq |-> 0, shapes |-> Blank]

Init ==
  /\ seq = 0 /\ shapes = Blank /\ log = <<>>
  /\ out = [c \in Clients |-> None]
  /\ pub = [c \in Clients |-> None]
  /\ board = [i \in Servers |-> "closed"]
  /\ sub = [i \in Servers |-> <<>>]
  /\ lost = [i \in Servers |-> {}]
  /\ at = [c \in Clients |-> None]
  /\ conn = [c \in Clients |-> "off"]
  /\ held = [c \in Clients |-> NoSnapshot]
  /\ send = [c \in Clients |-> <<>>]
  /\ replica = [c \in Clients |-> Blank]
  /\ used = {} /\ conns = 0 /\ faults = 0
  /\ base = [c \in Clients |-> 0]
  /\ got = [c \in Clients |-> {}]
  /\ spoiled = [c \in Clients |-> {}]

Fault == faults < MaxFaults /\ faults' = faults + 1

IsSnapshot(m) == m \notin Ops
Connected(i) == {c \in Clients : at[c] = i}

----------------------------------------------------------------------------
(* The browser's edits.                                                    *)

(* Put a request on the wire; send does nothing without an open socket.    *)
SendRequest(c, x, del) ==
  out' = IF conn[c] = "off" THEN out
         ELSE [out EXCEPT ![c] = [id |-> x, del |-> del]]

(* onPointerUp: a rectangle with a fresh id, shown before it is sequenced. *)
Draw(c, x) ==
  /\ x \notin used /\ out[c] = None
  /\ used' = used \cup {x}
  /\ replica' = [replica EXCEPT ![c][x] = 0]
  /\ SendRequest(c, x, FALSE)
  /\ UNCHANGED <<brokerVars, pub, boardVars, joinVars, send, base, got, spoiled,
                 faults>>

(* A client of the protocol updates or deletes a shape someone drew; a     *)
(* request it writes before its read pump runs waits in the socket.        *)
Edit(c, x, del) ==
  /\ x \in used /\ out[c] = None /\ conn[c] \in Pumping
  /\ del => Deletes
  /\ SendRequest(c, x, del)
  /\ UNCHANGED <<brokerVars, pub, boardVars, joinVars, send, clientVars, faults>>

----------------------------------------------------------------------------
(* The read pump: applyShapeOp.                                            *)

ReadsRequest(c) ==
  /\ conn[c] \in Pumping /\ out[c] # None /\ pub[c] = None
  /\ out' = [out EXCEPT ![c] = None]

(* Broker.ApplyShape: the next sequence and the write in one step.         *)
ApplyShape(c) ==
  LET op == [seq |-> seq + 1, id |-> out[c].id, del |-> out[c].del] IN
  /\ seq < MaxOps
  /\ ReadsRequest(c)
  /\ seq' = op.seq
  /\ shapes' = [shapes EXCEPT ![op.id] = IF op.del THEN Absent ELSE op.seq]
  /\ log' = Append(log, op)
  /\ pub' = [pub EXCEPT ![c] = op]
  /\ UNCHANGED <<boardVars, joinVars, send, clientVars, faults>>

(* The broker refuses the operation: it is logged and dropped.             *)
ApplyError(c) ==
  /\ Fault
  /\ ReadsRequest(c)
  /\ spoiled' = [spoiled EXCEPT ![c] = @ \cup {out[c].id}]
  /\ UNCHANGED <<brokerVars, pub, boardVars, joinVars, send, replica, used,
                 base, got>>

(* The servers that carry no message: all when the call fails, some when   *)
(* Redis loses it on the way, and those whose subscription channel is full.*)
Missing(miss) == miss \cup {i \in Servers : Len(sub[i]) = SubBuffer}

(* Broker.Publish: to every server that is subscribed.                     *)
Publish(c, miss) ==
  LET open == {i \in Servers : board[i] = "open"} IN
  /\ pub[c] # None
  /\ IF miss = {} THEN UNCHANGED faults ELSE Fault
  /\ pub' = [pub EXCEPT ![c] = None]
  /\ sub' = [i \in Servers |->
               IF i \in open \ Missing(miss) THEN Append(sub[i], pub[c])
                                             ELSE sub[i]]
  /\ lost' = [i \in Servers |->
                IF i \in open \cap Missing(miss) THEN lost[i] \cup {pub[c].seq}
                                                 ELSE lost[i]]
  /\ UNCHANGED <<brokerVars, out, board, joinVars, send, clientVars>>

----------------------------------------------------------------------------
(* The board: its subscription, registration, fan-out, direct delivery.    *)

(* A connection starts the board's goroutine, which subscribes, or goes on *)
(* without fan-out when that fails.                                        *)
OpenBoard(i) ==
  /\ board[i] = "closed"
  /\ conns < MaxConns /\ \E c \in Clients : conn[c] = "off"
  /\ \E b \in {"open", "deaf"} :
       /\ IF b = "open" THEN UNCHANGED faults ELSE Fault
       /\ board' = [board EXCEPT ![i] = b]
  /\ UNCHANGED <<brokerVars, out, pub, sub, lost, joinVars, send, clientVars>>

(* Defect for the mutation runs: the loop takes clients before it has      *)
(* subscribed.                                                             *)
Serving_Early(i) == TRUE

(* The loop takes registrations.                                           *)
Serving(i) == board[i] # "closed"

(* Board.clients.                                                          *)
Registered(i) == Connected(i)

(* The servers whose last clients S are: the board leaves the registry.    *)
Emptied(S) == {i \in Servers : Connected(i) # {} /\ Connected(i) \subseteq S}

(* The connections of S, and the boards they emptied, are gone.            *)
Drop(S) ==
  LET gone == Emptied(S) IN
  /\ conn' = [c \in Clients |-> IF c \in S THEN "off" ELSE conn[c]]
  /\ at' = [c \in Clients |-> IF c \in S THEN None ELSE at[c]]
  /\ out' = [c \in Clients |-> IF c \in S THEN None ELSE out[c]]
  /\ held' = [c \in Clients |-> IF c \in S THEN NoSnapshot ELSE held[c]]
  /\ base' = [c \in Clients |-> IF c \in S THEN 0 ELSE base[c]]
  /\ got' = [c \in Clients |-> IF c \in S THEN {} ELSE got[c]]
  /\ spoiled' = [c \in Clients |-> IF c \in S THEN {} ELSE spoiled[c]]
  /\ board' = [i \in Servers |-> IF i \in gone THEN "closed" ELSE board[i]]
  /\ UNCHANGED <<brokerVars, replica, used, conns>>

(* A subscription ends with its board; s is what it holds otherwise.       *)
Ended(S, s) ==
  LET gone == Emptied(S) IN [i \in Servers |-> IF i \in gone THEN <<>> ELSE s[i]]
Forgotten(S, l) ==
  LET gone == Emptied(S) IN [i \in Servers |-> IF i \in gone THEN {} ELSE l[i]]

(* Defect for the mutation runs: a full queue is not noticed.              *)
Full_Never(c) == FALSE

Full(c) == Len(send[c]) = SendBuffer

(* deliverReliable to every registered client; the full ones are kicked.   *)
Dispatch(i) ==
  LET full == {c \in Registered(i) : Full(c)} IN
  /\ sub[i] # <<>>
  /\ Drop(full)
  /\ sub' = Ended(full, [sub EXCEPT ![i] = Tail(@)])
  /\ lost' = Forgotten(full, lost)
  /\ send' = [c \in Clients |->
                IF c \in full THEN <<>>
                ELSE IF c \in Registered(i) THEN Append(send[c], Head(sub[i]))
                ELSE send[c]]
  /\ UNCHANGED <<pub, faults>>

(* The browser connects to some server, and Serve's register send is       *)
(* accepted.                                                               *)
Register(c, i) ==
  /\ conn[c] = "off" /\ Serving(i)
  /\ conns < MaxConns /\ conns' = conns + 1
  /\ conn' = [conn EXCEPT ![c] = "register"]
  /\ at' = [at EXCEPT ![c] = i]
  /\ got' = [got EXCEPT ![c] = {}]
  /\ base' = [base EXCEPT ![c] = seq]
  /\ UNCHANGED <<brokerVars, out, pub, boardVars, held, send, replica, used,
                 spoiled, faults>>

(* sendSnapshot fetches the shapes, in one step with either broker; the    *)
(* browser does not look at the sequence that comes with them.             *)
FetchSnapshot(c) ==
  /\ conn[c] = "register"
  /\ conn' = [conn EXCEPT ![c] = "fetched"]
  /\ held' = [held EXCEPT ![c] = [seq |-> seq, shapes |-> shapes]]
  /\ UNCHANGED <<brokerVars, out, pub, boardVars, at, conns, send, clientVars,
                 faults>>

(* The fetch fails: it is logged, and the client goes on without.          *)
FetchError(c) ==
  /\ Fault
  /\ conn[c] = "register"
  /\ conn' = [conn EXCEPT ![c] = "blind"]
  /\ UNCHANGED <<brokerVars, out, pub, boardVars, at, held, conns, send,
                 clientVars>>

(* Connections end outside a dispatch.                                     *)
Hangup(S) ==
  /\ Drop(S)
  /\ sub' = Ended(S, sub)
  /\ lost' = Forgotten(S, lost)
  /\ send' = [c \in Clients |-> IF c \in S THEN <<>> ELSE send[c]]
  /\ UNCHANGED <<pub, faults>>

(* deliverDirect: the board pushes it, or kicks a client that is full.     *)
DeliverSnapshot(c) ==
  /\ conn[c] = "fetched"
  /\ \/ /\ ~Full(c)
        /\ send' = [send EXCEPT ![c] = Append(@, held[c])]
        /\ conn' = [conn EXCEPT ![c] = "ready"]
        /\ held' = [held EXCEPT ![c] = NoSnapshot]
        /\ UNCHANGED <<brokerVars, out, pub, boardVars, at, conns, clientVars,
                       faults>>
     \/ Full(c) /\ Hangup({c})

(* The connection breaks; the board is told (or notices) at once.          *)
Disconnect(c) == conn[c] # "off" /\ Hangup({c})

(* A server dies: its connections are gone, and so are the operations its  *)
(* read pumps have sequenced and not published.                            *)
Crash(i) ==
  LET dead == Connected(i)
      unpublished == {pub[c].seq : c \in {d \in dead : pub[d] # None}}
  IN
  /\ Fault /\ dead # {}
  /\ Drop(dead)
  /\ sub' = Ended(dead, sub)
  /\ lost' = Forgotten(dead,
              [j \in Servers |-> IF board[j] = "open" THEN lost[j] \cup unpublished
                                                    ELSE lost[j]])
  /\ send' = [c \in Clients |-> IF c \in dead THEN <<>> ELSE send[c]]
  /\ pub' = [c \in Clients |-> IF c \in dead THEN None ELSE pub[c]]

----------------------------------------------------------------------------
(* The browser: handleMessage.                                             *)

(* Defect for the mutation runs: the last message to arrive wins.          *)
Wins_LastArrival(n, cur) == TRUE

(* Last-write-wins by server sequence.                                     *)
Wins(n, cur) == cur = Absent \/ n >= cur

(* What an operation does to a replica.  A create or update has a shape    *)
(* (protocol.go:62-65); a browser skips one that has none (App.tsx:83),    *)
(* and such messages are not modelled.                                     *)
ApplyOp(doc, op) ==
  IF op.del THEN [doc EXCEPT ![op.id] = Absent]
  ELSE IF Wins(op.seq, doc[op.id]) THEN [doc EXCEPT ![op.id] = op.seq]
  ELSE doc

(* History: a later operation on the shape came first, and one of the two  *)
(* is a delete, which leaves no sequence number behind to compare with.    *)
Overtaken(c, op) ==
  \E n \in got[c] \cup 1..base[c] :
    /\ n > op.seq /\ log[n].id = op.id
    /\ op.del \/ log[n].del

(* A snapshot replaces the replica, and with it what came live before.     *)
ReceiveSnapshot(c, m) ==
  /\ replica' = [replica EXCEPT ![c] = m.shapes]
  /\ base' = [base EXCEPT ![c] = m.seq]
  /\ spoiled' = [spoiled EXCEPT ![c] =
                   {log[n].id : n \in {k \in got[c] : k > m.seq}}]
  /\ got' = [got EXCEPT ![c] = @ \ 1..m.seq]

ReceiveOp(c, m) ==
  /\ replica' = [replica EXCEPT ![c] = ApplyOp(@, m)]
  /\ got' = [got EXCEPT ![c] = @ \cup ({m.seq} \ 1..base[c])]
  /\ spoiled' = [spoiled EXCEPT ![c] =
                   IF Overtaken(c, m) THEN @ \cup {m.id} ELSE @]
  /\ UNCHANGED base

(* The write pump's next message arrives.                                  *)
Receive(c) ==
  LET m == Head(send[c]) IN
  /\ conn[c] \in Pumping /\ send[c] # <<>>
  /\ send' = [send EXCEPT ![c] = Tail(@)]
  /\ IF IsSnapshot(m) THEN ReceiveSnapshot(c, m) ELSE ReceiveOp(c, m)
  /\ UNCHANGED <<brokerVars, out, pub, boardVars, joinVars, used, faults>>

----------------------------------------------------------------------------
Next ==
  \/ \E c \in Clients :
       \/ \E x \in Shapes : Draw(c, x) \/ \E del \in BOOLEAN : Edit(c, x, del)
       \/ ApplyShape(c) \/ ApplyError(c)
       \/ \E miss \in SUBSET Servers : Publish(c, miss)
       \/ \E i \in Servers : Register(c, i)
       \/ FetchSnapshot(c) \/ FetchError(c) \/ DeliverSnapshot(c)
       \/ Disconnect(c) \/ Receive(c)
  \/ \E i \in Servers : OpenBoard(i) \/ Dispatch(i) \/ Crash(i)

Spec == Init /\ [][Next]_vars

----------------------------------------------------------------------------
(* Properties.                                                             *)

(* Everything that was sequenced has reached c, or will not.               *)
Settled(c) ==
  /\ conn[c] \in Pumping /\ send[c] = <<>> /\ out[c] = None
  /\ board[at[c]] = "open" /\ sub[at[c]] = <<>>
  /\ \A d \in Clients : pub[d] = None

(* Onboarding leaves no gap: a client that has settled has every operation *)
(* in its snapshot or as a live message, and one whose snapshot fetch      *)
(* failed has every one since it registered: "any op published after this  *)
(* point is delivered live" (client.go:137-138).  Only what its own        *)
(* server's subscription lost is missing: a failed subscription, a lost    *)
(* message or a slow client elsewhere costs it nothing.                    *)
NoGap ==
  \A c \in Clients :
    Settled(c) =>
      \A n \in 1..seq : n <= base[c] \/ n \in got[c] \cup lost[at[c]]

(* A settled replica shows the authoritative version of a shape (ADR 0003: *)
(* one agreed state), whatever order publications, kicks, reconnects and   *)
(* snapshots come in.  The exceptions are per shape, and under the faults  *)
(* of this module all there are: an operation lost on the way or refused,  *)
(* a live operation wiped by an older snapshot, and a delete out of order. *)
(* A broker that loses its counter under open boards is not among them.    *)
Converged ==
  \A c \in Clients, x \in Shapes :
    /\ Settled(c) /\ conn[c] = "ready"
    /\ x \notin spoiled[c]
    /\ \A n \in lost[at[c]] : n > base[c] => log[n].id # x
    => replica[c][x] = shapes[x]

(* The same without exceptions: an operation a joining client gets live is *)
(* "reconciled by sequence number" with its snapshot (client.go:138).      *)
AlwaysConverged ==
  \A c \in Clients : Settled(c) /\ conn[c] = "ready" => replica[c] = shapes
============================================================================
