-------------------------------- MODULE Hub --------------------------------
(***************************************************************************)
(* The connection lifecycle of one server instance (internal/hub): the     *)
(* registry of boards behind Hub.mu, one Board goroutine per open board,   *)
(* one Serve call with its read pump and write pump per connection, the    *)
(* graceful Shutdown and the snapshot coordinator.                         *)
(*                                                                         *)
(* A session is one Serve call.  A Board object is named by the session    *)
(* whose beginSession created it, so a board that is closed and opened     *)
(* again is a different object, as it is in the code.  What a message says *)
(* does not matter here: a send channel is the number of messages queued   *)
(* in it.  Broker and store calls only take time; what they do to shared   *)
(* state is modelled in the modules about documents.                       *)
(***************************************************************************)
EXTENDS Integers, FiniteSets

CONSTANTS
  Sessions,        \* the Serve calls of a behaviour
  BoardIDs,        \* board names that appear in request paths
  NoBoard,         \* no board object: a missing registry entry, a nil exclude
  SendBuffer,      \* capacity of a client's send channel (256 in the code)
  Cancellable,     \* sessions whose caller may cancel the context it passed
  HasStore         \* a store is configured, so the coordinator runs

ASSUME SessionsAssumption == IsFiniteSet(Sessions) /\ NoBoard \notin Sessions
ASSUME SendBufferAssumption == SendBuffer \in Nat \ {0}
ASSUME StoreAssumption == HasStore \in BOOLEAN

VARIABLES
  \* Hub
  boards,        \* Hub.boards: board id -> registered Board object
  count,         \* boardEntry.count, by Board object
  closing,       \* Hub.closing
  sessions,      \* the WaitGroup of in-flight Serve calls
  \* Board
  run,           \* where the board goroutine is
  quit,          \* Board.quit is closed
  clients,       \* Board.clients
  \* Client and its two goroutines
  pc,            \* where Serve (and, inside it, readPump) is
  boardID,       \* the board named in the request path
  board,         \* Client.board
  present,       \* Client.present
  queue,         \* messages in Client.send
  sendClosed,    \* Client.send is closed
  connClosed,    \* the transport is closed, by either side
  ctxDone,       \* the connection's context is cancelled
  writer,        \* where writePump is
  \* Shutdown and the coordinator
  shut,          \* where Shutdown is
  toQuit,        \* boards whose quit Shutdown has still to close
  toWait,        \* boards whose done Shutdown waits for
  stop,          \* Hub.stop is closed
  coord,         \* where snapshotLoop is
  \* the Go runtime
  panicked       \* a send on, or a close of, a closed channel

hubVars    == <<boards, count, closing, sessions>>
boardVars  == <<run, quit>>
fanoutVars == <<clients, present, sendClosed, panicked>>
connVars   == <<connClosed, ctxDone>>
shutVars   == <<shut, toQuit, toWait, stop>>
vars == <<hubVars, boardVars, fanoutVars, connVars, shutVars,
          pc, boardID, board, queue, writer, coord>>

(* Control points of Serve.  Holding: the session counts in its board's    *)
(* entry.  InFlight: it counts in the WaitGroup.                           *)
Onboarding == {"sendSnapshot", "deliverSnapshot",
               "sendPresenceState", "deliverPresence"}
Holding    == {"register", "readPump", "wgWait", "release"} \cup Onboarding
InFlight   == Holding \cup {"closeQuit", "unregister", "sessionsDone"}
PCs        == InFlight \cup {"idle", "returned"}

Registered == {boards[id] : id \in BoardIDs} \ {NoBoard}
Holders(b) == {s \in Sessions : board[s] = b /\ pc[s] \in Holding}

TypeOK ==
  /\ boards \in [BoardIDs -> Sessions \cup {NoBoard}]
  /\ count \in [Sessions -> Int]
  /\ closing \in BOOLEAN
  /\ sessions \in Int
  /\ run \in [Sessions -> {"none", "hydrate", "loop", "persist", "done"}]
  /\ quit \in [Sessions -> BOOLEAN]
  /\ clients \in [Sessions -> SUBSET Sessions]
  /\ pc \in [Sessions -> PCs]
  /\ boardID \in [Sessions -> BoardIDs]
  /\ board \in [Sessions -> Sessions \cup {NoBoard}]
  /\ present \in [Sessions -> BOOLEAN]
  /\ queue \in [Sessions -> 0..SendBuffer]
  /\ sendClosed \in [Sessions -> BOOLEAN]
  /\ connClosed \in [Sessions -> BOOLEAN]
  /\ ctxDone \in [Sessions -> BOOLEAN]
  /\ writer \in [Sessions -> {"none", "running", "exited"}]
  /\ shut \in {"idle", "boards", "sessions", "stopOK", "stopErr", "ok", "err"}
  /\ toQuit \subseteq Sessions
  /\ toWait \subseteq Sessions
  /\ stop \in BOOLEAN
  /\ coord \in {"off", "select", "saving", "exited"}
  /\ panicked \in BOOLEAN

Init ==
  /\ boards = [id \in BoardIDs |-> NoBoard]
  /\ count = [b \in Sessions |-> 0]
  /\ closing = FALSE
  /\ sessions = 0
  /\ run = [b \in Sessions |-> "none"]
  /\ quit = [b \in Sessions |-> FALSE]
  /\ clients = [b \in Sessions |-> {}]
  /\ pc = [s \in Sessions |-> "idle"]
  /\ boardID \in [Sessions -> BoardIDs]
  /\ board = [s \in Sessions |-> NoBoard]
  /\ present = [s \in Sessions |-> FALSE]
  /\ queue = [s \in Sessions |-> 0]
  /\ sendClosed = [s \in Sessions |-> FALSE]
  /\ connClosed = [s \in Sessions |-> FALSE]
  /\ ctxDone = [s \in Sessions |-> FALSE]
  /\ writer = [s \in Sessions |-> "none"]
  /\ shut = "idle" /\ toQuit = {} /\ toWait = {} /\ stop = FALSE
  /\ coord = IF HasStore THEN "select" ELSE "off"
  /\ panicked = FALSE

Goto(s, from, to) == pc[s] = from /\ pc' = [pc EXCEPT ![s] = to]

----------------------------------------------------------------------------
(* Serve, up to the board goroutine's first sight of the client.           *)

Admits == ~closing

(* Defect for the mutation runs: an entry counts its creator only.         *)
KeepOpen_Once(b) == count' = [count EXCEPT ![b] = 1]

KeepOpen(b) == count' = [count EXCEPT ![b] = @ + 1]

(* beginSession under Hub.mu, then Serve as far as its register send.      *)
BeginSession(s) ==
  LET fresh == boards[boardID[s]] = NoBoard
      b     == IF fresh THEN s ELSE boards[boardID[s]]
  IN
  /\ Goto(s, "idle", "register")
  /\ Admits
  /\ sessions' = sessions + 1
  /\ boards' = [boards EXCEPT ![boardID[s]] = b]
  /\ run' = IF fresh THEN [run EXCEPT ![b] = "hydrate"] ELSE run
  /\ KeepOpen(b)
  /\ board' = [board EXCEPT ![s] = b]
  /\ UNCHANGED <<closing, quit, fanoutVars, connVars, shutVars, boardID, queue,
                 writer, coord>>

(* A connection that arrives while the hub drains is closed.               *)
RejectSession(s) ==
  /\ Goto(s, "idle", "returned")
  /\ ~Admits
  /\ connClosed' = [connClosed EXCEPT ![s] = TRUE]
  /\ UNCHANGED <<hubVars, boardVars, fanoutVars, ctxDone, shutVars,
                 boardID, board, queue, writer, coord>>

----------------------------------------------------------------------------
(* The board goroutine.  Every action is one turn of its select: the       *)
(* client set and the present flags are touched by no other goroutine.     *)

(* hydrate and Subscribe, before the loop accepts anything.                *)
BoardStart(b) ==
  /\ run[b] = "hydrate"
  /\ run' = [run EXCEPT ![b] = "loop"]
  /\ UNCHANGED <<hubVars, quit, fanoutVars, connVars, shutVars, pc,
                 boardID, board, queue, writer, coord>>

(* The register send, which has no alternative, meets the loop: join.      *)
Register(s) ==
  /\ Goto(s, "register", "sendSnapshot")
  /\ run[board[s]] = "loop"
  /\ clients' = [clients EXCEPT ![board[s]] = @ \cup {s}]
  /\ present' = [present EXCEPT ![s] = TRUE]
  /\ UNCHANGED <<hubVars, boardVars, sendClosed, panicked, connVars, shutVars,
                 boardID, board, queue, writer, coord>>

(* Go panics when a goroutine sends on, or closes, a closed channel.       *)
Touch(sentTo, closed) ==
  panicked' = (panicked \/ \E c \in sentTo \cup closed : sendClosed[c])

(* Defect for the mutation runs: detach forgets its present check.         *)
Detachable_All(S) == S

Detachable(S) == {c \in S : present[c]}

(* Defect for the mutation runs: detach leaves the connection open.        *)
Severed_None(S, closeConn) == {}

(* The connections of S, when the caller asked for them to be closed.      *)
Severed(S, closeConn) == IF closeConn THEN S ELSE {}

(* Remove the clients of S from board b and close their send channels.     *)
Remove(b, S, closeConn) ==
  /\ present' = [c \in Sessions |-> present[c] /\ c \notin S]
  /\ clients' = [clients EXCEPT ![b] = @ \ S]
  /\ sendClosed' = [c \in Sessions |-> sendClosed[c] \/ c \in S]
  /\ connClosed' = [c \in Sessions |-> connClosed[c] \/ c \in Severed(S, closeConn)]

Room(c) == queue[c] < SendBuffer

(* Defect for the mutation runs: the send does not look at the capacity.   *)
Enqueue_Unbounded(S) ==
  queue' = [c \in Sessions |-> IF c \in S THEN queue[c] + 1 ELSE queue[c]]

(* The non-blocking send of one message to every client of S with room.    *)
Enqueue(S) ==
  queue' = [c \in Sessions |-> IF c \in S /\ Room(c) THEN queue[c] + 1
                                                     ELSE queue[c]]

(* Defect for the mutation runs: a client is kicked one message too early. *)
Slow_Early(S) == {c \in S : queue[c] >= SendBuffer - 1}

Slow(S) == {c \in S : ~Room(c)}

(* deliverReliable: a shape operation or presence event for everyone; the  *)
(* clients that were full are kicked once the loop over the set is over.   *)
DeliverReliable(b) ==
  LET kicked == Detachable(Slow(clients[b])) IN
  /\ run[b] = "loop"
  /\ Enqueue(clients[b])
  /\ Remove(b, kicked, TRUE)
  /\ Touch(clients[b], kicked)
  /\ UNCHANGED <<hubVars, boardVars, ctxDone, shutVars, pc, boardID,
                 board, writer, coord>>

(* deliverBestEffort: a cursor for everyone but its origin, dropped where  *)
(* the queue is full.                                                      *)
DeliverBestEffort(b, exclude) ==
  /\ run[b] = "loop"
  /\ Enqueue(clients[b] \ {exclude})
  /\ Touch(clients[b] \ {exclude}, {})
  /\ UNCHANGED <<hubVars, boardVars, clients, present, sendClosed, connVars,
                 shutVars, pc, boardID, board, writer, coord>>

(* Defect for the mutation runs: the loop pushes to clients that are gone. *)
Addressee_Any(c) == {c}

Addressee(c) == {c} \cap {d \in Sessions : present[d]}

(* Where Serve goes once a direct message is out of its hands.             *)
AfterDirect(s) ==
  \/ /\ Goto(s, "deliverSnapshot", "sendPresenceState")
     /\ UNCHANGED writer
  \/ /\ Goto(s, "deliverPresence", "readPump")
     /\ writer' = [writer EXCEPT ![s] = "running"]

(* deliverDirect meets the loop: push, which kicks a client that is full.  *)
DeliverDirect(s) ==
  LET b == board[s]
      kicked == Detachable(Slow(Addressee(s)))
  IN
  /\ AfterDirect(s)
  /\ run[b] = "loop"
  /\ Enqueue(Addressee(s))
  /\ Remove(b, kicked, TRUE)
  /\ Touch(Addressee(s), kicked)
  /\ UNCHANGED <<hubVars, boardVars, ctxDone, shutVars, boardID, board,
                 coord>>

(* deliverDirect gives up: the board is done or the context is cancelled.  *)
AbandonDirect(s) ==
  /\ AfterDirect(s)
  /\ run[board[s]] = "done" \/ ctxDone[s]
  /\ UNCHANGED <<hubVars, boardVars, fanoutVars, connVars, shutVars,
                 boardID, board, queue, coord>>

(* The loop sees quit: shutdown drains every client.                       *)
BoardQuit(b) ==
  /\ run[b] = "loop" /\ quit[b]
  /\ run' = [run EXCEPT ![b] = "persist"]
  /\ Remove(b, clients[b], TRUE)
  /\ Touch({}, clients[b])
  /\ UNCHANGED <<hubVars, quit, ctxDone, shutVars, pc, boardID, board,
                 queue, writer, coord>>

(* persistOnClose, then the deferred close(done) of run.                   *)
BoardDone(b) ==
  /\ run[b] = "persist"
  /\ run' = [run EXCEPT ![b] = "done"]
  /\ UNCHANGED <<hubVars, quit, fanoutVars, connVars, shutVars, pc,
                 boardID, board, queue, writer, coord>>

----------------------------------------------------------------------------
(* Serve, from registration to its return.                                 *)

(* joinPresence and the fetch of sendSnapshot; a failed fetch is skipped.  *)
FetchSnapshot(s) ==
  /\ \/ Goto(s, "sendSnapshot", "deliverSnapshot")
     \/ Goto(s, "sendSnapshot", "sendPresenceState")
  /\ UNCHANGED <<hubVars, boardVars, fanoutVars, connVars, shutVars,
                 boardID, board, queue, writer, coord>>

(* The fetch of sendPresenceState; a failed fetch goes on to the pumps.    *)
FetchPresence(s) ==
  /\ \/ /\ Goto(s, "sendPresenceState", "deliverPresence")
        /\ UNCHANGED writer
     \/ /\ Goto(s, "sendPresenceState", "readPump")
        /\ writer' = [writer EXCEPT ![s] = "running"]
  /\ UNCHANGED <<hubVars, boardVars, fanoutVars, connVars, shutVars,
                 boardID, board, queue, coord>>

(* External: the peer goes away, or the network fails.                     *)
PeerGone(s) ==
  /\ pc[s] \in InFlight /\ ~connClosed[s]
  /\ connClosed' = [connClosed EXCEPT ![s] = TRUE]
  /\ UNCHANGED <<hubVars, boardVars, fanoutVars, ctxDone, shutVars, pc,
                 boardID, board, queue, writer, coord>>

(* External: the caller of Serve cancels the context it passed.            *)
CancelRequest(s) ==
  /\ s \in Cancellable
  /\ pc[s] \in InFlight /\ ~ctxDone[s]
  /\ ctxDone' = [ctxDone EXCEPT ![s] = TRUE]
  /\ UNCHANGED <<hubVars, boardVars, fanoutVars, connClosed, shutVars,
                 pc, boardID, board, queue, writer, coord>>

(* readPump returns on a read error; Serve cancels the context and closes  *)
(* the connection.                                                         *)
ReadPumpReturns(s) ==
  /\ Goto(s, "readPump", "wgWait")
  /\ connClosed[s] \/ ctxDone[s]
  /\ ctxDone' = [ctxDone EXCEPT ![s] = TRUE]
  /\ connClosed' = [connClosed EXCEPT ![s] = TRUE]
  /\ UNCHANGED <<hubVars, boardVars, fanoutVars, shutVars, boardID,
                 board, queue, writer, coord>>

(* Defect for the mutation runs: Serve does not wait for its write pump.   *)
WriterGone_Skipped(s) == TRUE

WriterGone(s) == writer[s] = "exited"

(* wg.Wait, then leavePresence: the deferred release is next.              *)
LeaveBoard(s) ==
  /\ Goto(s, "wgWait", "release")
  /\ WriterGone(s)
  /\ UNCHANGED <<hubVars, boardVars, fanoutVars, connVars, shutVars, boardID,
                 board, queue, writer, coord>>

(* The board's entry, as release finds it under Hub.mu.                    *)
Entry(b) == boards[boardID[b]] = b

(* Defects for the mutation runs: the board stops one client too early,    *)
(* and the count is read before it is decremented.                         *)
LastHolder_Early(b) == count[b] <= 2
LastHolder_Stale(b) == count[b] = 0

LastHolder(b) == count[b] = 1

(* release finds another board or none: a shutdown took the registry.      *)
ReleaseGone(s) ==
  /\ Goto(s, "release", "sessionsDone")
  /\ ~Entry(board[s])
  /\ UNCHANGED <<hubVars, boardVars, fanoutVars, connVars, shutVars,
                 boardID, board, queue, writer, coord>>

(* release by the last client: the entry is deleted under the mutex, the   *)
(* board is told to stop after it.                                         *)
ReleaseLast(s) ==
  LET b == board[s] IN
  /\ Goto(s, "release", "closeQuit")
  /\ Entry(b) /\ LastHolder(b)
  /\ count' = [count EXCEPT ![b] = @ - 1]
  /\ boards' = [boards EXCEPT ![boardID[b]] = NoBoard]
  /\ UNCHANGED <<closing, sessions, boardVars, fanoutVars, connVars, shutVars,
                 boardID, board, queue, writer, coord>>

(* release by another client, which goes on to the unregister send.        *)
ReleaseShared(s) ==
  LET b == board[s] IN
  /\ Goto(s, "release", "unregister")
  /\ Entry(b) /\ ~LastHolder(b)
  /\ count' = [count EXCEPT ![b] = @ - 1]
  /\ UNCHANGED <<boards, closing, sessions, boardVars, fanoutVars, connVars,
                 shutVars, boardID, board, queue, writer, coord>>

(* closeQuit, idempotent through quitOnce.                                 *)
CloseQuit(s) ==
  /\ Goto(s, "closeQuit", "sessionsDone")
  /\ quit' = [quit EXCEPT ![board[s]] = TRUE]
  /\ UNCHANGED <<hubVars, run, fanoutVars, connVars, shutVars, boardID,
                 board, queue, writer, coord>>

(* The unregister send meets the loop: detach, leaving the connection.     *)
Unregister(s) ==
  LET gone == Detachable({s}) IN
  /\ Goto(s, "unregister", "sessionsDone")
  /\ run[board[s]] = "loop"
  /\ Remove(board[s], gone, FALSE)
  /\ Touch({}, gone)
  /\ UNCHANGED <<hubVars, boardVars, ctxDone, shutVars, boardID, board,
                 queue, writer, coord>>

(* Defect for the mutation runs: release has no b.done arm.                *)
UnregisterDone_NoArm(s) == FALSE /\ UNCHANGED vars

(* The unregister send gives up: the board stopped and drained the client. *)
UnregisterDone(s) ==
  /\ Goto(s, "unregister", "sessionsDone")
  /\ run[board[s]] = "done"
  /\ UNCHANGED <<hubVars, boardVars, fanoutVars, connVars, shutVars,
                 boardID, board, queue, writer, coord>>

(* The outermost deferred call, sessions.Done.                             *)
SessionDone(s) ==
  /\ Goto(s, "sessionsDone", "returned")
  /\ sessions' = sessions - 1
  /\ UNCHANGED <<boards, count, closing, boardVars, fanoutVars, connVars,
                 shutVars, boardID, board, queue, writer, coord>>

----------------------------------------------------------------------------
(* The write pump.                                                         *)

(* One message leaves the queue and reaches the peer.                      *)
WriteOne(s) ==
  /\ writer[s] = "running" /\ queue[s] > 0 /\ ~connClosed[s] /\ ~ctxDone[s]
  /\ queue' = [queue EXCEPT ![s] = @ - 1]
  /\ UNCHANGED <<hubVars, boardVars, fanoutVars, connVars, shutVars, pc,
                 boardID, board, writer, coord>>

(* A write fails or times out: the message is lost, the pump returns.  The *)
(* library closes a connection whose write fails (external).               *)
WriteFails(s) ==
  /\ writer[s] = "running" /\ queue[s] > 0
  /\ queue' = [queue EXCEPT ![s] = @ - 1]
  /\ writer' = [writer EXCEPT ![s] = "exited"]
  /\ connClosed' = [connClosed EXCEPT ![s] = TRUE]
  /\ UNCHANGED <<hubVars, boardVars, fanoutVars, ctxDone, shutVars, pc,
                 boardID, board, coord>>

(* A ping is not answered in time: the pump returns, and does no more.     *)
(* Whether the transport then closes itself is its own affair (PeerGone).  *)
PingFails(s) ==
  /\ writer[s] = "running"
  /\ writer' = [writer EXCEPT ![s] = "exited"]
  /\ UNCHANGED <<hubVars, boardVars, fanoutVars, connVars, shutVars, pc,
                 boardID, board, queue, coord>>

(* The queue is closed and empty, or the context is cancelled.             *)
WritePumpReturns(s) ==
  /\ writer[s] = "running"
  /\ (sendClosed[s] /\ queue[s] = 0) \/ ctxDone[s]
  /\ writer' = [writer EXCEPT ![s] = "exited"]
  /\ UNCHANGED <<hubVars, boardVars, fanoutVars, connVars, shutVars, pc,
                 boardID, board, queue, coord>>

----------------------------------------------------------------------------
(* Shutdown and the snapshot coordinator.                                  *)

(* Under Hub.mu: refuse new sessions, take the boards, clear the registry. *)
(* A second call finds closing set and returns: it changes nothing.        *)
ShutdownBegin ==
  /\ ~closing
  /\ closing' = TRUE
  /\ shut' = "boards"
  /\ toQuit' = Registered
  /\ toWait' = Registered
  /\ boards' = [id \in BoardIDs |-> NoBoard]
  /\ UNCHANGED <<count, sessions, boardVars, fanoutVars, connVars, stop,
                 pc, boardID, board, queue, writer, coord>>

ShutdownCloseQuit(b) ==
  /\ shut = "boards" /\ b \in toQuit
  /\ toQuit' = toQuit \ {b}
  /\ quit' = [quit EXCEPT ![b] = TRUE]
  /\ UNCHANGED <<hubVars, run, fanoutVars, connVars, shut, toWait, stop,
                 pc, boardID, board, queue, writer, coord>>

(* Defect for the mutation runs: the drain does not wait for its boards.   *)
BoardsDrained_Unchecked == toQuit = {}

BoardsDrained == toQuit = {} /\ \A b \in toWait : run[b] = "done"

ShutdownBoardsDone ==
  /\ shut = "boards" /\ BoardsDrained
  /\ shut' = "sessions"
  /\ UNCHANGED <<hubVars, boardVars, fanoutVars, connVars, toQuit, toWait,
                 stop, pc, boardID, board, queue, writer, coord>>

(* stopCoordinator: without a store there is nothing to stop.              *)
StopCoordinator == stop' = (stop \/ HasStore)

(* sessions.Wait has returned; stopCoordinator closes stop.                *)
ShutdownSessionsDone ==
  /\ shut = "sessions" /\ sessions = 0
  /\ shut' = "stopOK"
  /\ StopCoordinator
  /\ UNCHANGED <<hubVars, boardVars, fanoutVars, connVars, toQuit, toWait, pc,
                 boardID, board, queue, writer, coord>>

(* The deadline passes in one of the two waits.                            *)
ShutdownTimeout ==
  /\ \/ shut = "boards" /\ toQuit = {} /\ toWait # {}
     \/ shut = "sessions"
  /\ shut' = "stopErr"
  /\ StopCoordinator
  /\ UNCHANGED <<hubVars, boardVars, fanoutVars, connVars, toQuit, toWait, pc,
                 boardID, board, queue, writer, coord>>

(* stopCoordinator waits for the coordinator, then Shutdown returns.       *)
ShutdownReturn ==
  /\ shut \in {"stopOK", "stopErr"}
  /\ coord \in {"off", "exited"}
  /\ shut' = IF shut = "stopOK" THEN "ok" ELSE "err"
  /\ UNCHANGED <<hubVars, boardVars, fanoutVars, connVars, toQuit, toWait,
                 stop, pc, boardID, board, queue, writer, coord>>

(* Hub.Close by the hub's owner.                                           *)
Close ==
  /\ HasStore /\ ~stop
  /\ StopCoordinator
  /\ UNCHANGED <<hubVars, boardVars, fanoutVars, connVars, shut, toQuit,
                 toWait, pc, boardID, board, queue, writer, coord>>

(* snapshotLoop: a tick and its saves, or the end of the loop.             *)
CoordinatorTick ==
  /\ coord = "select"
  /\ coord' = "saving"
  /\ UNCHANGED <<hubVars, boardVars, fanoutVars, connVars, shutVars, pc,
                 boardID, board, queue, writer>>

CoordinatorSaved ==
  /\ coord = "saving"
  /\ coord' = "select"
  /\ UNCHANGED <<hubVars, boardVars, fanoutVars, connVars, shutVars, pc,
                 boardID, board, queue, writer>>

CoordinatorExit ==
  /\ coord = "select" /\ stop
  /\ coord' = "exited"
  /\ UNCHANGED <<hubVars, boardVars, fanoutVars, connVars, shutVars, pc,
                 boardID, board, queue, writer>>

----------------------------------------------------------------------------

(* What a session's own goroutine, with its board where they meet, does.   *)
ServeStep(s) ==
  \/ RejectSession(s) \/ Register(s)
  \/ FetchSnapshot(s) \/ FetchPresence(s)
  \/ DeliverDirect(s) \/ AbandonDirect(s)
  \/ ReadPumpReturns(s) \/ LeaveBoard(s)
  \/ ReleaseGone(s) \/ ReleaseLast(s) \/ ReleaseShared(s)
  \/ CloseQuit(s) \/ Unregister(s) \/ UnregisterDone(s)
  \/ SessionDone(s)

WriterStep(s) == WriteOne(s) \/ WriteFails(s) \/ WritePumpReturns(s)

BoardStep(b) == BoardStart(b) \/ BoardQuit(b) \/ BoardDone(b)

BoardDispatch(b) ==
  \/ DeliverReliable(b)
  \/ \E exclude \in Sessions \cup {NoBoard} : DeliverBestEffort(b, exclude)

ShutdownStep ==
  \/ \E b \in Sessions : ShutdownCloseQuit(b)
  \/ ShutdownBoardsDone \/ ShutdownSessionsDone \/ ShutdownReturn

Environment(s) ==
  BeginSession(s) \/ PeerGone(s) \/ CancelRequest(s) \/ PingFails(s)

Next ==
  \/ \E s \in Sessions : Environment(s) \/ ServeStep(s) \/ WriterStep(s)
  \/ \E b \in Sessions : BoardStep(b) \/ BoardDispatch(b)
  \/ ShutdownBegin \/ ShutdownStep \/ ShutdownTimeout \/ Close
  \/ CoordinatorTick \/ CoordinatorSaved \/ CoordinatorExit

Spec == Init /\ [][Next]_vars

(* Every goroutine that can move does: the Go scheduler is fair, select    *)
(* chooses among the ready arms at random, broker and store calls and      *)
(* writes are bounded by timeouts.  New connections, disconnects, traffic, *)
(* failures and the expiry of Shutdown's deadline are never assumed.       *)
Fairness ==
  /\ \A s \in Sessions : WF_vars(ServeStep(s)) /\ WF_vars(WriterStep(s))
  /\ \A b \in Sessions : WF_vars(BoardStep(b))
  /\ WF_vars(ShutdownStep)
  /\ WF_vars(CoordinatorSaved) /\ SF_vars(CoordinatorExit)

FairSpec == Spec /\ Fairness
----------------------------------------------------------------------------
(* Safety.                                                                 *)

(* The keep-open count of a registered board is the number of sessions     *)
(* between their beginSession and their release, and is never zero         *)
(* (boardEntry.count, hub.go:26-34).                                       *)
RefCount ==
  \A b \in Registered : count[b] = Cardinality(Holders(b)) /\ count[b] > 0

(* Outside a drain, a session between beginSession and release finds its   *)
(* own board in the registry, not told to stop and still running: "a board *)
(* can never be torn down while a join for it is in flight" (hub.go:27-30).*)
JoinKeepsBoard ==
  \A s \in Sessions :
    ~closing /\ pc[s] \in Holding =>
      /\ boards[boardID[s]] = board[s]
      /\ ~quit[board[s]]
      /\ run[board[s]] \in {"hydrate", "loop"}

(* No goroutine sends on a closed send channel or closes one twice: kick,  *)
(* unregister, direct delivery and drain all meet on one client (the       *)
(* present flag, client.go:64-67 and board.go:225-240).                    *)
NoPanic == ~panicked

(* A Serve call that goes on to release its client has no write pump left, *)
(* and one that has returned is in no board's fan-out set unless that      *)
(* board is being stopped, which drains it (client.go:96-100).             *)
ReturnedLeftBoard ==
  \A s \in Sessions :
    /\ pc[s] \in {"release", "closeQuit", "unregister", "sessionsDone",
                  "returned"} => writer[s] # "running"
    /\ pc[s] = "returned" =>
         \A b \in Sessions : s \in clients[b] => quit[b] \/ b \in toQuit

(* When Shutdown returns nil, no Serve call is in flight, every board it   *)
(* took is done with its final snapshot, no client of theirs still has an  *)
(* open connection and the coordinator is gone (hub.go:111-115).           *)
ShutdownDrains ==
  shut = "ok" =>
    /\ \A s \in Sessions : pc[s] \notin InFlight
    /\ \A b \in toWait : run[b] = "done"
    /\ \A s \in Sessions : board[s] \in toWait => connClosed[s]
    /\ coord \in {"off", "exited"}

----------------------------------------------------------------------------
(* The inductive invariant behind the safety properties.                   *)

(* A session in flight has a board that exists and carries its id; a board *)
(* object exists only once its session has begun.                          *)
SessionInv ==
  \A s \in Sessions :
    /\ pc[s] = "idle" => board[s] = NoBoard /\ run[s] = "none"
    /\ pc[s] \in InFlight => board[s] \in Sessions
    /\ board[s] \in Sessions =>
         boardID[board[s]] = boardID[s] /\ run[board[s]] # "none"
    /\ run[s] = "none" => count[s] = 0

(* A registered board is under its own id and has not been told to stop;   *)
(* the registry of a draining hub is empty.                                *)
RegistryInv ==
  /\ \A id \in BoardIDs :
       boards[id] # NoBoard =>
         /\ boardID[boards[id]] = id
         /\ run[boards[id]] \in {"hydrate", "loop"}
         /\ ~quit[boards[id]]
         /\ boards[id] \notin toQuit
         /\ ~closing
         /\ count[boards[id]] = Cardinality(Holders(boards[id]))
         /\ count[boards[id]] > 0
  /\ \A s \in Sessions :
       pc[s] = "closeQuit" => ~Entry(board[s]) /\ Holders(board[s]) = {}

(* A session that holds its board open finds it registered, or a drain has *)
(* taken it and stops it; a board stops only when told to.                 *)
HoldInv ==
  /\ \A s \in Sessions :
       pc[s] \in Holding =>
         \/ Entry(board[s])
         \/ closing /\ (quit[board[s]] \/ board[s] \in toQuit)
  /\ \A b \in Sessions :
       /\ run[b] \in {"persist", "done"} => quit[b]
       /\ quit[b] \/ b \in toQuit => run[b] # "none"
       /\ b \in toQuit => closing

(* The fan-out set, the present flag and the open send channels agree.     *)
FanoutInv ==
  \A c \in Sessions :
    /\ \A b \in Sessions :
         c \in clients[b] => board[c] = b /\ present[c] /\ ~sendClosed[c]
    /\ present[c] => board[c] \in Sessions /\ c \in clients[board[c]]
    /\ pc[c] \in {"idle", "register"} => ~present[c] /\ ~sendClosed[c]

(* The write pump runs only while Serve is in its read pump or joins it.   *)
WriterInv ==
  \A s \in Sessions :
    writer[s] = "running" => pc[s] \in {"readPump", "wgWait"}

(* A session past its release is off its board, or the board is stopping.  *)
LeftInv ==
  \A s \in Sessions :
    pc[s] \in {"sessionsDone", "returned"} =>
      \A b \in Sessions : s \in clients[b] => quit[b] \/ b \in toQuit

(* The WaitGroup counts the Serve calls in flight, and Serve leaves its    *)
(* pumps with the transport closed; each wait of Shutdown is over for good *)
(* once Shutdown is past it.                                               *)
DrainInv ==
  /\ sessions = Cardinality({s \in Sessions : pc[s] \in InFlight})
  /\ \A s \in Sessions :
       pc[s] \in {"wgWait", "release", "closeQuit", "unregister",
                 "sessionsDone", "returned"} => connClosed[s]
  /\ shut # "idle" <=> closing
  /\ shut \in {"sessions", "stopOK", "ok"} => BoardsDrained
  /\ shut \in {"stopOK", "ok"} => \A s \in Sessions : pc[s] \notin InFlight
  /\ shut = "ok" => coord \in {"off", "exited"}

(* Everything above, at every moment of a server's life: the registry      *)
(* (hub.go:200-252), the fan-out set (board.go:142-252), the pumps         *)
(* (client.go:130-163) and the drain (hub.go:116-162) never contradict     *)
(* each other.                                                             *)
IInv ==
  /\ TypeOK
  /\ SessionInv
  /\ RegistryInv
  /\ HoldInv
  /\ FanoutInv
  /\ WriterInv
  /\ LeftInv
  /\ DrainInv
  /\ NoPanic

----------------------------------------------------------------------------
(* What a step may never do.                                               *)

(* A client loses its place on a board that is not stopping only because   *)
(* its own queue was full or it is itself leaving: a slow client costs     *)
(* nobody else their connection (board.go:167-190).                        *)
KickedForOwnQueue ==
  [][\A s \in Sessions :
       present[s] /\ ~present'[s] =>
         \/ queue[s] = SendBuffer
         \/ pc[s] = "unregister"
         \/ quit[board[s]]]_vars

----------------------------------------------------------------------------
(* What the hub implements.                                                *)

(* The board a session counts for, and what a board goroutine's place says *)
(* of the board.                                                           *)
User == [s \in Sessions |-> IF pc[s] \in Holding THEN board[s] ELSE NoBoard]
Life ==
  [b \in Sessions |->
     CASE run[b] = "none" -> "new"
       [] run[b] \in {"hydrate", "loop"} -> "up"
       [] OTHER -> "down"]

Abstract == INSTANCE Registry
              WITH Objects <- Sessions, open <- boards, user <- User,
                   life <- Life, draining <- closing

(* The counter, the mutex that covers only part of a join and a leave, and *)
(* the quit channels closed after it together keep the promise of a        *)
(* registry that knows its users (hub.go:200-252): a new session gets the  *)
(* board the others are on, a board is given up with its last session and  *)
(* no other time, and its goroutine ends only after that.                  *)
ActsAsRegistry == Abstract!Spec

----------------------------------------------------------------------------
(* Liveness, under FairSpec.                                               *)

(* The register send is always met, unless a drain begins first: hydration *)
(* ends and the loop accepts (client.go:133, board.go:80-87).              *)
JoinCompletes ==
  \A s \in Sessions : (pc[s] = "register") ~> (pc[s] # "register" \/ closing)

(* A registered session whose connection ends makes Serve return, whatever *)
(* its board, its peers and a drain do meanwhile (client.go:96-100).       *)
DisconnectReturns ==
  \A s \in Sessions :
    (pc[s] \in InFlight \ {"register"} /\ connClosed[s]) ~> (pc[s] = "returned")

(* A board all of whose sessions have gone stops: no board goroutine is    *)
(* leaked (hub.go:220-252).                                                *)
EmptyBoardStops ==
  \A b \in Sessions :
    (run[b] # "none" /\ Holders(b) = {}) ~> (run[b] = "done")

(* A drain that finds no session still waiting to register ends without    *)
(* its deadline (hub.go:116-162).                                          *)
DrainCompletes ==
  (closing /\ \A s \in Sessions : pc[s] # "register") ~> (shut \in {"ok", "err"})

(* A client its board has removed is gone: once its send channel is closed *)
(* (kick, unregister or drain) both pumps end and Serve returns, whatever  *)
(* its peer does (board.go:225-240, client.go:327-330).                    *)
RemovedReturns ==
  \A s \in Sessions : sendClosed[s] ~> (pc[s] = "returned")

----------------------------------------------------------------------------
(* A stronger statement the repository makes, which the code does not keep.*)

(* "Every goroutine a connection starts is guaranteed to exit on           *)
(* disconnect" (hub.go:12-13), a connection still registering included.    *)
DisconnectAlwaysReturns ==
  \A s \in Sessions :
    (pc[s] \in InFlight /\ connClosed[s]) ~> (pc[s] = "returned")
============================================================================
