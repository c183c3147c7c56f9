------------------------------ MODULE Presence ------------------------------
(***************************************************************************)
(* Who is on the board.  The broker keeps one roster per board, shared by  *)
(* all servers; every Serve call enters its client there and announces it, *)
(* hands the client a copy of the roster, and takes it out again at the    *)
(* end.  Announcements and cursors travel as published messages: through   *)
(* the subscription of each server with the board open into the send       *)
(* queues of its clients.  A browser keeps a list of participants and of   *)
(* cursors, and keeps both when it reconnects (web/src/App.tsx).           *)
(*                                                                         *)
(* A connection is named by the client id Serve draws for it: a browser    *)
(* that reconnects is a new participant.  One browser is watched, over all *)
(* its connections; what the others have on their screens and in their     *)
(* queues changes nothing for it, except that a full queue may end one of  *)
(* their connections, and those end at any time here.  Shape operations    *)
(* and the snapshot share the queues: for presence they only fill them     *)
(* sooner.                                                                 *)
(***************************************************************************)
EXTENDS Integers, Sequences, FiniteSets

CONSTANTS
  Servers,      \* instances that share the broker
  None,         \* no server
  MaxConns,     \* bound: how many connections are made
  MaxLive,      \* bound: how many Serve calls run at once
  MaxFaults,    \* bound: how often a broker call fails, Redis loses an
                \* announcement or a server crashes
  MaxCursors,   \* bound: how many pointer moves are published
  SubBuffer,    \* capacity of a subscription channel (256 in the code)
  SendBuffer    \* capacity of a client's send channel (256 in the code)

ASSUME PresenceBounds ==
  /\ MaxConns \in Nat /\ MaxLive \in Nat
  /\ MaxFaults \in Nat /\ MaxCursors \in Nat
  /\ SubBuffer \in Nat \ {0} /\ SendBuffer \in Nat \ {0}
ASSUME PresenceNames == None \notin Servers

Ids == 1..MaxConns
Nobody == 0

Events == [type : {"join", "leave", "cursor"}, id : Ids]
States == [type : {"state"}, id : Ids, others : SUBSET Ids]

VARIABLES
  roster,      \* the broker's roster of the board
  sub,         \* a server's subscription channel
  pc,          \* how far each Serve is in its calls
  home,        \* the server it runs on
  deaf,        \* servers whose board failed to subscribe
  faults, moves,  \* how many faults and pointer moves so far
  \* the watched browser
  self,        \* the client id of its connection
  send,        \* that client's send channel, and what is on the wire
  held,        \* the roster its sendPresenceState has fetched
  view,        \* the presence map
  cursors,     \* the cursor map
  \* history
  blind,       \* its connection got no presence.state
  spoiled,     \* participants its presence.state is wrong about
  stale,       \* cursors it kept from before it reconnected
  faulted      \* participants with a failed call or a lost announcement

serveVars   == <<pc, home, deaf>>
joinVars    == <<self, held, blind>>
screenVars  == <<view, cursors, stale>>
faultVars   == <<faults, faulted>>
vars == <<roster, sub, serveVars, moves, joinVars, send, screenVars,
          spoiled, faultVars>>

(* Defect for the mutation runs: a client is announced before it is in the *)
(* roster.                                                                 *)
Script_AnnounceFirst ==
  [start |-> "PublishJoin", PublishJoin |-> "SetPresence",
   SetPresence |-> "Presence", Presence |-> "deliverDirect",
   deliverDirect |-> "readPump", readPump |-> "RemovePresence",
   RemovePresence |-> "PublishLeave", PublishLeave |-> "release",
   release |-> "returned"]

(* The calls of a Serve that bear on presence, each with the one after it, *)
(* from the moment its client is registered: joinPresence,                 *)
(* sendPresenceState, the read pump, leavePresence, the deferred release.  *)
Script ==
  [start |-> "SetPresence", SetPresence |-> "PublishJoin",
   PublishJoin |-> "Presence", Presence |-> "deliverDirect",
   deliverDirect |-> "readPump", readPump |-> "RemovePresence",
   RemovePresence |-> "PublishLeave", PublishLeave |-> "release",
   release |-> "returned"]

Begun(c) == pc[c] # "start"
Live(c)  == pc[c] \notin {"start", "returned"}

(* Go on to the next call.  The copies of the roster the others get are    *)
(* not followed.                                                           *)
Advance(c) ==
  LET next == Script[pc[c]]
      skip == c # self /\ next = "Presence"
  IN pc' = [pc EXCEPT ![c] = IF skip THEN "readPump" ELSE next]

(* A board is open while a Serve on its server needs it.                   *)
Open(i) == \E c \in Ids : home[c] = i /\ Live(c)

(* It has a subscription from its start to its end, or never.              *)
Subscribed(i) == Open(i) /\ i \notin deaf

TypeOK ==
  /\ roster \subseteq Ids
  /\ sub \in [Servers -> Seq(Events)]
  /\ \A i \in Servers : Len(sub[i]) <= SubBuffer
  /\ pc \in [Ids -> DOMAIN Script \cup {"returned"}]
  /\ home \in [Ids -> Servers \cup {None}]
  /\ deaf \subseteq Servers
  /\ faults \in 0..MaxFaults /\ moves \in 0..MaxCursors
  /\ self \in Ids \cup {Nobody}
  /\ send \in Seq(Events \cup States) /\ Len(send) <= SendBuffer
  /\ held \subseteq Ids
  /\ view \subseteq Ids /\ cursors \subseteq Ids
  /\ blind \in BOOLEAN
  /\ spoiled \subseteq Ids /\ stale \subseteq Ids /\ faulted \subseteq Ids

Init ==
  /\ roster = {}
  /\ sub = [i \in Servers |-> <<>>]
  /\ pc = [c \in Ids |-> "start"]
  /\ home = [c \in Ids |-> None] /\ deaf = {}
  /\ faults = 0 /\ moves = 0
  /\ self = Nobody /\ send = <<>> /\ held = {}
  /\ view = {} /\ cursors = {}
  /\ blind = FALSE
  /\ spoiled = {} /\ stale = {} /\ faulted = {}

Fault(S) ==
  /\ faults < MaxFaults
  /\ faults' = faults + 1
  /\ faulted' = faulted \cup S

----------------------------------------------------------------------------
(* Messages through the broker.                                            *)

(* Broker.Publish: to every server that is subscribed, but for the ones it *)
(* is lost to (all when the call fails); a full channel drops it.          *)
Publish(m, miss) ==
  sub' = [i \in Servers |->
    IF Subscribed(i) /\ i \notin miss /\ Len(sub[i]) < SubBuffer
    THEN Append(sub[i], m) ELSE sub[i]]

Dropped == \E i \in Servers : Subscribed(i) /\ Len(sub[i]) = SubBuffer

(* Announce a client; a failure is logged.                                 *)
Announce(c, call, type) ==
  /\ pc[c] = call
  /\ Advance(c)
  /\ \E miss \in SUBSET Servers :
       /\ Publish([type |-> type, id |-> c], miss)
       /\ \/ /\ miss = {}
             /\ faulted' = IF Dropped THEN faulted \cup {c} ELSE faulted
             /\ UNCHANGED faults
          \/ miss # {} /\ Fault({c})
  /\ UNCHANGED <<roster, home, deaf, moves, joinVars, send, screenVars,
                 spoiled>>

(* The second half of joinPresence, and of leavePresence.                  *)
PublishJoin(c)  == Announce(c, "PublishJoin", "join")
PublishLeave(c) == Announce(c, "PublishLeave", "leave")

(* publishCursor: a pointer moves, and Serve stamps the client's id on. To *)
(* the watched browser one that is lost is one that was not made.          *)
PublishCursor(c) ==
  /\ pc[c] = "readPump"
  /\ moves < MaxCursors /\ moves' = moves + 1
  /\ Publish([type |-> "cursor", id |-> c], {})
  /\ UNCHANGED <<roster, serveVars, joinVars, send, screenVars,
                 spoiled, faultVars>>

----------------------------------------------------------------------------
(* Serve.                                                                  *)

(* The first Serve on a server starts its board, which subscribes before   *)
(* it takes registrations; when that fails it runs without fan-out.        *)
Subscribe(i) ==
  \/ UNCHANGED <<deaf, faultVars>>
  \/ ~Open(i) /\ Fault({}) /\ deaf' = deaf \cup {i}

(* A client with a fresh id is registered: the watched browser's, when it  *)
(* has no connection, or somebody else's.                                  *)
Connect(c, i) ==
  /\ ~Begun(c) /\ \A d \in Ids : d < c => Begun(d)
  /\ Cardinality({d \in Ids : Live(d)}) < MaxLive
  /\ Advance(c)
  /\ home' = [home EXCEPT ![c] = i]
  /\ Subscribe(i)
  /\ \/ self = Nobody /\ self' = c /\ stale' = cursors
     \/ UNCHANGED <<self, stale>>
  /\ UNCHANGED <<roster, sub, moves, held, blind, send, view, cursors, spoiled>>

(* A write to the roster; a failure is logged.                             *)
SetRoster(c, call, members) ==
  /\ pc[c] = call
  /\ Advance(c)
  /\ \/ roster' = members /\ UNCHANGED faultVars
     \/ Fault({c}) /\ UNCHANGED roster
  /\ UNCHANGED <<sub, home, deaf, moves, joinVars, send, screenVars, spoiled>>

(* The first half of joinPresence, and of leavePresence.                   *)
SetPresence(c)    == SetRoster(c, "SetPresence", roster \cup {c})
RemovePresence(c) == SetRoster(c, "RemovePresence", roster \ {c})

(* Whom sendPresenceState tells the client about, besides itself.          *)
Others(c) == roster \ {c}

(* sendPresenceState fetches the roster.                                   *)
FetchRoster(c) ==
  /\ pc[c] = "Presence"
  /\ Advance(c)
  /\ held' = IF c = self THEN Others(c) ELSE held
  /\ UNCHANGED <<roster, sub, home, deaf, moves, self, blind, send,
                 screenVars, spoiled, faultVars>>

(* The fetch fails: the client goes on to its pumps without.               *)
FetchError(c) ==
  /\ pc[c] = "Presence"
  /\ Fault({})
  /\ pc' = [pc EXCEPT ![c] = "readPump"]
  /\ blind' = (blind \/ c = self)
  /\ UNCHANGED <<roster, sub, home, deaf, moves, self, held, send,
                 screenVars, spoiled>>

(* The watched connection is closed, and what is queued for it lost.       *)
Hangup ==
  /\ self' = Nobody /\ held' = {} /\ blind' = FALSE
  /\ send' = <<>>
  /\ spoiled' = {}

Full == Len(send) = SendBuffer

(* History: participants about whom the last announcement in the queue and *)
(* the fetched roster disagree.                                            *)
Contradicted(c) ==
  {d \in Ids : \E k \in 1..Len(send) :
     /\ send[k].type \in {"join", "leave"} /\ send[k].id = d
     /\ \A l \in k + 1..Len(send) : send[l].id # d \/ send[l].type = "cursor"
     /\ (send[k].type = "join") # (d \in held \cup {c})}

(* deliverDirect: the board queues presence.state behind what it has       *)
(* already queued live, or kicks a client that is full.                    *)
DeliverState(c) ==
  /\ pc[c] = "deliverDirect"
  /\ Advance(c)
  /\ \/ /\ c = self /\ ~Full
        /\ send' = Append(send, [type |-> "state", id |-> c, others |-> held])
        /\ spoiled' = Contradicted(c)
        /\ held' = {}
        /\ UNCHANGED <<self, blind>>
     \/ c = self /\ Full /\ Hangup
     \/ c # self /\ UNCHANGED <<joinVars, send, spoiled>>
  /\ UNCHANGED <<roster, sub, home, deaf, moves, screenVars, faultVars>>

(* The read pump ends, its connection is gone: one the watched browser has *)
(* left, or another's, which breaks when it likes.                         *)
ReadPumpReturns(c) ==
  /\ pc[c] = "readPump" /\ c # self
  /\ Advance(c)
  /\ UNCHANGED <<roster, sub, home, deaf, moves, joinVars, send, screenVars,
                 spoiled, faultVars>>

(* release; the board ends with its last Serve, and its subscription too.  *)
Release(c) ==
  LET last == \A d \in Ids \ {c} : home[d] = home[c] => ~Live(d) IN
  /\ pc[c] = "release"
  /\ Advance(c)
  /\ home' = [home EXCEPT ![c] = None]
  /\ sub' = IF last THEN [sub EXCEPT ![home[c]] = <<>>] ELSE sub
  /\ deaf' = IF last THEN deaf \ {home[c]} ELSE deaf
  /\ UNCHANGED <<roster, moves, joinVars, send, screenVars, spoiled,
                 faultVars>>

(* The watched connection breaks, at any point of its Serve.               *)
Disconnect ==
  /\ self # Nobody
  /\ Hangup
  /\ UNCHANGED <<roster, sub, serveVars, moves, screenVars, faultVars>>

(* A server dies with all its connections; the shared roster stays.        *)
Crash(i) ==
  LET dead == {c \in Ids : home[c] = i /\ Live(c)} IN
  /\ dead # {}
  /\ Fault(dead)
  /\ pc' = [c \in Ids |-> IF c \in dead THEN "returned" ELSE pc[c]]
  /\ home' = [c \in Ids |-> IF c \in dead THEN None ELSE home[c]]
  /\ sub' = [sub EXCEPT ![i] = <<>>]
  /\ deaf' = deaf \ {i}
  /\ IF self \in dead THEN Hangup ELSE UNCHANGED <<joinVars, send, spoiled>>
  /\ UNCHANGED <<roster, moves, screenVars>>

----------------------------------------------------------------------------
(* The board: dispatch.                                                    *)

(* Defect for the mutation runs: a full queue takes one more.              *)
Fits_Always(m) == TRUE

(* deliverReliable finds room.                                             *)
Fits(m) == ~Full

(* An announcement for everyone on the server, a cursor for everyone else. *)
(* A full queue ends the connection, or just misses the cursor.            *)
Dispatch(i) ==
  LET m == Head(sub[i])
      cursor == m.type = "cursor"
      mine == self # Nobody /\ home[self] = i /\ ~(cursor /\ m.id = self)
  IN
  /\ sub[i] # <<>>
  /\ sub' = [sub EXCEPT ![i] = Tail(@)]
  /\ \/ /\ mine /\ Fits(m)
        /\ send' = Append(send, m)
        /\ spoiled' = IF cursor THEN spoiled ELSE spoiled \ {m.id}
        /\ UNCHANGED joinVars
     \/ mine /\ ~Fits(m) /\ ~cursor /\ Hangup
     \/ /\ ~mine \/ (cursor /\ ~Fits(m))
        /\ UNCHANGED <<joinVars, send, spoiled>>
  /\ UNCHANGED <<roster, serveVars, moves, screenVars, faultVars>>

----------------------------------------------------------------------------
(* The browser: handleMessage.                                             *)

(* Defect for the mutation runs: a participant leaves and its cursor stays.*)
CursorsAfter_Sticky(m) == IF m.type = "cursor" THEN cursors \cup {m.id} ELSE cursors

(* The cursor map after a message; presence.state does not touch it.       *)
CursorsAfter(m) ==
  CASE m.type = "cursor" -> cursors \cup {m.id}
    [] m.type = "leave"  -> cursors \ {m.id}
    [] OTHER             -> cursors

(* The presence map after a message.                                       *)
ViewAfter(m) ==
  CASE m.type = "state" -> {m.id} \cup m.others
    [] m.type = "join"  -> view \cup {m.id}
    [] m.type = "leave" -> view \ {m.id}
    [] OTHER            -> view

(* The write pump, which starts with the read pump, hands over a message.  *)
Receive ==
  LET m == Head(send) IN
  /\ self # Nobody /\ pc[self] = "readPump" /\ send # <<>>
  /\ send' = Tail(send)
  /\ view' = ViewAfter(m)
  /\ cursors' = CursorsAfter(m)
  /\ stale' = IF m.type \in {"cursor", "leave"} THEN stale \ {m.id} ELSE stale
  /\ UNCHANGED <<roster, sub, serveVars, moves, joinVars, spoiled,
                 faultVars>>

----------------------------------------------------------------------------
ServeStep(c) ==
  \/ SetPresence(c) \/ PublishJoin(c)
  \/ FetchRoster(c) \/ DeliverState(c)
  \/ ReadPumpReturns(c)
  \/ RemovePresence(c) \/ PublishLeave(c)
  \/ Release(c)

Next ==
  \/ \E c \in Ids :
       \/ \E i \in Servers : Connect(c, i)
       \/ ServeStep(c) \/ FetchError(c) \/ PublishCursor(c)
  \/ \E i \in Servers : Dispatch(i) \/ Crash(i)
  \/ Disconnect \/ Receive

Spec == Init /\ [][Next]_vars

----------------------------------------------------------------------------
(* Properties.                                                             *)

(* A participant is there while its Serve is in the read pump.             *)
Present == {c \in Ids : pc[c] = "readPump"}

(* Nobody is coming or going, and everything announced has arrived.        *)
Settled ==
  /\ self \in Present /\ send = <<>> /\ sub[home[self]] = <<>>
  /\ \A c \in Ids : Live(c) => c \in Present

(* "The roster tracks who's present" (README.md:22-23), on any server and  *)
(* after any number of reconnects: a settled browser lists a participant   *)
(* exactly when it is there.  A browser whose own roster fetch failed, or  *)
(* whose board has no subscription (board.go:88-92), is promised nothing;  *)
(* such a board costs the browsers of other servers nothing.  The other    *)
(* exceptions are per participant, so that a server that dies leaves only  *)
(* its own clients behind in the roster: a failed call or lost             *)
(* announcement of its own, and a roster copy older than the announcements *)
(* that were queued before it.                                             *)
ViewTracks ==
  Settled /\ ~blind /\ home[self] \notin deaf =>
    \A c \in Ids \ (faulted \cup spoiled) : c \in view <=> c \in Present

(* No cursor outlives its owner on the connection it arrived on, whatever  *)
(* was dropped for a full queue (App.tsx:117-121), on a board without a    *)
(* subscription too: cursors and the leave travel in order.  Cursors from  *)
(* before a reconnect are the exception.                                   *)
CursorsCurrent ==
  Settled => cursors \subseteq Present \cup faulted \cup stale
============================================================================
