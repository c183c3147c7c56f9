--------------------------- MODULE PresenceProofs ---------------------------
(* Proofs of Presence's safety properties, for any number of servers and   *)
(* connections, any number of faults and pointer moves, and any capacity   *)
(* of the two channels.                                                    *)
EXTENDS Presence, QueueProofs, TLAPS

----------------------------------------------------------------------------
(* The inductive invariant.                                                *)

(* A message that says whether d is there, and what it says.               *)
Informs(m, d) == m.type = "state" \/ (m.type \in {"join", "leave"} /\ m.id = d)
Verdict(m, d) ==
  IF m.type = "state"
  THEN IF d \in {m.id} \cup m.others THEN "join" ELSE "leave"
  ELSE m.type

(* The queue says nothing of d; the last it says of d is w.                *)
Mute(q, d) == \A k \in 1..Len(q) : ~Informs(q[k], d)
Says(q, d, w) ==
  \E k \in 1..Len(q) : /\ Informs(q[k], d) /\ Verdict(q[k], d) = w
                       /\ \A l \in 1..Len(q) : l > k => ~Informs(q[l], d)

(* d has been announced, and its leave has not.                            *)
Announced(d) ==
  pc[d] \in {"Presence", "deliverDirect", "readPump", "RemovePresence", "PublishLeave"}
Word(d) == IF Announced(d) THEN "join" ELSE "leave"

(* The roster is ahead of the announcements for d.                         *)
Between(d) == pc[d] \in {"PublishJoin", "PublishLeave"}

(* A Serve in progress has a server; a board without a subscription is an  *)
(* open one, and only open ones with a subscription receive anything.      *)
HomeInv ==
  /\ \A c \in Ids : Live(c) <=> home[c] # None
  /\ \A i \in deaf : Open(i)
  /\ \A i \in Servers : sub[i] # << >> => Subscribed(i)

(* The watched connection: it is in Serve, up to its read pump, and before *)
(* that its queue holds announcements and cursors only.                    *)
SelfInv ==
  /\ self = Nobody => send = << >>
  /\ self # Nobody =>
       pc[self] \in {"SetPresence", "PublishJoin", "Presence", "deliverDirect", "readPump"}
  /\ self # Nobody /\ pc[self] # "readPump" => send \in Seq(Events)

(* The shared roster has who is between SetPresence and RemovePresence.    *)
RosterInv ==
  \A d \in Ids \ faulted :
    d \in roster <=>
      pc[d] \in {"PublishJoin", "Presence", "deliverDirect", "readPump", "RemovePresence"}

(* The last a subscription says of a participant is what was announced.    *)
SubInv ==
  \A i \in Servers, d \in Ids \ faulted : Mute(sub[i], d) \/ Says(sub[i], d, Word(d))

(* What is queued for the watched client before its pumps run, and what    *)
(* the roster it holds adds to that.                                       *)
Joining(d) ==
  /\ Mute(send, d) \/ Says(send, d, Word(d))
  /\ pc[self] = "deliverDirect" /\ Mute(send, d) /\ ~Between(d)
       => (d \in held \cup {self} <=> Announced(d))

(* What its screen will show once its queue is empty.                      *)
Watching(d) ==
  ~blind /\ d \notin spoiled /\ ~Between(d) =>
    \/ Mute(send, d) /\ (d \in view <=> Announced(d))
    \/ Says(send, d, Word(d))

Seen(d) == IF pc[self] = "readPump" THEN Watching(d) ELSE Joining(d)

ViewInv ==
  self # Nobody /\ home[self] \notin deaf =>
    \A d \in Ids \ faulted : Mute(sub[home[self]], d) => Seen(d)

(* On a board without a subscription the watched client is queued only its *)
(* presence.state, and sees no cursor but those it has kept.               *)
DeafInv ==
  self # Nobody /\ home[self] \in deaf =>
    /\ cursors \subseteq stale
    /\ \A k \in 1..Len(send) : send[k].type = "state"

(* Cursors of d may still be published, or its leave has not been.         *)
Alive(d) == pc[d] \in {"readPump", "RemovePresence", "PublishLeave"}

IsLeave(m, d) == m.type = "leave" /\ m.id = d
IsCursor(m, d) == m.type = "cursor" /\ m.id = d

(* The queue holds d's leave; every cursor of d in it is before a leave.   *)
Leaves(q, d) == \E k \in 1..Len(q) : IsLeave(q[k], d)
Closes(q, d) ==
  \A k \in 1..Len(q) :
    IsCursor(q[k], d) => \E l \in 1..Len(q) : l > k /\ IsLeave(q[l], d)

(* The watched screen has no cursor of d, or d's leave is on its way.      *)
Swept(d) ==
  self # Nobody /\ ~Leaves(sub[home[self]], d) =>
    /\ Closes(send, d)
    /\ d \in cursors \ stale => Leaves(send, d)

CursorInv ==
  \A d \in Ids \ faulted :
    ~Alive(d) => Swept(d) /\ \A i \in Servers : Closes(sub[i], d)

RInv ==
  TypeOK /\ HomeInv /\ SelfInv /\ RosterInv /\ SubInv /\ ViewInv /\ DeafInv /\ CursorInv

----------------------------------------------------------------------------
(* Queues of announcements and cursors.                                    *)

(* An empty queue says nothing and holds no cursor.                        *)
LEMMA EmptyQueue ==
  ASSUME NEW d
  PROVE  Mute(<< >>, d) /\ Closes(<< >>, d) /\ ~Leaves(<< >>, d)
BY DEF Mute, Closes, Leaves

(* A queue that says something is not mute.                                *)
LEMMA SaysSomething ==
  ASSUME NEW q, NEW d, NEW w, Says(q, d, w) PROVE ~Mute(q, d)
BY DEF Says, Mute

(* What a queue says of d after a message at its end.                      *)
LEMMA AppendSays ==
  ASSUME NEW T, NEW q \in Seq(T), NEW m \in T, NEW d
  PROVE  /\ Informs(m, d) => /\ ~Mute(Append(q, m), d)
                             /\ Says(Append(q, m), d, Verdict(m, d))
         /\ ~Informs(m, d) => /\ Mute(Append(q, m), d) <=> Mute(q, d)
                              /\ \A w : Says(q, d, w) => Says(Append(q, m), d, w)
<1> DEFINE r == Append(q, m)
<1>1. /\ Len(q) \in Nat /\ Len(r) = Len(q) + 1 /\ r[Len(q) + 1] = m
      /\ \A j \in 1..Len(q) : r[j] = q[j]
  BY QueueTypes
<1>2. /\ Len(q) + 1 \in 1..Len(r) /\ \A j \in 1..Len(q) : j \in 1..Len(r)
      /\ \A j \in 1..Len(r) : j = Len(q) + 1 \/ j \in 1..Len(q)
      /\ \A j \in 1..Len(r) : ~(j > Len(q) + 1)
  BY <1>1
<1> HIDE DEF r
<1>3. ASSUME Informs(m, d) PROVE ~Mute(r, d) /\ Says(r, d, Verdict(m, d))
  BY <1>1, <1>2, <1>3 DEF Mute, Says
<1>4. ASSUME ~Informs(m, d) PROVE Mute(r, d) <=> Mute(q, d)
  BY <1>1, <1>2, <1>4 DEF Mute
<1>5. ASSUME ~Informs(m, d), NEW w, Says(q, d, w) PROVE Says(r, d, w)
  <2>1. PICK k \in 1..Len(q) : /\ Informs(q[k], d) /\ Verdict(q[k], d) = w
                               /\ \A l \in 1..Len(q) : l > k => ~Informs(q[l], d)
    BY <1>5 DEF Says
  <2>2. k \in 1..Len(r) /\ r[k] = q[k]
    BY <1>1, <1>2
  <2>3. \A l \in 1..Len(r) : l > k => ~Informs(r[l], d)
    BY <1>1, <1>2, <1>5, <2>1
  <2> QED BY <2>1, <2>2, <2>3 DEF Says
<1> QED BY <1>3, <1>4, <1>5 DEF r

(* What a queue says of d once its front is taken.                         *)
LEMMA TailSays ==
  ASSUME NEW T, NEW q \in Seq(T), q # << >>, NEW d
  PROVE  /\ ~Informs(Head(q), d) => (Mute(Tail(q), d) <=> Mute(q, d))
         /\ Mute(q, d) => Mute(Tail(q), d) /\ ~Informs(Head(q), d)
         /\ \A w : Says(q, d, w) =>
              \/ Says(Tail(q), d, w)
              \/ Mute(Tail(q), d) /\ Informs(Head(q), d) /\ Verdict(Head(q), d) = w
<1> DEFINE r == Tail(q)
<1>1. /\ Len(q) \in Nat /\ Len(q) >= 1 /\ Len(r) = Len(q) - 1
      /\ Head(q) = q[1]
      /\ \A j \in 1..Len(q) - 1 : r[j] = q[j + 1]
  BY QueueTypes
<1>2. \A j \in 1..Len(q) : j = 1 \/ (j - 1 \in 1..Len(r) /\ r[j - 1] = q[j])
  <2> SUFFICES ASSUME NEW j \in 1..Len(q), j # 1
               PROVE  j - 1 \in 1..Len(r) /\ r[j - 1] = q[j]
    OBVIOUS
  <2>1. j - 1 \in 1..Len(q) - 1 /\ (j - 1) + 1 = j
    BY <1>1
  <2> QED BY <1>1, <2>1
<1>3. \A j \in 1..Len(r) : j \in Int /\ j + 1 \in 1..Len(q) /\ r[j] = q[j + 1]
  BY <1>1
<1>4. 1 \in 1..Len(q)
  BY <1>1
<1> HIDE DEF r
<1>5. Mute(q, d) => Mute(r, d) /\ ~Informs(Head(q), d)
  BY <1>1, <1>3, <1>4 DEF Mute
<1>6. ~Informs(Head(q), d) /\ Mute(r, d) => Mute(q, d)
  BY <1>1, <1>2 DEF Mute
<1>7. ASSUME NEW w, Says(q, d, w)
      PROVE  \/ Says(r, d, w)
             \/ Mute(r, d) /\ Informs(Head(q), d) /\ Verdict(Head(q), d) = w
  <2>1. PICK k \in 1..Len(q) : /\ Informs(q[k], d) /\ Verdict(q[k], d) = w
                               /\ \A l \in 1..Len(q) : l > k => ~Informs(q[l], d)
    BY <1>7 DEF Says
  <2>2. CASE k = 1
    <3>1. \A j \in 1..Len(r) : j + 1 > k
      BY <1>3, <2>2
    <3> QED BY <1>1, <1>3, <2>1, <2>2, <3>1 DEF Mute
  <2>3. CASE k # 1
    <3>1. k - 1 \in 1..Len(r) /\ r[k - 1] = q[k]
      BY <1>2, <2>3
    <3>2. \A l \in 1..Len(r) : l > k - 1 => ~Informs(r[l], d)
      <4> SUFFICES ASSUME NEW l \in 1..Len(r), l > k - 1 PROVE ~Informs(r[l], d)
        OBVIOUS
      <4>1. l + 1 > k /\ l + 1 \in 1..Len(q) /\ r[l] = q[l + 1]
        BY <1>3
      <4> QED BY <2>1, <4>1
    <3> QED BY <2>1, <3>1, <3>2 DEF Says
  <2> QED BY <2>2, <2>3
<1> QED BY <1>5, <1>6, <1>7 DEF r

(* The cursors and the leave of d in a queue after a message at its end.   *)
LEMMA AppendCloses ==
  ASSUME NEW T, NEW q \in Seq(T), NEW m \in T, NEW d
  PROVE  /\ Leaves(Append(q, m), d) <=> Leaves(q, d) \/ IsLeave(m, d)
         /\ IsLeave(m, d) => Closes(Append(q, m), d)
         /\ ~IsCursor(m, d) /\ Closes(q, d) => Closes(Append(q, m), d)
<1> DEFINE r == Append(q, m)
<1>1. /\ Len(q) \in Nat /\ Len(r) = Len(q) + 1 /\ r[Len(q) + 1] = m
      /\ \A j \in 1..Len(q) : r[j] = q[j]
  BY QueueTypes
<1>2. /\ Len(q) + 1 \in 1..Len(r) /\ \A j \in 1..Len(q) : j \in 1..Len(r) /\ Len(q) + 1 > j
      /\ \A j \in 1..Len(r) : j = Len(q) + 1 \/ j \in 1..Len(q)
  BY <1>1
<1> HIDE DEF r
<1>3. Leaves(r, d) <=> Leaves(q, d) \/ IsLeave(m, d)
  BY <1>1, <1>2 DEF Leaves
<1>4. IsLeave(m, d) => ~IsCursor(m, d)
  BY DEF IsLeave, IsCursor
<1>5. ASSUME IsLeave(m, d) PROVE Closes(r, d)
  <2> SUFFICES ASSUME NEW k \in 1..Len(r), IsCursor(r[k], d)
               PROVE  \E l \in 1..Len(r) : l > k /\ IsLeave(r[l], d)
    BY DEF Closes
  <2>1. k \in 1..Len(q)
    BY <1>1, <1>2, <1>4, <1>5
  <2> QED BY <1>1, <1>2, <1>5, <2>1
<1>6. ASSUME ~IsCursor(m, d), Closes(q, d) PROVE Closes(r, d)
  <2> SUFFICES ASSUME NEW k \in 1..Len(r), IsCursor(r[k], d)
               PROVE  \E l \in 1..Len(r) : l > k /\ IsLeave(r[l], d)
    BY DEF Closes
  <2>1. k \in 1..Len(q) /\ IsCursor(q[k], d)
    BY <1>1, <1>2, <1>6
  <2>2. PICK l \in 1..Len(q) : l > k /\ IsLeave(q[l], d)
    BY <1>6, <2>1 DEF Closes
  <2> QED BY <1>1, <1>2, <2>2
<1> QED BY <1>3, <1>5, <1>6 DEF r

(* The cursors and the leave of d in a queue once its front is taken.      *)
LEMMA TailCloses ==
  ASSUME NEW T, NEW q \in Seq(T), q # << >>, NEW d
  PROVE  /\ Leaves(q, d) <=> Leaves(Tail(q), d) \/ IsLeave(Head(q), d)
         /\ Closes(q, d) => Closes(Tail(q), d)
         /\ Closes(q, d) /\ IsCursor(Head(q), d) => Leaves(Tail(q), d)
<1> DEFINE r == Tail(q)
<1>1. /\ Len(q) \in Nat /\ Len(q) >= 1 /\ Len(r) = Len(q) - 1
      /\ Head(q) = q[1]
      /\ \A j \in 1..Len(q) - 1 : r[j] = q[j + 1]
  BY QueueTypes
<1>2. \A j \in 1..Len(q) : j = 1 \/ (j - 1 \in 1..Len(r) /\ r[j - 1] = q[j])
  <2> SUFFICES ASSUME NEW j \in 1..Len(q), j # 1
               PROVE  j - 1 \in 1..Len(r) /\ r[j - 1] = q[j]
    OBVIOUS
  <2>1. j - 1 \in 1..Len(q) - 1 /\ (j - 1) + 1 = j
    BY <1>1
  <2> QED BY <1>1, <2>1
<1>3. \A j \in 1..Len(r) : j \in Int /\ j >= 1 /\ j + 1 \in 1..Len(q) /\ r[j] = q[j + 1]
  BY <1>1
<1>4. 1 \in 1..Len(q)
  BY <1>1
<1> HIDE DEF r
<1>5. Leaves(q, d) <=> Leaves(r, d) \/ IsLeave(Head(q), d)
  BY <1>1, <1>2, <1>3, <1>4 DEF Leaves
<1>6. ASSUME Closes(q, d) PROVE Closes(r, d)
  <2> SUFFICES ASSUME NEW k \in 1..Len(r), IsCursor(r[k], d)
               PROVE  \E l \in 1..Len(r) : l > k /\ IsLeave(r[l], d)
    BY DEF Closes
  <2>1. k + 1 \in 1..Len(q) /\ IsCursor(q[k + 1], d)
    BY <1>3
  <2>2. PICK l \in 1..Len(q) : l > k + 1 /\ IsLeave(q[l], d)
    BY <1>6, <2>1 DEF Closes
  <2>3. l # 1 /\ l - 1 > k
    BY <1>3, <2>2
  <2> QED BY <1>2, <2>2, <2>3
<1>7. ASSUME Closes(q, d), IsCursor(Head(q), d) PROVE Leaves(r, d)
  <2>1. PICK l \in 1..Len(q) : l > 1 /\ IsLeave(q[l], d)
    BY <1>1, <1>4, <1>7 DEF Closes
  <2> QED BY <1>2, <2>1 DEF Leaves
<1> QED BY <1>5, <1>6, <1>7 DEF r

----------------------------------------------------------------------------
(* The calls of a Serve.                                                   *)

Moves(c, from, to) == pc[c] = from /\ pc' = [pc EXCEPT ![c] = to]

(* Serve makes its calls in the order of Script.                           *)
LEMMA Calls ==
  ASSUME NEW c
  PROVE  /\ \A i : Connect(c, i) => Moves(c, "start", "SetPresence")
         /\ SetPresence(c) => Moves(c, "SetPresence", "PublishJoin")
         /\ PublishJoin(c) =>
              Moves(c, "PublishJoin", IF c = self THEN "Presence" ELSE "readPump")
         /\ FetchRoster(c) => Moves(c, "Presence", "deliverDirect")
         /\ FetchError(c) => Moves(c, "Presence", "readPump")
         /\ DeliverState(c) => Moves(c, "deliverDirect", "readPump")
         /\ ReadPumpReturns(c) => Moves(c, "readPump", "RemovePresence")
         /\ RemovePresence(c) => Moves(c, "RemovePresence", "PublishLeave")
         /\ PublishLeave(c) => Moves(c, "PublishLeave", "release")
         /\ Release(c) => Moves(c, "release", "returned")
<1>1. /\ Script["start"] = "SetPresence" /\ Script["SetPresence"] = "PublishJoin"
      /\ Script["PublishJoin"] = "Presence" /\ Script["Presence"] = "deliverDirect"
      /\ Script["deliverDirect"] = "readPump" /\ Script["readPump"] = "RemovePresence"
      /\ Script["RemovePresence"] = "PublishLeave" /\ Script["PublishLeave"] = "release"
      /\ Script["release"] = "returned"
  BY DEF Script
<1>2. ASSUME NEW from, NEW to, pc[c] = from, Script[from] = to, to # "Presence", Advance(c)
      PROVE  Moves(c, from, to)
  BY <1>2 DEF Advance, Moves
<1>3. \A i : Connect(c, i) => Moves(c, "start", "SetPresence")
  BY <1>1, <1>2 DEF Connect, Begun
<1>4. SetPresence(c) => Moves(c, "SetPresence", "PublishJoin")
  BY <1>1, <1>2 DEF SetPresence, SetRoster
<1>5. PublishJoin(c) => Moves(c, "PublishJoin", IF c = self THEN "Presence" ELSE "readPump")
  BY <1>1 DEF PublishJoin, Announce, Advance, Moves
<1>6. FetchRoster(c) => Moves(c, "Presence", "deliverDirect")
  BY <1>1, <1>2 DEF FetchRoster
<1>7. FetchError(c) => Moves(c, "Presence", "readPump")
  BY DEF FetchError, Moves
<1>8. DeliverState(c) => Moves(c, "deliverDirect", "readPump")
  BY <1>1, <1>2 DEF DeliverState
<1>9. ReadPumpReturns(c) => Moves(c, "readPump", "RemovePresence")
  BY <1>1, <1>2 DEF ReadPumpReturns
<1>10. RemovePresence(c) => Moves(c, "RemovePresence", "PublishLeave")
  BY <1>1, <1>2 DEF RemovePresence, SetRoster
<1>11. PublishLeave(c) => Moves(c, "PublishLeave", "release")
  BY <1>1, <1>2 DEF PublishLeave, Announce
<1>12. Release(c) => Moves(c, "release", "returned")
  BY <1>1, <1>2 DEF Release
<1> QED BY <1>3, <1>4, <1>5, <1>6, <1>7, <1>8, <1>9, <1>10, <1>11, <1>12

----------------------------------------------------------------------------
(* Types.                                                                  *)

Points ==
  {"start", "SetPresence", "PublishJoin", "Presence", "deliverDirect", "readPump",
   "RemovePresence", "PublishLeave", "release", "returned"}

(* The points of a Serve.                                                  *)
LEMMA PointsOfServe == DOMAIN Script \cup {"returned"} = Points
BY DEF Script, Points

(* Nobody is connected at the start.                                       *)
LEMMA TypeInit == Init => TypeOK
<1>1. << >> \in Seq(Events) /\ << >> \in Seq(Events \cup States) /\ Len(<< >>) = 0
  OBVIOUS
<1> SUFFICES ASSUME Init PROVE TypeOK
  OBVIOUS
<1>2. /\ sub \in [Servers -> Seq(Events)] /\ \A i \in Servers : Len(sub[i]) <= SubBuffer
      /\ send \in Seq(Events \cup States) /\ Len(send) <= SendBuffer
  BY <1>1, PresenceBounds DEF Init
<1>3. pc \in [Ids -> DOMAIN Script \cup {"returned"}] /\ home \in [Ids -> Servers \cup {None}]
  BY PointsOfServe DEF Init, Points
<1>4. faults \in 0..MaxFaults /\ moves \in 0..MaxCursors /\ self \in Ids \cup {Nobody}
  BY PresenceBounds DEF Init
<1>5. blind \in BOOLEAN
  BY DEF Init
<1>6. /\ roster \subseteq Ids /\ held \subseteq Ids /\ view \subseteq Ids
      /\ deaf \subseteq Servers /\ cursors \subseteq Ids /\ spoiled \subseteq Ids /\ stale \subseteq Ids
      /\ faulted \subseteq Ids
  BY DEF Init
<1> QED BY <1>2, <1>3, <1>4, <1>5, <1>6 DEF TypeOK

(* A message to the subscribers leaves every channel within its capacity.  *)
LEMMA PublishTypes ==
  ASSUME TypeOK, NEW m \in Events, NEW miss, Publish(m, miss)
  PROVE  /\ sub' \in [Servers -> Seq(Events)]
         /\ \A i \in Servers : Len(sub'[i]) <= SubBuffer
<1>1. ASSUME NEW i \in Servers
      PROVE  /\ sub[i] \in Seq(Events) /\ Len(sub[i]) \in Nat /\ Len(sub[i]) <= SubBuffer
             /\ Append(sub[i], m) \in Seq(Events)
             /\ Len(Append(sub[i], m)) = Len(sub[i]) + 1
  BY QueueTypes DEF TypeOK
<1>2. sub' \in [Servers -> Seq(Events)]
  BY <1>1 DEF Publish
<1>3. ASSUME NEW i \in Servers PROVE Len(sub'[i]) <= SubBuffer
  BY <1>1, PresenceBounds DEF Publish
<1> QED BY <1>2, <1>3

(* Every step keeps the types, and every channel within its capacity.      *)
LEMMA TypeStep == TypeOK /\ [Next]_vars => TypeOK'
<1> SUFFICES ASSUME TypeOK, [Next]_vars PROVE TypeOK'
  OBVIOUS
<1> USE PresenceBounds
<1>p. pc \in [Ids -> Points] /\ (pc' \in [Ids -> Points]
        => pc' \in [Ids -> DOMAIN Script \cup {"returned"}])
  BY PointsOfServe DEF TypeOK
<1>m. ASSUME NEW c \in Ids, NEW from, NEW to, to \in Points, Moves(c, from, to)
      PROVE  pc' \in [Ids -> DOMAIN Script \cup {"returned"}]
  BY <1>m, <1>p DEF Moves
<1>e. << >> \in Seq(Events) /\ << >> \in Seq(Events \cup States) /\ Len(<< >>) = 0
  OBVIOUS
<1>h. ASSUME Hangup
      PROVE  /\ self' \in Ids \cup {Nobody} /\ held' \subseteq Ids /\ blind' \in BOOLEAN
             /\ send' \in Seq(Events \cup States) /\ Len(send') <= SendBuffer
             /\ spoiled' \subseteq Ids
  <2>1. blind' \in BOOLEAN
    BY <1>h DEF Hangup
  <2>2. /\ self' \in Ids \cup {Nobody} /\ held' \subseteq Ids
        /\ send' \in Seq(Events \cup States) /\ Len(send') <= SendBuffer
        /\ spoiled' \subseteq Ids
    BY <1>h, <1>e DEF Hangup
  <2> QED BY <2>1, <2>2
<1>a. ASSUME NEW c \in Ids, NEW t \in {"join", "leave", "cursor"}
      PROVE  [type |-> t, id |-> c] \in Events
  BY DEF Events
<1>f. ASSUME NEW S \in SUBSET Ids, Fault(S) PROVE faults' \in 0..MaxFaults /\ faulted' \subseteq Ids
  BY <1>f DEF Fault, TypeOK
<1>1. ASSUME NEW c \in Ids, NEW i \in Servers, Connect(c, i) PROVE TypeOK'
  <2>1. pc' \in [Ids -> DOMAIN Script \cup {"returned"}]
    BY <1>1, <1>m, Calls DEF Points
  <2>2. home' \in [Ids -> Servers \cup {None}] /\ self' \in Ids \cup {Nobody}
        /\ stale' \subseteq Ids
    BY <1>1 DEF Connect, TypeOK
  <2>3. deaf' \subseteq Servers /\ faults' \in 0..MaxFaults /\ faulted' \subseteq Ids
    BY <1>1, <1>f DEF Connect, Subscribe, TypeOK, faultVars
  <2> QED BY <1>1, <2>1, <2>2, <2>3 DEF Connect, TypeOK
<1>2. ASSUME NEW c \in Ids, SetPresence(c) \/ RemovePresence(c) PROVE TypeOK'
  <2>1. pc' \in [Ids -> DOMAIN Script \cup {"returned"}]
    BY <1>2, <1>m, Calls DEF Points
  <2>2. roster' \subseteq Ids /\ faults' \in 0..MaxFaults /\ faulted' \subseteq Ids
    BY <1>2, <1>f DEF SetPresence, RemovePresence, SetRoster, TypeOK, faultVars
  <2>3. UNCHANGED <<sub, home, deaf, moves, joinVars, send, screenVars, spoiled>>
    BY <1>2 DEF SetPresence, RemovePresence, SetRoster
  <2> QED BY <2>1, <2>2, <2>3 DEF TypeOK, joinVars, screenVars
<1>3. ASSUME NEW c \in Ids, PublishJoin(c) \/ PublishLeave(c) PROVE TypeOK'
  <2>1. pc' \in [Ids -> DOMAIN Script \cup {"returned"}]
    BY <1>3, <1>m, Calls DEF Points
  <2>2. PICK t \in {"join", "leave", "cursor"} : \E call : Announce(c, call, t)
    BY <1>3 DEF PublishJoin, PublishLeave
  <2>3. UNCHANGED <<roster, home, deaf, moves, joinVars, send, screenVars, spoiled>>
    BY <2>2 DEF Announce
  <2>4. faults' \in 0..MaxFaults /\ faulted' \subseteq Ids
    BY <2>2, <1>f DEF Announce, TypeOK
  <2>5. /\ sub' \in [Servers -> Seq(Events)]
        /\ \A i \in Servers : Len(sub'[i]) <= SubBuffer
    <3>1. PICK miss : Publish([type |-> t, id |-> c], miss)
      BY <2>2 DEF Announce
    <3> QED BY <3>1, <1>a, PublishTypes
  <2> QED BY <2>1, <2>3, <2>4, <2>5 DEF TypeOK, joinVars, screenVars
<1>4. ASSUME NEW c \in Ids, FetchRoster(c) PROVE TypeOK'
  <2>1. pc' \in [Ids -> DOMAIN Script \cup {"returned"}]
    BY <1>4, <1>m, Calls DEF Points
  <2>2. held' \subseteq Ids
    BY <1>4 DEF FetchRoster, Others, TypeOK
  <2> QED BY <1>4, <2>1, <2>2 DEF FetchRoster, TypeOK, screenVars, faultVars
<1>5. ASSUME NEW c \in Ids, FetchError(c) PROVE TypeOK'
  <2>1. pc' \in [Ids -> DOMAIN Script \cup {"returned"}]
    BY <1>5, <1>m, Calls DEF Points
  <2>2. faults' \in 0..MaxFaults /\ faulted' \subseteq Ids /\ blind' \in BOOLEAN
    BY <1>5, <1>f DEF FetchError
  <2> QED BY <1>5, <2>1, <2>2 DEF FetchError, TypeOK, screenVars
<1>6. ASSUME NEW c \in Ids, DeliverState(c) PROVE TypeOK'
  <2>1. pc' \in [Ids -> DOMAIN Script \cup {"returned"}]
    BY <1>6, <1>m, Calls DEF Points
  <2>2. UNCHANGED <<roster, sub, home, deaf, moves, screenVars, faultVars>>
    BY <1>6 DEF DeliverState
  <2>3. /\ self' \in Ids \cup {Nobody} /\ held' \subseteq Ids /\ blind' \in BOOLEAN
        /\ send' \in Seq(Events \cup States) /\ Len(send') <= SendBuffer
        /\ spoiled' \subseteq Ids
    <3>1. CASE Hangup
      BY <3>1, <1>h
    <3>2. CASE UNCHANGED <<joinVars, send, spoiled>>
      BY <3>2 DEF TypeOK, joinVars
    <3>3. CASE /\ ~Full /\ UNCHANGED <<self, blind>> /\ held' = {}
               /\ send' = Append(send, [type |-> "state", id |-> c, others |-> held])
               /\ spoiled' = Contradicted(c)
      <4>1. [type |-> "state", id |-> c, others |-> held] \in Events \cup States
        BY DEF States, TypeOK
      <4>2. /\ send' \in Seq(Events \cup States) /\ Len(send') = Len(send) + 1
            /\ Len(send) \in Nat
        BY <3>3, <4>1, QueueTypes DEF TypeOK
      <4>3. Len(send') <= SendBuffer
        BY <3>3, <4>2 DEF Full, TypeOK
      <4>4. spoiled' \subseteq Ids
        BY <3>3 DEF Contradicted
      <4> QED BY <3>3, <4>2, <4>3, <4>4 DEF TypeOK
    <3> QED BY <1>6, <3>1, <3>2, <3>3 DEF DeliverState
  <2> QED BY <2>1, <2>2, <2>3 DEF TypeOK, screenVars, faultVars
<1>7. ASSUME NEW c \in Ids, ReadPumpReturns(c) PROVE TypeOK'
  <2>1. pc' \in [Ids -> DOMAIN Script \cup {"returned"}]
    BY <1>7, <1>m, Calls DEF Points
  <2> QED BY <1>7, <2>1 DEF ReadPumpReturns, TypeOK, joinVars, screenVars, faultVars
<1>8. ASSUME NEW c \in Ids, Release(c) PROVE TypeOK'
  <2>1. pc' \in [Ids -> DOMAIN Script \cup {"returned"}]
    BY <1>8, <1>m, Calls DEF Points
  <2>2. home' \in [Ids -> Servers \cup {None}] /\ deaf' \subseteq Servers
    BY <1>8 DEF Release, TypeOK
  <2>3. sub' = sub \/ sub' = [sub EXCEPT ![home[c]] = << >>]
    BY <1>8 DEF Release
  <2>4. /\ sub' \in [Servers -> Seq(Events)]
        /\ \A i \in Servers : Len(sub'[i]) <= SubBuffer
    <3>1. CASE sub' = sub
      BY <3>1 DEF TypeOK
    <3>2. CASE sub' = [sub EXCEPT ![home[c]] = << >>]
      <4>1. \A i \in Servers : sub'[i] = << >> \/ sub'[i] = sub[i]
        BY <3>2 DEF TypeOK
      <4>2. sub' \in [Servers -> Seq(Events)]
        BY <3>2, <1>e DEF TypeOK
      <4> QED BY <1>e, <4>1, <4>2 DEF TypeOK
    <3> QED BY <2>3, <3>1, <3>2
  <2> QED BY <1>8, <2>1, <2>2, <2>4 DEF Release, TypeOK, joinVars, screenVars, faultVars
<1>9. ASSUME NEW c \in Ids, PublishCursor(c) PROVE TypeOK'
  <2>1. /\ sub' \in [Servers -> Seq(Events)]
        /\ \A i \in Servers : Len(sub'[i]) <= SubBuffer
    BY <1>9, <1>a, PublishTypes DEF PublishCursor
  <2>2. moves' \in 0..MaxCursors
    BY <1>9 DEF PublishCursor, TypeOK
  <2> QED BY <1>9, <2>1, <2>2
          DEF PublishCursor, TypeOK, serveVars, joinVars, screenVars, faultVars
<1>10. ASSUME NEW i \in Servers, Dispatch(i) PROVE TypeOK'
  <2> DEFINE m == Head(sub[i])
  <2>1. /\ sub[i] # << >> /\ sub' = [sub EXCEPT ![i] = Tail(@)]
        /\ UNCHANGED <<roster, serveVars, moves, screenVars, faultVars>>
    BY <1>10 DEF Dispatch
  <2>2. /\ m \in Events /\ Tail(sub[i]) \in Seq(Events)
        /\ Len(Tail(sub[i])) = Len(sub[i]) - 1 /\ Len(sub[i]) \in Nat
        /\ Len(sub[i]) <= SubBuffer
    BY <2>1, QueueTypes DEF TypeOK
  <2>3. /\ sub' \in [Servers -> Seq(Events)]
        /\ \A j \in Servers : Len(sub'[j]) <= SubBuffer
    BY <2>1, <2>2 DEF TypeOK
  <2>4. /\ self' \in Ids \cup {Nobody} /\ held' \subseteq Ids /\ blind' \in BOOLEAN
        /\ send' \in Seq(Events \cup States) /\ Len(send') <= SendBuffer
        /\ spoiled' \subseteq Ids
    <3>1. CASE Hangup
      BY <3>1, <1>h
    <3>2. CASE UNCHANGED <<joinVars, send, spoiled>>
      BY <3>2 DEF TypeOK, joinVars
    <3>3. CASE /\ Fits(m) /\ send' = Append(send, m) /\ UNCHANGED joinVars
               /\ spoiled' \subseteq spoiled
      <4>1. /\ send' \in Seq(Events \cup States) /\ Len(send') = Len(send) + 1
            /\ Len(send) \in Nat
        BY <2>2, <3>3, QueueTypes DEF TypeOK
      <4>2. Len(send') <= SendBuffer
        BY <3>3, <4>1 DEF Fits, Full, TypeOK
      <4> QED BY <3>3, <4>1, <4>2 DEF TypeOK, joinVars
    <3> QED BY <1>10, <3>1, <3>2, <3>3 DEF Dispatch
  <2> QED BY <2>1, <2>3, <2>4 DEF TypeOK, serveVars, screenVars, faultVars
<1>11. ASSUME NEW i \in Servers, Crash(i) PROVE TypeOK'
  <2> DEFINE dead == {c \in Ids : home[c] = i /\ Live(c)}
  <2>1. /\ Fault(dead) /\ sub' = [sub EXCEPT ![i] = << >>]
        /\ pc' = [c \in Ids |-> IF c \in dead THEN "returned" ELSE pc[c]]
        /\ home' = [c \in Ids |-> IF c \in dead THEN None ELSE home[c]]
        /\ Hangup \/ UNCHANGED <<joinVars, send, spoiled>>
        /\ deaf' = deaf \ {i} /\ UNCHANGED <<roster, moves, screenVars>>
    BY <1>11 DEF Crash
  <2>2. faults' \in 0..MaxFaults /\ faulted' \subseteq Ids
    BY <2>1, <1>f
  <2> HIDE DEF dead
  <2>3. pc' \in [Ids -> DOMAIN Script \cup {"returned"}] /\ home' \in [Ids -> Servers \cup {None}]
    BY <2>1, <1>p DEF TypeOK, Points
  <2>4. /\ sub' \in [Servers -> Seq(Events)]
        /\ \A j \in Servers : Len(sub'[j]) <= SubBuffer
    BY <2>1, <1>e DEF TypeOK
  <2>5. /\ self' \in Ids \cup {Nobody} /\ held' \subseteq Ids /\ blind' \in BOOLEAN
        /\ send' \in Seq(Events \cup States) /\ Len(send') <= SendBuffer
        /\ spoiled' \subseteq Ids
    BY <2>1, <1>h DEF TypeOK, joinVars
  <2> QED BY <2>1, <2>2, <2>3, <2>4, <2>5 DEF TypeOK, screenVars
<1>12. CASE Disconnect
  BY <1>12, <1>h DEF Disconnect, TypeOK, serveVars, screenVars, faultVars
<1>13. CASE Receive
  <2> DEFINE m == Head(send)
  <2>1. /\ send # << >> /\ send' = Tail(send)
        /\ view' = ViewAfter(m) /\ cursors' = CursorsAfter(m) /\ stale' \subseteq stale
        /\ UNCHANGED <<roster, sub, serveVars, moves, joinVars, spoiled, faultVars>>
    BY <1>13 DEF Receive
  <2>2. /\ m \in Events \cup States /\ send' \in Seq(Events \cup States)
        /\ Len(send') = Len(send) - 1 /\ Len(send) \in Nat
    BY <2>1, QueueTypes DEF TypeOK
  <2> HIDE DEF m
  <2>3. m.id \in Ids /\ (m.type = "state" => m.others \subseteq Ids)
    BY <2>2 DEF Events, States
  <2>4. view' \subseteq Ids /\ cursors' \subseteq Ids
    BY <2>1, <2>3 DEF ViewAfter, CursorsAfter, TypeOK
  <2>5. Len(send') <= SendBuffer
    BY <2>2 DEF TypeOK
  <2> QED BY <2>1, <2>2, <2>4, <2>5 DEF TypeOK, serveVars, joinVars, faultVars
<1>14. CASE UNCHANGED vars
  BY <1>14 DEF TypeOK, vars, serveVars, joinVars, screenVars, faultVars
<1> QED BY <1>1, <1>2, <1>3, <1>4, <1>5, <1>6, <1>7, <1>8, <1>9, <1>10, <1>11, <1>12,
           <1>13, <1>14 DEF Next, ServeStep

----------------------------------------------------------------------------
(* Boards, the watched connection and the roster.                          *)

(* One Serve goes on and the others stay where they are.                   *)
LEMMA OneMoves ==
  ASSUME TypeOK, NEW c \in Ids, NEW from, NEW to, Moves(c, from, to)
  PROVE  pc[c] = from /\ pc'[c] = to /\ \A d \in Ids : d # c => pc'[d] = pc[d]
BY DEF Moves, TypeOK

(* A published message goes to the end of subscriptions only; it is lost   *)
(* where Redis or a full channel loses it.                                 *)
LEMMA Published ==
  ASSUME TypeOK, NEW m \in Events, NEW miss, Publish(m, miss), NEW i \in Servers
  PROVE  /\ Subscribed(i) /\ ~Dropped /\ miss = {} => sub'[i] = Append(sub[i], m)
         /\ sub'[i] = Append(sub[i], m) \/ sub'[i] = sub[i]
         /\ ~Subscribed(i) => sub'[i] = sub[i]
<1>1. Len(sub[i]) \in Nat /\ Len(sub[i]) <= SubBuffer /\ SubBuffer \in Nat
  BY QueueTypes, PresenceBounds DEF TypeOK
<1>2. Len(sub[i]) < SubBuffer \/ Len(sub[i]) = SubBuffer
  BY <1>1
<1> QED BY <1>2 DEF Publish, Dropped

(* A board is open exactly while a Serve on its server needs it            *)
(* (acquire and release), and without a subscription nothing reaches it.   *)
LEMMA HomeStep == TypeOK /\ HomeInv /\ [Next]_vars => HomeInv'
<1> SUFFICES ASSUME TypeOK, HomeInv, [Next]_vars PROVE HomeInv'
  OBVIOUS
<1>k. ASSUME UNCHANGED <<home, deaf>>, \A d \in Ids : Live(d)' <=> Live(d),
             \A i \in Servers : sub'[i] # << >> => sub[i] # << >> \/ Subscribed(i)
      PROVE  HomeInv'
  <2>1. \A i : /\ Open(i)' <=> Open(i)
               /\ Subscribed(i)' <=> Subscribed(i)
    BY <1>k DEF Open, Subscribed
  <2> QED BY <1>k, <2>1 DEF HomeInv
<1>m. ASSUME NEW c \in Ids, NEW from, NEW to, Moves(c, from, to),
             from \notin {"start", "returned"}, to \notin {"start", "returned"}
      PROVE  \A d \in Ids : Live(d)' <=> Live(d)
  BY <1>m, OneMoves DEF Live
<1>1. ASSUME NEW c \in Ids, NEW i \in Servers, Connect(c, i) PROVE HomeInv'
  <2>1. home'[c] = i /\ i # None /\ UNCHANGED sub /\ \A d \in Ids : d # c => home'[d] = home[d]
    BY <1>1, PresenceNames DEF Connect, TypeOK
  <2>2. /\ ~Live(c) /\ Live(c)' /\ \A d \in Ids : d # c => (Live(d)' <=> Live(d))
    <3>1. Moves(c, "start", "SetPresence")
      BY <1>1, Calls
    <3> QED BY <3>1, OneMoves DEF Live
  <2>3. Open(i)' /\ \A j : Open(j) => Open(j)'
    BY <2>1, <2>2 DEF Open
  <2>4. deaf' = deaf \/ (deaf' = deaf \cup {i} /\ ~Open(i))
    BY <1>1 DEF Connect, Subscribe
  <2>5. \A j \in Servers : sub'[j] # << >> => Subscribed(j)'
    BY <2>1, <2>3, <2>4 DEF HomeInv, Subscribed
  <2>6. \A j \in deaf' : Open(j)'
    BY <2>3, <2>4 DEF HomeInv
  <2> QED BY <2>1, <2>2, <2>5, <2>6 DEF HomeInv
<1>2. ASSUME NEW c \in Ids, SetPresence(c) \/ RemovePresence(c) PROVE HomeInv'
  <2>1. UNCHANGED <<home, deaf, sub>>
    BY <1>2 DEF SetPresence, RemovePresence, SetRoster
  <2>2. \A d \in Ids : Live(d)' <=> Live(d)
    BY <1>2, <1>m, Calls
  <2> QED BY <1>k, <2>1, <2>2
<1>3. ASSUME NEW c \in Ids, PublishJoin(c) \/ PublishLeave(c) PROVE HomeInv'
  <2>1. PICK t \in {"join", "leave"} : \E call : Announce(c, call, t)
    BY <1>3 DEF PublishJoin, PublishLeave
  <2>2. UNCHANGED <<home, deaf>> /\ \E miss : Publish([type |-> t, id |-> c], miss)
    BY <2>1 DEF Announce
  <2>3. [type |-> t, id |-> c] \in Events
    BY DEF Events
  <2>4. \A i \in Servers : sub'[i] # << >> => sub[i] # << >> \/ Subscribed(i)
    BY <2>2, <2>3, Published
  <2>5. \A d \in Ids : Live(d)' <=> Live(d)
    BY <1>3, <1>m, Calls
  <2> QED BY <1>k, <2>2, <2>4, <2>5
<1>4. ASSUME NEW c \in Ids, \/ FetchRoster(c) \/ FetchError(c) \/ DeliverState(c)
                            \/ ReadPumpReturns(c)
      PROVE  HomeInv'
  <2>1. UNCHANGED <<home, deaf, sub>>
    BY <1>4 DEF FetchRoster, FetchError, DeliverState, ReadPumpReturns
  <2>2. \A d \in Ids : Live(d)' <=> Live(d)
    BY <1>4, <1>m, Calls
  <2> QED BY <1>k, <2>1, <2>2
<1>5. ASSUME NEW c \in Ids, Release(c) PROVE HomeInv'
  <2> DEFINE last == \A d \in Ids \ {c} : home[d] = home[c] => ~Live(d)
  <2>1. /\ home' = [home EXCEPT ![c] = None]
        /\ sub' = IF last THEN [sub EXCEPT ![home[c]] = << >>] ELSE sub
        /\ deaf' = IF last THEN deaf \ {home[c]} ELSE deaf
    BY <1>5 DEF Release
  <2>2. home'[c] = None /\ \A d \in Ids : d # c => home'[d] = home[d]
    BY <2>1 DEF TypeOK
  <2>3. /\ Live(c) /\ ~Live(c)' /\ \A d \in Ids : d # c => (Live(d)' <=> Live(d))
    BY <1>5, Calls, OneMoves DEF Live
  <2>4. home[c] \in Servers
    BY <2>3 DEF HomeInv, TypeOK
  <2>5. ASSUME NEW i \in Servers, Open(i), last => i # home[c] PROVE Open(i)'
    <3>2. PICK e \in Ids : home[e] = i /\ Live(e)
      BY <2>5 DEF Open
    <3>3. CASE e # c
      BY <2>2, <2>3, <3>2, <3>3 DEF Open
    <3>4. CASE e = c
      <4>1. PICK d \in Ids \ {c} : home[d] = home[c] /\ Live(d)
        BY <2>5, <3>2, <3>4
      <4> QED BY <2>2, <2>3, <3>2, <3>4, <4>1 DEF Open
    <3> QED BY <3>3, <3>4
  <2>6. \A d \in Ids : Live(d)' <=> home'[d] # None
    BY <2>2, <2>3 DEF HomeInv
  <2>7. ASSUME NEW i \in Servers, sub'[i] # << >> PROVE Subscribed(i)'
    <3>1. sub[i] # << >> /\ (last => i # home[c])
      BY <2>1, <2>4, <2>7 DEF TypeOK
    <3>2. Open(i) /\ i \notin deaf
      BY <3>1 DEF HomeInv, Subscribed
    <3> QED BY <2>1, <2>5, <3>1, <3>2 DEF Subscribed
  <2>8. ASSUME NEW i \in deaf' PROVE Open(i)'
    <3>1. i \in deaf /\ (last => i # home[c])
      BY <2>1, <2>8
    <3> QED BY <2>5, <3>1 DEF HomeInv, TypeOK
  <2> QED BY <2>6, <2>7, <2>8 DEF HomeInv
<1>6. ASSUME NEW c \in Ids, PublishCursor(c) PROVE HomeInv'
  <2>1. UNCHANGED <<pc, home, deaf>> /\ Publish([type |-> "cursor", id |-> c], {})
    BY <1>6 DEF PublishCursor, serveVars
  <2>2. [type |-> "cursor", id |-> c] \in Events
    BY DEF Events
  <2>3. \A i \in Servers : sub'[i] # << >> => sub[i] # << >> \/ Subscribed(i)
    BY <2>1, <2>2, Published
  <2> QED BY <1>k, <2>1, <2>3 DEF Live
<1>7. ASSUME NEW i \in Servers, Dispatch(i) PROVE HomeInv'
  <2>1. UNCHANGED <<pc, home, deaf>> /\ sub[i] # << >> /\ sub' = [sub EXCEPT ![i] = Tail(@)]
    BY <1>7 DEF Dispatch, serveVars
  <2>2. \A j \in Servers : sub'[j] # << >> => sub[j] # << >>
    BY <2>1 DEF TypeOK
  <2> QED BY <1>k, <2>1, <2>2 DEF Live
<1>8. ASSUME NEW i \in Servers, Crash(i) PROVE HomeInv'
  <2> DEFINE dead == {c \in Ids : home[c] = i /\ Live(c)}
  <2>1. /\ sub' = [sub EXCEPT ![i] = << >>]
        /\ pc' = [c \in Ids |-> IF c \in dead THEN "returned" ELSE pc[c]]
        /\ home' = [c \in Ids |-> IF c \in dead THEN None ELSE home[c]]
        /\ deaf' = deaf \ {i}
    BY <1>8 DEF Crash
  <2>2. \A d \in Ids : /\ Live(d)' <=> Live(d) /\ d \notin dead
                       /\ d \notin dead => home'[d] = home[d]
                       /\ d \in dead => home'[d] = None
    BY <2>1 DEF Live
  <2>3. \A d \in Ids : Live(d)' <=> home'[d] # None
    BY <2>2 DEF HomeInv
  <2>4. ASSUME NEW j \in Servers, j # i, Open(j) PROVE Open(j)'
    <3>1. PICK e \in Ids : home[e] = j /\ Live(e)
      BY <2>4 DEF Open
    <3>2. e \notin dead
      BY <2>4, <3>1
    <3> QED BY <2>2, <3>1, <3>2 DEF Open
  <2>5. ASSUME NEW j \in Servers, sub'[j] # << >> PROVE Subscribed(j)'
    <3>1. j # i /\ sub[j] # << >>
      BY <2>1, <2>5 DEF TypeOK
    <3> QED BY <2>1, <2>4, <3>1 DEF HomeInv, Subscribed
  <2>6. \A j \in deaf' : Open(j)'
    BY <2>1, <2>4 DEF HomeInv, TypeOK
  <2> QED BY <2>3, <2>5, <2>6 DEF HomeInv
<1>9. CASE Disconnect \/ Receive \/ UNCHANGED vars
  <2>1. UNCHANGED <<pc, home, deaf, sub>>
    BY <1>9 DEF Disconnect, Receive, vars, serveVars
  <2> QED BY <1>k, <2>1 DEF Live
<1> QED BY <1>1, <1>2, <1>3, <1>4, <1>5, <1>6, <1>7, <1>8, <1>9 DEF Next, ServeStep

(* The watched connection stays in Serve until it is closed, and nothing   *)
(* but announcements and cursors is queued for it before presence.state.   *)
LEMMA SelfStep == TypeOK /\ SelfInv /\ HomeInv /\ [Next]_vars => SelfInv'
<1> SUFFICES ASSUME TypeOK, SelfInv, HomeInv, [Next]_vars PROVE SelfInv'
  OBVIOUS
<1> DEFINE Before == {"SetPresence", "PublishJoin", "Presence", "deliverDirect"}
<1>n. Nobody \notin Ids
  BY DEF Nobody, Ids
<1>h. ASSUME Hangup PROVE SelfInv'
  BY <1>h DEF Hangup, SelfInv
<1>k. ASSUME UNCHANGED <<self, send>>,
             self # Nobody =>
               \/ pc'[self] = pc[self]
               \/ pc[self] \in Before /\ pc'[self] \in Before
               \/ pc'[self] = "readPump"
      PROVE  SelfInv'
  BY <1>k DEF SelfInv
<1>m. ASSUME NEW c \in Ids, NEW from, NEW to, Moves(c, from, to), UNCHANGED <<self, send>>,
             \/ from \in Before /\ to \in Before
             \/ to = "readPump" \/ c # self
      PROVE  SelfInv'
  BY <1>m, <1>k, OneMoves DEF TypeOK
<1>1. ASSUME NEW c \in Ids, NEW i \in Servers, Connect(c, i) PROVE SelfInv'
  <2>1. pc[c] = "start" /\ pc'[c] = "SetPresence" /\ \A d \in Ids : d # c => pc'[d] = pc[d]
    BY <1>1, Calls, OneMoves
  <2>2. send' = send /\ ((self = Nobody /\ self' = c) \/ self' = self)
    BY <1>1 DEF Connect
  <2>3. CASE self = Nobody /\ self' = c
    BY <1>n, <2>1, <2>2, <2>3 DEF SelfInv
  <2>4. CASE self' = self
    <3>1. self # Nobody => self \in Ids /\ self # c
      BY <2>1 DEF TypeOK, SelfInv
    <3> QED BY <1>k, <2>1, <2>2, <2>4, <3>1
  <2> QED BY <2>2, <2>3, <2>4
<1>2. ASSUME NEW c \in Ids, SetPresence(c) PROVE SelfInv'
  <2>1. UNCHANGED <<self, send>>
    BY <1>2 DEF SetPresence, SetRoster, joinVars
  <2> QED BY <1>2, <1>m, <2>1, Calls
<1>3. ASSUME NEW c \in Ids, PublishJoin(c) PROVE SelfInv'
  <2>1. UNCHANGED <<self, send>>
    BY <1>3 DEF PublishJoin, Announce, joinVars
  <2>2. pc[c] = "PublishJoin" /\ pc'[c] \in {"Presence", "readPump"}
        /\ \A d \in Ids : d # c => pc'[d] = pc[d]
    BY <1>3, Calls, OneMoves
  <2> QED BY <1>k, <2>1, <2>2 DEF TypeOK
<1>4. ASSUME NEW c \in Ids, FetchRoster(c) \/ FetchError(c) PROVE SelfInv'
  <2>1. UNCHANGED <<self, send>>
    BY <1>4 DEF FetchRoster, FetchError
  <2> QED BY <1>4, <1>m, <2>1, Calls
<1>5. ASSUME NEW c \in Ids, DeliverState(c) PROVE SelfInv'
  <2>1. CASE Hangup
    BY <2>1, <1>h
  <2>2. CASE ~Hangup
    <3>1. \/ c # self /\ UNCHANGED <<self, send>>
          \/ c = self /\ self' = self
      BY <1>5, <2>2 DEF DeliverState, joinVars
    <3>2. pc[c] = "deliverDirect" /\ pc'[c] = "readPump" /\ Moves(c, "deliverDirect", "readPump")
      BY <1>5, Calls, OneMoves
    <3>3. CASE c # self /\ UNCHANGED <<self, send>>
      BY <1>m, <3>2, <3>3
    <3>4. CASE c = self /\ self' = self
      BY <1>n, <3>2, <3>4 DEF SelfInv
    <3> QED BY <3>1, <3>3, <3>4
  <2> QED BY <2>1, <2>2
<1>6. ASSUME NEW c \in Ids, \/ ReadPumpReturns(c) \/ RemovePresence(c) \/ PublishLeave(c)
                            \/ Release(c)
      PROVE  SelfInv'
  <2>1. UNCHANGED <<self, send>>
    BY <1>6 DEF ReadPumpReturns, RemovePresence, SetRoster, PublishLeave, Announce, Release,
                joinVars
  <2>2. c # self
    <3>1. pc[c] \in {"RemovePresence", "PublishLeave", "release"} \/ c # self
      BY <1>6, Calls DEF Moves, ReadPumpReturns
    <3> QED BY <1>n, <3>1 DEF SelfInv
  <2> QED BY <1>6, <1>m, <2>1, <2>2, Calls
<1>7. ASSUME NEW i \in Servers, Dispatch(i) PROVE SelfInv'
  <2> DEFINE m == Head(sub[i])
  <2>1. CASE Hangup
    BY <2>1, <1>h
  <2>2. CASE ~Hangup
    <3>1. UNCHANGED <<pc, self>> /\ sub[i] # << >>
          /\ (send' = send \/ (self # Nobody /\ send' = Append(send, m)))
      BY <1>7, <2>2 DEF Dispatch, serveVars, joinVars
    <3>2. m \in Events
      BY <3>1, QueueTypes DEF TypeOK
    <3> HIDE DEF m
    <3>3. send \in Seq(Events) => Append(send, m) \in Seq(Events)
      BY <3>2, QueueTypes
    <3> QED BY <3>1, <3>3 DEF SelfInv
  <2> QED BY <2>1, <2>2
<1>8. ASSUME NEW i \in Servers, Crash(i) PROVE SelfInv'
  <2> DEFINE dead == {c \in Ids : home[c] = i /\ Live(c)}
  <2>1. /\ pc' = [c \in Ids |-> IF c \in dead THEN "returned" ELSE pc[c]]
        /\ IF self \in dead THEN Hangup ELSE UNCHANGED <<joinVars, send, spoiled>>
    BY <1>8 DEF Crash
  <2>2. CASE self \in dead
    BY <2>1, <2>2, <1>h
  <2>3. CASE self \notin dead
    <3>1. UNCHANGED <<self, send>> /\ (self # Nobody => pc'[self] = pc[self])
      BY <2>1, <2>3 DEF TypeOK, joinVars
    <3> QED BY <3>1, <1>k
  <2> QED BY <2>2, <2>3
<1>9. CASE Disconnect
  BY <1>9, <1>h DEF Disconnect
<1>10. CASE Receive
  BY <1>10 DEF Receive, SelfInv, serveVars, joinVars
<1>11. CASE UNCHANGED vars \/ \E c \in Ids : PublishCursor(c)
  <2>1. UNCHANGED <<pc, self, send>>
    BY <1>11 DEF PublishCursor, vars, serveVars, joinVars
  <2> QED BY <2>1 DEF SelfInv
<1> QED BY <1>1, <1>2, <1>3, <1>4, <1>5, <1>6, <1>7, <1>8, <1>9, <1>10, <1>11
        DEF Next, ServeStep

(* The shared roster follows SetPresence and RemovePresence; the others    *)
(* keep their entry whatever one Serve or one server does.                 *)
LEMMA RosterStep == TypeOK /\ RosterInv /\ [Next]_vars => RosterInv'
<1> SUFFICES ASSUME TypeOK, RosterInv, [Next]_vars PROVE RosterInv'
  OBVIOUS
<1> DEFINE In == {"PublishJoin", "Presence", "deliverDirect", "readPump", "RemovePresence"}
<1>k. ASSUME UNCHANGED roster, faulted \subseteq faulted',
             \A d \in Ids \ faulted' : pc'[d] \in In <=> pc[d] \in In
      PROVE  RosterInv'
  BY <1>k DEF RosterInv
<1>m. ASSUME NEW c \in Ids, NEW from, NEW to, Moves(c, from, to), UNCHANGED roster,
             faulted \subseteq faulted', to \in In <=> from \in In
      PROVE  RosterInv'
  BY <1>m, <1>k, OneMoves
<1>1. ASSUME NEW c \in Ids, NEW i \in Servers, Connect(c, i) PROVE RosterInv'
  BY <1>1, <1>m, Calls DEF Connect, Subscribe, Fault, faultVars
<1>2. ASSUME NEW c \in Ids, SetPresence(c) PROVE RosterInv'
  <2>1. pc'[c] = "PublishJoin" /\ \A d \in Ids : d # c => pc'[d] = pc[d]
    BY <1>2, Calls, OneMoves
  <2>2. \/ roster' = roster \cup {c} /\ faulted' = faulted
        \/ roster' = roster /\ faulted' = faulted \cup {c}
    BY <1>2 DEF SetPresence, SetRoster, Fault, faultVars
  <2> QED BY <2>1, <2>2 DEF RosterInv
<1>3. ASSUME NEW c \in Ids, RemovePresence(c) PROVE RosterInv'
  <2>1. pc'[c] = "PublishLeave" /\ \A d \in Ids : d # c => pc'[d] = pc[d]
    BY <1>3, Calls, OneMoves
  <2>2. \/ roster' = roster \ {c} /\ faulted' = faulted
        \/ roster' = roster /\ faulted' = faulted \cup {c}
    BY <1>3 DEF RemovePresence, SetRoster, Fault, faultVars
  <2> QED BY <2>1, <2>2 DEF RosterInv
<1>4. ASSUME NEW c \in Ids, PublishJoin(c) \/ PublishLeave(c) PROVE RosterInv'
  <2>1. UNCHANGED roster /\ faulted \subseteq faulted'
    BY <1>4 DEF PublishJoin, PublishLeave, Announce, Fault
  <2> QED BY <1>4, <1>m, <2>1, Calls
<1>5. ASSUME NEW c \in Ids, \/ FetchRoster(c) \/ DeliverState(c) \/ ReadPumpReturns(c)
                            \/ Release(c) \/ FetchError(c)
      PROVE  RosterInv'
  <2>1. UNCHANGED roster /\ faulted \subseteq faulted'
    BY <1>5 DEF FetchRoster, DeliverState, ReadPumpReturns, Release, FetchError, Fault,
                faultVars
  <2> QED BY <1>5, <1>m, <2>1, Calls
<1>6. ASSUME NEW i \in Servers, Crash(i) PROVE RosterInv'
  <2> DEFINE dead == {c \in Ids : home[c] = i /\ Live(c)}
  <2>1. /\ pc' = [c \in Ids |-> IF c \in dead THEN "returned" ELSE pc[c]]
        /\ faulted' = faulted \cup dead /\ UNCHANGED roster
    BY <1>6 DEF Crash, Fault
  <2> QED BY <2>1, <1>k
<1>7. CASE \/ \E c \in Ids : PublishCursor(c)
           \/ \E i \in Servers : Dispatch(i)
           \/ Disconnect \/ Receive \/ UNCHANGED vars
  <2>1. UNCHANGED <<roster, pc, faulted>>
    BY <1>7 DEF PublishCursor, Dispatch, Disconnect, Receive, vars, serveVars, faultVars
  <2> QED BY <2>1, <1>k
<1> QED BY <1>1, <1>2, <1>3, <1>4, <1>5, <1>6, <1>7 DEF Next, ServeStep

----------------------------------------------------------------------------
(* Announcements.                                                          *)

(* The step announces nothing about d.                                     *)
Quiet(d) ==
  /\ d \notin faulted
  /\ Word(d)' = Word(d) /\ (Announced(d)' <=> Announced(d))
  /\ Between(d) => Between(d)'
  /\ Alive(d) => Alive(d)'

(* What an announcement m of c does: it goes to the end of every           *)
(* subscription, or c counts as faulted.                                   *)
Announces(c, m) ==
  /\ m.type \in {"join", "leave"} /\ m.id = c
  /\ faulted \subseteq faulted'
  /\ \A i \in Servers :
       /\ sub'[i] = sub[i] \/ sub'[i] = Append(sub[i], m)
       /\ Subscribed(i) /\ c \notin faulted' => sub'[i] = Append(sub[i], m)
       /\ ~Subscribed(i) => sub'[i] = sub[i]
  /\ Word(c)' = m.type
  /\ Alive(c) => m.type = "leave"
  /\ \A d \in Ids : d # c => pc'[d] = pc[d]
  /\ UNCHANGED <<roster, home, deaf, moves, joinVars, send, screenVars, spoiled>>

(* joinPresence and leavePresence announce what they have just entered.    *)
LEMMA AnnounceStep ==
  ASSUME TypeOK, NEW c \in Ids, PublishJoin(c) \/ PublishLeave(c)
  PROVE  \E m \in Events : Announces(c, m)
<1>1. ASSUME NEW t \in {"join", "leave"}, NEW call, Announce(c, call, t),
             Word(c)' = t, Alive(c) => t = "leave",
             \A d \in Ids : d # c => pc'[d] = pc[d]
      PROVE  \E m \in Events : Announces(c, m)
  <2> DEFINE m == [type |-> t, id |-> c]
  <2>1. m \in Events /\ m.type = t /\ m.id = c
    BY DEF Events
  <2>2. UNCHANGED <<roster, home, deaf, moves, joinVars, send, screenVars, spoiled>>
    BY <1>1 DEF Announce
  <2>3. PICK miss : /\ Publish(m, miss)
                    /\ \/ /\ miss = {}
                          /\ faulted' = IF Dropped THEN faulted \cup {c} ELSE faulted
                       \/ faulted' = faulted \cup {c}
    BY <1>1 DEF Announce, Fault
  <2> HIDE DEF m
  <2>4. ASSUME NEW i \in Servers
        PROVE  /\ sub'[i] = sub[i] \/ sub'[i] = Append(sub[i], m)
               /\ Subscribed(i) /\ c \notin faulted' => sub'[i] = Append(sub[i], m)
               /\ ~Subscribed(i) => sub'[i] = sub[i]
    <3>1. c \notin faulted' => ~Dropped /\ miss = {}
      BY <2>3
    <3> QED BY <2>1, <2>3, <3>1, Published
  <2>5. faulted \subseteq faulted'
    BY <2>3
  <2> QED BY <1>1, <2>1, <2>2, <2>4, <2>5 DEF Announces
<1>2. CASE PublishJoin(c)
  <2>1. Moves(c, "PublishJoin", IF c = self THEN "Presence" ELSE "readPump")
    BY <1>2, Calls
  <2>2. /\ pc[c] = "PublishJoin" /\ pc'[c] \in {"Presence", "readPump"}
        /\ \A d \in Ids : d # c => pc'[d] = pc[d]
    BY <2>1, OneMoves
  <2>3. Word(c)' = "join" /\ ~Alive(c)
    BY <2>2 DEF Word, Announced, Alive
  <2>4. Announce(c, "PublishJoin", "join")
    BY <1>2 DEF PublishJoin
  <2> QED BY <1>1, <2>2, <2>3, <2>4
<1>3. CASE PublishLeave(c)
  <2>1. Moves(c, "PublishLeave", "release")
    BY <1>3, Calls
  <2>2. pc'[c] = "release" /\ \A d \in Ids : d # c => pc'[d] = pc[d]
    BY <2>1, OneMoves
  <2>3. Word(c)' = "leave"
    BY <2>2 DEF Word, Announced
  <2>4. Announce(c, "PublishLeave", "leave")
    BY <1>3 DEF PublishLeave
  <2> QED BY <1>1, <2>2, <2>3, <2>4
<1> QED BY <1>2, <1>3

(* Only joinPresence and leavePresence announce; a crash makes the clients *)
(* of its server faulted.                                                  *)
LEMMA QuietStep ==
  ASSUME TypeOK, [Next]_vars, ~\E c \in Ids : PublishJoin(c) \/ PublishLeave(c),
         NEW d \in Ids \ faulted'
  PROVE  Quiet(d)
<1>f. faulted \subseteq faulted'
  BY DEF Next, ServeStep, vars, Connect, SetPresence, RemovePresence, SetRoster, FetchRoster,
         DeliverState, ReadPumpReturns, Release, FetchError, PublishCursor, Dispatch, Crash,
         Disconnect, Receive, Subscribe, Fault, faultVars
<1>k. ASSUME pc'[d] = pc[d] PROVE Quiet(d)
  BY <1>f, <1>k DEF Quiet, Word, Announced, Between, Alive
<1>m. ASSUME NEW c \in Ids, NEW from, NEW to, Moves(c, from, to),
             <<from, to>> \in
               {<<"start", "SetPresence">>, <<"SetPresence", "PublishJoin">>,
                <<"Presence", "deliverDirect">>, <<"Presence", "readPump">>,
                <<"deliverDirect", "readPump">>, <<"readPump", "RemovePresence">>,
                <<"RemovePresence", "PublishLeave">>, <<"release", "returned">>}
      PROVE  Quiet(d)
  <2>1. pc[c] = from /\ pc'[c] = to /\ \A e \in Ids : e # c => pc'[e] = pc[e]
    BY <1>m, OneMoves
  <2>2. CASE d # c
    BY <1>k, <2>1, <2>2
  <2>3. CASE d = c
    BY <1>f, <1>m, <2>1, <2>3 DEF Quiet, Word, Announced, Between, Alive
  <2> QED BY <2>2, <2>3
<1>1. ASSUME NEW c \in Ids, NEW i \in Servers, Connect(c, i) PROVE Quiet(d)
  BY <1>1, <1>m, Calls
<1>2. ASSUME NEW c \in Ids, ServeStep(c) \/ FetchError(c) PROVE Quiet(d)
  BY <1>2, <1>m, Calls DEF ServeStep
<1>3. ASSUME NEW i \in Servers, Crash(i) PROVE Quiet(d)
  <2> DEFINE dead == {c \in Ids : home[c] = i /\ Live(c)}
  <2>1. /\ pc' = [c \in Ids |-> IF c \in dead THEN "returned" ELSE pc[c]]
        /\ faulted' = faulted \cup dead
    BY <1>3 DEF Crash, Fault
  <2> QED BY <2>1, <1>k
<1>4. CASE \/ \E c \in Ids : PublishCursor(c)
           \/ \E i \in Servers : Dispatch(i)
           \/ Disconnect \/ Receive \/ UNCHANGED vars
  <2>1. UNCHANGED pc
    BY <1>4 DEF PublishCursor, Dispatch, Disconnect, Receive, vars, serveVars
  <2> QED BY <2>1, <1>k
<1> QED BY <1>1, <1>2, <1>3, <1>4 DEF Next

(* The subscriptions of all servers agree with what was announced, however *)
(* far each of them is behind.                                             *)
LEMMA SubStep == TypeOK /\ HomeInv /\ SubInv /\ [Next]_vars => SubInv'
<1> SUFFICES ASSUME TypeOK, HomeInv, SubInv, [Next]_vars,
                    NEW j \in Servers, NEW d \in Ids \ faulted'
             PROVE  Mute(sub'[j], d) \/ Says(sub'[j], d, Word(d)')
  BY DEF SubInv
<1>t. sub[j] \in Seq(Events)
  BY DEF TypeOK
<1>1. ASSUME NEW c \in Ids, PublishJoin(c) \/ PublishLeave(c)
      PROVE  Mute(sub'[j], d) \/ Says(sub'[j], d, Word(d)')
  <2>1. PICK m \in Events : Announces(c, m)
    BY <1>1, AnnounceStep
  <2>2. d \notin faulted /\ (Mute(sub[j], d) \/ Says(sub[j], d, Word(d)))
    BY <2>1 DEF Announces, SubInv
  <2>3. CASE d # c
    <3>1. ~Informs(m, d) /\ Word(d)' = Word(d)
      BY <2>1, <2>3 DEF Announces, Informs, Word, Announced
    <3>2. sub'[j] = sub[j] \/ sub'[j] = Append(sub[j], m)
      BY <2>1 DEF Announces
    <3>3. /\ Mute(Append(sub[j], m), d) <=> Mute(sub[j], d)
          /\ \A w : Says(sub[j], d, w) => Says(Append(sub[j], m), d, w)
      BY <1>t, <3>1, AppendSays
    <3> QED BY <2>2, <3>1, <3>2, <3>3
  <2>4. CASE d = c /\ Subscribed(j)
    <3>1. sub'[j] = Append(sub[j], m) /\ Word(d)' = m.type
      BY <2>1, <2>4 DEF Announces
    <3>2. Informs(m, d) /\ Verdict(m, d) = m.type
      BY <2>1, <2>4 DEF Announces, Informs, Verdict
    <3> QED BY <1>t, <3>1, <3>2, AppendSays
  <2>5. CASE ~Subscribed(j)
    <3>1. sub'[j] = << >>
      BY <2>1, <2>5 DEF Announces, HomeInv
    <3> QED BY <3>1, EmptyQueue
  <2> QED BY <2>3, <2>4, <2>5
<1>2. ASSUME ~\E c \in Ids : PublishJoin(c) \/ PublishLeave(c)
      PROVE  Mute(sub'[j], d) \/ Says(sub'[j], d, Word(d)')
  <2>1. Quiet(d)
    BY <1>2, QuietStep
  <2>2. Word(d)' = Word(d) /\ (Mute(sub[j], d) \/ Says(sub[j], d, Word(d)))
    BY <2>1 DEF Quiet, SubInv
  <2>3. CASE sub'[j] = sub[j] \/ sub'[j] = << >>
    BY <2>2, <2>3, EmptyQueue
  <2>4. CASE \E c \in Ids : PublishCursor(c)
    <3> PICK c \in Ids : PublishCursor(c)
      BY <2>4
    <3> DEFINE m == [type |-> "cursor", id |-> c]
    <3>1. m \in Events /\ ~Informs(m, d)
      BY DEF Events, Informs
    <3>2. Publish(m, {})
      BY DEF PublishCursor
    <3> HIDE DEF m
    <3>3. sub'[j] = sub[j] \/ sub'[j] = Append(sub[j], m)
      BY <3>1, <3>2, Published
    <3>4. /\ Mute(Append(sub[j], m), d) <=> Mute(sub[j], d)
          /\ \A w : Says(sub[j], d, w) => Says(Append(sub[j], m), d, w)
      BY <1>t, <3>1, AppendSays
    <3> QED BY <2>2, <3>3, <3>4
  <2>5. CASE \E i \in Servers : Dispatch(i)
    <3> PICK i \in Servers : Dispatch(i)
      BY <2>5
    <3>1. sub[i] # << >> /\ sub' = [sub EXCEPT ![i] = Tail(@)]
      BY DEF Dispatch
    <3>2. CASE j = i
      <4>1. sub'[j] = Tail(sub[j]) /\ sub[j] # << >>
        BY <3>1, <3>2 DEF TypeOK
      <4> QED BY <1>t, <2>2, <4>1, TailSays
    <3>3. CASE j # i
      BY <2>3, <3>1, <3>3 DEF TypeOK
    <3> QED BY <3>2, <3>3
  <2>6. ASSUME NEW c \in Ids, Release(c) PROVE sub'[j] = sub[j] \/ sub'[j] = << >>
    <3>1. sub' = sub \/ sub' = [sub EXCEPT ![home[c]] = << >>]
      BY <2>6 DEF Release
    <3> QED BY <3>1 DEF TypeOK
  <2>7. ASSUME NEW i \in Servers, Crash(i) PROVE sub'[j] = sub[j] \/ sub'[j] = << >>
    BY <2>7 DEF Crash, TypeOK
  <2>8. CASE UNCHANGED sub
    BY <2>3, <2>8
  <2>9. \/ UNCHANGED sub \/ \E c \in Ids : PublishCursor(c) \/ Release(c)
        \/ \E i \in Servers : Dispatch(i) \/ Crash(i)
    BY <1>2 DEF Next, ServeStep, vars, Connect, SetPresence, RemovePresence, SetRoster,
                FetchRoster, DeliverState, ReadPumpReturns, FetchError, Disconnect, Receive
  <2> QED BY <2>3, <2>4, <2>5, <2>6, <2>7, <2>8, <2>9
<1> QED BY <1>1, <1>2

----------------------------------------------------------------------------
(* The watched browser's list of participants.                             *)

(* The watched connection has a server, whose board is open.               *)
LEMMA SelfServed ==
  ASSUME TypeOK, HomeInv, SelfInv, self # Nobody
  PROVE  /\ self \in Ids /\ Live(self) /\ home[self] \in Servers /\ Open(home[self])
         /\ send \in Seq(Events \cup States)
         /\ sub[home[self]] \in Seq(Events)
<1>1. self \in Ids
  BY DEF TypeOK
<1>2. Live(self)
  BY DEF SelfInv, Live
<1>3. home[self] \in Servers
  BY <1>1, <1>2 DEF HomeInv, TypeOK
<1> QED BY <1>1, <1>2, <1>3 DEF Open, TypeOK

(* What will be seen of d stays right in a step that announces nothing     *)
(* about d and leaves the watched browser alone.                           *)
LEMMA SeenKept ==
  ASSUME TypeOK, ViewInv, NEW d \in Ids, Quiet(d), self # Nobody, self' = self,
         home[self] \notin deaf, Mute(sub[home[self]], d),
         UNCHANGED <<send, view, blind, spoiled, held>>,
         pc'[self] = "readPump" <=> pc[self] = "readPump",
         pc'[self] = "deliverDirect" => pc[self] = "deliverDirect"
  PROVE  Seen(d)'
<1>1. Seen(d)
  BY DEF ViewInv, Quiet
<1>2. CASE pc[self] = "readPump"
  <2>1. Watching(d)
    BY <1>1, <1>2 DEF Seen
  <2>2. Watching(d)'
    BY <2>1 DEF Watching, Quiet
  <2> QED BY <1>2, <2>2 DEF Seen
<1>3. CASE pc[self] # "readPump"
  <2>1. Joining(d)
    BY <1>1, <1>3 DEF Seen
  <2>2. Joining(d)'
    BY <2>1 DEF Joining, Quiet
  <2> QED BY <1>3, <2>2 DEF Seen
<1> QED BY <1>2, <1>3

(* deliverDirect queues the roster: it says of d what was announced,       *)
(* unless it contradicts the last announcement already queued.             *)
LEMMA DeliverSeen ==
  ASSUME TypeOK, HomeInv, SelfInv, ViewInv, NEW d \in Ids, Quiet(d),
         self # Nobody, pc[self] = "deliverDirect", pc'[self] = "readPump",
         UNCHANGED <<self, blind, view>>,
         send' = Append(send, [type |-> "state", id |-> self, others |-> held]),
         spoiled' = Contradicted(self), home[self] \notin deaf, Mute(sub[home[self]], d)
  PROVE  Seen(d)'
<1> DEFINE m == [type |-> "state", id |-> self, others |-> held]
<1>1. /\ m \in Events \cup States /\ Informs(m, d)
      /\ Verdict(m, d) = IF d \in held \cup {self} THEN "join" ELSE "leave"
  BY DEF TypeOK, States, Informs, Verdict
<1>2. Says(send', d, Verdict(m, d))
  <2> HIDE DEF m
  <2>1. send' = Append(send, m) /\ send \in Seq(Events \cup States)
    BY DEF m, TypeOK
  <2> QED BY <1>1, <2>1, AppendSays
<1>3. Joining(d)
  BY DEF ViewInv, Quiet, Seen
<1> HIDE DEF m
<1>4. ASSUME ~Between(d), d \notin Contradicted(self) PROVE Verdict(m, d) = Word(d)
  <2>1. CASE Mute(send, d)
    BY <1>1, <1>3, <1>4, <2>1 DEF Joining, Word
  <2>2. CASE Says(send, d, Word(d))
    <3>1. PICK k \in 1..Len(send) :
            /\ Informs(send[k], d) /\ Verdict(send[k], d) = Word(d)
            /\ \A l \in 1..Len(send) : l > k => ~Informs(send[l], d)
      BY <2>2 DEF Says
    <3>2. send \in Seq(Events) /\ Len(send) \in Nat
      BY QueueTypes DEF SelfInv
    <3>3. \A l \in 1..Len(send) : send[l] \in Events /\ send[l].type \in {"join", "leave", "cursor"}
      <4>1. \A l \in 1..Len(send) : send[l] \in Events
        BY <3>2, QueueTypes
      <4> QED BY <4>1 DEF Events
    <3>4. /\ send[k].type \in {"join", "leave"} /\ send[k].id = d
          /\ send[k].type = Word(d)
      BY <3>1, <3>3 DEF Informs, Verdict
    <3>5. \A l \in k + 1..Len(send) : send[l].id # d \/ send[l].type = "cursor"
      <4> SUFFICES ASSUME NEW l \in k + 1..Len(send)
                   PROVE  send[l].id # d \/ send[l].type = "cursor"
        OBVIOUS
      <4>1. l \in 1..Len(send) /\ l > k
        BY <3>2
      <4> QED BY <3>1, <3>3, <4>1 DEF Informs
    <3>6. ~((send[k].type = "join") # (d \in held \cup {self}))
      BY <1>4, <3>4, <3>5 DEF Contradicted
    <3>7. send[k].type = "join" <=> d \in held \cup {self}
      BY <3>6
    <3> QED BY <1>1, <3>4, <3>7
  <2> QED BY <1>3, <2>1, <2>2 DEF Joining
<1>5. Watching(d)'
  BY <1>2, <1>4 DEF Watching, Quiet
<1> QED BY <1>5 DEF Seen

(* The browser handles a message (handleMessage): its list then shows what *)
(* the message says.                                                       *)
LEMMA ReceiveSeen ==
  ASSUME TypeOK, SelfInv, ViewInv, Receive, NEW d \in Ids, Quiet(d), home[self] \notin deaf,
         Mute(sub[home[self]], d)
  PROVE  Seen(d)'
<1> DEFINE m == Head(send)
<1>1. /\ self # Nobody /\ pc[self] = "readPump" /\ send # << >> /\ send' = Tail(send)
      /\ view' = ViewAfter(m) /\ UNCHANGED <<pc, self, blind, spoiled>>
  BY DEF Receive, serveVars, joinVars
<1>2. send \in Seq(Events \cup States) /\ m \in Events \cup States
  BY <1>1, QueueTypes DEF TypeOK
<1>3. m.type \in {"join", "leave", "cursor", "state"} /\ m.id \in Ids
  BY <1>2 DEF Events, States
<1>4. Watching(d)
  BY <1>1 DEF ViewInv, Quiet, Seen
<1>5. /\ ~Informs(m, d) => (Mute(send', d) <=> Mute(send, d))
      /\ Mute(send, d) => Mute(send', d) /\ ~Informs(m, d)
      /\ \A w : Says(send, d, w) =>
           \/ Says(send', d, w)
           \/ Mute(send', d) /\ Informs(m, d) /\ Verdict(m, d) = w
  BY <1>1, <1>2, TailSays
<1> HIDE DEF m
<1>6. ~Informs(m, d) => (d \in view' <=> d \in view)
  BY <1>1, <1>3 DEF Informs, ViewAfter
<1>7. Informs(m, d) => (d \in view' <=> Verdict(m, d) = "join")
  BY <1>1, <1>3 DEF Informs, ViewAfter, Verdict
<1>8. Word(d) = "join" <=> Announced(d)
  BY DEF Word
<1>9. ASSUME ~blind, d \notin spoiled, ~Between(d)'
      PROVE  \/ Mute(send', d) /\ (d \in view' <=> Announced(d))
             \/ Says(send', d, Word(d))
  <2>1. ~Between(d)
    BY <1>9 DEF Quiet
  <2>2. CASE Mute(send, d) /\ (d \in view <=> Announced(d))
    BY <1>5, <1>6, <2>2
  <2>3. CASE Says(send, d, Word(d))
    <3>1. CASE Says(send', d, Word(d))
      BY <3>1
    <3>2. CASE Mute(send', d) /\ Informs(m, d) /\ Verdict(m, d) = Word(d)
      BY <1>7, <1>8, <3>2
    <3> QED BY <1>5, <2>3, <3>1, <3>2
  <2> QED BY <1>4, <1>9, <2>1, <2>2, <2>3 DEF Watching
<1>10. Watching(d)'
  BY <1>1, <1>9 DEF Watching, Quiet
<1> QED BY <1>1, <1>10 DEF Seen

(* The board dispatches a message (Board.dispatch): the watched client's   *)
(* queue then says what the subscription said.                             *)
LEMMA DispatchSeen ==
  ASSUME TypeOK, HomeInv, SelfInv, SubInv, ViewInv, NEW i \in Servers, Dispatch(i), ~Hangup,
         self # Nobody, NEW d \in Ids, Quiet(d), home[self] \notin deaf,
         Mute(sub'[home[self]], d)
  PROVE  Seen(d)'
<1> DEFINE m == Head(sub[i])
<1>1. /\ sub[i] # << >> /\ sub' = [sub EXCEPT ![i] = Tail(@)]
      /\ UNCHANGED <<pc, home, view, joinVars>>
      /\ \/ /\ home[self] = i /\ send' = Append(send, m)
            /\ spoiled' = IF m.type = "cursor" THEN spoiled ELSE spoiled \ {m.id}
         \/ /\ home[self] # i \/ m.type = "cursor"
            /\ UNCHANGED <<send, spoiled>>
  BY DEF Dispatch, serveVars, screenVars, joinVars
<1>2. /\ home[self] \in Servers /\ send \in Seq(Events \cup States)
      /\ sub[i] \in Seq(Events) /\ m \in Events
  BY <1>1, SelfServed, QueueTypes DEF TypeOK
<1>3. m.type \in {"join", "leave", "cursor"} /\ m.id \in Ids
  BY <1>2 DEF Events
<1>4. home[self] = i =>
        /\ ~Informs(m, d) => Mute(sub[i], d)
        /\ Informs(m, d) => Verdict(m, d) = Word(d)
  <2> SUFFICES ASSUME home[self] = i
               PROVE  /\ ~Informs(m, d) => Mute(sub[i], d)
                      /\ Informs(m, d) => Verdict(m, d) = Word(d)
    OBVIOUS
  <2>1. sub'[i] = Tail(sub[i]) /\ Mute(Tail(sub[i]), d)
    BY <1>1 DEF TypeOK
  <2>2. Mute(sub[i], d) \/ Says(sub[i], d, Word(d))
    BY DEF SubInv, Quiet
  <2>3. ~Says(Tail(sub[i]), d, Word(d))
    BY <2>1, SaysSomething
  <2>4. /\ ~Informs(m, d) => (Mute(Tail(sub[i]), d) <=> Mute(sub[i], d))
        /\ Mute(sub[i], d) => ~Informs(m, d)
        /\ Says(sub[i], d, Word(d)) =>
             Says(Tail(sub[i]), d, Word(d)) \/ Verdict(m, d) = Word(d)
    BY <1>1, <1>2, TailSays
  <2> QED BY <2>1, <2>2, <2>3, <2>4
<1>5. /\ Informs(m, d) => ~Mute(Append(send, m), d)
                          /\ Says(Append(send, m), d, Verdict(m, d))
      /\ ~Informs(m, d) => /\ Mute(Append(send, m), d) <=> Mute(send, d)
                           /\ \A w : Says(send, d, w) => Says(Append(send, m), d, w)
  BY <1>2, AppendSays
<1> HIDE DEF m
<1>6. CASE home[self] = i /\ send' = Append(send, m) /\ Informs(m, d)
  <2>1. Says(send', d, Word(d)) /\ ~Mute(send', d)
    BY <1>4, <1>5, <1>6
  <2>2. Watching(d)' /\ Joining(d)'
    BY <2>1 DEF Watching, Joining, Quiet
  <2> QED BY <2>2 DEF Seen
<1>7. CASE /\ home[self] = i /\ send' = Append(send, m) /\ ~Informs(m, d)
           /\ spoiled' = IF m.type = "cursor" THEN spoiled ELSE spoiled \ {m.id}
  <2>1. /\ Mute(send', d) <=> Mute(send, d)
        /\ Says(send, d, Word(d)) => Says(send', d, Word(d))
        /\ d \in spoiled' <=> d \in spoiled
    BY <1>3, <1>5, <1>7 DEF Informs
  <2>2. Seen(d)
    BY <1>4, <1>7 DEF ViewInv, Quiet
  <2>3. UNCHANGED <<pc, self, held, blind, view>>
    BY <1>1 DEF joinVars
  <2>4. CASE pc[self] = "readPump"
    <3>1. Watching(d)
      BY <2>2, <2>4 DEF Seen
    <3>2. Watching(d)'
      BY <2>1, <2>3, <3>1 DEF Watching, Quiet
    <3> QED BY <2>3, <2>4, <3>2 DEF Seen
  <2>5. CASE pc[self] # "readPump"
    <3>1. Joining(d)
      BY <2>2, <2>5 DEF Seen
    <3>2. Joining(d)'
      BY <2>1, <2>3, <3>1 DEF Joining, Quiet
    <3> QED BY <2>3, <2>5, <3>2 DEF Seen
  <2> QED BY <2>4, <2>5
<1>8. CASE UNCHANGED <<send, spoiled>> /\ (home[self] # i \/ m.type = "cursor")
  <2>1. Mute(sub[home[self]], d)
    <3>1. CASE home[self] # i
      BY <1>1, <1>2, <3>1 DEF TypeOK
    <3>2. CASE home[self] = i /\ m.type = "cursor"
      BY <1>4, <3>2 DEF Informs
    <3> QED BY <1>8, <3>1, <3>2
  <2>2. UNCHANGED <<pc, self, held, blind, view>>
    BY <1>1 DEF joinVars
  <2> QED BY <1>8, <2>1, <2>2, SeenKept
<1> QED BY <1>1, <1>6, <1>7, <1>8


(* The end of another Serve (release), or of another server, takes nothing *)
(* from the watched connection: its board keeps its subscription.          *)
LEMMA Elsewhere ==
  ASSUME TypeOK, HomeInv, SelfInv, self # Nobody, self' = self,
         \/ \E c \in Ids : Release(c)
         \/ \E i \in Servers : Crash(i)
  PROVE  /\ UNCHANGED <<send, screenVars, blind, spoiled, held>>
         /\ pc'[self] = pc[self] /\ home'[self] = home[self]
         /\ sub'[home[self]] = sub[home[self]]
         /\ home[self] \in deaf' <=> home[self] \in deaf
<1>1. self \in Ids /\ Live(self) /\ home[self] \in Servers
  BY SelfServed
<1>2. ASSUME NEW c \in Ids, Release(c)
      PROVE  /\ UNCHANGED <<send, screenVars, blind, spoiled, held>>
             /\ pc'[self] = pc[self] /\ home'[self] = home[self]
             /\ sub'[home[self]] = sub[home[self]]
             /\ home[self] \in deaf' <=> home[self] \in deaf
  <2>1. UNCHANGED <<send, screenVars, blind, spoiled, held>>
    BY <1>2 DEF Release, joinVars
  <2>2. self # c /\ pc'[self] = pc[self]
    BY <1>1, <1>2, Calls, OneMoves DEF SelfInv
  <2>3. home'[self] = home[self]
    BY <1>1, <1>2, <2>2 DEF Release, TypeOK
  <2>4. \/ UNCHANGED <<sub, deaf>>
        \/ /\ \A e \in Ids \ {c} : home[e] = home[c] => ~Live(e)
           /\ sub' = [sub EXCEPT ![home[c]] = << >>] /\ deaf' = deaf \ {home[c]}
    BY <1>2 DEF Release
  <2>5. home[c] = home[self] => UNCHANGED <<sub, deaf>>
    BY <1>1, <2>2, <2>4
  <2>6. home[c] # home[self] => /\ sub'[home[self]] = sub[home[self]]
                                /\ home[self] \in deaf' <=> home[self] \in deaf
    BY <1>1, <2>4 DEF TypeOK
  <2> QED BY <2>1, <2>2, <2>3, <2>5, <2>6
<1>3. ASSUME NEW i \in Servers, Crash(i)
      PROVE  /\ UNCHANGED <<send, screenVars, blind, spoiled, held>>
             /\ pc'[self] = pc[self] /\ home'[self] = home[self]
             /\ sub'[home[self]] = sub[home[self]]
             /\ home[self] \in deaf' <=> home[self] \in deaf
  <2> DEFINE dead == {c \in Ids : home[c] = i /\ Live(c)}
  <2>1. self \notin dead
    BY <1>3 DEF Crash, Hangup
  <2>2. home[self] # i
    BY <1>1, <2>1
  <2>3. UNCHANGED <<send, screenVars, blind, spoiled, held>>
    BY <1>3, <2>1 DEF Crash, joinVars
  <2>4. pc'[self] = pc[self] /\ home'[self] = home[self]
    BY <1>1, <1>3, <2>1 DEF Crash
  <2>5. sub'[home[self]] = sub[home[self]] /\ (home[self] \in deaf' <=> home[self] \in deaf)
    BY <1>1, <1>3, <2>2 DEF Crash, TypeOK
  <2> QED BY <2>3, <2>4, <2>5
<1> QED BY <1>2, <1>3

(* The roster it fetches (sendPresenceState) agrees with what has been     *)
(* announced, but for those between the roster and the announcement.       *)
LEMMA FetchSeen ==
  ASSUME TypeOK, HomeInv, SelfInv, RosterInv, ViewInv, self # Nobody, FetchRoster(self),
         NEW d \in Ids, Quiet(d), home[self] \notin deaf, Mute(sub[home[self]], d)
  PROVE  Seen(d)'
<1>1. /\ pc[self] = "Presence" /\ pc'[self] = "deliverDirect"
      /\ \A e \in Ids : e # self => pc'[e] = pc[e]
  BY SelfServed, Calls, OneMoves
<1>2. held' = roster \ {self} /\ UNCHANGED <<self, send>>
  BY DEF FetchRoster, Others
<1>3. Joining(d)
  BY <1>1 DEF ViewInv, Quiet, Seen
<1>4. ASSUME ~Between(d)' PROVE d \in held' \cup {self} <=> Announced(d)'
  <2>1. CASE d = self
    BY <1>1, <2>1 DEF Announced
  <2>2. CASE d # self
    <3>1. d \in roster <=>
            pc[d] \in {"PublishJoin", "Presence", "deliverDirect", "readPump", "RemovePresence"}
      BY DEF RosterInv, Quiet
    <3>2. pc[d] \notin {"PublishJoin", "PublishLeave"} /\ pc'[d] = pc[d]
      BY <1>1, <1>4, <2>2 DEF Between
    <3>3. d \in roster <=> Announced(d)'
      BY <3>1, <3>2 DEF Announced
    <3> QED BY <1>2, <2>2, <3>3
  <2> QED BY <2>1, <2>2
<1>5. Joining(d)'
  BY <1>2, <1>3, <1>4 DEF Joining, Quiet
<1> QED BY <1>1, <1>2, <1>5 DEF Seen


(* Whatever announcements, dispatches, fetches, deliveries and ends of     *)
(* connections come between, the watched browser will show what was last   *)
(* announced, unless a later announcement is on its way.                   *)
LEMMA ViewStep ==
  TypeOK /\ HomeInv /\ SelfInv /\ RosterInv /\ SubInv /\ ViewInv /\ [Next]_vars => ViewInv'
<1> SUFFICES ASSUME TypeOK, HomeInv, SelfInv, RosterInv, SubInv, ViewInv, [Next]_vars,
                    self' # Nobody, home'[self'] \notin deaf', NEW d \in Ids \ faulted',
                    Mute(sub'[home'[self']], d)
             PROVE  Seen(d)'
  BY DEF ViewInv
<1>s. self # Nobody =>
        /\ self \in Ids /\ Live(self) /\ home[self] \in Servers /\ Open(home[self])
        /\ send \in Seq(Events \cup States) /\ sub[home[self]] \in Seq(Events)
  BY SelfServed
<1>1. ASSUME NEW c \in Ids, PublishJoin(c) \/ PublishLeave(c) PROVE Seen(d)'
  <2>1. PICK m \in Events : Announces(c, m)
    BY <1>1, AnnounceStep
  <2>2. self' = self /\ home' = home /\ deaf' = deaf /\ UNCHANGED <<send, view, blind, spoiled, held>>
    BY <2>1 DEF Announces, joinVars, screenVars
  <2>3. CASE d = c
    <3>1. sub'[home[self]] = Append(sub[home[self]], m)
      BY <1>s, <2>1, <2>2, <2>3 DEF Announces, Subscribed
    <3>2. Informs(m, d)
      BY <2>1, <2>3 DEF Announces, Informs
    <3>3. ~Mute(sub'[home[self]], d)
      BY <1>s, <2>2, <3>1, <3>2, AppendSays
    <3> QED BY <2>2, <3>3
  <2>4. CASE d # c
    <3>1. Quiet(d)
      BY <2>1, <2>4 DEF Announces, Quiet, Word, Announced, Between, Alive
    <3>2. ~Informs(m, d)
      BY <2>1, <2>4 DEF Announces, Informs
    <3>3. Mute(Append(sub[home[self]], m), d) <=> Mute(sub[home[self]], d)
      BY <1>s, <2>2, <3>2, AppendSays
    <3>4. Mute(sub[home[self]], d)
      BY <1>s, <2>1, <2>2, <3>3 DEF Announces
    <3>5. self # c => pc'[self] = pc[self]
      BY <1>s, <2>1, <2>2 DEF Announces
    <3>6. self = c => pc[self] = "PublishJoin" /\ pc'[self] = "Presence"
      <4> SUFFICES ASSUME self = c PROVE pc[self] = "PublishJoin" /\ pc'[self] = "Presence"
        OBVIOUS
      <4>1. ~PublishLeave(c)
        BY <2>2, Calls, OneMoves DEF SelfInv
      <4> QED BY <1>1, <4>1, Calls, OneMoves
    <3> QED BY <2>2, <3>1, <3>4, <3>5, <3>6, SeenKept
  <2> QED BY <2>3, <2>4
<1>2. ASSUME ~\E c \in Ids : PublishJoin(c) \/ PublishLeave(c) PROVE Seen(d)'
  <2>q. Quiet(d)
    BY <1>2, QuietStep
  <2>k. ASSUME self # Nobody, UNCHANGED <<self, send, view, blind, spoiled, held>>,
               home'[self] = home[self], sub'[home[self]] = sub[home[self]],
               home[self] \in deaf => home[self] \in deaf',
               pc'[self] = "readPump" <=> pc[self] = "readPump",
               pc'[self] = "deliverDirect" => pc[self] = "deliverDirect"
        PROVE  Seen(d)'
    BY <2>k, <2>q, SeenKept
  <2>1. ASSUME NEW c \in Ids, NEW i \in Servers, Connect(c, i) PROVE Seen(d)'
    <3>1. /\ UNCHANGED <<sub, held, blind, send, view, spoiled>>
          /\ self' = self \/ (self = Nobody /\ self' = c)
          /\ home' = [home EXCEPT ![c] = i] /\ deaf \subseteq deaf'
      BY <2>1 DEF Connect, Subscribe
    <3>2. /\ pc[c] = "start" /\ pc'[c] = "SetPresence"
          /\ \A e \in Ids : e # c => pc'[e] = pc[e]
      BY <2>1, Calls, OneMoves
    <3>3. CASE self' = self
      <4>1. self # c
        BY <3>2, <3>3 DEF SelfInv
      <4>2. home'[self] = home[self] /\ pc'[self] = pc[self]
        BY <1>s, <3>1, <3>2, <3>3, <4>1 DEF TypeOK
      <4> QED BY <2>k, <3>1, <3>3, <4>2
    <3>4. CASE self = Nobody /\ self' = c
      <4>1. send' = << >>
        BY <3>1, <3>4 DEF SelfInv
      <4>2. Joining(d)'
        BY <3>2, <3>4, <4>1, EmptyQueue DEF Joining
      <4> QED BY <3>2, <3>4, <4>2 DEF Seen
    <3> QED BY <3>1, <3>3, <3>4
  <2>2. ASSUME NEW c \in Ids, SetPresence(c) \/ RemovePresence(c) \/ ReadPumpReturns(c)
        PROVE  Seen(d)'
    <3>1. UNCHANGED <<sub, home, deaf, self, send, view, blind, spoiled, held>>
      BY <2>2 DEF SetPresence, RemovePresence, SetRoster, ReadPumpReturns, joinVars, screenVars
    <3>2. /\ pc[self] \in {"SetPresence", "PublishJoin", "Presence", "deliverDirect", "readPump"}
          /\ self \in Ids
      BY <1>s, <3>1 DEF SelfInv
    <3>3. pc'[self] = pc[self] \/ (pc[self] = "SetPresence" /\ pc'[self] = "PublishJoin")
      <4>1. CASE self # c
        BY <2>2, <3>2, <4>1, Calls, OneMoves
      <4>2. CASE self = c
        <5>1. SetPresence(c)
          BY <2>2, <3>2, <4>2, Calls, OneMoves DEF ReadPumpReturns
        <5> QED BY <4>2, <5>1, Calls, OneMoves
      <4> QED BY <4>1, <4>2
    <3> QED BY <2>k, <3>1, <3>3
  <2>3. ASSUME NEW c \in Ids, FetchRoster(c) PROVE Seen(d)'
    <3>1. UNCHANGED <<sub, home, deaf, self, send, view, blind, spoiled>>
      BY <2>3 DEF FetchRoster, screenVars
    <3>2. CASE self = c
      <4>1. Mute(sub[home[self]], d)
        BY <3>1
      <4> QED BY <2>3, <2>q, <3>1, <3>2, <4>1, FetchSeen
    <3>3. CASE self # c
      <4>1. held' = held
        BY <2>3, <3>3 DEF FetchRoster
      <4>2. pc'[self] = pc[self]
        BY <1>s, <2>3, <3>1, <3>3, Calls, OneMoves
      <4> QED BY <2>k, <3>1, <4>1, <4>2
    <3> QED BY <3>2, <3>3
  <2>4. ASSUME NEW c \in Ids, FetchError(c) PROVE Seen(d)'
    <3>1. /\ UNCHANGED <<sub, home, deaf, self, send, view, spoiled, held>>
          /\ blind' = (blind \/ c = self)
      BY <2>4 DEF FetchError, screenVars
    <3>2. CASE self = c
      <4>1. blind' /\ pc'[self'] = "readPump"
        BY <2>4, <3>1, <3>2, Calls, OneMoves
      <4>2. Watching(d)'
        BY <4>1 DEF Watching
      <4> QED BY <4>1, <4>2 DEF Seen
    <3>3. CASE self # c
      <4>1. blind' = blind
        BY <3>1, <3>3 DEF TypeOK
      <4>2. pc'[self] = pc[self]
        BY <1>s, <2>4, <3>1, <3>3, Calls, OneMoves
      <4> QED BY <2>k, <3>1, <4>1, <4>2
    <3> QED BY <3>2, <3>3
  <2>5. ASSUME NEW c \in Ids, DeliverState(c) PROVE Seen(d)'
    <3>1. /\ UNCHANGED <<sub, home, deaf, view>>
          /\ \/ /\ c = self
                /\ send' = Append(send, [type |-> "state", id |-> self, others |-> held])
                /\ spoiled' = Contradicted(self) /\ UNCHANGED <<self, blind>>
             \/ c # self /\ UNCHANGED <<self, held, blind, send, spoiled>>
      BY <2>5 DEF DeliverState, screenVars, joinVars, Hangup
    <3>2. pc[c] = "deliverDirect" /\ pc'[c] = "readPump"
          /\ \A e \in Ids : e # c => pc'[e] = pc[e]
      BY <2>5, Calls, OneMoves
    <3>3. CASE c = self
      <4>1. /\ send' = Append(send, [type |-> "state", id |-> self, others |-> held])
            /\ spoiled' = Contradicted(self) /\ UNCHANGED <<self, blind>>
        BY <3>1, <3>3
      <4>2. Mute(sub[home[self]], d) /\ self # Nobody
        BY <3>1, <4>1
      <4> QED BY <2>q, <3>1, <3>2, <3>3, <4>1, <4>2, DeliverSeen
    <3>4. CASE c # self
      BY <1>s, <2>k, <3>1, <3>2, <3>4
    <3> QED BY <3>3, <3>4
  <2>6. CASE \/ \E c \in Ids : Release(c)
             \/ \E i \in Servers : Crash(i)
    <3>1. self' = self
      BY <2>6 DEF Release, Crash, Hangup, joinVars
    <3>2. /\ UNCHANGED <<send, view, blind, spoiled, held>>
          /\ pc'[self] = pc[self] /\ home'[self] = home[self]
          /\ sub'[home[self]] = sub[home[self]]
          /\ home[self] \in deaf' <=> home[self] \in deaf
      BY <2>6, <3>1, Elsewhere DEF screenVars
    <3> QED BY <2>k, <3>1, <3>2
  <2>7. ASSUME NEW c \in Ids, PublishCursor(c) PROVE Seen(d)'
    <3> DEFINE m == [type |-> "cursor", id |-> c]
    <3>1. m \in Events /\ ~Informs(m, d)
      BY DEF Events, Informs
    <3>2. /\ Publish(m, {})
          /\ UNCHANGED <<pc, home, deaf, self, send, view, blind, spoiled, held>>
      BY <2>7 DEF PublishCursor, serveVars, joinVars, screenVars
    <3> HIDE DEF m
    <3>3. \/ sub'[home[self]] = sub[home[self]]
          \/ sub'[home[self]] = Append(sub[home[self]], m)
      BY <1>s, <3>1, <3>2, Published
    <3>4. Mute(Append(sub[home[self]], m), d) <=> Mute(sub[home[self]], d)
      BY <1>s, <3>1, <3>2, AppendSays
    <3>5. Mute(sub[home[self]], d)
      BY <3>2, <3>3, <3>4
    <3> QED BY <2>q, <3>2, <3>5, SeenKept
  <2>8. ASSUME NEW i \in Servers, Dispatch(i) PROVE Seen(d)'
    <3>1. ~Hangup
      BY DEF Hangup
    <3>2. self' = self /\ home' = home /\ deaf' = deaf
      BY <2>8, <3>1 DEF Dispatch, joinVars, serveVars
    <3> QED BY <2>8, <2>q, <3>1, <3>2, DispatchSeen
  <2>9. CASE Receive
    <3>1. UNCHANGED <<sub, home, deaf, self>>
      BY <2>9 DEF Receive, serveVars, joinVars
    <3> QED BY <2>9, <2>q, <3>1, ReceiveSeen
  <2>10. ~Disconnect
    BY DEF Disconnect, Hangup
  <2>11. CASE UNCHANGED vars
    <3>1. UNCHANGED <<sub, pc, home, deaf, self, send, view, blind, spoiled, held>>
      BY <2>11 DEF vars, serveVars, joinVars, screenVars
    <3> QED BY <2>k, <3>1
  <2> QED BY <1>2, <2>1, <2>2, <2>3, <2>4, <2>5, <2>6, <2>7, <2>8, <2>9, <2>10, <2>11
          DEF Next, ServeStep
<1> QED BY <1>1, <1>2


----------------------------------------------------------------------------
(* The watched browser's cursors.                                          *)

(* A board that failed to subscribe (Board.run) passes nothing on to the   *)
(* watched client: neither a cursor nor a leave.                           *)
LEMMA DeafStep == TypeOK /\ HomeInv /\ SelfInv /\ DeafInv /\ [Next]_vars => DeafInv'
<1> SUFFICES ASSUME TypeOK, HomeInv, SelfInv, DeafInv, [Next]_vars,
                    self' # Nobody, home'[self'] \in deaf'
             PROVE  /\ cursors' \subseteq stale'
                    /\ \A k \in 1..Len(send') : send'[k].type = "state"
  BY DEF DeafInv
<1> DEFINE Goal == /\ cursors' \subseteq stale'
                   /\ \A k \in 1..Len(send') : send'[k].type = "state"
<1>s. self # Nobody =>
        /\ self \in Ids /\ home[self] \in Servers /\ Open(home[self])
        /\ send \in Seq(Events \cup States)
  BY SelfServed
<1>d. self # Nobody /\ home[self] \in deaf =>
        cursors \subseteq stale /\ \A k \in 1..Len(send) : send[k].type = "state"
  BY DEF DeafInv
<1>k. ASSUME UNCHANGED <<self, send, cursors, stale>>, home'[self] = home[self],
             home[self] \in deaf' => home[self] \in deaf
      PROVE  Goal
  BY <1>d, <1>k
<1>1. ASSUME NEW c \in Ids, NEW i \in Servers, Connect(c, i) PROVE Goal
  <2>1. /\ UNCHANGED <<send, cursors>> /\ home' = [home EXCEPT ![c] = i]
        /\ deaf' = deaf \/ (deaf' = deaf \cup {i} /\ ~Open(i))
        /\ \/ self = Nobody /\ stale' = cursors
           \/ UNCHANGED <<self, stale>>
    BY <1>1 DEF Connect, Subscribe
  <2>2. CASE self = Nobody /\ stale' = cursors
    BY <2>1, <2>2 DEF SelfInv
  <2>3. CASE UNCHANGED <<self, stale>>
    <3>1. pc[c] = "start"
      BY <1>1, Calls, OneMoves
    <3>2. self # c
      BY <2>3, <3>1 DEF SelfInv
    <3>3. home'[self] = home[self] /\ (home[self] \in deaf' => home[self] \in deaf)
      BY <1>s, <2>1, <2>3, <3>2 DEF TypeOK
    <3> QED BY <1>k, <2>1, <2>3, <3>3
  <2> QED BY <2>1, <2>2, <2>3
<1>2. CASE \/ \E c \in Ids : \/ SetPresence(c) \/ RemovePresence(c) \/ ReadPumpReturns(c)
                             \/ PublishJoin(c) \/ PublishLeave(c) \/ PublishCursor(c)
                             \/ FetchRoster(c) \/ FetchError(c)
           \/ UNCHANGED vars
  <2>1. UNCHANGED <<home, deaf, self, send, cursors, stale>>
    BY <1>2 DEF SetPresence, RemovePresence, SetRoster, ReadPumpReturns, PublishJoin,
                PublishLeave, Announce, PublishCursor, FetchRoster, FetchError, vars,
                serveVars, joinVars, screenVars
  <2> QED BY <1>k, <2>1
<1>3. ASSUME NEW c \in Ids, DeliverState(c) PROVE Goal
  <2> DEFINE m == [type |-> "state", id |-> c, others |-> held]
  <2>1. /\ UNCHANGED <<home, deaf, cursors, stale, self>>
        /\ send' = send \/ send' = Append(send, m)
    BY <1>3 DEF DeliverState, screenVars, joinVars, Hangup
  <2>2. m \in Events \cup States /\ m.type = "state"
    BY DEF TypeOK, States
  <2> HIDE DEF m
  <2>3. \A k \in 1..Len(Append(send, m)) :
          Append(send, m)[k] = m \/ (k \in 1..Len(send) /\ Append(send, m)[k] = send[k])
    BY <1>s, <2>1, <2>2, QueueTypes
  <2>4. \A k \in 1..Len(send) : send[k].type = "state"
    BY <1>d, <2>1
  <2> QED BY <1>d, <2>1, <2>2, <2>3, <2>4
<1>4. CASE \/ \E c \in Ids : Release(c)
           \/ \E i \in Servers : Crash(i)
  <2>1. self' = self
    BY <1>4 DEF Release, Crash, Hangup, joinVars
  <2>2. /\ UNCHANGED <<send, cursors, stale>> /\ home'[self] = home[self]
        /\ home[self] \in deaf' <=> home[self] \in deaf
    BY <1>4, <2>1, Elsewhere DEF screenVars
  <2> QED BY <1>k, <2>1, <2>2
<1>5. ASSUME NEW i \in Servers, Dispatch(i) PROVE Goal
  <2>1. /\ sub[i] # << >> /\ UNCHANGED <<home, deaf, self, cursors, stale>>
        /\ home[self] = i \/ UNCHANGED send
    BY <1>5 DEF Dispatch, Hangup, serveVars, joinVars, screenVars
  <2>2. home[self] # i
    BY <2>1 DEF HomeInv, Subscribed
  <2> QED BY <1>k, <2>1, <2>2
<1>6. CASE Receive
  <2> DEFINE m == Head(send)
  <2>1. /\ send # << >> /\ send' = Tail(send) /\ UNCHANGED <<home, deaf, self>>
        /\ cursors' = CursorsAfter(m)
        /\ stale' = IF m.type \in {"cursor", "leave"} THEN stale \ {m.id} ELSE stale
    BY <1>6 DEF Receive, serveVars, joinVars
  <2>2. /\ Len(send) \in Nat /\ Len(send) >= 1 /\ Head(send) = send[1]
        /\ Len(send') = Len(send) - 1
        /\ \A k \in 1..Len(send) - 1 : send'[k] = send[k + 1]
    BY <1>s, <2>1, QueueTypes
  <2>3. cursors \subseteq stale /\ \A k \in 1..Len(send) : send[k].type = "state"
    BY <1>d, <2>1
  <2>4. m.type = "state"
    BY <2>2, <2>3
  <2> HIDE DEF m
  <2>5. cursors' = cursors /\ stale' = stale
    BY <2>1, <2>4 DEF CursorsAfter
  <2>6. \A k \in 1..Len(send') : send'[k].type = "state"
    BY <2>2, <2>3
  <2> QED BY <2>3, <2>5, <2>6
<1>7. ~Disconnect
  BY DEF Disconnect, Hangup
<1> QED BY <1>1, <1>2, <1>3, <1>4, <1>5, <1>6, <1>7 DEF Next, ServeStep

(* A participant publishes no cursor after its leave: what is in a         *)
(* subscription stays closed by the leave.                                 *)
LEMMA SubCloses ==
  ASSUME TypeOK, HomeInv, CursorInv, [Next]_vars, NEW d \in Ids \ faulted', ~Alive(d)',
         Quiet(d), ~\E c \in Ids : PublishJoin(c) \/ PublishLeave(c), NEW j \in Servers
  PROVE  Closes(sub'[j], d)
<1>1. sub[j] \in Seq(Events) /\ Closes(sub[j], d) /\ ~Alive(d)
  BY DEF TypeOK, CursorInv, Quiet
<1>2. CASE sub'[j] = sub[j] \/ sub'[j] = << >>
  BY <1>1, <1>2, EmptyQueue
<1>3. ASSUME NEW c \in Ids, PublishCursor(c) PROVE Closes(sub'[j], d)
  <2> DEFINE m == [type |-> "cursor", id |-> c]
  <2>1. c # d
    BY <1>1, <1>3 DEF PublishCursor, Alive
  <2>2. m \in Events /\ ~IsCursor(m, d)
    BY <2>1 DEF Events, IsCursor
  <2>3. Publish(m, {})
    BY <1>3 DEF PublishCursor
  <2> HIDE DEF m
  <2>4. sub'[j] = sub[j] \/ sub'[j] = Append(sub[j], m)
    BY <2>2, <2>3, Published
  <2> QED BY <1>1, <2>2, <2>4, AppendCloses
<1>4. ASSUME NEW i \in Servers, Dispatch(i) PROVE Closes(sub'[j], d)
  <2>1. sub[i] # << >> /\ sub' = [sub EXCEPT ![i] = Tail(@)]
    BY <1>4 DEF Dispatch
  <2>2. CASE j = i
    <3>1. sub'[j] = Tail(sub[j]) /\ sub[j] # << >>
      BY <2>1, <2>2 DEF TypeOK
    <3> QED BY <1>1, <3>1, TailCloses
  <2>3. CASE j # i
    BY <1>2, <2>1, <2>3 DEF TypeOK
  <2> QED BY <2>2, <2>3
<1>5. ASSUME NEW c \in Ids, Release(c) PROVE Closes(sub'[j], d)
  <2>1. sub' = sub \/ sub' = [sub EXCEPT ![home[c]] = << >>]
    BY <1>5 DEF Release
  <2> QED BY <1>2, <2>1 DEF TypeOK
<1>6. ASSUME NEW i \in Servers, Crash(i) PROVE Closes(sub'[j], d)
  <2>1. sub' = [sub EXCEPT ![i] = << >>]
    BY <1>6 DEF Crash
  <2> QED BY <1>2, <2>1 DEF TypeOK
<1>7. \/ UNCHANGED sub \/ \E c \in Ids : PublishCursor(c) \/ Release(c)
      \/ \E i \in Servers : Dispatch(i) \/ Crash(i)
  BY DEF Next, ServeStep, vars, Connect, SetPresence, RemovePresence, SetRoster,
         FetchRoster, DeliverState, ReadPumpReturns, FetchError, Disconnect, Receive
<1> QED BY <1>2, <1>3, <1>4, <1>5, <1>6, <1>7

(* The board dispatches a message: cursors of d pass on before its leave.  *)
LEMMA DispatchSwept ==
  ASSUME TypeOK, HomeInv, SelfInv, NEW i \in Servers, Dispatch(i), ~Hangup,
         NEW d \in Ids, Swept(d), Closes(sub[i], d)
  PROVE  Swept(d)'
<1> DEFINE m == Head(sub[i])
<1>1. /\ sub[i] # << >> /\ sub' = [sub EXCEPT ![i] = Tail(@)]
      /\ UNCHANGED <<home, self, cursors, stale>>
      /\ \/ self # Nobody /\ home[self] = i /\ send' = Append(send, m)
         \/ /\ self = Nobody \/ home[self] # i \/ m.type = "cursor"
            /\ UNCHANGED send
  BY DEF Dispatch, serveVars, screenVars, joinVars
<1> SUFFICES ASSUME self # Nobody, ~Leaves(sub'[home[self]], d)
             PROVE  /\ Closes(send', d)
                    /\ d \in cursors \ stale => Leaves(send', d)
  BY <1>1 DEF Swept
<1>2. /\ home[self] \in Servers /\ send \in Seq(Events \cup States)
      /\ sub[i] \in Seq(Events) /\ m \in Events
  BY <1>1, SelfServed, QueueTypes DEF TypeOK
<1>3. ~Leaves(sub[home[self]], d) =>
        Closes(send, d) /\ (d \in cursors \ stale => Leaves(send, d))
  BY DEF Swept
<1>4. CASE home[self] # i
  <2>1. sub'[home[self]] = sub[home[self]] /\ send' = send
    BY <1>1, <1>2, <1>4 DEF TypeOK
  <2> QED BY <1>3, <2>1
<1>5. CASE home[self] = i
  <2>1. ~Leaves(Tail(sub[i]), d)
    BY <1>1, <1>5 DEF TypeOK
  <2>2. /\ Leaves(sub[i], d) <=> Leaves(Tail(sub[i]), d) \/ IsLeave(m, d)
        /\ Closes(sub[i], d) /\ IsCursor(m, d) => Leaves(Tail(sub[i]), d)
    BY <1>1, <1>2, TailCloses
  <2>3. /\ Leaves(Append(send, m), d) <=> Leaves(send, d) \/ IsLeave(m, d)
        /\ IsLeave(m, d) => Closes(Append(send, m), d)
        /\ ~IsCursor(m, d) /\ Closes(send, d) => Closes(Append(send, m), d)
    BY <1>2, AppendCloses
  <2>4. CASE send' = Append(send, m)
    BY <1>3, <1>5, <2>1, <2>2, <2>3, <2>4
  <2>5. CASE send' = send /\ m.type = "cursor"
    <3>1. ~IsLeave(m, d)
      BY <2>5 DEF IsLeave
    <3> QED BY <1>3, <1>5, <2>1, <2>2, <2>5, <3>1
  <2> QED BY <1>1, <1>5, <2>4, <2>5
<1> QED BY <1>4, <1>5

(* The browser handles a message: it drops d's cursor with d's leave.      *)
LEMMA ReceiveSwept ==
  ASSUME TypeOK, Receive, NEW d \in Ids, Swept(d)
  PROVE  Swept(d)'
<1> DEFINE m == Head(send)
<1>1. /\ self # Nobody /\ send # << >> /\ send' = Tail(send)
      /\ cursors' = CursorsAfter(m)
      /\ stale' = IF m.type \in {"cursor", "leave"} THEN stale \ {m.id} ELSE stale
      /\ UNCHANGED <<sub, home, self>>
  BY DEF Receive, serveVars, joinVars
<1> SUFFICES ASSUME ~Leaves(sub[home[self]], d)
             PROVE  /\ Closes(send', d)
                    /\ d \in cursors' \ stale' => Leaves(send', d)
  BY <1>1 DEF Swept
<1>2. Closes(send, d) /\ (d \in cursors \ stale => Leaves(send, d))
  BY <1>1 DEF Swept
<1>3. send \in Seq(Events \cup States) /\ m \in Events \cup States
  BY <1>1, QueueTypes DEF TypeOK
<1>4. m.type \in {"join", "leave", "cursor", "state"} /\ m.id \in Ids
  BY <1>3 DEF Events, States
<1>5. /\ Leaves(send, d) <=> Leaves(send', d) \/ IsLeave(m, d)
      /\ Closes(send, d) => Closes(send', d)
      /\ Closes(send, d) /\ IsCursor(m, d) => Leaves(send', d)
  BY <1>1, <1>3, TailCloses
<1> HIDE DEF m
<1>6. CASE IsLeave(m, d)
  <2>1. d \notin cursors'
    BY <1>1, <1>6 DEF CursorsAfter, IsLeave
  <2> QED BY <1>2, <1>5, <2>1
<1>7. CASE IsCursor(m, d)
  BY <1>2, <1>5, <1>7
<1>8. CASE ~IsLeave(m, d) /\ ~IsCursor(m, d)
  <2>1. d \in cursors' => d \in cursors
    BY <1>1, <1>4, <1>8 DEF CursorsAfter, IsCursor
  <2>2. d \in stale => d \in stale'
    BY <1>1, <1>8 DEF IsLeave, IsCursor
  <2> QED BY <1>2, <1>5, <1>8, <2>1, <2>2
<1> QED BY <1>6, <1>7, <1>8


(* A participant that is gone has its leave behind every cursor of its     *)
(* own, all the way to the watched screen, whatever a full queue dropped.  *)
LEMMA CursorStep ==
  TypeOK /\ HomeInv /\ SelfInv /\ DeafInv /\ CursorInv /\ [Next]_vars => CursorInv'
<1> SUFFICES ASSUME TypeOK, HomeInv, SelfInv, DeafInv, CursorInv, [Next]_vars,
                    NEW d \in Ids \ faulted', ~Alive(d)'
             PROVE  Swept(d)' /\ \A i \in Servers : Closes(sub'[i], d)
  BY DEF CursorInv
<1>s. self # Nobody =>
        /\ self \in Ids /\ home[self] \in Servers /\ Open(home[self])
        /\ send \in Seq(Events \cup States) /\ sub[home[self]] \in Seq(Events)
  BY SelfServed
<1>1. ASSUME NEW c \in Ids, PublishJoin(c) \/ PublishLeave(c)
      PROVE  Swept(d)' /\ \A i \in Servers : Closes(sub'[i], d)
  <2>1. PICK m \in Events : Announces(c, m)
    BY <1>1, AnnounceStep
  <2>2. UNCHANGED <<self, home, send, cursors, stale>>
    BY <2>1 DEF Announces, joinVars, screenVars
  <2>t. \A i \in Servers : sub[i] \in Seq(Events)
    BY DEF TypeOK
  <2>3. CASE d = c /\ m.type = "leave"
    <3>1. IsLeave(m, d)
      BY <2>1, <2>3 DEF Announces, IsLeave
    <3>2. ASSUME NEW i \in Servers PROVE Closes(sub'[i], d)
      <4>1. CASE Subscribed(i)
        <5>1. sub'[i] = Append(sub[i], m)
          BY <2>1, <2>3, <4>1 DEF Announces
        <5> QED BY <2>t, <3>1, <5>1, AppendCloses
      <4>2. CASE ~Subscribed(i)
        <5>1. sub'[i] = << >>
          BY <2>1, <4>2 DEF Announces, HomeInv
        <5> QED BY <5>1, EmptyQueue
      <4> QED BY <4>1, <4>2
    <3>3. ASSUME self # Nobody, home[self] \notin deaf PROVE Leaves(sub'[home[self]], d)
      <4>1. sub'[home[self]] = Append(sub[home[self]], m)
        BY <1>s, <2>1, <2>3, <3>3 DEF Announces, Subscribed
      <4> QED BY <1>s, <3>1, <3>3, <4>1, AppendCloses
    <3>4. ASSUME self # Nobody, home[self] \in deaf
          PROVE  Closes(send, d) /\ cursors \subseteq stale
      BY <3>4 DEF DeafInv, Closes, IsCursor
    <3> QED BY <2>2, <3>2, <3>3, <3>4 DEF Swept
  <2>4. CASE d # c \/ m.type = "join"
    <3>1. d \notin faulted /\ ~Alive(d)
      BY <2>1, <2>4 DEF Announces, Alive
    <3>2. ~IsCursor(m, d) /\ ~IsLeave(m, d)
      BY <2>1, <2>4 DEF Announces, IsCursor, IsLeave
    <3>3. Swept(d) /\ \A i \in Servers : Closes(sub[i], d)
      BY <3>1 DEF CursorInv
    <3>4. ASSUME NEW i \in Servers
          PROVE  Closes(sub'[i], d) /\ (Leaves(sub'[i], d) <=> Leaves(sub[i], d))
      <4>1. sub'[i] = sub[i] \/ sub'[i] = Append(sub[i], m)
        BY <2>1 DEF Announces
      <4>2. /\ Leaves(Append(sub[i], m), d) <=> Leaves(sub[i], d) \/ IsLeave(m, d)
            /\ ~IsCursor(m, d) /\ Closes(sub[i], d) => Closes(Append(sub[i], m), d)
        BY <2>t, AppendCloses
      <4> QED BY <3>2, <3>3, <4>1, <4>2
    <3> QED BY <1>s, <2>2, <3>3, <3>4 DEF Swept
  <2> QED BY <2>1, <2>3, <2>4 DEF Announces
<1>2. ASSUME ~\E c \in Ids : PublishJoin(c) \/ PublishLeave(c)
      PROVE  Swept(d)' /\ \A i \in Servers : Closes(sub'[i], d)
  <2>q. Quiet(d)
    BY <1>2, QuietStep
  <2>a. Swept(d) /\ \A i \in Servers : Closes(sub[i], d)
    BY <2>q DEF Quiet, CursorInv
  <2>b. \A i \in Servers : Closes(sub'[i], d)
    BY <1>2, <2>q, SubCloses
  <2>k. ASSUME UNCHANGED <<self, cursors, stale>>,
               self # Nobody =>
                 /\ home'[self] = home[self]
                 /\ Leaves(sub[home[self]], d) => Leaves(sub'[home[self]], d)
                 /\ Closes(send, d) => Closes(send', d)
                 /\ Leaves(send, d) => Leaves(send', d)
        PROVE  Swept(d)'
    BY <2>a, <2>k DEF Swept
  <2>h. ASSUME self' = Nobody PROVE Swept(d)'
    BY <2>h DEF Swept
  <2>1. ASSUME NEW c \in Ids, NEW i \in Servers, Connect(c, i) PROVE Swept(d)'
    <3>1. /\ UNCHANGED <<sub, send, cursors>> /\ home' = [home EXCEPT ![c] = i]
          /\ \/ self = Nobody /\ self' = c /\ stale' = cursors
             \/ UNCHANGED <<self, stale>>
      BY <2>1 DEF Connect
    <3>2. CASE UNCHANGED <<self, stale>>
      <4>1. self # c
        <5>1. c # Nobody /\ pc[c] = "start"
          BY <2>1, Calls, OneMoves DEF Nobody, Ids
        <5> QED BY <5>1 DEF SelfInv
      <4>2. self # Nobody => home'[self] = home[self]
        BY <1>s, <3>1, <4>1 DEF TypeOK
      <4> QED BY <2>k, <3>1, <3>2, <4>2
    <3>3. CASE self = Nobody /\ stale' = cursors
      <4>1. send' = << >> /\ d \notin cursors' \ stale'
        BY <3>1, <3>3 DEF SelfInv
      <4> QED BY <4>1, EmptyQueue DEF Swept
    <3> QED BY <3>1, <3>2, <3>3
  <2>2. ASSUME \/ \E c \in Ids : \/ SetPresence(c) \/ RemovePresence(c) \/ ReadPumpReturns(c)
                                 \/ FetchRoster(c) \/ FetchError(c)
               \/ UNCHANGED vars
        PROVE  Swept(d)'
    <3>1. UNCHANGED <<sub, home, self, send, cursors, stale>>
      BY <2>2 DEF SetPresence, RemovePresence, SetRoster, ReadPumpReturns, FetchRoster,
                  FetchError, vars, serveVars, joinVars, screenVars
    <3> QED BY <2>k, <3>1
  <2>3. ASSUME NEW c \in Ids, DeliverState(c) PROVE Swept(d)'
    <3> DEFINE m == [type |-> "state", id |-> c, others |-> held]
    <3>1. /\ UNCHANGED <<sub, home, cursors, stale>>
          /\ \/ c = self /\ send' = Append(send, m) /\ self' = self
             \/ self' = Nobody
             \/ UNCHANGED <<self, send>>
      BY <2>3 DEF DeliverState, screenVars, joinVars, Hangup
    <3>2. m \in Events \cup States /\ ~IsCursor(m, d)
      BY DEF TypeOK, States, IsCursor
    <3> HIDE DEF m
    <3>3. CASE c = self /\ send' = Append(send, m) /\ self' = self
      <4>1. send \in Seq(Events \cup States)
        BY DEF TypeOK
      <4>2. /\ Leaves(send', d) <=> Leaves(send, d) \/ IsLeave(m, d)
            /\ ~IsCursor(m, d) /\ Closes(send, d) => Closes(send', d)
        BY <3>2, <3>3, <4>1, AppendCloses
      <4> QED BY <2>k, <3>1, <3>2, <3>3, <4>2
    <3>4. CASE UNCHANGED <<self, send>>
      BY <2>k, <3>1, <3>4
    <3> QED BY <2>h, <3>1, <3>3, <3>4
  <2>4. ASSUME \/ \E c \in Ids : Release(c)
               \/ \E i \in Servers : Crash(i)
        PROVE  Swept(d)'
    <3>1. self' = self \/ self' = Nobody
      BY <2>4 DEF Release, Crash, Hangup, joinVars
    <3>2. UNCHANGED <<cursors, stale>>
      BY <2>4 DEF Release, Crash, screenVars
    <3>3. ASSUME self # Nobody, self' = self
          PROVE  /\ send' = send /\ home'[self] = home[self]
                 /\ sub'[home[self]] = sub[home[self]]
      BY <2>4, <3>3, Elsewhere
    <3> QED BY <2>h, <2>k, <3>1, <3>2, <3>3
  <2>5. ASSUME NEW c \in Ids, PublishCursor(c) PROVE Swept(d)'
    <3> DEFINE m == [type |-> "cursor", id |-> c]
    <3>1. m \in Events
      BY DEF Events
    <3>2. Publish(m, {}) /\ UNCHANGED <<home, self, send, cursors, stale>>
      BY <2>5 DEF PublishCursor, serveVars, joinVars, screenVars
    <3> HIDE DEF m
    <3>3. ASSUME self # Nobody
          PROVE  Leaves(sub[home[self]], d) => Leaves(sub'[home[self]], d)
      <4>1. \/ sub'[home[self]] = sub[home[self]]
            \/ sub'[home[self]] = Append(sub[home[self]], m)
        BY <1>s, <3>1, <3>2, <3>3, Published
      <4>2. Leaves(Append(sub[home[self]], m), d) <=>
              Leaves(sub[home[self]], d) \/ IsLeave(m, d)
        BY <1>s, <3>1, <3>3, AppendCloses
      <4> QED BY <4>1, <4>2
    <3> QED BY <2>k, <3>2, <3>3
  <2>6. ASSUME NEW i \in Servers, Dispatch(i) PROVE Swept(d)'
    <3>1. CASE Hangup
      BY <2>h, <3>1 DEF Hangup
    <3>2. CASE ~Hangup
      BY <2>6, <2>a, <3>2, DispatchSwept
    <3> QED BY <3>1, <3>2
  <2>7. ASSUME Receive PROVE Swept(d)'
    BY <2>7, <2>a, ReceiveSwept
  <2>8. ASSUME Disconnect PROVE Swept(d)'
    BY <2>8, <2>h DEF Disconnect, Hangup
  <2>9. Swept(d)'
    BY <1>2, <2>1, <2>2, <2>3, <2>4, <2>5, <2>6, <2>7, <2>8 DEF Next, ServeStep
  <2> QED BY <2>b, <2>9
<1> QED BY <1>1, <1>2

----------------------------------------------------------------------------
(* The theorems.                                                           *)

(* No connection has been made: nothing is announced, queued or shown.     *)
LEMMA InductiveInit == Init => RInv
<1> SUFFICES ASSUME Init PROVE RInv
  OBVIOUS
<1>1. TypeOK
  BY TypeInit
<1>2. HomeInv
  BY DEF Init, HomeInv, Live
<1>3. SelfInv /\ ViewInv /\ DeafInv
  BY DEF Init, SelfInv, ViewInv, DeafInv
<1>4. RosterInv
  BY DEF Init, RosterInv
<1>5. SubInv
  BY EmptyQueue DEF Init, SubInv
<1>6. CursorInv
  BY EmptyQueue DEF Init, CursorInv, Swept
<1> QED BY <1>1, <1>2, <1>3, <1>4, <1>5, <1>6 DEF RInv

(* Every step of a Serve, a board, a browser or a crash keeps the          *)
(* invariant.                                                              *)
THEOREM Inductive == Spec => []RInv
<1>1. RInv /\ [Next]_vars => RInv'
  BY TypeStep, HomeStep, SelfStep, RosterStep, SubStep, ViewStep, DeafStep, CursorStep
     DEF RInv
<1> QED BY InductiveInit, <1>1, PTL DEF Spec

(* The channels of both kinds stay within their capacity and every Serve   *)
(* is at one of its calls.                                                 *)
THEOREM TypeCorrect == Spec => []TypeOK
<1>1. RInv => TypeOK
  BY DEF RInv
<1> QED BY Inductive, <1>1, PTL

(* A settled browser lists a participant exactly when it is there          *)
(* (joinPresence, leavePresence, sendPresenceState, handleMessage), but    *)
(* for participants with a lost call or announcement and those whose       *)
(* roster entry was older than the announcements queued before it; a board *)
(* that failed to subscribe affects no browser of another server.          *)
THEOREM RosterTracked == Spec => []ViewTracks
<1>1. RInv => ViewTracks
  <2> SUFFICES ASSUME RInv, Settled, ~blind, home[self] \notin deaf,
                      NEW d \in Ids \ (faulted \cup spoiled)
               PROVE  d \in view <=> d \in Present
    BY DEF ViewTracks
  <2>1. /\ self \in Ids /\ pc[self] = "readPump" /\ self # Nobody
        /\ send = << >> /\ sub[home[self]] = << >>
        /\ Live(d) => pc[d] = "readPump"
    BY DEF Settled, Present, Ids, Nobody
  <2>2. Mute(sub[home[self]], d) /\ Mute(send, d)
    BY <2>1, EmptyQueue
  <2>3. Watching(d)
    BY <2>1, <2>2 DEF RInv, ViewInv, Seen
  <2>4. ~Between(d) /\ (Announced(d) <=> pc[d] = "readPump")
    BY <2>1 DEF Live, Between, Announced
  <2>5. ~Says(send, d, Word(d))
    BY <2>2, SaysSomething
  <2> QED BY <2>2, <2>3, <2>4, <2>5 DEF Watching, Present
<1> QED BY Inductive, <1>1, PTL

(* No cursor outlives its owner on a settled screen (handleMessage drops   *)
(* it with the leave), whatever a full queue dropped.                      *)
THEOREM CursorsGo == Spec => []CursorsCurrent
<1>1. RInv => CursorsCurrent
  <2> SUFFICES ASSUME RInv, Settled, NEW d \in cursors, d \notin faulted, d \notin stale
               PROVE  d \in Present
    BY DEF CursorsCurrent
  <2>1. /\ self \in Ids /\ self # Nobody
        /\ send = << >> /\ sub[home[self]] = << >>
        /\ d \in Ids /\ (Live(d) => d \in Present)
    BY DEF RInv, TypeOK, Settled, Present, Ids, Nobody
  <2>2. ~Leaves(sub[home[self]], d) /\ ~Leaves(send, d)
    BY <2>1, EmptyQueue
  <2>3. Alive(d)
    BY <2>1, <2>2 DEF RInv, CursorInv, Swept
  <2> QED BY <2>1, <2>3 DEF Alive, Live
<1> QED BY Inductive, <1>1, PTL
============================================================================
