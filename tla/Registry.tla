----------------------------- MODULE Registry -----------------------------
(***************************************************************************)
(* What a hub promises its sessions, without a counter, channels or        *)
(* goroutines: while somebody is on a board everyone who comes gets that   *)
(* same board object; it closes with the last to leave and at no other     *)
(* time, and never opens again: who comes after gets a new one; a board    *)
(* stops only once it is closed.  A drain closes all boards at once, for   *)
(* good.                                                                   *)
(***************************************************************************)

CONSTANTS
  Sessions,   \* who comes and goes
  BoardIDs,   \* names of boards
  Objects,    \* board objects
  NoBoard     \* none of them

VARIABLES
  open,      \* the open board of each name
  user,      \* the board each session is on
  life,      \* what has become of each object: "new", "up" or "down"
  draining   \* nobody is let in any more

vars == <<open, user, life, draining>>

Init ==
  /\ open = [id \in BoardIDs |-> NoBoard]
  /\ user = [s \in Sessions |-> NoBoard]
  /\ life = [b \in Objects |-> "new"]
  /\ draining = FALSE

(* A session comes to a board that is open, or opens a new one.            *)
Enter(s, id, b) ==
  /\ ~draining /\ user[s] = NoBoard
  /\ \/ open[id] = b /\ UNCHANGED <<open, life>>
     \/ /\ open[id] = NoBoard /\ life[b] = "new"
        /\ open' = [open EXCEPT ![id] = b]
        /\ life' = [life EXCEPT ![b] = "up"]
  /\ user' = [user EXCEPT ![s] = b]
  /\ UNCHANGED draining

(* A session goes, and its board closes if nobody else is on it.           *)
Leave(s) ==
  LET last == \A t \in Sessions \ {s} : user[t] # user[s] IN
  /\ user[s] # NoBoard
  /\ user' = [user EXCEPT ![s] = NoBoard]
  /\ open' = [id \in BoardIDs |->
                IF last /\ open[id] = user[s] THEN NoBoard ELSE open[id]]
  /\ UNCHANGED <<life, draining>>

(* A board that is closed stops.                                           *)
Stop(b) ==
  /\ life[b] = "up" /\ \A id \in BoardIDs : open[id] # b
  /\ life' = [life EXCEPT ![b] = "down"]
  /\ UNCHANGED <<open, user, draining>>

Drain ==
  /\ ~draining /\ draining' = TRUE
  /\ open' = [id \in BoardIDs |-> NoBoard]
  /\ UNCHANGED <<user, life>>

Next ==
  \/ \E s \in Sessions, id \in BoardIDs, b \in Objects : Enter(s, id, b)
  \/ \E s \in Sessions : Leave(s)
  \/ \E b \in Objects : Stop(b)
  \/ Drain

Spec == Init /\ [][Next]_vars
============================================================================
