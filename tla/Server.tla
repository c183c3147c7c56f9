------------------------------ MODULE Server ------------------------------
(***************************************************************************)
(* The server process (cmd/server) around one hub: it builds the broker    *)
(* and the store, serves HTTP requests that become Serve calls             *)
(* (internal/ws), and on a signal stops the listener, drains the hub       *)
(* within a deadline and runs its deferred calls in reverse order: the     *)
(* hub's coordinator, the store, the broker.  When run returns the process *)
(* is gone, with every goroutine that is still there.                      *)
(***************************************************************************)
EXTENDS Hub

VARIABLES
  main,      \* where run is
  handler,   \* where the HTTP handler of each session is
  expired,   \* the deadline of the drain has passed
  saved      \* history: boards whose final save found the store open

serverVars == <<vars, main, handler, expired, saved>>

(* Between hub.New and the end of the process.                             *)
Draining == {"httpShutdown", "hubShutdown"}
Running  == {"serving", "h.Close", "h.wg.Wait", "st.Close", "b.Close"} \cup Draining

StoreOpen == HasStore /\ main \in Running \ {"b.Close"}

ServerTypeOK ==
  /\ TypeOK
  /\ main \in Running \cup {"newBroker", "newStore", "abort", "exited"}
  /\ handler \in [Sessions -> {"none", "upgrade", "serve", "returned"}]
  /\ expired \in BOOLEAN
  /\ saved \subseteq Sessions

ServerInit ==
  /\ Init
  /\ main = "newBroker"
  /\ handler = [s \in Sessions |-> "none"]
  /\ expired = FALSE
  /\ saved = {}

MainGoto(from, to) == main = from /\ main' = to
HandlerGoto(s, from, to) ==
  handler[s] = from /\ handler' = [handler EXCEPT ![s] = to]

----------------------------------------------------------------------------
(* run.                                                                    *)

(* newBroker; a Redis that does not answer ends the process.               *)
NewBroker ==
  /\ MainGoto("newBroker", "newStore") \/ MainGoto("newBroker", "exited")
  /\ UNCHANGED <<vars, handler, expired, saved>>

(* newStore; a database that cannot be reached ends it too, by way of the  *)
(* broker's Close.                                                         *)
NewStore ==
  /\ \/ MainGoto("newStore", "serving")
     \/ HasStore /\ MainGoto("newStore", "abort")
  /\ UNCHANGED <<vars, handler, expired, saved>>

(* ListenAndServe fails: run returns, without a drain.                     *)
ListenError ==
  /\ MainGoto("serving", "h.Close")
  /\ UNCHANGED <<vars, handler, expired, saved>>

(* SIGINT or SIGTERM: the drain begins, and its 15 seconds.                *)
Signal ==
  /\ MainGoto("serving", "httpShutdown")
  /\ UNCHANGED <<vars, handler, expired, saved>>

Deadline ==
  /\ main \in Draining /\ ~expired
  /\ expired' = TRUE
  /\ UNCHANGED <<vars, main, handler, saved>>

(* srv.Shutdown waits for the requests that are not upgraded yet, or for   *)
(* the deadline, and is indifferent to upgraded ones (external).           *)
HttpShutdown ==
  /\ MainGoto("httpShutdown", "hubShutdown")
  /\ expired \/ \A s \in Sessions : handler[s] # "upgrade"
  /\ UNCHANGED <<vars, handler, expired, saved>>

(* h.Shutdown, first and last step; Hub has the others.                    *)
HubShutdownBegin ==
  /\ main = "hubShutdown"
  /\ ShutdownBegin
  /\ UNCHANGED <<main, handler, expired, saved>>

HubShutdownReturned ==
  /\ shut \in {"ok", "err"}
  /\ MainGoto("hubShutdown", "h.Close")
  /\ UNCHANGED <<vars, handler, expired, saved>>

(* Defect for the mutation runs: Close does not wait for the coordinator.  *)
AfterStop_NoWait == "st.Close"

(* Hub.Close stops the coordinator, and waits for it when there is one.    *)
AfterStop == IF HasStore THEN "h.wg.Wait" ELSE "st.Close"

HubClose ==
  /\ MainGoto("h.Close", AfterStop)
  /\ StopCoordinator
  /\ UNCHANGED <<hubVars, boardVars, fanoutVars, connVars, shut, toQuit, toWait,
                 pc, boardID, board, queue, writer, coord, handler,
                 expired, saved>>

HubClosed ==
  /\ coord = "exited"
  /\ MainGoto("h.wg.Wait", "st.Close")
  /\ UNCHANGED <<vars, handler, expired, saved>>

StoreClose ==
  /\ MainGoto("st.Close", "b.Close")
  /\ UNCHANGED <<vars, handler, expired, saved>>

(* The broker is closed, run returns and main exits.                       *)
BrokerClose ==
  /\ MainGoto("b.Close", "exited") \/ MainGoto("abort", "exited")
  /\ UNCHANGED <<vars, handler, expired, saved>>

----------------------------------------------------------------------------
(* ws.Handler.                                                             *)

(* A request reaches the handler; without a board id that is all.          *)
Request(s) ==
  /\ main = "serving"
  /\ HandlerGoto(s, "none", "upgrade") \/ HandlerGoto(s, "none", "returned")
  /\ UNCHANGED <<vars, main, expired, saved>>

(* websocket.Accept takes the connection over, or fails.                   *)
Accept(s) ==
  /\ main \in Running
  /\ HandlerGoto(s, "upgrade", "serve") \/ HandlerGoto(s, "upgrade", "returned")
  /\ UNCHANGED <<vars, main, expired, saved>>

(* Serve begins, or is rejected.                                           *)
Serve(s) ==
  /\ main \in Running /\ handler[s] = "serve"
  /\ BeginSession(s) \/ RejectSession(s)
  /\ UNCHANGED <<main, handler, expired, saved>>

(* Serve has returned: CloseNow.                                           *)
HandlerReturns(s) ==
  /\ main \in Running /\ pc[s] = "returned"
  /\ HandlerGoto(s, "serve", "returned")
  /\ connClosed' = [connClosed EXCEPT ![s] = TRUE]
  /\ UNCHANGED <<hubVars, boardVars, fanoutVars, ctxDone, shutVars, pc, boardID,
                 board, queue, writer, coord, main, expired, saved>>

----------------------------------------------------------------------------
(* The hub's own steps, while the process is there.                        *)

(* Defect for the mutation runs: Shutdown's waits do not see the deadline. *)
DrainTimeout_None == FALSE /\ UNCHANGED vars

(* Shutdown's waits see the deadline.                                      *)
DrainTimeout == expired /\ ShutdownTimeout

(* The final save of a board, which fails once the store is closed.        *)
FinalSave(b) ==
  /\ main \in Running
  /\ BoardDone(b)
  /\ saved' = IF StoreOpen THEN saved \cup {b} ELSE saved
  /\ UNCHANGED <<main, handler, expired>>

SessionStep(s) ==
  /\ main \in Running
  /\ pc[s] # "idle"
  /\ ServeStep(s) \/ WriterStep(s)
  /\ UNCHANGED <<main, handler, expired, saved>>

Elsewhere(s) ==
  /\ main \in Running
  /\ PeerGone(s) \/ CancelRequest(s) \/ PingFails(s) \/ BoardDispatch(s)
  /\ UNCHANGED <<main, handler, expired, saved>>

BoardLoop(b) ==
  /\ main \in Running
  /\ BoardStart(b) \/ BoardQuit(b)
  /\ UNCHANGED <<main, handler, expired, saved>>

DrainStep ==
  /\ main \in Running
  /\ ShutdownStep \/ DrainTimeout
  /\ UNCHANGED <<main, handler, expired, saved>>

Coordinator ==
  /\ main \in Running
  /\ CoordinatorTick \/ CoordinatorSaved \/ CoordinatorExit
  /\ UNCHANGED <<main, handler, expired, saved>>

----------------------------------------------------------------------------
MainStep ==
  \/ HttpShutdown \/ HubShutdownBegin \/ HubShutdownReturned
  \/ HubClose \/ HubClosed \/ StoreClose \/ BrokerClose

ServerNext ==
  \/ NewBroker \/ NewStore \/ ListenError \/ Signal \/ Deadline \/ MainStep
  \/ DrainStep \/ Coordinator
  \/ \E s \in Sessions :
       \/ Request(s) \/ Accept(s) \/ Serve(s) \/ HandlerReturns(s)
       \/ SessionStep(s) \/ Elsewhere(s)
  \/ \E b \in Sessions : BoardLoop(b) \/ FinalSave(b)

ServerSpec == ServerInit /\ [][ServerNext]_serverVars

(* main goes on, time passes, Shutdown goes on, and a round of saves,      *)
(* which has a timeout, ends; the coordinator's select is random.          *)
(* Nothing is assumed of the sessions, their peers and the boards.         *)
ServerFairness ==
  /\ WF_serverVars(MainStep) /\ WF_serverVars(Deadline)
  /\ WF_serverVars(DrainStep)
  /\ WF_serverVars(Coordinator /\ CoordinatorSaved)
  /\ SF_serverVars(Coordinator /\ CoordinatorExit)

ServerFairSpec == ServerSpec /\ ServerFairness

----------------------------------------------------------------------------
(* Properties.                                                             *)

(* The coordinator never saves to a store that is not open yet or already  *)
(* closed, whichever way run ends (main.go:134-147: the deferred Close of  *)
(* the hub comes before the store's).                                      *)
TicksOnOpenStore == coord = "saving" => StoreOpen

(* When the store goes after a drain that ended in time, every board the   *)
(* drain took has its final snapshot, any other board had no client left,  *)
(* and no Serve call is in flight to apply one more operation              *)
(* (main.go:198-204).                                                      *)
CleanExitSaved ==
  main \in {"st.Close", "b.Close", "exited"} /\ shut = "ok" =>
    /\ HasStore => toWait \subseteq saved
    /\ \A b \in Sessions : run[b] \notin {"none", "done"} => Holders(b) = {}
    /\ \A s \in Sessions : pc[s] \notin InFlight

(* A signal ends the process, even when a Serve call, a board or a peer    *)
(* hangs: "a bounded window to finish" (main.go:188-190).                  *)
SignalExits == (main = "httpShutdown") ~> (main = "exited")

(* "Drain the live WebSocket sessions: close every board, flush a final    *)
(* snapshot" (main.go:198-199): after "drain complete" no board ends       *)
(* without one.                                                            *)
EveryBoardFlushed ==
  main = "exited" /\ shut = "ok" =>
    \A b \in Sessions : run[b] # "none" => b \in saved
============================================================================
