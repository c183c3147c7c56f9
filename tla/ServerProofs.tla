---------------------------- MODULE ServerProofs ----------------------------
(* Proofs of Server's safety properties, for any number of sessions and    *)
(* boards: the hub of a server process is the hub of module Hub, and what  *)
(* main does around it keeps the store open as long as it is written to.   *)
EXTENDS Server, HubProofs

(* Hub.Close is the hub's own Close, or nothing: its stopOnce has run, or  *)
(* there is no coordinator (hub.go:98-109).                                *)
LEMMA HubCloseStep ==
  ASSUME TypeOK, HubClose
  PROVE  Close \/ UNCHANGED vars
<1>1. UNCHANGED <<hubVars, boardVars, fanoutVars, connVars, shut, toQuit, toWait,
                  pc, boardID, board, queue, writer, coord>>
  BY DEF HubClose
<1>2. CASE HasStore /\ ~stop
  BY <1>1, <1>2 DEF HubClose, Close
<1>3. CASE ~HasStore \/ stop
  <2>1. stop' = stop
    BY <1>3, StoreAssumption DEF HubClose, StopCoordinator, TypeOK
  <2> QED
    BY <1>1, <2>1 DEF vars, shutVars
<1> QED
  BY <1>2, <1>3

(* CloseNow on a connection Serve has returned from finds it closed: it    *)
(* changes nothing (websocket.go:53-56).                                   *)
LEMMA HandlerReturnsStep ==
  ASSUME IInv, NEW s \in Sessions, HandlerReturns(s)
  PROVE  UNCHANGED vars
<1>1. pc[s] = "returned" /\ connClosed' = [connClosed EXCEPT ![s] = TRUE]
  BY DEF HandlerReturns
<1>2. connClosed \in [Sessions -> BOOLEAN] /\ connClosed[s] = TRUE
  BY <1>1 DEF IInv, TypeOK, DrainInv
<1>3. connClosed' = connClosed
  BY <1>1, <1>2
<1> QED
  BY <1>3 DEF HandlerReturns, vars, connVars

(* What main, the handlers and the process let the hub do is a step of the *)
(* hub or no step at all (main.go:108-206, websocket.go:26-58).            *)
LEMMA HubStep ==
  ASSUME IInv, [ServerNext]_serverVars
  PROVE  [Next]_vars
<1>0. TypeOK
  BY DEF IInv
<1>1. ASSUME \/ NewBroker \/ NewStore \/ ListenError \/ Signal \/ Deadline
             \/ HttpShutdown \/ HubShutdownReturned \/ HubClosed
             \/ StoreClose \/ BrokerClose
             \/ \E s \in Sessions : Request(s) \/ Accept(s)
             \/ UNCHANGED serverVars
      PROVE  UNCHANGED vars
  BY <1>1 DEF NewBroker, NewStore, ListenError, Signal, Deadline, HttpShutdown,
     HubShutdownReturned, HubClosed, StoreClose, BrokerClose, Request, Accept,
     serverVars
<1>2. ASSUME HubShutdownBegin PROVE Next
  BY <1>2 DEF HubShutdownBegin, Next
<1>3. ASSUME DrainStep \/ Coordinator PROVE Next
  BY <1>3 DEF DrainStep, Coordinator, DrainTimeout, Next
<1>4. ASSUME NEW s \in Sessions, Serve(s) \/ SessionStep(s) \/ Elsewhere(s)
      PROVE  Next
  BY <1>4 DEF Serve, SessionStep, Elsewhere, Next, Environment, ServeStep
<1>5. ASSUME NEW b \in Sessions, BoardLoop(b) \/ FinalSave(b) PROVE Next
  BY <1>5 DEF BoardLoop, FinalSave, Next, BoardStep
<1>6. ASSUME NEW s \in Sessions, HandlerReturns(s) PROVE UNCHANGED vars
  BY <1>6, HandlerReturnsStep
<1>7. ASSUME HubClose PROVE Close \/ UNCHANGED vars
  BY <1>0, <1>7, HubCloseStep
<1> QED
  BY <1>1, <1>2, <1>3, <1>4, <1>5, <1>6, <1>7 DEF ServerNext, MainStep, Next

(* The hub inside a server process behaves as Hub says, whatever main, the *)
(* listener and the handlers do: every theorem about the hub holds of the  *)
(* server (main.go:108-206).                                               *)
THEOREM ServerRunsHub == ServerSpec => Spec /\ []IInv
<1>1. ServerInit => Init /\ IInv
  BY InductiveInit DEF ServerInit
<1>2. IInv /\ [ServerNext]_serverVars => IInv' /\ [Next]_vars
  BY HubStep, InductiveStep
<1> QED
  BY <1>1, <1>2, PTL DEF ServerSpec, Spec

----------------------------------------------------------------------------
(* The variables of the process keep their types (main.go:108-206,         *)
(* websocket.go:26-58).                                                    *)
THEOREM ServerTypeCorrect == ServerSpec => []ServerTypeOK
<1>1. ServerInit /\ IInv => ServerTypeOK
  BY DEF ServerInit, ServerTypeOK, IInv
<1>2. ServerTypeOK /\ IInv' /\ [ServerNext]_serverVars => ServerTypeOK'
  <2> SUFFICES ASSUME ServerTypeOK, IInv', [ServerNext]_serverVars
               PROVE  ServerTypeOK'
    OBVIOUS
  <2> USE DEF ServerTypeOK, Running, Draining, MainGoto, HandlerGoto
  <2>1. TypeOK'
    BY DEF IInv
  <2>2. CASE NewBroker \/ NewStore \/ ListenError \/ Signal \/ Deadline
    BY <2>1, <2>2 DEF NewBroker, NewStore, ListenError, Signal, Deadline
  <2>3. CASE MainStep
    BY <2>1, <2>3 DEF MainStep, HttpShutdown, HubShutdownBegin,
       HubShutdownReturned, HubClose, AfterStop, HubClosed, StoreClose,
       BrokerClose
  <2>4. CASE DrainStep \/ Coordinator \/ UNCHANGED serverVars
    BY <2>1, <2>4 DEF DrainStep, Coordinator, serverVars
  <2>5. ASSUME NEW s \in Sessions,
               \/ Request(s) \/ Accept(s) \/ Serve(s) \/ HandlerReturns(s)
               \/ SessionStep(s) \/ Elsewhere(s)
        PROVE  ServerTypeOK'
    BY <2>1, <2>5 DEF Request, Accept, Serve, HandlerReturns, SessionStep,
                      Elsewhere
  <2>6. ASSUME NEW b \in Sessions, BoardLoop(b) \/ FinalSave(b)
        PROVE  ServerTypeOK'
    BY <2>1, <2>6 DEF BoardLoop, FinalSave
  <2> QED
    BY <2>2, <2>3, <2>4, <2>5, <2>6 DEF ServerNext
<1>3. ServerInit => IInv
  BY InductiveInit DEF ServerInit
<1> QED
  BY <1>1, <1>2, <1>3, ServerRunsHub, PTL DEF ServerSpec

----------------------------------------------------------------------------
(* The order of run's deferred calls (main.go:126-147), as an invariant:   *)
(* the coordinator works only between hub.New and the end of its own wait, *)
(* Shutdown only inside main's call of it, and a board the drain has taken *)
(* is done only once it is saved, unless the drain has given up.           *)
ExitInv ==
  /\ ~HasStore => coord = "off"
  /\ main \in {"newBroker", "newStore", "abort", "exited"} => coord # "saving"
  /\ main \in {"st.Close", "b.Close"} => coord \in {"off", "exited"}
  /\ shut \notin {"idle", "ok", "err"} => main = "hubShutdown"
  /\ shut = "idle" => toWait = {}
  /\ HasStore /\ shut # "err" =>
       \A b \in toWait : run[b] = "done" => b \in saved

(* main's own steps keep the order (main.go:108-206).                      *)
LEMMA ExitMain ==
  ASSUME IInv, ExitInv,
         \/ NewBroker \/ NewStore \/ ListenError \/ Signal \/ Deadline
         \/ HttpShutdown \/ HubShutdownReturned \/ HubClose \/ HubClosed
         \/ StoreClose \/ BrokerClose
  PROVE  ExitInv'
<1>1. UNCHANGED <<coord, shut, toWait, run, saved>>
  BY DEF NewBroker, NewStore, ListenError, Signal, Deadline, HttpShutdown,
     HubShutdownReturned, HubClose, HubClosed, StoreClose, BrokerClose,
     vars, boardVars, shutVars
<1>2. shut \notin {"idle", "ok", "err"} => main' = "hubShutdown"
  BY DEF ExitInv, NewBroker, NewStore, ListenError, Signal, Deadline,
     HttpShutdown, HubShutdownReturned, HubClose, HubClosed, StoreClose,
     BrokerClose, MainGoto
<1>3. /\ main' \in {"newBroker", "newStore", "abort", "exited"} => coord # "saving"
      /\ main' \in {"st.Close", "b.Close"} => coord \in {"off", "exited"}
  BY StoreAssumption DEF ExitInv, NewBroker, NewStore, ListenError, Signal,
     Deadline, HttpShutdown, HubShutdownReturned, HubClose, AfterStop,
     HubClosed, StoreClose, BrokerClose, MainGoto
<1> QED
  BY <1>1, <1>2, <1>3 DEF ExitInv

(* The final save of a board the drain has taken finds the store open      *)
(* (persistOnClose, board.go:111-118).                                     *)
LEMMA ExitSave ==
  ASSUME IInv, ExitInv, NEW b \in Sessions, FinalSave(b)
  PROVE  ExitInv'
<1>1. /\ UNCHANGED <<coord, shut, toWait, main>>
      /\ run[b] = "persist" /\ run' = [run EXCEPT ![b] = "done"]
      /\ saved' = IF StoreOpen THEN saved \cup {b} ELSE saved
  BY DEF FinalSave, BoardDone, shutVars
<1>2. HasStore /\ shut # "err" /\ b \in toWait => StoreOpen
  <2> SUFFICES ASSUME HasStore, shut # "err", b \in toWait PROVE StoreOpen
    OBVIOUS
  <2>1. shut # "ok"
    BY <1>1 DEF IInv, DrainInv, BoardsDrained
  <2>2. main = "hubShutdown"
    BY <2>1 DEF ExitInv
  <2> QED
    BY <2>2 DEF StoreOpen, Running, Draining
<1> QED
  BY <1>1, <1>2 DEF ExitInv, IInv, TypeOK

(* Every step keeps the order of the exit (main.go:108-206).               *)
LEMMA ExitStep ==
  ASSUME IInv, ExitInv, [ServerNext]_serverVars
  PROVE  ExitInv'
<1>0. TypeOK
  BY DEF IInv
<1>1. CASE HubShutdownBegin
  <2>1. /\ UNCHANGED <<coord, main, run, saved>> /\ main = "hubShutdown"
        /\ shut' = "boards" /\ toWait' = Registered
    BY <1>1 DEF HubShutdownBegin, ShutdownBegin, boardVars
  <2>2. \A b \in toWait' : run[b] # "done"
    BY <2>1 DEF Registered, IInv, RegistryInv
  <2> QED
    BY <2>1, <2>2 DEF ExitInv
<1>2. CASE DrainStep
  <2>1. /\ UNCHANGED <<coord, main, run, saved, toWait>>
        /\ shut \notin {"idle", "ok", "err"} /\ shut' # "idle"
        /\ shut' # "err" => shut # "err"
    BY <1>2 DEF DrainStep, DrainTimeout, ShutdownStep, ShutdownCloseQuit,
       ShutdownBoardsDone, ShutdownSessionsDone, ShutdownReturn,
       ShutdownTimeout, boardVars
  <2> QED
    BY <2>1 DEF ExitInv
<1>3. CASE Coordinator
  <2>1. /\ UNCHANGED <<main, run, saved, shut, toWait>>
        /\ coord \in {"select", "saving"} /\ main \in Running
    BY <1>3 DEF Coordinator, CoordinatorTick, CoordinatorSaved,
       CoordinatorExit, boardVars, shutVars
  <2> QED
    BY <2>1 DEF ExitInv, Running, Draining
<1>4. ASSUME NEW b \in Sessions, FinalSave(b) PROVE ExitInv'
  BY <1>4, ExitSave
<1>5. ASSUME \/ \E s \in Sessions :
                  \/ Request(s) \/ Accept(s) \/ Serve(s) \/ HandlerReturns(s)
                  \/ SessionStep(s) \/ Elsewhere(s) \/ BoardLoop(s)
             \/ UNCHANGED serverVars
      PROVE  ExitInv'
  <2>1. UNCHANGED <<main, saved>>
    BY <1>5 DEF Request, Accept, Serve, HandlerReturns, SessionStep, Elsewhere,
       BoardLoop, serverVars
  <2>2. UNCHANGED <<coord, shut, toWait>>
    BY <1>5 DEF Request, Accept, Serve, HandlerReturns, SessionStep, Elsewhere,
       BoardLoop, serverVars, vars, BeginSession, RejectSession, ServeStep,
       WriterStep, Register, FetchSnapshot, FetchPresence, DeliverDirect,
       AbandonDirect, PeerGone, CancelRequest, PingFails, ReadPumpReturns,
       LeaveBoard, ReleaseGone, ReleaseLast, ReleaseShared, CloseQuit,
       Unregister, UnregisterDone, SessionDone, WriteOne, WriteFails,
       WritePumpReturns, BoardDispatch, DeliverReliable, DeliverBestEffort,
       BoardStart, BoardQuit, shutVars
  <2>3. ASSUME NEW b \in Sessions, run'[b] = "done" PROVE run[b] = "done"
    <3>1. \/ UNCHANGED run
          \/ \E s \in Sessions : BeginSession(s) \/ BoardStart(s) \/ BoardQuit(s)
      BY <1>5 DEF Request, Accept, Serve, HandlerReturns, SessionStep,
         Elsewhere, BoardLoop, serverVars, vars, RejectSession, ServeStep,
         WriterStep, Register, FetchSnapshot, FetchPresence, DeliverDirect,
         AbandonDirect, PeerGone, CancelRequest, PingFails, ReadPumpReturns,
         LeaveBoard, ReleaseGone, ReleaseLast, ReleaseShared, CloseQuit,
         Unregister, UnregisterDone, SessionDone, WriteOne, WriteFails,
         WritePumpReturns, BoardDispatch, DeliverReliable, DeliverBestEffort,
         boardVars
    <3> QED
      BY <3>1, <2>3, <1>0 DEF BeginSession, BoardStart, BoardQuit, TypeOK
  <2> QED
    BY <1>0, <2>1, <2>2, <2>3 DEF ExitInv, TypeOK
<1> QED
  BY <1>1, <1>2, <1>3, <1>4, <1>5, ExitMain DEF ServerNext, MainStep

(* The order of the exit holds throughout (main.go:108-206).               *)
LEMMA ExitOrdered == ServerSpec => []ExitInv
<1>1. ServerInit => ExitInv
  BY StoreAssumption DEF ServerInit, Init, ExitInv
<1>2. IInv /\ ExitInv /\ [ServerNext]_serverVars => ExitInv'
  BY ExitStep
<1> QED
  BY <1>1, <1>2, ServerRunsHub, PTL DEF ServerSpec

(* The coordinator saves only while the store is open: the hub's Close,    *)
(* deferred last, waits for it before the store's (main.go:134-147).       *)
THEOREM SavesOnOpenStore == ServerSpec => []TicksOnOpenStore
<1>1. IInv /\ ExitInv /\ ServerTypeOK => TicksOnOpenStore
  BY DEF ExitInv, ServerTypeOK, TicksOnOpenStore, StoreOpen, Running, Draining
<1> QED
  BY <1>1, ExitOrdered, ServerRunsHub, ServerTypeCorrect, PTL

(* After a drain that ended in time the store goes with every board the    *)
(* drain took saved in it, and nothing left that could write               *)
(* (main.go:198-204).                                                      *)
THEOREM CleanExit == ServerSpec => []CleanExitSaved
<1>1. IInv /\ ExitInv => CleanExitSaved
  <2> SUFFICES ASSUME IInv, ExitInv, shut = "ok" PROVE CleanExitSaved
    BY DEF CleanExitSaved
  <2>1. \A s \in Sessions : pc[s] \notin InFlight
    BY DEF IInv, DrainInv
  <2>2. \A b \in Sessions : Holders(b) = {}
    BY <2>1 DEF Holders, InFlight
  <2>3. HasStore => toWait \subseteq saved
    BY DEF IInv, DrainInv, BoardsDrained, ExitInv
  <2> QED
    BY <2>1, <2>2, <2>3 DEF CleanExitSaved
<1> QED
  BY <1>1, ExitOrdered, ServerRunsHub, PTL


(* A server process is a registry of boards to its connections, from its   *)
(* first request to its exit: neither the listener, the handlers nor the   *)
(* order of the deferred calls of main change that (main.go:108-206).      *)
THEOREM ServerActsAsRegistry == ServerSpec => ActsAsRegistry
BY ServerRunsHub, ImplementsRegistry, PTL
============================================================================
