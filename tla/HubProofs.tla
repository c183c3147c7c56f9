----------------------------- MODULE HubProofs -----------------------------
(* Proofs of Hub's safety properties for any number of sessions, boards    *)
(* and queue slots.                                                        *)
EXTENDS Hub, TLAPS, FiniteSetTheorems

(* Removing clients from a board keeps the types (detach and shutdown,     *)
(* board.go:229-252).                                                      *)
LEMMA RemoveType ==
  ASSUME TypeOK, NEW b \in Sessions, NEW S \in SUBSET Sessions,
         NEW closeConn \in BOOLEAN, Remove(b, S, closeConn),
         NEW T \in SUBSET Sessions, Touch(T, S)
  PROVE  /\ present' \in [Sessions -> BOOLEAN]
         /\ clients' \in [Sessions -> SUBSET Sessions]
         /\ sendClosed' \in [Sessions -> BOOLEAN]
         /\ connClosed' \in [Sessions -> BOOLEAN]
         /\ panicked' \in BOOLEAN
<1>1. present' \in [Sessions -> BOOLEAN]
  BY Zenon DEF Remove
<1>2. clients' \in [Sessions -> SUBSET Sessions]
  BY DEF Remove, TypeOK
<1>3. sendClosed' \in [Sessions -> BOOLEAN]
  BY Zenon DEF Remove
<1>4. connClosed' \in [Sessions -> BOOLEAN]
  BY Zenon DEF Remove
<1>5. panicked' \in BOOLEAN
  BY Zenon DEF Touch
<1> QED
  BY <1>1, <1>2, <1>3, <1>4, <1>5

(* A send to some of the clients keeps every queue within its capacity     *)
(* (the select with a default arm, board.go:177-182).                      *)
LEMMA EnqueueType ==
  ASSUME TypeOK, NEW S, Enqueue(S)
  PROVE  queue' \in [Sessions -> 0..SendBuffer]
BY SendBufferAssumption DEF TypeOK, Enqueue, Room

(* Every action keeps every variable in its type (the declarations of Hub, *)
(* Board and Client, hub.go:26-52, board.go:28-45, client.go:54-68).       *)
LEMMA TypeStep == TypeOK /\ SessionInv /\ [Next]_vars => TypeOK'
<1> SUFFICES ASSUME TypeOK, SessionInv, [Next]_vars PROVE TypeOK'
  OBVIOUS
<1> USE SessionsAssumption, SendBufferAssumption, StoreAssumption
        DEF TypeOK, PCs, InFlight, Holding, Onboarding, Goto,
            hubVars, boardVars, fanoutVars, connVars, shutVars
<1>1. ASSUME NEW s \in Sessions, BeginSession(s) PROVE TypeOK'
  BY <1>1 DEF BeginSession, KeepOpen
<1>2. ASSUME NEW s \in Sessions, RejectSession(s) PROVE TypeOK'
  BY <1>2 DEF RejectSession
<1>3. ASSUME NEW s \in Sessions, Register(s) PROVE TypeOK'
  BY <1>3 DEF Register
<1>4. ASSUME NEW s \in Sessions, FetchSnapshot(s) PROVE TypeOK'
  BY <1>4 DEF FetchSnapshot
<1>5. ASSUME NEW s \in Sessions, FetchPresence(s) PROVE TypeOK'
  BY <1>5 DEF FetchPresence
<1>6. ASSUME NEW s \in Sessions, DeliverDirect(s) PROVE TypeOK'
  <2> DEFINE b == board[s]
             kicked == Detachable(Slow(Addressee(s)))
  <2>1. b \in Sessions /\ Addressee(s) \in SUBSET Sessions
        /\ kicked \in SUBSET Sessions
    BY <1>6 DEF DeliverDirect, AfterDirect, SessionInv, Detachable, Slow, Addressee
  <2>2. Remove(b, kicked, TRUE) /\ Touch(Addressee(s), kicked)
        /\ Enqueue(Addressee(s))
    BY <1>6 DEF DeliverDirect
  <2> HIDE DEF b, kicked
  <2>3. queue' \in [Sessions -> 0..SendBuffer]
    BY <2>2, EnqueueType
  <2>4. /\ present' \in [Sessions -> BOOLEAN]
        /\ clients' \in [Sessions -> SUBSET Sessions]
        /\ sendClosed' \in [Sessions -> BOOLEAN]
        /\ connClosed' \in [Sessions -> BOOLEAN]
        /\ panicked' \in BOOLEAN
    BY <2>1, <2>2, RemoveType
  <2>5. /\ pc' \in [Sessions -> PCs]
        /\ writer' \in [Sessions -> {"none", "running", "exited"}]
    BY <1>6 DEF DeliverDirect, AfterDirect
  <2>6. UNCHANGED <<hubVars, boardVars, ctxDone, shutVars, boardID, board, coord>>
    BY <1>6 DEF DeliverDirect
  <2> QED
    BY <2>3, <2>4, <2>5, <2>6
<1>7. ASSUME NEW s \in Sessions, AbandonDirect(s) PROVE TypeOK'
  BY <1>7 DEF AbandonDirect, AfterDirect
<1>8. ASSUME NEW s \in Sessions, PeerGone(s) PROVE TypeOK'
  BY <1>8 DEF PeerGone
<1>9. ASSUME NEW s \in Sessions, CancelRequest(s) PROVE TypeOK'
  BY <1>9 DEF CancelRequest
<1>10. ASSUME NEW s \in Sessions, PingFails(s) PROVE TypeOK'
  BY <1>10 DEF PingFails
<1>11. ASSUME NEW s \in Sessions, ReadPumpReturns(s) PROVE TypeOK'
  BY <1>11 DEF ReadPumpReturns
<1>12. ASSUME NEW s \in Sessions, LeaveBoard(s) PROVE TypeOK'
  BY <1>12 DEF LeaveBoard
<1>13. ASSUME NEW s \in Sessions, ReleaseGone(s) PROVE TypeOK'
  BY <1>13 DEF ReleaseGone
<1>14. ASSUME NEW s \in Sessions, ReleaseLast(s) PROVE TypeOK'
  <2>1. board[s] \in Sessions
    BY <1>14 DEF ReleaseLast, SessionInv
  <2> QED
    BY <1>14, <2>1 DEF ReleaseLast
<1>15. ASSUME NEW s \in Sessions, ReleaseShared(s) PROVE TypeOK'
  <2>1. board[s] \in Sessions
    BY <1>15 DEF ReleaseShared, SessionInv
  <2> QED
    BY <1>15, <2>1 DEF ReleaseShared
<1>16. ASSUME NEW s \in Sessions, CloseQuit(s) PROVE TypeOK'
  BY <1>16 DEF CloseQuit
<1>17. ASSUME NEW s \in Sessions, Unregister(s) PROVE TypeOK'
  <2> DEFINE gone == Detachable({s})
  <2>1. board[s] \in Sessions /\ gone \in SUBSET Sessions /\ {} \in SUBSET Sessions
    BY <1>17 DEF Unregister, SessionInv, Detachable
  <2>2. Remove(board[s], gone, FALSE) /\ Touch({}, gone)
    BY <1>17 DEF Unregister
  <2> HIDE DEF gone
  <2>4. /\ present' \in [Sessions -> BOOLEAN]
        /\ clients' \in [Sessions -> SUBSET Sessions]
        /\ sendClosed' \in [Sessions -> BOOLEAN]
        /\ connClosed' \in [Sessions -> BOOLEAN]
        /\ panicked' \in BOOLEAN
    BY <2>1, <2>2, RemoveType
  <2> QED
    BY <1>17, <2>4 DEF Unregister
<1>18. ASSUME NEW s \in Sessions, UnregisterDone(s) PROVE TypeOK'
  BY <1>18 DEF UnregisterDone
<1>19. ASSUME NEW s \in Sessions, SessionDone(s) PROVE TypeOK'
  BY <1>19 DEF SessionDone
<1>20. ASSUME NEW s \in Sessions, WriteOne(s) PROVE TypeOK'
  BY <1>20 DEF WriteOne
<1>21. ASSUME NEW s \in Sessions, WriteFails(s) PROVE TypeOK'
  BY <1>21 DEF WriteFails
<1>22. ASSUME NEW s \in Sessions, WritePumpReturns(s) PROVE TypeOK'
  BY <1>22 DEF WritePumpReturns
<1>23. ASSUME NEW b \in Sessions, BoardStart(b) PROVE TypeOK'
  BY <1>23 DEF BoardStart
<1>24. ASSUME NEW b \in Sessions, BoardQuit(b) PROVE TypeOK'
  <2> DEFINE gone == clients[b]
  <2>1. b \in Sessions /\ gone \in SUBSET Sessions /\ {} \in SUBSET Sessions
    BY <1>24 DEF BoardQuit
  <2>2. Remove(b, gone, TRUE) /\ Touch({}, gone)
    BY <1>24 DEF BoardQuit
  <2> HIDE DEF gone
  <2>4. /\ present' \in [Sessions -> BOOLEAN]
        /\ clients' \in [Sessions -> SUBSET Sessions]
        /\ sendClosed' \in [Sessions -> BOOLEAN]
        /\ connClosed' \in [Sessions -> BOOLEAN]
        /\ panicked' \in BOOLEAN
    BY <2>1, <2>2, RemoveType
  <2> QED
    BY <1>24, <2>4 DEF BoardQuit
<1>25. ASSUME NEW b \in Sessions, BoardDone(b) PROVE TypeOK'
  BY <1>25 DEF BoardDone
<1>26. ASSUME NEW b \in Sessions, DeliverReliable(b) PROVE TypeOK'
  <2> DEFINE gone == Detachable(Slow(clients[b]))
  <2>1. b \in Sessions /\ gone \in SUBSET Sessions /\ clients[b] \in SUBSET Sessions
    BY <1>26 DEF DeliverReliable, Detachable, Slow
  <2>2. Remove(b, gone, TRUE) /\ Touch(clients[b], gone)
        /\ Enqueue(clients[b])
    BY <1>26 DEF DeliverReliable
  <2> HIDE DEF gone
  <2>3. queue' \in [Sessions -> 0..SendBuffer]
    BY <2>2, EnqueueType
  <2>4. /\ present' \in [Sessions -> BOOLEAN]
        /\ clients' \in [Sessions -> SUBSET Sessions]
        /\ sendClosed' \in [Sessions -> BOOLEAN]
        /\ connClosed' \in [Sessions -> BOOLEAN]
        /\ panicked' \in BOOLEAN
    BY <2>1, <2>2, RemoveType
  <2> QED
    BY <1>26, <2>3, <2>4 DEF DeliverReliable
<1>27. ASSUME NEW b \in Sessions, NEW x, DeliverBestEffort(b, x) PROVE TypeOK'
  BY <1>27, EnqueueType DEF DeliverBestEffort, Touch
<1>28. ASSUME NEW b \in Sessions, ShutdownCloseQuit(b) PROVE TypeOK'
  BY <1>28 DEF ShutdownCloseQuit
<1>29. CASE ShutdownBegin
  BY <1>29 DEF ShutdownBegin, Registered
<1>30. CASE ShutdownBoardsDone
  BY <1>30 DEF ShutdownBoardsDone
<1>31. CASE ShutdownSessionsDone
  BY <1>31 DEF ShutdownSessionsDone, StopCoordinator
<1>32. CASE ShutdownTimeout
  BY <1>32 DEF ShutdownTimeout, StopCoordinator
<1>33. CASE ShutdownReturn
  BY <1>33 DEF ShutdownReturn
<1>34. CASE Close
  BY <1>34 DEF Close, StopCoordinator
<1>35. CASE CoordinatorTick
  BY <1>35 DEF CoordinatorTick
<1>36. CASE CoordinatorSaved
  BY <1>36 DEF CoordinatorSaved
<1>37. CASE CoordinatorExit
  BY <1>37 DEF CoordinatorExit
<1>38. CASE UNCHANGED vars
  BY <1>38 DEF vars
<1> QED
  BY <1>1, <1>2, <1>3, <1>4, <1>5, <1>6, <1>7, <1>8, <1>9, <1>10, <1>11,
     <1>12, <1>13, <1>14, <1>15, <1>16, <1>17, <1>18, <1>19, <1>20, <1>21,
     <1>22, <1>23, <1>24, <1>25, <1>26, <1>27, <1>28, <1>29, <1>30, <1>31,
     <1>32, <1>33, <1>34, <1>35, <1>36, <1>37, <1>38
     DEF Next, Environment, ServeStep, WriterStep, BoardStep, BoardDispatch,
         ShutdownStep

----------------------------------------------------------------------------
(* The steps after which every session, board object and registry entry is *)
(* where it was: traffic, the pumps' writes, failures outside, and the     *)
(* waiting half of Shutdown.                                               *)
lifecycle == <<boards, count, closing, run, quit, toQuit, pc, boardID, board>>

(* These steps leave the whole lifecycle alone.                            *)
LEMMA QuietSteps ==
  ASSUME \/ \E s \in Sessions : PeerGone(s) \/ CancelRequest(s) \/ PingFails(s)
                                \/ WriterStep(s)
         \/ \E b \in Sessions : BoardDispatch(b)
         \/ ShutdownBoardsDone \/ ShutdownSessionsDone \/ ShutdownTimeout
         \/ ShutdownReturn \/ Close
         \/ CoordinatorTick \/ CoordinatorSaved \/ CoordinatorExit
         \/ UNCHANGED vars
  PROVE  UNCHANGED lifecycle
BY DEF lifecycle, PeerGone, CancelRequest, PingFails, WriterStep, WriteOne,
       WriteFails, WritePumpReturns, BoardDispatch, DeliverReliable,
       DeliverBestEffort, ShutdownBoardsDone, ShutdownSessionsDone,
       ShutdownTimeout, ShutdownReturn, Close, CoordinatorTick,
       CoordinatorSaved, CoordinatorExit, vars, hubVars, boardVars, shutVars

(* The steps of Serve between two points at which it holds its board open. *)
HoldingStep(s) ==
  \/ Register(s) \/ FetchSnapshot(s) \/ FetchPresence(s)
  \/ DeliverDirect(s) \/ AbandonDirect(s)
  \/ ReadPumpReturns(s) \/ LeaveBoard(s)

(* They leave the registry, the counts and the set of holders alone.       *)
LEMMA HoldingSteps ==
  ASSUME TypeOK, NEW s \in Sessions, HoldingStep(s)
  PROVE  /\ UNCHANGED <<boards, count, closing, run, quit, toQuit, boardID,
                        board>>
         /\ pc[s] \in Holding /\ pc'[s] \in Holding
         /\ pc'[s] # "register"
         /\ \A t \in Sessions \ {s} : pc'[t] = pc[t]
BY DEF TypeOK, HoldingStep, Register, FetchSnapshot, FetchPresence,
       DeliverDirect, AbandonDirect, AfterDirect, ReadPumpReturns, LeaveBoard,
       Goto, Holding, Onboarding, hubVars, boardVars, shutVars

(* The last steps of Serve, after release.                                 *)
LEMMA LeavingSteps ==
  ASSUME TypeOK, NEW s \in Sessions,
         Unregister(s) \/ UnregisterDone(s) \/ SessionDone(s)
  PROVE  /\ UNCHANGED <<boards, count, closing, run, quit, toQuit, boardID,
                        board>>
         /\ pc[s] \in {"unregister", "sessionsDone"}
         /\ pc'[s] \in {"sessionsDone", "returned"}
         /\ \A t \in Sessions \ {s} : pc'[t] = pc[t]
BY DEF TypeOK, Unregister, UnregisterDone, SessionDone, Goto, hubVars,
       boardVars, shutVars

(* Sessions and their board objects (beginSession, hub.go:200-218).        *)
LEMMA SessionInvStep ==
  ASSUME TypeOK, SessionInv, RegistryInv, [Next]_vars
  PROVE  SessionInv'
<1> USE SessionsAssumption
        DEF TypeOK, SessionInv, InFlight, Holding, Onboarding, Goto
<1>1. ASSUME NEW s \in Sessions, BeginSession(s) PROVE SessionInv'
  BY <1>1 DEF BeginSession, KeepOpen, RegistryInv
<1>2. ASSUME NEW s \in Sessions, RejectSession(s) PROVE SessionInv'
  BY <1>2 DEF RejectSession, hubVars, boardVars
<1>3. ASSUME NEW s \in Sessions, HoldingStep(s) PROVE SessionInv'
  BY <1>3, HoldingSteps
<1>4. ASSUME NEW s \in Sessions, ReleaseGone(s) \/ CloseQuit(s)
      PROVE  SessionInv'
  BY <1>4 DEF ReleaseGone, CloseQuit, hubVars, boardVars
<1>9. ASSUME NEW s \in Sessions, ReleaseLast(s) PROVE SessionInv'
  <2>1. /\ UNCHANGED <<run, boardID, board>>
        /\ count' = [count EXCEPT ![board[s]] = @ - 1]
        /\ pc[s] = "release" /\ pc' = [pc EXCEPT ![s] = "closeQuit"]
    BY <1>9 DEF ReleaseLast, boardVars
  <2> QED
    BY <2>1
<1>10. ASSUME NEW s \in Sessions, ReleaseShared(s) PROVE SessionInv'
  BY <1>10 DEF ReleaseShared, boardVars
<1>5. ASSUME NEW s \in Sessions,
             Unregister(s) \/ UnregisterDone(s) \/ SessionDone(s)
      PROVE  SessionInv'
  BY <1>5, LeavingSteps
<1>6. ASSUME NEW b \in Sessions, BoardStep(b) PROVE SessionInv'
  <2>1. /\ UNCHANGED <<pc, board, boardID, count>>
        /\ run[b] # "none"
        /\ \E x \in {"loop", "persist", "done"} : run' = [run EXCEPT ![b] = x]
    BY <1>6 DEF BoardStep, BoardStart, BoardQuit, BoardDone, hubVars
  <2> QED
    BY <2>1
<1>7. ASSUME ShutdownBegin \/ \E b \in Sessions : ShutdownCloseQuit(b)
      PROVE  SessionInv'
  BY <1>7 DEF ShutdownBegin, ShutdownCloseQuit, hubVars, boardVars
<1>8. ASSUME UNCHANGED lifecycle PROVE SessionInv'
  BY <1>8 DEF lifecycle
<1> QED
  BY <1>1, <1>2, <1>3, <1>4, <1>5, <1>6, <1>7, <1>8, <1>9, <1>10, QuietSteps
     DEF Next, Environment, ServeStep, HoldingStep, ShutdownStep

----------------------------------------------------------------------------
(* The sessions that hold a board open are finitely many.                  *)
LEMMA HoldersFinite ==
  ASSUME NEW b
  PROVE  /\ IsFiniteSet(Holders(b)) /\ Cardinality(Holders(b)) \in Nat
         /\ Cardinality(Holders(b)) = 0 <=> Holders(b) = {}
<1>1. Holders(b) \in SUBSET Sessions
  BY DEF Holders
<1>2. IsFiniteSet(Holders(b))
  BY <1>1, SessionsAssumption, FS_Subset
<1> QED
  BY <1>2, FS_CardinalityType, FS_EmptySet

(* A step that moves no session in or out of Holding, and no registry      *)
(* entry, keeps the registry's invariant.                                  *)
LEMMA RegistryFrame ==
  ASSUME TypeOK, SessionInv, RegistryInv, HoldInv,
         UNCHANGED <<boards, count, closing, quit, toQuit, boardID, board>>,
         \A b \in Sessions :
           \/ run'[b] = run[b]
           \/ run[b] = "hydrate" /\ run'[b] = "loop"
           \/ quit[b] /\ run[b] # "none" /\ run'[b] # "none",
         \A s \in Sessions :
           /\ pc'[s] \in Holding <=> pc[s] \in Holding
           /\ pc'[s] = "closeQuit" <=> pc[s] = "closeQuit"
  PROVE  RegistryInv' /\ HoldInv'
<1>1. \A b \in Sessions : Holders(b)' = Holders(b)
  BY DEF Holders
<1>2. \A s \in Sessions : pc[s] \in Holding \cup {"closeQuit"} => board[s] \in Sessions
  BY DEF SessionInv, InFlight
<1>3. RegistryInv'
  BY <1>1, <1>2, SessionsAssumption DEF RegistryInv, TypeOK, Entry
<1>4. HoldInv'
  BY <1>2 DEF HoldInv, Entry, TypeOK
<1> QED
  BY <1>3, <1>4

(* The keep-open count and the registry, under the mutex of the hub        *)
(* (beginSession and release, hub.go:200-252; Shutdown, hub.go:117-130).   *)
LEMMA RegistryStep ==
  ASSUME TypeOK, SessionInv, RegistryInv, HoldInv, [Next]_vars
  PROVE  RegistryInv' /\ HoldInv'
<1>a. \A s \in Sessions : pc[s] \in Holding \cup {"closeQuit"} => board[s] \in Sessions
  BY DEF SessionInv, InFlight
<1>1. ASSUME NEW s \in Sessions, BeginSession(s) PROVE RegistryInv' /\ HoldInv'
  <2>0. PICK id \in BoardIDs : id = boardID[s]
    BY DEF TypeOK
  <2>2. PICK b \in Sessions :
          /\ b = IF boards[id] = NoBoard THEN s ELSE boards[id]
          /\ boardID[b] = id
    BY <2>0 DEF TypeOK, RegistryInv
  <2>1. /\ pc[s] = "idle" /\ pc' = [pc EXCEPT ![s] = "register"]
        /\ boards' = [boards EXCEPT ![id] = b]
        /\ run' = IF boards[id] = NoBoard THEN [run EXCEPT ![b] = "hydrate"]
                                          ELSE run
        /\ count' = [count EXCEPT ![b] = @ + 1]
        /\ board' = [board EXCEPT ![s] = b]
        /\ ~closing
        /\ UNCHANGED <<closing, quit, toQuit, boardID>>
    BY <1>1, <2>0, <2>2 DEF BeginSession, Goto, Admits, KeepOpen, shutVars
  <2>3. s \notin Holders(b)
    BY <2>1 DEF Holders, Holding, Onboarding
  <2>4. Holders(b)' = Holders(b) \cup {s}
    BY <2>1, <2>2 DEF Holders, Holding, Onboarding, TypeOK
  <2>5. \A d \in Sessions \ {b} : Holders(d)' = Holders(d)
    BY <2>1, <2>2, <2>3 DEF Holders, Holding, Onboarding, TypeOK
  <2>6. count[b] = Cardinality(Holders(b))
    <3>1. CASE boards[id] = NoBoard
      <4>1. b = s /\ run[s] = "none" /\ count[s] = 0
        BY <3>1, <2>1, <2>2 DEF SessionInv
      <4>2. Holders(s) = {}
        BY <4>1 DEF Holders, SessionInv
      <4> QED
        BY <4>1, <4>2, HoldersFinite
    <3>2. CASE boards[id] # NoBoard
      BY <3>2, <2>2 DEF RegistryInv
    <3> QED
      BY <3>1, <3>2
  <2>7. count'[b] = Cardinality(Holders(b)') /\ count'[b] > 0
    <3>1. Cardinality(Holders(b) \cup {s}) = Cardinality(Holders(b)) + 1
      BY <2>3, HoldersFinite, FS_AddElement
    <3>2. count'[b] = count[b] + 1
      BY <2>1 DEF TypeOK
    <3> QED
      BY <2>4, <2>6, <3>1, <3>2, HoldersFinite
  <2>8. ~quit[b] /\ run'[b] \in {"hydrate", "loop"} /\ b \notin toQuit
    <3>1. CASE boards[id] = NoBoard
      BY <3>1, <2>1, <2>2 DEF SessionInv, HoldInv, TypeOK
    <3>2. CASE boards[id] # NoBoard
      BY <3>2, <2>1, <2>2 DEF RegistryInv
    <3> QED
      BY <3>1, <3>2
  <2>9. \A d \in Sessions \ {b} : run'[d] = run[d] /\ count'[d] = count[d]
    BY <2>1, <2>2 DEF TypeOK
  <2>12. \A t \in Sessions : pc[t] = "closeQuit" => board[t] # b
    <3>1. CASE boards[id] = NoBoard
      BY <3>1, <2>1, <2>2, <1>a DEF SessionInv
    <3>2. CASE boards[id] # NoBoard
      BY <3>2, <2>2 DEF RegistryInv, Entry
    <3> QED
      BY <3>1, <3>2
  <2>10. RegistryInv'
    BY <2>1, <2>2, <2>4, <2>5, <2>7, <2>8, <2>9, <2>12, <1>a, SessionsAssumption
       DEF RegistryInv, Entry, TypeOK
  <2>11. HoldInv'
    <3>1. ASSUME NEW t \in Sessions, pc'[t] \in Holding PROVE Entry(board[t])'
      <4>1. CASE t = s
        BY <4>1, <2>1, <2>2 DEF Entry, TypeOK
      <4>2. CASE t # s
        <5>1. pc[t] \in Holding /\ board'[t] = board[t]
          BY <4>2, <3>1, <2>1 DEF TypeOK
        <5>2. boards[boardID[board[t]]] = board[t] /\ board[t] \in Sessions
          BY <5>1, <2>1, <1>a DEF HoldInv, Entry
        <5>3. boards'[boardID[board[t]]] = board[t]
          BY <5>2, <2>1, <2>2, SessionsAssumption DEF TypeOK
        <5> QED
          BY <5>1, <5>3, <2>1 DEF Entry
      <4> QED
        BY <4>1, <4>2
    <3>2. \A d \in Sessions :
            /\ run'[d] \in {"persist", "done"} => quit'[d]
            /\ quit'[d] \/ d \in toQuit' => run'[d] # "none"
            /\ d \in toQuit' => closing'
      BY <2>1, <2>2, <2>8, <2>9 DEF HoldInv
    <3> QED
      BY <3>1, <3>2 DEF HoldInv
  <2> QED
    BY <2>10, <2>11
<1>2. ASSUME NEW s \in Sessions, RejectSession(s)
      PROVE  RegistryInv' /\ HoldInv'
  <2>1. /\ UNCHANGED <<boards, count, closing, run, quit, toQuit, boardID, board>>
        /\ pc[s] = "idle" /\ pc' = [pc EXCEPT ![s] = "returned"]
    BY <1>2 DEF RejectSession, Goto, hubVars, boardVars, shutVars
  <2> QED
    BY <2>1, RegistryFrame DEF TypeOK, Holding, Onboarding
<1>3. ASSUME NEW s \in Sessions, HoldingStep(s) PROVE RegistryInv' /\ HoldInv'
  <2>1. \A t \in Sessions :
          /\ pc'[t] \in Holding <=> pc[t] \in Holding
          /\ pc'[t] = "closeQuit" <=> pc[t] = "closeQuit"
    BY <1>3, HoldingSteps DEF Holding, Onboarding
  <2> QED
    BY <1>3, <2>1, HoldingSteps, RegistryFrame
<1>4. ASSUME NEW s \in Sessions,
             Unregister(s) \/ UnregisterDone(s) \/ SessionDone(s)
      PROVE  RegistryInv' /\ HoldInv'
  <2>1. \A t \in Sessions :
          /\ pc'[t] \in Holding <=> pc[t] \in Holding
          /\ pc'[t] = "closeQuit" <=> pc[t] = "closeQuit"
    BY <1>4, LeavingSteps DEF Holding, Onboarding
  <2> QED
    BY <1>4, <2>1, LeavingSteps, RegistryFrame
<1>5. ASSUME NEW s \in Sessions, ReleaseGone(s) PROVE RegistryInv' /\ HoldInv'
  <2>1. /\ UNCHANGED <<boards, count, closing, run, quit, toQuit, boardID, board>>
        /\ pc[s] = "release" /\ pc' = [pc EXCEPT ![s] = "sessionsDone"]
        /\ ~Entry(board[s])
    BY <1>5 DEF ReleaseGone, Goto, hubVars, boardVars, shutVars
  <2>2. \A d \in Sessions : Holders(d)' \subseteq Holders(d)
    BY <2>1 DEF Holders, Holding, Onboarding, TypeOK
  <2>3. \A d \in Sessions \ {board[s]} : Holders(d)' = Holders(d)
    BY <2>1 DEF Holders, Holding, Onboarding, TypeOK
  <2>4. \A id \in BoardIDs : boards[id] # board[s]
    BY <2>1, <1>a, SessionsAssumption DEF RegistryInv, Entry, Holding
  <2>5. RegistryInv'
    BY <2>1, <2>2, <2>3, <2>4, <1>a, SessionsAssumption
       DEF RegistryInv, Entry, TypeOK
  <2>6. HoldInv'
    BY <2>1 DEF HoldInv, Entry, TypeOK, Holding, Onboarding
  <2> QED
    BY <2>5, <2>6
<1>6. ASSUME NEW s \in Sessions, ReleaseLast(s) PROVE RegistryInv' /\ HoldInv'
  <2>0. PICK b \in Sessions : b = board[s]
    BY <1>6, <1>a DEF ReleaseLast, Goto, Holding
  <2>1. /\ UNCHANGED <<closing, run, quit, toQuit, boardID, board>>
        /\ pc[s] = "release" /\ pc' = [pc EXCEPT ![s] = "closeQuit"]
        /\ boards' = [boards EXCEPT ![boardID[b]] = NoBoard]
        /\ count' = [count EXCEPT ![b] = @ - 1]
        /\ boards[boardID[b]] = b /\ count[b] = 1
    BY <1>6, <2>0 DEF ReleaseLast, Goto, boardVars, shutVars, Entry, LastHolder
  <2>2. boardID[b] \in BoardIDs /\ s \in Holders(b)
    BY <2>0, <2>1 DEF TypeOK, Holders, Holding
  <2>3. Holders(b) = {s}
    <3>1. Cardinality(Holders(b)) = 1
      BY <2>0, <2>1, <2>2, SessionsAssumption DEF RegistryInv
    <3> QED
      BY <3>1, <2>2, HoldersFinite, FS_Singleton
  <2>4. Holders(b)' = {}
    BY <2>0, <2>1, <2>2, <2>3 DEF Holders, Holding, Onboarding, TypeOK
  <2>5. \A d \in Sessions \ {b} : Holders(d)' = Holders(d) /\ count'[d] = count[d]
    BY <2>0, <2>1 DEF Holders, Holding, Onboarding, TypeOK
  <2>6. \A t \in Sessions : pc'[t] \in Holding => board[t] # b
    BY <2>0, <2>1, <2>4 DEF Holders
  <2>7. RegistryInv'
    BY <2>0, <2>1, <2>2, <2>4, <2>5, <1>a, SessionsAssumption
       DEF RegistryInv, Entry, TypeOK
  <2>8. HoldInv'
    BY <2>0, <2>1, <2>2, <2>6, <1>a DEF HoldInv, Entry, TypeOK, Holding, Onboarding
  <2> QED
    BY <2>7, <2>8
<1>7. ASSUME NEW s \in Sessions, ReleaseShared(s)
      PROVE  RegistryInv' /\ HoldInv'
  <2>0. PICK b \in Sessions : b = board[s]
    BY <1>7, <1>a DEF ReleaseShared, Goto, Holding
  <2>1. /\ UNCHANGED <<boards, closing, run, quit, toQuit, boardID, board>>
        /\ pc[s] = "release" /\ pc' = [pc EXCEPT ![s] = "unregister"]
        /\ count' = [count EXCEPT ![b] = @ - 1]
        /\ boards[boardID[b]] = b /\ count[b] # 1
    BY <1>7, <2>0 DEF ReleaseShared, Goto, boardVars, shutVars, Entry, LastHolder
  <2>2. boardID[b] \in BoardIDs /\ s \in Holders(b)
    BY <2>0, <2>1 DEF TypeOK, Holders, Holding
  <2>3. count[b] = Cardinality(Holders(b)) /\ count[b] > 0
    BY <2>0, <2>1, <2>2, SessionsAssumption DEF RegistryInv
  <2>4. Holders(b)' = Holders(b) \ {s}
    BY <2>0, <2>1 DEF Holders, Holding, Onboarding, TypeOK
  <2>5. count'[b] = Cardinality(Holders(b)') /\ count'[b] > 0
    <3>1. Cardinality(Holders(b) \ {s}) = Cardinality(Holders(b)) - 1
      BY <2>2, HoldersFinite, FS_RemoveElement
    <3>2. count'[b] = count[b] - 1
      BY <2>0, <2>1 DEF TypeOK
    <3> QED
      BY <2>1, <2>3, <2>4, <3>1, <3>2, HoldersFinite
  <2>6. \A d \in Sessions \ {b} : Holders(d)' = Holders(d) /\ count'[d] = count[d]
    BY <2>0, <2>1 DEF Holders, Holding, Onboarding, TypeOK
  <2>7. \A t \in Sessions : pc[t] = "closeQuit" => board[t] # b
    BY <2>0, <2>1 DEF RegistryInv, Entry
  <2>8. RegistryInv'
    BY <2>0, <2>1, <2>2, <2>5, <2>6, <2>7, <1>a, SessionsAssumption
       DEF RegistryInv, Entry, TypeOK
  <2>9. HoldInv'
    BY <2>0, <2>1 DEF HoldInv, Entry, TypeOK, Holding, Onboarding
  <2> QED
    BY <2>8, <2>9
<1>8. ASSUME NEW s \in Sessions, CloseQuit(s) PROVE RegistryInv' /\ HoldInv'
  <2>1. /\ UNCHANGED <<boards, count, closing, run, toQuit, boardID, board>>
        /\ pc[s] = "closeQuit" /\ pc' = [pc EXCEPT ![s] = "sessionsDone"]
        /\ quit' = [quit EXCEPT ![board[s]] = TRUE]
    BY <1>8 DEF CloseQuit, Goto, hubVars, shutVars
  <2>2. \A d \in Sessions : Holders(d)' = Holders(d)
    BY <2>1 DEF Holders, Holding, Onboarding, TypeOK
  <2>3. \A id \in BoardIDs : boards[id] # board[s]
    BY <2>1, <1>a, SessionsAssumption DEF RegistryInv, Entry
  <2>4. RegistryInv'
    BY <2>1, <2>2, <2>3, <1>a, SessionsAssumption DEF RegistryInv, Entry, TypeOK
  <2>5. HoldInv'
    BY <2>1, <1>a DEF HoldInv, Entry, TypeOK, Holding, Onboarding, SessionInv
  <2> QED
    BY <2>4, <2>5
<1>9. ASSUME NEW b \in Sessions, BoardStep(b) PROVE RegistryInv' /\ HoldInv'
  <2>1. /\ UNCHANGED <<boards, count, closing, quit, toQuit, boardID, board, pc>>
        /\ \A d \in Sessions :
             \/ run'[d] = run[d]
             \/ run[d] = "hydrate" /\ run'[d] = "loop"
             \/ quit[d] /\ run[d] # "none" /\ run'[d] # "none"
    BY <1>9 DEF BoardStep, BoardStart, BoardQuit, BoardDone, hubVars, shutVars,
                TypeOK, HoldInv
  <2> QED
    BY <2>1, RegistryFrame
<1>10. CASE ShutdownBegin
  <2>1. /\ UNCHANGED <<count, run, quit, pc, boardID, board>>
        /\ ~closing /\ closing' = TRUE
        /\ boards' = [id \in BoardIDs |-> NoBoard]
        /\ toQuit' = Registered
    BY <1>10 DEF ShutdownBegin, boardVars
  <2>2. \A d \in Sessions : Holders(d)' = Holders(d)
    BY <2>1 DEF Holders
  <2>3. RegistryInv'
    BY <2>1, <2>2, <1>a, SessionsAssumption DEF RegistryInv, Entry, TypeOK
  <2>4. HoldInv'
    <3>1. \A d \in Sessions : Entry(d) => d \in toQuit'
      BY <2>1, SessionsAssumption DEF Entry, Registered, TypeOK
    <3>2. \A d \in toQuit' : d \in Sessions /\ run[d] # "none"
      BY <2>1 DEF Registered, RegistryInv, TypeOK
    <3>3. \A t \in Sessions : pc[t] \in Holding => Entry(board[t])
      BY <2>1 DEF HoldInv
    <3> QED
      BY <2>1, <1>a, <3>1, <3>2, <3>3 DEF HoldInv
  <2> QED
    BY <2>3, <2>4
<1>11. ASSUME NEW b \in Sessions, ShutdownCloseQuit(b)
       PROVE  RegistryInv' /\ HoldInv'
  <2>1. /\ UNCHANGED <<boards, count, closing, run, pc, boardID, board>>
        /\ b \in toQuit /\ toQuit' = toQuit \ {b}
        /\ quit' = [quit EXCEPT ![b] = TRUE]
    BY <1>11 DEF ShutdownCloseQuit, hubVars
  <2>2. \A d \in Sessions : Holders(d)' = Holders(d)
    BY <2>1 DEF Holders
  <2>3. RegistryInv'
    BY <2>1, <2>2, <1>a, SessionsAssumption DEF RegistryInv, Entry, TypeOK
  <2>4. HoldInv'
    BY <2>1, <1>a DEF HoldInv, Entry, TypeOK
  <2> QED
    BY <2>3, <2>4
<1>12. ASSUME UNCHANGED lifecycle PROVE RegistryInv' /\ HoldInv'
  BY <1>12, RegistryFrame DEF lifecycle
<1> QED
  BY <1>1, <1>2, <1>3, <1>4, <1>5, <1>6, <1>7, <1>8, <1>9, <1>10, <1>11,
     <1>12, QuietSteps
     DEF Next, Environment, ServeStep, HoldingStep, ShutdownStep

----------------------------------------------------------------------------
(* Taking clients of a board off it closes each channel once (detach and   *)
(* shutdown, board.go:229-252).                                            *)
LEMMA RemoveClients ==
  ASSUME TypeOK, FanoutInv, NoPanic,
         NEW b \in Sessions, NEW S \in SUBSET clients[b],
         NEW T \in SUBSET clients[b], NEW closeConn,
         Remove(b, S, closeConn), Touch(T, S), UNCHANGED board,
         \A s \in Sessions : pc'[s] \in {"idle", "register"} => pc'[s] = pc[s]
  PROVE  FanoutInv' /\ NoPanic'
<1>1. \A c \in Sessions :
        /\ present'[c] <=> present[c] /\ c \notin S
        /\ sendClosed'[c] <=> sendClosed[c] \/ c \in S
  BY DEF Remove
<1>2. clients' = [clients EXCEPT ![b] = @ \ S]
  BY DEF Remove
<1>3. \A c \in S \cup T : c \in Sessions /\ ~sendClosed[c]
  BY DEF FanoutInv, TypeOK
<1>4. NoPanic'
  BY <1>3 DEF NoPanic, Touch
<1>5. FanoutInv'
  BY <1>1, <1>2 DEF FanoutInv, TypeOK
<1> QED
  BY <1>4, <1>5

(* The board goroutine is the only one to touch its client set             *)
(* (run, board.go:75-118).                                                 *)
LEMMA FanoutStep ==
  ASSUME TypeOK, SessionInv, FanoutInv, NoPanic, [Next]_vars
  PROVE  FanoutInv' /\ NoPanic'
<1>1. ASSUME NEW s \in Sessions, BeginSession(s) PROVE FanoutInv' /\ NoPanic'
  <2>1. /\ UNCHANGED <<clients, present, sendClosed, panicked>>
        /\ pc[s] = "idle" /\ pc' = [pc EXCEPT ![s] = "register"]
        /\ \E b : board' = [board EXCEPT ![s] = b]
    BY <1>1 DEF BeginSession, Goto, fanoutVars
  <2> QED
    BY <2>1 DEF FanoutInv, NoPanic, TypeOK
<1>2. ASSUME NEW s \in Sessions, Register(s) PROVE FanoutInv' /\ NoPanic'
  <2>1. board[s] \in Sessions
    BY <1>2 DEF Register, Goto, SessionInv, InFlight, Holding
  <2> QED
    BY <1>2, <2>1 DEF Register, Goto, FanoutInv, NoPanic, TypeOK
<1>3. ASSUME NEW s \in Sessions, DeliverDirect(s) PROVE FanoutInv' /\ NoPanic'
  <2>1. board[s] \in Sessions
    BY <1>3 DEF DeliverDirect, AfterDirect, Goto, SessionInv, InFlight,
                Holding, Onboarding
  <2>2. /\ Addressee(s) \in SUBSET clients[board[s]]
        /\ Detachable(Slow(Addressee(s))) \in SUBSET clients[board[s]]
    BY <2>1 DEF Addressee, Detachable, Slow, FanoutInv, TypeOK
  <2>3. /\ Remove(board[s], Detachable(Slow(Addressee(s))), TRUE)
        /\ Touch(Addressee(s), Detachable(Slow(Addressee(s))))
        /\ UNCHANGED board
        /\ \A t \in Sessions :
             pc'[t] \in {"idle", "register"} => pc'[t] = pc[t]
    BY <1>3 DEF DeliverDirect, AfterDirect, Goto, TypeOK
  <2> QED
    BY <2>1, <2>2, <2>3, RemoveClients
<1>4. ASSUME NEW s \in Sessions, Unregister(s) PROVE FanoutInv' /\ NoPanic'
  <2>1. board[s] \in Sessions
    BY <1>4 DEF Unregister, Goto, SessionInv, InFlight
  <2>2. Detachable({s}) \in SUBSET clients[board[s]]
    BY <2>1 DEF Detachable, FanoutInv
  <2>3. /\ Remove(board[s], Detachable({s}), FALSE)
        /\ Touch({}, Detachable({s}))
        /\ UNCHANGED board
        /\ \A t \in Sessions :
             pc'[t] \in {"idle", "register"} => pc'[t] = pc[t]
    BY <1>4 DEF Unregister, Goto, TypeOK
  <2> QED
    BY <2>1, <2>2, <2>3, RemoveClients
<1>5. ASSUME NEW b \in Sessions, BoardQuit(b) PROVE FanoutInv' /\ NoPanic'
  <2>1. Remove(b, clients[b], TRUE) /\ Touch({}, clients[b])
        /\ UNCHANGED <<board, pc>>
    BY <1>5 DEF BoardQuit
  <2> QED
    BY <2>1, RemoveClients
<1>6. ASSUME NEW b \in Sessions, DeliverReliable(b)
      PROVE  FanoutInv' /\ NoPanic'
  <2>1. /\ Remove(b, Detachable(Slow(clients[b])), TRUE)
        /\ Touch(clients[b], Detachable(Slow(clients[b])))
        /\ UNCHANGED <<board, pc>>
    BY <1>6 DEF DeliverReliable
  <2>2. Detachable(Slow(clients[b])) \in SUBSET clients[b]
    BY DEF Detachable, Slow
  <2> QED
    BY <2>1, <2>2, RemoveClients
<1>7. ASSUME NEW b \in Sessions, NEW x, DeliverBestEffort(b, x)
      PROVE  FanoutInv' /\ NoPanic'
  <2>1. /\ UNCHANGED <<clients, present, sendClosed, board, pc>>
        /\ Touch(clients[b] \ {x}, {})
    BY <1>7 DEF DeliverBestEffort
  <2>2. \A c \in clients[b] : ~sendClosed[c]
    BY DEF FanoutInv, TypeOK
  <2> QED
    BY <2>1, <2>2 DEF Touch, FanoutInv, NoPanic
<1>8. ASSUME UNCHANGED <<fanoutVars, board>>,
             \A t \in Sessions :
               pc'[t] \in {"idle", "register"} => pc'[t] = pc[t]
      PROVE  FanoutInv' /\ NoPanic'
  BY <1>8 DEF fanoutVars, FanoutInv, NoPanic
<1>9. ASSUME NEW s \in Sessions,
             RejectSession(s) \/ FetchSnapshot(s) \/ FetchPresence(s)
             \/ AbandonDirect(s) \/ ReadPumpReturns(s) \/ LeaveBoard(s)
             \/ ReleaseGone(s) \/ ReleaseLast(s) \/ ReleaseShared(s)
             \/ CloseQuit(s) \/ UnregisterDone(s) \/ SessionDone(s)
      PROVE  FanoutInv' /\ NoPanic'
  <2>1. UNCHANGED <<fanoutVars, board>>
        /\ \E x \in PCs \ {"idle", "register"} : pc' = [pc EXCEPT ![s] = x]
    BY <1>9 DEF RejectSession, FetchSnapshot, FetchPresence, AbandonDirect,
       AfterDirect, ReadPumpReturns, LeaveBoard, ReleaseGone, ReleaseLast,
       ReleaseShared, CloseQuit, UnregisterDone, SessionDone, Goto, PCs,
       InFlight, Holding, Onboarding
  <2> QED
    BY <2>1, <1>8 DEF TypeOK
<1>10. ASSUME \/ \E s \in Sessions : PeerGone(s) \/ CancelRequest(s)
                                     \/ PingFails(s) \/ WriterStep(s)
              \/ \E b \in Sessions : BoardStart(b) \/ BoardDone(b)
                                     \/ ShutdownCloseQuit(b)
              \/ ShutdownBegin \/ ShutdownBoardsDone \/ ShutdownSessionsDone
              \/ ShutdownTimeout \/ ShutdownReturn \/ Close
              \/ CoordinatorTick \/ CoordinatorSaved \/ CoordinatorExit
              \/ UNCHANGED vars
       PROVE  FanoutInv' /\ NoPanic'
  <2>1. UNCHANGED <<fanoutVars, board, pc>>
    BY <1>10 DEF PeerGone, CancelRequest, PingFails, WriterStep, WriteOne,
       WriteFails, WritePumpReturns, BoardStart, BoardDone, ShutdownCloseQuit,
       ShutdownBegin, ShutdownBoardsDone, ShutdownSessionsDone,
       ShutdownTimeout, ShutdownReturn, Close, CoordinatorTick,
       CoordinatorSaved, CoordinatorExit, vars
  <2> QED
    BY <2>1, <1>8
<1> QED
  BY <1>1, <1>2, <1>3, <1>4, <1>5, <1>6, <1>7, <1>9, <1>10
     DEF Next, Environment, ServeStep, BoardStep, BoardDispatch, ShutdownStep

----------------------------------------------------------------------------
(* The write pump starts with the read pump and Serve joins it before it   *)
(* leaves (client.go:143-163).                                             *)
LEMMA WriterInvStep ==
  ASSUME TypeOK, WriterInv, [Next]_vars
  PROVE  WriterInv'
<1> USE DEF TypeOK, WriterInv, Goto
<1>1. ASSUME NEW s \in Sessions,
             BeginSession(s) \/ RejectSession(s) \/ Register(s)
             \/ FetchSnapshot(s) \/ ReadPumpReturns(s) \/ ReleaseGone(s)
             \/ ReleaseLast(s) \/ ReleaseShared(s) \/ CloseQuit(s)
             \/ Unregister(s) \/ UnregisterDone(s) \/ SessionDone(s)
      PROVE  WriterInv'
  <2>1. /\ UNCHANGED writer
        /\ \/ pc[s] \notin {"readPump", "wgWait"}
           \/ pc'[s] = "wgWait"
        /\ \A t \in Sessions \ {s} : pc'[t] = pc[t]
    BY <1>1 DEF BeginSession, RejectSession, Register, FetchSnapshot,
       ReadPumpReturns, ReleaseGone, ReleaseLast, ReleaseShared, CloseQuit,
       Unregister, UnregisterDone, SessionDone
  <2> QED
    BY <2>1
<1>2. ASSUME NEW s \in Sessions,
             FetchPresence(s) \/ DeliverDirect(s) \/ AbandonDirect(s)
      PROVE  WriterInv'
  BY <1>2 DEF FetchPresence, DeliverDirect, AbandonDirect, AfterDirect
<1>3. ASSUME NEW s \in Sessions, LeaveBoard(s) PROVE WriterInv'
  BY <1>3 DEF LeaveBoard, WriterGone
<1>4. ASSUME \E s \in Sessions : PeerGone(s) \/ CancelRequest(s)
                                 \/ PingFails(s) \/ WriterStep(s)
      PROVE  WriterInv'
  BY <1>4 DEF PeerGone, CancelRequest, PingFails, WriterStep, WriteOne,
              WriteFails, WritePumpReturns
<1>5. ASSUME \/ \E b \in Sessions : BoardStep(b) \/ BoardDispatch(b)
                                    \/ ShutdownCloseQuit(b)
             \/ ShutdownBegin \/ ShutdownBoardsDone \/ ShutdownSessionsDone
             \/ ShutdownTimeout \/ ShutdownReturn \/ Close
             \/ CoordinatorTick \/ CoordinatorSaved \/ CoordinatorExit
             \/ UNCHANGED vars
      PROVE  WriterInv'
  <2>1. UNCHANGED <<writer, pc>>
    BY <1>5 DEF BoardStep, BoardStart, BoardQuit, BoardDone, BoardDispatch,
       DeliverReliable, DeliverBestEffort, ShutdownCloseQuit, ShutdownBegin,
       ShutdownBoardsDone, ShutdownSessionsDone, ShutdownTimeout,
       ShutdownReturn, Close, CoordinatorTick, CoordinatorSaved,
       CoordinatorExit, vars
  <2> QED
    BY <2>1
<1> QED
  BY <1>1, <1>2, <1>3, <1>4, <1>5
     DEF Next, Environment, ServeStep, ShutdownStep

(* A session leaves its board's set before it is past its release, or the  *)
(* board has been told to stop (release, hub.go:228-252).                  *)
LEMMA LeftStep ==
  ASSUME TypeOK, SessionInv, RegistryInv, HoldInv, FanoutInv, LeftInv,
         [Next]_vars
  PROVE  LeftInv'
<1> DEFINE Past == {"sessionsDone", "returned"}
           Stops(b) == quit[b] \/ b \in toQuit
<1>1. \A b \in Sessions : Stops(b) => Stops(b)'
  <2>1. \/ UNCHANGED <<quit, toQuit>>
        \/ \E b \in Sessions : ShutdownCloseQuit(b)
        \/ \E s \in Sessions : CloseQuit(s)
        \/ ShutdownBegin
    BY QuietSteps, HoldingSteps, LeavingSteps
       DEF Next, Environment, ServeStep, HoldingStep, ShutdownStep, lifecycle,
           BeginSession, RejectSession, ReleaseGone, ReleaseLast,
           ReleaseShared, BoardStep, BoardStart, BoardQuit, BoardDone,
           boardVars, shutVars
  <2>2. ASSUME NEW d \in Sessions, ShutdownCloseQuit(d), NEW b \in Sessions
        PROVE  Stops(b) => Stops(b)'
    BY <2>2 DEF ShutdownCloseQuit, TypeOK
  <2>3. ASSUME NEW s \in Sessions, CloseQuit(s), NEW b \in Sessions
        PROVE  Stops(b) => Stops(b)'
    BY <2>3 DEF CloseQuit, TypeOK, shutVars
  <2>4. ASSUME ShutdownBegin, NEW b \in Sessions
        PROVE  Stops(b) => Stops(b)'
    BY <2>4 DEF ShutdownBegin, HoldInv, boardVars
  <2> QED
    BY <2>1, <2>2, <2>3, <2>4
<1>2. ASSUME NEW s \in Sessions, pc'[s] \in Past, NEW b \in Sessions
      PROVE  s \in clients'[b] => s \in clients[b]
  <2>1. \/ UNCHANGED clients
        \/ \E t \in Sessions : Register(t)
        \/ \E d, S, x : Remove(d, S, x)
    BY DEF Next, Environment, ServeStep, WriterStep, BoardStep, BoardDispatch,
       ShutdownStep, BeginSession, RejectSession, FetchSnapshot, FetchPresence,
       DeliverDirect, AbandonDirect, PeerGone, CancelRequest, PingFails,
       ReadPumpReturns, LeaveBoard, ReleaseGone, ReleaseLast, ReleaseShared,
       CloseQuit, Unregister, UnregisterDone, SessionDone, WriteOne,
       WriteFails, WritePumpReturns, BoardStart, BoardQuit, BoardDone,
       DeliverReliable, DeliverBestEffort, ShutdownBegin, ShutdownCloseQuit,
       ShutdownBoardsDone, ShutdownSessionsDone, ShutdownTimeout,
       ShutdownReturn, Close, CoordinatorTick, CoordinatorSaved,
       CoordinatorExit, fanoutVars, vars
  <2>2. ASSUME NEW t \in Sessions, Register(t)
        PROVE  s \in clients'[b] => s \in clients[b]
    BY <1>2, <2>2 DEF Register, Goto, TypeOK
  <2>3. ASSUME NEW d, NEW S, NEW x, Remove(d, S, x)
        PROVE  s \in clients'[b] => s \in clients[b]
    BY <2>3 DEF Remove, TypeOK
  <2> QED
    BY <2>1, <2>2, <2>3
<1>3. ASSUME NEW s \in Sessions, pc'[s] \in Past, pc[s] \notin Past
      PROVE  \/ RejectSession(s) \/ ReleaseGone(s) \/ CloseQuit(s)
             \/ Unregister(s) \/ UnregisterDone(s)
  <2>1. ASSUME NEW t \in Sessions, BeginSession(t) PROVE FALSE
    BY <2>1, <1>3 DEF BeginSession, Goto, TypeOK
  <2>2. ASSUME NEW t \in Sessions, HoldingStep(t) PROVE FALSE
    BY <2>2, <1>3, HoldingSteps DEF Holding, Onboarding
  <2>3. ASSUME NEW t \in Sessions, ReleaseLast(t) \/ ReleaseShared(t)
        PROVE  FALSE
    BY <2>3, <1>3 DEF ReleaseLast, ReleaseShared, Goto, TypeOK
  <2>4. ASSUME NEW t \in Sessions,
               RejectSession(t) \/ ReleaseGone(t) \/ CloseQuit(t)
               \/ Unregister(t) \/ UnregisterDone(t) \/ SessionDone(t)
        PROVE  t = s /\ ~SessionDone(t)
    BY <2>4, <1>3 DEF RejectSession, ReleaseGone, CloseQuit, Unregister,
       UnregisterDone, SessionDone, Goto, TypeOK
  <2>5. ASSUME UNCHANGED pc PROVE FALSE
    BY <2>5, <1>3
  <2>6. ASSUME ShutdownBegin \/ \E b \in Sessions : BoardStep(b) \/ ShutdownCloseQuit(b)
        PROVE  UNCHANGED pc
    BY <2>6 DEF ShutdownBegin, BoardStep, BoardStart, BoardQuit, BoardDone,
       ShutdownCloseQuit
  <2> QED
    BY <2>1, <2>2, <2>3, <2>4, <2>5, <2>6, QuietSteps
       DEF Next, Environment, ServeStep, HoldingStep, ShutdownStep, lifecycle
<1>4. ASSUME NEW s \in Sessions, pc'[s] \in Past, NEW b \in Sessions,
             s \in clients'[b]
      PROVE  Stops(b)'
  <2>1. s \in clients[b] /\ board[s] = b /\ present[s]
    BY <1>2, <1>4 DEF FanoutInv
  <2>2. CASE pc[s] \in Past
    BY <2>1, <2>2, <1>1 DEF LeftInv
  <2>3. CASE RejectSession(s)
    BY <2>1, <2>3 DEF RejectSession, Goto, FanoutInv
  <2>4. CASE ReleaseGone(s)
    BY <2>1, <2>4, <1>1 DEF ReleaseGone, Goto, HoldInv, Holding
  <2>5. CASE CloseQuit(s)
    BY <2>1, <2>5 DEF CloseQuit, TypeOK
  <2>6. CASE Unregister(s)
    <3>1. s \notin clients'[b]
      BY <2>1, <2>6 DEF Unregister, Remove, Detachable, TypeOK
    <3> QED
      BY <3>1, <1>4
  <2>7. CASE UnregisterDone(s)
    BY <2>1, <2>7, <1>1 DEF UnregisterDone, HoldInv
  <2> QED
    BY <1>3, <1>4, <2>2, <2>3, <2>4, <2>5, <2>6, <2>7
<1> QED
  BY <1>4 DEF LeftInv

----------------------------------------------------------------------------
(* The steps that leave the WaitGroup, and the set of Serve calls it       *)
(* counts, alone: all but beginSession's Add and the deferred Done         *)
(* (hub.go:200-218, client.go:115).                                        *)
LEMMA FlightFrame ==
  ASSUME TypeOK, [Next]_vars,
         ~ \E s \in Sessions : BeginSession(s) \/ SessionDone(s)
  PROVE  /\ UNCHANGED sessions
         /\ \A t \in Sessions : pc'[t] \in InFlight <=> pc[t] \in InFlight
<1> USE DEF TypeOK, InFlight, Holding, Onboarding, Goto
<1>1. ASSUME NEW s \in Sessions,
             RejectSession(s) \/ Register(s) \/ FetchSnapshot(s)
             \/ FetchPresence(s) \/ ReadPumpReturns(s) \/ LeaveBoard(s)
      PROVE  /\ UNCHANGED sessions
             /\ \A t \in Sessions : pc'[t] \in InFlight <=> pc[t] \in InFlight
  BY <1>1 DEF RejectSession, Register, FetchSnapshot, FetchPresence,
              ReadPumpReturns, LeaveBoard, hubVars
<1>2. ASSUME NEW s \in Sessions, DeliverDirect(s) \/ AbandonDirect(s)
      PROVE  /\ UNCHANGED sessions
             /\ \A t \in Sessions : pc'[t] \in InFlight <=> pc[t] \in InFlight
  BY <1>2 DEF DeliverDirect, AbandonDirect, AfterDirect, hubVars
<1>3. ASSUME NEW s \in Sessions,
             ReleaseGone(s) \/ ReleaseLast(s) \/ ReleaseShared(s)
             \/ CloseQuit(s) \/ Unregister(s) \/ UnregisterDone(s)
      PROVE  /\ UNCHANGED sessions
             /\ \A t \in Sessions : pc'[t] \in InFlight <=> pc[t] \in InFlight
  BY <1>3 DEF ReleaseGone, ReleaseLast, ReleaseShared, CloseQuit, Unregister,
              UnregisterDone, hubVars
<1>4. ASSUME \/ \E s \in Sessions : PeerGone(s) \/ CancelRequest(s)
                                    \/ PingFails(s) \/ WriterStep(s)
             \/ \E b \in Sessions : BoardStep(b) \/ BoardDispatch(b)
             \/ ShutdownBegin \/ ShutdownStep \/ ShutdownTimeout \/ Close
             \/ CoordinatorTick \/ CoordinatorSaved \/ CoordinatorExit
             \/ UNCHANGED vars
      PROVE  UNCHANGED <<sessions, pc>>
  BY <1>4 DEF PeerGone, CancelRequest, PingFails, WriterStep, WriteOne,
     WriteFails, WritePumpReturns, BoardStep, BoardStart, BoardQuit, BoardDone,
     BoardDispatch, DeliverReliable, DeliverBestEffort, ShutdownBegin,
     ShutdownStep, ShutdownCloseQuit, ShutdownBoardsDone, ShutdownSessionsDone,
     ShutdownReturn, ShutdownTimeout, Close, CoordinatorTick,
     CoordinatorSaved, CoordinatorExit, vars, hubVars
<1> QED
  BY <1>1, <1>2, <1>3, <1>4 DEF Next, Environment, ServeStep

(* The WaitGroup is exact: Add comes with beginSession, Done with the      *)
(* return of Serve (hub.go:200-218, client.go:115).                        *)
LEMMA FlightStep ==
  ASSUME TypeOK, [Next]_vars,
         sessions = Cardinality({s \in Sessions : pc[s] \in InFlight})
  PROVE  sessions' = Cardinality({s \in Sessions : pc'[s] \in InFlight})
<1> DEFINE F == {s \in Sessions : pc[s] \in InFlight}
           G == {s \in Sessions : pc'[s] \in InFlight}
<1>1. IsFiniteSet(F) /\ Cardinality(F) \in Nat
  BY SessionsAssumption, FS_Subset, FS_CardinalityType
<1>2. ASSUME NEW s \in Sessions, BeginSession(s)
      PROVE  sessions' = Cardinality(G)
  <2>1. /\ pc[s] = "idle" /\ pc' = [pc EXCEPT ![s] = "register"]
        /\ sessions' = sessions + 1
    BY <1>2 DEF BeginSession, Goto
  <2>2. s \notin F /\ G = F \cup {s}
    BY <2>1 DEF TypeOK, InFlight, Holding, Onboarding
  <2> HIDE DEF F, G
  <2> QED
    BY <2>1, <2>2, <1>1, FS_AddElement DEF F
<1>3. ASSUME NEW s \in Sessions, SessionDone(s)
      PROVE  sessions' = Cardinality(G)
  <2>1. /\ pc[s] = "sessionsDone" /\ pc' = [pc EXCEPT ![s] = "returned"]
        /\ sessions' = sessions - 1
    BY <1>3 DEF SessionDone, Goto
  <2>2. s \in F /\ G = F \ {s}
    BY <2>1 DEF TypeOK, InFlight, Holding, Onboarding
  <2> HIDE DEF F, G
  <2> QED
    BY <2>1, <2>2, <1>1, FS_RemoveElement DEF F
<1>4. CASE ~ \E s \in Sessions : BeginSession(s) \/ SessionDone(s)
  <2>1. UNCHANGED sessions /\ G = F
    BY <1>4, FlightFrame
  <2> QED
    BY <2>1
<1> QED
  BY <1>2, <1>3, <1>4

(* A closed transport stays closed, and Serve leaves its read pump only    *)
(* with the transport closed (client.go:143-163).                          *)
LEMMA ClosedStep ==
  ASSUME TypeOK, [Next]_vars, NEW s \in Sessions,
         NEW Past, Past = {"wgWait", "release", "closeQuit", "unregister",
                           "sessionsDone", "returned"},
         pc[s] \in Past => connClosed[s], pc'[s] \in Past
  PROVE  connClosed'[s]
<1>1. ASSUME NEW t \in Sessions, ReadPumpReturns(t) \/ RejectSession(t)
      PROVE  connClosed'[s]
  BY <1>1, Zenon DEF ReadPumpReturns, RejectSession, Goto, TypeOK
<1>2. ASSUME NEW t \in Sessions,
             BeginSession(t) \/ Register(t) \/ FetchSnapshot(t)
             \/ FetchPresence(t) \/ AbandonDirect(t)
             \/ LeaveBoard(t) \/ ReleaseGone(t) \/ ReleaseLast(t)
             \/ ReleaseShared(t) \/ CloseQuit(t)
             \/ UnregisterDone(t) \/ SessionDone(t)
      PROVE  /\ UNCHANGED connClosed
             /\ pc[s] \in Past
  BY <1>2 DEF BeginSession, Register, FetchSnapshot, FetchPresence,
     AbandonDirect, AfterDirect, LeaveBoard, ReleaseGone, ReleaseLast,
     ReleaseShared, CloseQuit, UnregisterDone, SessionDone, Goto, TypeOK, connVars
<1>3. ASSUME NEW t \in Sessions, DeliverDirect(t) \/ Unregister(t)
      PROVE  pc[s] \in Past /\ \E b, S, x : Remove(b, S, x)
  BY <1>3 DEF DeliverDirect, AfterDirect, Unregister, Goto, TypeOK
<1>4. ASSUME \E b \in Sessions : BoardQuit(b) \/ DeliverReliable(b)
      PROVE  pc[s] \in Past /\ \E b, S, x : Remove(b, S, x)
  BY <1>4 DEF BoardQuit, DeliverReliable
<1>5. ASSUME \E t \in Sessions : PeerGone(t) \/ WriteFails(t)
      PROVE  pc[s] \in Past /\ (connClosed[s] => connClosed'[s])
  BY <1>5 DEF PeerGone, WriteFails, TypeOK
<1>6. ASSUME \/ \E t \in Sessions : CancelRequest(t) \/ PingFails(t)
                                    \/ WriteOne(t) \/ WritePumpReturns(t)
             \/ \E b \in Sessions : BoardStart(b) \/ BoardDone(b)
                  \/ \E x \in Sessions \cup {NoBoard} : DeliverBestEffort(b, x)
             \/ ShutdownBegin \/ ShutdownStep \/ ShutdownTimeout \/ Close
             \/ CoordinatorTick \/ CoordinatorSaved \/ CoordinatorExit
             \/ UNCHANGED vars
      PROVE  UNCHANGED <<connClosed, pc>>
  BY <1>6 DEF CancelRequest, PingFails, WriteOne, WritePumpReturns, BoardStart,
     BoardDone, DeliverBestEffort, ShutdownBegin, ShutdownStep,
     ShutdownCloseQuit, ShutdownBoardsDone, ShutdownSessionsDone,
     ShutdownReturn, ShutdownTimeout, Close, CoordinatorTick,
     CoordinatorSaved, CoordinatorExit, vars, connVars
<1>7. ASSUME NEW b, NEW S, NEW x, Remove(b, S, x), connClosed[s]
      PROVE  connClosed'[s]
  BY <1>7, Zenon DEF Remove
<1> QED
  BY <1>1, <1>2, <1>3, <1>4, <1>5, <1>6, <1>7
     DEF Next, Environment, ServeStep, WriterStep, BoardStep, BoardDispatch

(* A board that is done stays done: its object is never used again         *)
(* (run, board.go:75-118).                                                 *)
LEMMA DoneStays ==
  ASSUME TypeOK, SessionInv, [Next]_vars, NEW b \in Sessions, run[b] = "done"
  PROVE  run'[b] = "done"
<1>1. ASSUME NEW s \in Sessions, BeginSession(s) PROVE run'[b] = "done"
  BY <1>1 DEF BeginSession, Goto, SessionInv, TypeOK
<1>2. ASSUME NEW d \in Sessions, BoardStep(d) PROVE run'[b] = "done"
  BY <1>2 DEF BoardStep, BoardStart, BoardQuit, BoardDone, TypeOK
<1>3. ASSUME ShutdownBegin \/ (\E s \in Sessions : RejectSession(s)
             \/ ReleaseGone(s) \/ ReleaseLast(s) \/ ReleaseShared(s)
             \/ CloseQuit(s) \/ ShutdownCloseQuit(s))
      PROVE  UNCHANGED run
  BY <1>3 DEF ShutdownBegin, RejectSession, ReleaseGone, ReleaseLast,
     ReleaseShared, CloseQuit, ShutdownCloseQuit, boardVars
<1> QED
  BY <1>1, <1>2, <1>3, QuietSteps, HoldingSteps, LeavingSteps
     DEF Next, Environment, ServeStep, HoldingStep, ShutdownStep, lifecycle

(* Shutdown's waits end one after the other and stay ended, and the        *)
(* sessions they waited for are not followed by new ones (hub.go:116-162). *)
LEMMA DrainInvStep ==
  ASSUME TypeOK, SessionInv, DrainInv, [Next]_vars
  PROVE  DrainInv'
<1>1. sessions' = Cardinality({s \in Sessions : pc'[s] \in InFlight})
  BY FlightStep DEF DrainInv
<1>2. \A s \in Sessions :
        pc'[s] \in {"wgWait", "release", "closeQuit", "unregister",
                    "sessionsDone", "returned"} => connClosed'[s]
  BY ClosedStep DEF DrainInv
<1>3. \/ UNCHANGED <<shut, toQuit, toWait, closing>>
      \/ ShutdownBegin \/ ShutdownStep \/ ShutdownTimeout
  <2>1. ASSUME NEW s \in Sessions,
               Environment(s) \/ ServeStep(s) \/ WriterStep(s)
        PROVE  UNCHANGED <<shut, toQuit, toWait, closing>>
    BY <2>1 DEF Environment, ServeStep, WriterStep,
       BeginSession, RejectSession, Register, FetchSnapshot, FetchPresence,
       DeliverDirect, AbandonDirect, PeerGone, CancelRequest, PingFails,
       ReadPumpReturns, LeaveBoard, ReleaseGone, ReleaseLast, ReleaseShared,
       CloseQuit, Unregister, UnregisterDone, SessionDone, WriteOne, WriteFails,
       WritePumpReturns, hubVars, shutVars
  <2>2. ASSUME \/ \E b \in Sessions : BoardStep(b) \/ BoardDispatch(b)
               \/ Close \/ CoordinatorTick \/ CoordinatorSaved
               \/ CoordinatorExit \/ UNCHANGED vars
        PROVE  UNCHANGED <<shut, toQuit, toWait, closing>>
    BY <2>2 DEF BoardStep, BoardDispatch, BoardStart, BoardQuit, BoardDone,
       DeliverReliable, DeliverBestEffort, Close, CoordinatorTick,
       CoordinatorSaved, CoordinatorExit, vars, hubVars, shutVars
  <2> QED
    BY <2>1, <2>2 DEF Next
<1>4. shut' # "idle" <=> closing'
  BY <1>3 DEF DrainInv, ShutdownBegin, ShutdownStep, ShutdownCloseQuit,
     ShutdownBoardsDone, ShutdownSessionsDone, ShutdownReturn, ShutdownTimeout,
     hubVars
<1>5. shut' \in {"sessions", "stopOK", "ok"} => BoardsDrained'
  <2>1. shut' \in {"sessions", "stopOK", "ok"} =>
          BoardsDrained /\ UNCHANGED <<toQuit, toWait>>
    BY <1>3 DEF DrainInv, ShutdownBegin, ShutdownStep, ShutdownCloseQuit,
       ShutdownBoardsDone, ShutdownSessionsDone, ShutdownReturn,
       ShutdownTimeout
  <2> QED
    BY <2>1, DoneStays DEF BoardsDrained, TypeOK
<1>6. shut' \in {"stopOK", "ok"} => \A s \in Sessions : pc'[s] \notin InFlight
  <2> SUFFICES ASSUME shut' \in {"stopOK", "ok"}
               PROVE  \A s \in Sessions : pc'[s] \notin InFlight
    OBVIOUS
  <2>1. CASE shut \in {"stopOK", "ok"}
    <3>1. ~ \E s \in Sessions : BeginSession(s)
      BY <2>1 DEF BeginSession, Admits, DrainInv
    <3>2. ~ \E s \in Sessions : SessionDone(s)
      BY <2>1 DEF SessionDone, Goto, DrainInv, InFlight
    <3> QED
      BY <2>1, <3>1, <3>2, FlightFrame DEF DrainInv
  <2>2. CASE ShutdownSessionsDone
    <3>1. sessions = 0 /\ UNCHANGED pc
      BY <2>2 DEF ShutdownSessionsDone
    <3>2. {s \in Sessions : pc[s] \in InFlight} = {}
      BY <3>1, SessionsAssumption, FS_Subset, FS_EmptySet DEF DrainInv
    <3> QED
      BY <3>1, <3>2
  <2> QED
    BY <1>3, <2>1, <2>2 DEF ShutdownBegin, ShutdownStep, ShutdownCloseQuit,
       ShutdownBoardsDone, ShutdownReturn, ShutdownTimeout
<1>7. shut' = "ok" => coord' \in {"off", "exited"}
  <2>1. \/ UNCHANGED coord
        \/ CoordinatorTick \/ CoordinatorSaved \/ CoordinatorExit
    BY DEF Next, Environment, ServeStep, WriterStep, BoardStep, BoardDispatch,
       BeginSession, RejectSession, Register, FetchSnapshot, FetchPresence,
       DeliverDirect, AbandonDirect, PeerGone, CancelRequest, PingFails,
       ReadPumpReturns, LeaveBoard, ReleaseGone, ReleaseLast, ReleaseShared,
       CloseQuit, Unregister, UnregisterDone, SessionDone, WriteOne, WriteFails,
       WritePumpReturns, BoardStart, BoardQuit, BoardDone, DeliverReliable,
       DeliverBestEffort, ShutdownBegin, ShutdownStep, ShutdownCloseQuit,
       ShutdownBoardsDone, ShutdownSessionsDone, ShutdownReturn,
       ShutdownTimeout, Close, vars
  <2>2. CASE UNCHANGED coord
    BY <1>3, <2>2 DEF DrainInv, ShutdownBegin, ShutdownStep, ShutdownCloseQuit,
       ShutdownBoardsDone, ShutdownSessionsDone, ShutdownReturn,
       ShutdownTimeout
  <2>3. CASE CoordinatorTick \/ CoordinatorSaved \/ CoordinatorExit
    BY <2>3 DEF CoordinatorTick, CoordinatorSaved, CoordinatorExit, DrainInv,
       shutVars
  <2> QED
    BY <2>1, <2>2, <2>3
<1> QED
  BY <1>1, <1>2, <1>4, <1>5, <1>6, <1>7 DEF DrainInv

----------------------------------------------------------------------------
(* hub.New leaves a hub that satisfies it (hub.go:76-96).                  *)
LEMMA InductiveInit ==
  ASSUME Init
  PROVE  IInv
<1>1. TypeOK
  <2>1. /\ queue \in [Sessions -> 0..SendBuffer]
        /\ count \in [Sessions -> Int] /\ sessions \in Int
    BY SendBufferAssumption DEF Init
  <2>2. pc \in [Sessions -> PCs]
    BY DEF Init, PCs
  <2>3. coord \in {"off", "select", "saving", "exited"}
    BY DEF Init
  <2>4. /\ boards \in [BoardIDs -> Sessions \cup {NoBoard}]
        /\ board \in [Sessions -> Sessions \cup {NoBoard}]
        /\ clients \in [Sessions -> SUBSET Sessions]
        /\ boardID \in [Sessions -> BoardIDs]
        /\ toQuit \subseteq Sessions /\ toWait \subseteq Sessions
    BY DEF Init
  <2>5. /\ quit \in [Sessions -> BOOLEAN]
        /\ present \in [Sessions -> BOOLEAN]
        /\ sendClosed \in [Sessions -> BOOLEAN]
        /\ connClosed \in [Sessions -> BOOLEAN]
        /\ ctxDone \in [Sessions -> BOOLEAN]
        /\ closing \in BOOLEAN /\ stop \in BOOLEAN /\ panicked \in BOOLEAN
    BY DEF Init
  <2> QED
    BY <2>1, <2>2, <2>3, <2>4, <2>5 DEF Init, TypeOK
<1>2. SessionInv /\ HoldInv
  BY SessionsAssumption
     DEF Init, SessionInv, HoldInv, InFlight, Holding, Onboarding
<1>3. RegistryInv
  BY DEF Init, RegistryInv
<1>4. FanoutInv /\ WriterInv /\ LeftInv /\ NoPanic
  BY DEF Init, FanoutInv, WriterInv, LeftInv, NoPanic
<1>5. DrainInv
  <2>1. {s \in Sessions : pc[s] \in InFlight} = {}
    BY DEF Init, InFlight, Holding, Onboarding
  <2> QED
    BY <2>1, FS_EmptySet DEF Init, DrainInv
<1> QED
  BY <1>1, <1>2, <1>3, <1>4, <1>5 DEF IInv

(* Every step of the hub keeps it (Next, the goroutines of internal/hub).  *)
LEMMA InductiveStep ==
  ASSUME IInv, [Next]_vars
  PROVE  IInv'
BY TypeStep, SessionInvStep, RegistryStep, FanoutStep, WriterInvStep, LeftStep,
   DrainInvStep DEF IInv

(* The inductive invariant holds throughout.                               *)
THEOREM Inductive == Spec => []IInv
<1>1. Init => IInv
  BY InductiveInit
<1>2. IInv /\ [Next]_vars => IInv'
  BY InductiveStep
<1> QED
  BY <1>1, <1>2, PTL DEF Spec

(* Type correctness, for any number of sessions and boards and any queue   *)
(* capacity.                                                               *)
THEOREM TypeCorrect == Spec => []TypeOK
<1>1. IInv => TypeOK
  BY DEF IInv
<1> QED
  BY <1>1, Inductive, PTL

(* No send on a closed channel and no double close, in any schedule        *)
(* (board.go:225-240).                                                     *)
THEOREM PanicFree == Spec => []NoPanic
<1>1. IInv => NoPanic
  BY DEF IInv
<1> QED
  BY <1>1, Inductive, PTL

(* The keep-open count is exact (hub.go:26-34).                            *)
THEOREM CountExact == Spec => []RefCount
<1>1. IInv => RefCount
  BY DEF IInv, RegistryInv, RefCount, Registered
<1> QED
  BY <1>1, Inductive, PTL

(* Outside a drain a board outlives every join in flight for it            *)
(* (hub.go:27-30).                                                         *)
THEOREM JoinSafe == Spec => []JoinKeepsBoard
<1>1. IInv => JoinKeepsBoard
  <2> SUFFICES ASSUME IInv, NEW s \in Sessions, ~closing, pc[s] \in Holding
               PROVE  /\ boards[boardID[s]] = board[s]
                      /\ ~quit[board[s]]
                      /\ run[board[s]] \in {"hydrate", "loop"}
    BY DEF JoinKeepsBoard
  <2>1. board[s] \in Sessions /\ boardID[board[s]] = boardID[s]
    BY DEF IInv, SessionInv, InFlight
  <2>2. boards[boardID[s]] = board[s] /\ boardID[s] \in BoardIDs
    BY <2>1 DEF IInv, HoldInv, Entry, TypeOK
  <2> QED
    BY <2>1, <2>2, SessionsAssumption DEF IInv, RegistryInv
<1> QED
  BY <1>1, Inductive, PTL

(* Serve returns without its pumps, and off every board that goes on       *)
(* (client.go:96-100).                                                     *)
THEOREM ReturnClean == Spec => []ReturnedLeftBoard
<1>1. IInv => ReturnedLeftBoard
  BY DEF IInv, WriterInv, LeftInv, ReturnedLeftBoard
<1> QED
  BY <1>1, Inductive, PTL

(* A nil return of Shutdown means what it says: nothing in flight, every   *)
(* board it took saved, every connection of theirs closed, the coordinator *)
(* gone (hub.go:111-115).                                                  *)
THEOREM DrainEnds == Spec => []ShutdownDrains
<1>1. IInv => ShutdownDrains
  <2> SUFFICES ASSUME IInv, shut = "ok" PROVE ShutdownDrains
    BY DEF ShutdownDrains
  <2>1. \A s \in Sessions : pc[s] \notin InFlight
    BY DEF IInv, DrainInv
  <2>2. ASSUME NEW s \in Sessions, board[s] \in toWait PROVE connClosed[s]
    <3>1. board[s] # NoBoard
      BY <2>2, SessionsAssumption DEF IInv, TypeOK
    <3>2. pc[s] = "returned"
      BY <3>1, <2>1 DEF IInv, SessionInv, TypeOK, PCs
    <3> QED
      BY <3>2 DEF IInv, DrainInv
  <2> QED
    BY <2>1, <2>2 DEF IInv, DrainInv, BoardsDrained, ShutdownDrains
<1> QED
  BY <1>1, Inductive, PTL

(* A client is taken off a board that goes on only for its own full queue, *)
(* or because it leaves (board.go:167-190).                                *)
THEOREM KickFair == Spec => KickedForOwnQueue
<1>1. IInv /\ [Next]_vars =>
        [\A s \in Sessions :
           present[s] /\ ~present'[s] =>
             \/ queue[s] = SendBuffer
             \/ pc[s] = "unregister"
             \/ quit[board[s]]]_vars
  <2> SUFFICES ASSUME IInv, Next, NEW s \in Sessions, present[s], ~present'[s]
               PROVE  \/ queue[s] = SendBuffer
                      \/ pc[s] = "unregister"
                      \/ quit[board[s]]
    BY DEF vars
  <2>0. TypeOK /\ FanoutInv
    BY DEF IInv
  <2>1. ASSUME NEW b, NEW S, NEW x, Remove(b, S, x) PROVE s \in S
    BY <2>1, Zenon DEF Remove
  <2>2. ASSUME NEW S, s \in Detachable(Slow(S)) PROVE queue[s] = SendBuffer
    BY <2>0, <2>2, SendBufferAssumption DEF Detachable, Slow, Room, TypeOK
  <2>3. ASSUME NEW b \in Sessions, DeliverReliable(b)
        PROVE  queue[s] = SendBuffer
    BY <2>1, <2>2, <2>3 DEF DeliverReliable
  <2>4. ASSUME NEW t \in Sessions, DeliverDirect(t)
        PROVE  queue[s] = SendBuffer
    BY <2>1, <2>2, <2>4 DEF DeliverDirect
  <2>5. ASSUME NEW t \in Sessions, Unregister(t)
        PROVE  pc[s] = "unregister"
    <3>1. s \in Detachable({t})
      BY <2>1, <2>5 DEF Unregister
    <3> QED
      BY <3>1, <2>5 DEF Detachable, Unregister, Goto
  <2>6. ASSUME NEW b \in Sessions, BoardQuit(b) PROVE quit[board[s]]
    <3>1. s \in clients[b]
      BY <2>1, <2>6 DEF BoardQuit
    <3> QED
      BY <3>1, <2>0, <2>6 DEF BoardQuit, FanoutInv
  <2>7. ASSUME NEW t \in Sessions, Register(t) PROVE FALSE
    BY <2>0, <2>7, Zenon DEF Register, TypeOK
  <2>8. ASSUME UNCHANGED present PROVE FALSE
    BY <2>8
  <2>9. ASSUME NEW t \in Sessions,
               \/ Environment(t) \/ WriterStep(t)
               \/ ServeStep(t) /\ ~(Register(t) \/ DeliverDirect(t) \/ Unregister(t))
        PROVE  UNCHANGED present
    BY <2>9 DEF Environment, WriterStep, ServeStep, BeginSession, RejectSession,
       FetchSnapshot, FetchPresence, AbandonDirect, PeerGone, CancelRequest,
       PingFails, ReadPumpReturns, LeaveBoard, ReleaseGone, ReleaseLast,
       ReleaseShared, CloseQuit, UnregisterDone, SessionDone, WriteOne,
       WriteFails, WritePumpReturns, fanoutVars
  <2>10. ASSUME \/ \E b \in Sessions : BoardStart(b) \/ BoardDone(b)
                   \/ \E x \in Sessions \cup {NoBoard} : DeliverBestEffort(b, x)
                \/ ShutdownBegin \/ ShutdownStep \/ ShutdownTimeout \/ Close
                \/ CoordinatorTick \/ CoordinatorSaved \/ CoordinatorExit
         PROVE  UNCHANGED present
    BY <2>10 DEF BoardStart, BoardDone, DeliverBestEffort, ShutdownBegin,
       ShutdownStep, ShutdownCloseQuit, ShutdownBoardsDone,
       ShutdownSessionsDone, ShutdownReturn, ShutdownTimeout, Close,
       CoordinatorTick, CoordinatorSaved, CoordinatorExit, fanoutVars
  <2> QED
    BY <2>3, <2>4, <2>5, <2>6, <2>7, <2>8, <2>9, <2>10
       DEF Next, BoardStep, BoardDispatch
<1> QED
  BY <1>1, Inductive, PTL DEF Spec, KickedForOwnQueue


----------------------------------------------------------------------------
(* The hub implements a registry that knows its users.                     *)

(* A step in which nobody comes or goes and no board stops is no step of   *)
(* the registry.                                                           *)
LEMMA RegistryStutter ==
  ASSUME UNCHANGED <<boards, closing, board>>,
         \A s \in Sessions : pc'[s] \in Holding <=> pc[s] \in Holding,
         \A b \in Sessions :
           \/ run'[b] = run[b]
           \/ run[b] = "hydrate" /\ run'[b] = "loop"
           \/ run[b] = "persist" /\ run'[b] = "done"
  PROVE  UNCHANGED Abstract!vars
<1>1. User' = User
  BY DEF User
<1>2. \A b \in Sessions : Life[b]' = Life[b]
  BY DEF Life
<1>3. Life' = Life
  BY <1>2 DEF Life
<1> QED
  BY <1>1, <1>3 DEF Abstract!vars

(* beginSession (hub.go:200-218): the session gets the board the others    *)
(* of its name are on, or a new one.                                       *)
LEMMA BeginEnters ==
  ASSUME IInv, NEW s \in Sessions, BeginSession(s)
  PROVE  \E b \in Sessions : Abstract!Enter(s, boardID[s], b)
<1> DEFINE id == boardID[s]
           fresh == boards[id] = NoBoard
           b == IF fresh THEN s ELSE boards[id]
<1>1. /\ ~closing /\ UNCHANGED closing /\ pc[s] = "idle"
      /\ pc' = [pc EXCEPT ![s] = "register"]
      /\ boards' = [boards EXCEPT ![id] = b]
      /\ run' = IF fresh THEN [run EXCEPT ![b] = "hydrate"] ELSE run
      /\ board' = [board EXCEPT ![s] = b]
  BY DEF BeginSession, Goto, Admits
<1>2. /\ id \in BoardIDs /\ b \in Sessions /\ run[s] = "none"
      /\ boards \in [BoardIDs -> Sessions \cup {NoBoard}]
      /\ run \in [Sessions -> {"none", "hydrate", "loop", "persist", "done"}]
      /\ pc \in [Sessions -> PCs] /\ board \in [Sessions -> Sessions \cup {NoBoard}]
  BY <1>1 DEF IInv, TypeOK, SessionInv
<1>3. User[s] = NoBoard
  BY <1>1 DEF User, Holding, Onboarding
<1>4. User' = [User EXCEPT ![s] = b]
  <2>1. \A t \in Sessions : User'[t] = IF t = s THEN b ELSE User[t]
    BY <1>1, <1>2 DEF User, Holding, Onboarding
  <2> QED
    BY <2>1 DEF User
<1>5. CASE ~fresh
  <2>1. boards' = boards /\ run' = run /\ boards[id] = b
    BY <1>1, <1>2, <1>5
  <2>2. Life' = Life
    BY <2>1 DEF Life
  <2> QED
    BY <1>1, <1>2, <1>3, <1>4, <2>1, <2>2 DEF Abstract!Enter
<1>6. CASE fresh
  <2>1. b = s /\ run' = [run EXCEPT ![s] = "hydrate"] /\ Life[b] = "new"
    BY <1>1, <1>2, <1>6 DEF Life
  <2>2. \A c \in Sessions : Life'[c] = IF c = b THEN "up" ELSE Life[c]
    BY <1>2, <2>1 DEF Life
  <2>3. Life' = [Life EXCEPT ![b] = "up"]
    BY <2>2 DEF Life
  <2> QED
    BY <1>1, <1>2, <1>3, <1>4, <1>6, <2>1, <2>3 DEF Abstract!Enter
<1> QED
  BY <1>5, <1>6

(* release (hub.go:229-252): the board closes with the last session on it, *)
(* which the count tells, and not before.                                  *)
LEMMA ReleaseLeaves ==
  ASSUME IInv, NEW s \in Sessions,
         ReleaseGone(s) \/ ReleaseLast(s) \/ ReleaseShared(s)
  PROVE  Abstract!Leave(s)
<1> DEFINE b == board[s]
           last == \A t \in Sessions \ {s} : User[t] # User[s]
<1>1. /\ pc[s] = "release" /\ UNCHANGED <<closing, board, run>>
      /\ \E to \in {"sessionsDone", "closeQuit", "unregister"} :
           pc' = [pc EXCEPT ![s] = to]
  BY DEF ReleaseGone, ReleaseLast, ReleaseShared, Goto, hubVars, boardVars
<1>2. /\ boards \in [BoardIDs -> Sessions \cup {NoBoard}] /\ pc \in [Sessions -> PCs]
      /\ b \in Sessions /\ b # NoBoard /\ boardID[b] \in BoardIDs
  BY <1>1, SessionsAssumption DEF IInv, TypeOK, SessionInv, InFlight, Holding
<1>3. User[s] = b /\ s \in Holders(b)
  BY <1>1, <1>2 DEF User, Holding, Holders
<1>4. User' = [User EXCEPT ![s] = NoBoard]
  <2>1. \A t \in Sessions : User'[t] = IF t = s THEN NoBoard ELSE User[t]
    BY <1>1, <1>2 DEF User, Holding, Onboarding
  <2> QED
    BY <2>1 DEF User
<1>5. Life' = Life
  BY <1>1 DEF Life
<1>6. \A id \in BoardIDs : boards[id] = b <=> id = boardID[b] /\ Entry(b)
  BY <1>2 DEF IInv, RegistryInv, Entry
<1>7. last <=> Holders(b) = {s}
  BY <1>2, <1>3 DEF User, Holders
<1>8. Entry(b) => (LastHolder(b) <=> Holders(b) = {s})
  <2> SUFFICES ASSUME Entry(b) PROVE count[b] = 1 <=> Holders(b) = {s}
    BY DEF LastHolder
  <2>1. count[b] = Cardinality(Holders(b))
    BY <1>2 DEF IInv, RegistryInv, Entry
  <2>2. Cardinality(Holders(b)) = 1 => \E x : Holders(b) = {x}
    BY HoldersFinite, FS_Singleton
  <2>3. Cardinality({s}) = 1
    BY FS_Singleton
  <2> QED
    BY <1>3, <2>1, <2>2, <2>3
<1>9. boards' = [id \in BoardIDs |->
                   IF last /\ boards[id] = User[s] THEN NoBoard ELSE boards[id]]
  <2>1. CASE ReleaseGone(s)
    BY <1>2, <1>3, <1>6, <2>1 DEF ReleaseGone, hubVars
  <2>2. CASE ReleaseLast(s)
    <3>1. /\ boards' = [boards EXCEPT ![boardID[b]] = NoBoard]
          /\ Entry(b) /\ last
      BY <1>7, <1>8, <2>2 DEF ReleaseLast
    <3> HIDE DEF last
    <3> QED
      BY <1>2, <1>3, <1>6, <3>1
  <2>3. CASE ReleaseShared(s)
    <3>1. boards' = boards /\ ~last
      BY <1>7, <1>8, <2>3 DEF ReleaseShared
    <3> HIDE DEF last
    <3> QED
      BY <1>2, <3>1
  <2> QED
    BY <2>1, <2>2, <2>3
<1> QED
  BY <1>1, <1>2, <1>3, <1>4, <1>5, <1>9 DEF Abstract!Leave

(* A board goroutine leaves its loop only after its board is closed        *)
(* (closeQuit, board.go:49-51 and 111-118).                                *)
LEMMA QuitStops ==
  ASSUME IInv, NEW b \in Sessions, BoardQuit(b)
  PROVE  Abstract!Stop(b)
<1>1. /\ run[b] = "loop" /\ quit[b] /\ run' = [run EXCEPT ![b] = "persist"]
      /\ UNCHANGED <<boards, closing, pc, board>>
  BY DEF BoardQuit, hubVars
<1>2. b # NoBoard /\ run \in [Sessions -> {"none", "hydrate", "loop", "persist", "done"}]
  BY SessionsAssumption DEF IInv, TypeOK
<1>3. \A id \in BoardIDs : boards[id] # b
  BY <1>1, <1>2 DEF IInv, RegistryInv
<1>4. Life[b] = "up" /\ \A c \in Sessions : Life'[c] = IF c = b THEN "down" ELSE Life[c]
  BY <1>1, <1>2 DEF Life
<1>5. Life' = [Life EXCEPT ![b] = "down"]
  BY <1>4 DEF Life
<1>6. User' = User
  BY <1>1 DEF User
<1> QED
  BY <1>1, <1>3, <1>4, <1>5, <1>6 DEF Abstract!Stop

(* The counts, the part of joining and leaving that runs outside the       *)
(* mutex, the quit channels and the drain implement a registry in which    *)
(* the users of a board keep it open (hub.go:26-34, 116-132, 200-252).     *)
THEOREM ImplementsRegistry == Spec => ActsAsRegistry
<1>1. ASSUME Init PROVE Abstract!Init
  <2>1. User = [s \in Sessions |-> NoBoard]
    BY <1>1 DEF Init, User, Holding, Onboarding
  <2>2. Life = [b \in Sessions |-> "new"]
    BY <1>1 DEF Init, Life
  <2> QED
    BY <1>1, <2>1, <2>2 DEF Init, Abstract!Init
<1>2. ASSUME IInv, [Next]_vars PROVE [Abstract!Next]_(Abstract!vars)
  <2>0. TypeOK
    BY <1>2 DEF IInv
  <2>1. ASSUME NEW s \in Sessions, BeginSession(s) PROVE Abstract!Next
    <3>1. boardID[s] \in BoardIDs
      BY <2>0 DEF TypeOK
    <3> QED
      BY <1>2, <2>1, <3>1, BeginEnters DEF Abstract!Next
  <2>2. ASSUME NEW s \in Sessions, ReleaseGone(s) \/ ReleaseLast(s) \/ ReleaseShared(s)
        PROVE  Abstract!Next
    BY <1>2, <2>2, ReleaseLeaves DEF Abstract!Next
  <2>3. ASSUME NEW b \in Sessions, BoardQuit(b) PROVE Abstract!Next
    BY <1>2, <2>3, QuitStops DEF Abstract!Next
  <2>4. ASSUME ShutdownBegin PROVE Abstract!Drain
    <3>1. /\ ~closing /\ closing' = TRUE /\ boards' = [id \in BoardIDs |-> NoBoard]
          /\ UNCHANGED <<run, pc, board>>
      BY <2>4 DEF ShutdownBegin, boardVars
    <3>2. User' = User /\ Life' = Life
      BY <3>1 DEF User, Life
    <3> QED
      BY <3>1, <3>2 DEF Abstract!Drain
  <2>5. ASSUME NEW s \in Sessions, HoldingStep(s) PROVE UNCHANGED Abstract!vars
    BY <2>0, <2>5, HoldingSteps, RegistryStutter
  <2>6. ASSUME NEW s \in Sessions, Unregister(s) \/ UnregisterDone(s) \/ SessionDone(s)
        PROVE  UNCHANGED Abstract!vars
    BY <2>0, <2>6, LeavingSteps, RegistryStutter DEF Holding, Onboarding
  <2>7. ASSUME NEW s \in Sessions, RejectSession(s) \/ CloseQuit(s)
        PROVE  UNCHANGED Abstract!vars
    <3>1. /\ UNCHANGED <<boards, closing, board, run>>
          /\ \A t \in Sessions : pc'[t] \in Holding <=> pc[t] \in Holding
      BY <2>0, <2>7 DEF RejectSession, CloseQuit, Goto, hubVars, boardVars, TypeOK,
                        Holding, Onboarding
    <3> QED
      BY <3>1, RegistryStutter
  <2>8. ASSUME NEW b \in Sessions, BoardStart(b) \/ BoardDone(b)
        PROVE  UNCHANGED Abstract!vars
    <3>1. /\ UNCHANGED <<boards, closing, board, pc>>
          /\ \A c \in Sessions :
               \/ run'[c] = run[c]
               \/ run[c] = "hydrate" /\ run'[c] = "loop"
               \/ run[c] = "persist" /\ run'[c] = "done"
      BY <2>0, <2>8 DEF BoardStart, BoardDone, hubVars, TypeOK
    <3> QED
      BY <3>1, RegistryStutter
  <2>9. ASSUME NEW b \in Sessions, ShutdownCloseQuit(b) PROVE UNCHANGED Abstract!vars
    BY <2>9, RegistryStutter DEF ShutdownCloseQuit, hubVars
  <2>10. ASSUME UNCHANGED lifecycle PROVE UNCHANGED Abstract!vars
    BY <2>10, RegistryStutter DEF lifecycle
  <2> QED
    BY <1>2, <2>1, <2>2, <2>3, <2>4, <2>5, <2>6, <2>7, <2>8, <2>9, <2>10, QuietSteps
       DEF Next, Environment, ServeStep, HoldingStep, BoardStep, ShutdownStep,
           Abstract!Next
<1> QED
  BY <1>1, <1>2, Inductive, PTL DEF Spec, ActsAsRegistry, Abstract!Spec
============================================================================
