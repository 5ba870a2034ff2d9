--------------------------- MODULE WorkflowProofs ---------------------------
(***************************************************************************)
(* Proofs about Workflow, for every set of products, parameters, faults    *)
(* and requests.                                                           *)
(***************************************************************************)
EXTENDS Workflow, TLAPS

(***************************************************************************)
(* The InspectManager operations keep its type.                            *)
(***************************************************************************)
LEMMA SetStateType ==
    ASSUME NEW m \in ImType, NEW s \in States
    PROVE  SetState(m, s) \in ImType
  BY DEF SetState, ImType

LEMMA ActivateType ==
    ASSUME NEW m \in ImType, NEW p \in Products
    PROVE  Activate(m, p) \in ImType
  BY DEF Activate, ImType

LEMMA ChangeProductsType ==
    ASSUME NEW m \in ImType, NEW ps
    PROVE  ChangeProducts(m, ps) \in ImType
  BY DEF ChangeProducts, ImType

LEMMA ActivateSeamSeriesType ==
    ASSUME NEW m \in ImType, NEW found \in BOOLEAN
    PROVE  ActivateSeamSeries(m, found) \in ImType
  BY DEF ActivateSeamSeries, Die, ImType

LEMMA SeamPreStartType ==
    ASSUME NEW m \in ImType, NEW found \in BOOLEAN
    PROVE  SeamPreStart(m, found) \in ImType
  BY DEF SeamPreStart, ImType

LEMMA StopType ==
    ASSUME NEW m \in ImType
    PROVE  /\ StopInspect(m) \in ImType
           /\ StopLiveMode(m) \in ImType
  BY DEF StopInspect, StopLiveMode, Die, ImType

LEMMA StopBothType ==
    ASSUME NEW m \in ImType
    PROVE  /\ StopLiveMode(StopInspect(m)) \in ImType
           /\ StopAutomaticMode(m) \in ImType
  BY StopType DEF StopAutomaticMode

LEMMA BeginInspectType ==
    ASSUME NEW m \in ImType, NEW found \in BOOLEAN
    PROVE  BeginInspect(m, found) \in ImType
  <1>1. StartInspect(m, found) \in ImType
    BY DEF StartInspect, ImType
  <1>2. StopInspect(StartInspect(m, found)) \in ImType
    BY <1>1, StopType
  <1> QED BY <1>1, <1>2 DEF BeginInspect

(***************************************************************************)
(* Type correctness, one step per action.                                  *)
(***************************************************************************)
LEMMA ChangesType ==
    ASSUME TypeOK, NEW m \in ImType, ApplyChanges(m)
    PROVE  /\ im' \in ImType
           /\ pending' = {} /\ overtaken' = {} /\ edits' = edits /\ dbItem' = dbItem
  BY ChangeProductsType DEF ApplyChanges

LEMMA TypeStep == TypeOK /\ HandlerShape /\ [Next]_vars => TypeOK'
  <1> SUFFICES ASSUME TypeOK, HandlerShape, [Next]_vars PROVE TypeOK'
    OBVIOUS
  <1> USE WorkflowAssumption
  <1> USE DEF States, Threads, Changes, Phases, Conts
  <1> im \in ImType
    BY DEF TypeOK
  <1>0. CASE UNCHANGED vars
    BY <1>0 DEF TypeOK, vars, ctl, flt, dbs, env
  <1>1. CASE TakeDbLock
    BY <1>1 DEF TypeOK, TakeDbLock, flt, dbs, env
  <1>2. CASE RunDbCheck
    BY <1>2, ChangesType DEF TypeOK, RunDbCheck, Release, flt, env
  <1>3. CASE RunStartAuto
    <2>1. im' \in ImType
      BY <1>3, StopBothType, StopType, SetStateType, ActivateType
      DEF TypeOK, RunStartAuto, Enter
    <2>2. /\ productID' \in Products \cup {NoProduct}
          /\ arg' \in Products \cup {NoProduct}
      BY <1>3 DEF TypeOK, RunStartAuto, Enter, Release, ctl
    <2>3. /\ next' \in States \cup {"none"} /\ state' = state
          /\ phase' \in Phases /\ cont' \in Conts
          /\ lock' \in Threads \cup {"free"} /\ dbLock' \in Threads \cup {"free"}
      BY <1>3 DEF TypeOK, RunStartAuto, Enter, Release, ctl
    <2> QED
      BY <1>3, <2>1, <2>2, <2>3 DEF TypeOK, RunStartAuto, flt, dbs, env
  <1>4. CASE Construct
    <2>1. /\ im' \in ImType
          /\ pending' \subseteq Changes /\ overtaken' \subseteq Changes /\ edits' \subseteq Changes
          /\ dbItem' \in Changes
      BY <1>4, ChangesType, StopBothType DEF TypeOK, Construct
    <2>2. backup' \in BOOLEAN
      BY <1>4, Zenon DEF TypeOK, Construct, flt
    <2>3. rel' \subseteq Faults /\ ready' \in BOOLEAN /\ errField' \subseteq Faults
      BY <1>4 DEF TypeOK, Construct, Report, flt
    <2> QED
      BY <1>4, <2>1, <2>2, <2>3 DEF TypeOK, Construct, env
  <1>5. CASE Assign
    <2>1. im' \in ImType
      BY <1>5, BeginInspectType, ActivateSeamSeriesType, SetStateType, ActivateType
      DEF Assign
    <2>2. /\ productID' \in Products \cup {NoProduct}
          /\ arg' \in Products \cup {NoProduct}
      BY <1>5 DEF TypeOK, Assign, Release
    <2>3. /\ next' \in States \cup {"none"} /\ next \in States
          /\ phase' \in Phases /\ cont' \in Conts
          /\ lock' \in Threads \cup {"free"} /\ dbLock' \in Threads \cup {"free"}
      BY <1>5 DEF TypeOK, Assign, Release, HandlerShape
    <2> QED
      BY <1>5, <2>1, <2>2, <2>3 DEF TypeOK, Assign, flt, dbs, env
  <1>6. CASE Initialize
    BY <1>6, SetStateType
    DEF TypeOK, Initialize, Begin, FirstState, Enter, flt, dbs, env
  <1>7. CASE Exit
    BY <1>7, SetStateType DEF TypeOK, Exit, Begin, Enter, flt, dbs, env
  <1>8. ASSUME NEW p \in Products \cup {NoProduct}, StartAuto(p) PROVE TypeOK'
    BY <1>8 DEF TypeOK, StartAuto, flt, dbs, env
  <1>9. CASE StopAuto
    BY <1>9, SetStateType, StopBothType
    DEF TypeOK, StopAuto, Enter, flt, dbs, env
  <1>10. ASSUME NEW found \in BOOLEAN, Start(found) PROVE TypeOK'
    BY <1>10, BeginInspectType DEF TypeOK, Start, Stay, ctl, flt, dbs, env
  <1>11. CASE End
    BY <1>11, StopType DEF TypeOK, End, Stay, ctl, flt, dbs, env
  <1>12. ASSUME NEW found \in BOOLEAN, PreStart(found) PROVE TypeOK'
    BY <1>12, SeamPreStartType DEF TypeOK, PreStart, Stay, ctl, flt, dbs, env
  <1>13. CASE Info
    BY <1>13 DEF TypeOK, Info, ctl, flt, dbs
  <1>14. ASSUME NEW found \in BOOLEAN, InfoActivate(found) PROVE TypeOK'
    <2>1. im' \in ImType
      BY <1>14, ActivateSeamSeriesType DEF InfoActivate, Die, ImType
    <2> QED
      BY <1>14, <2>1 DEF TypeOK, InfoActivate, ctl, flt, dbs
  <1>15. CASE StartLive
    BY <1>15, SetStateType, ActivateType
    DEF TypeOK, StartLive, Enter, flt, dbs, env
  <1>16. CASE StopLive
    BY <1>16, SetStateType, StopBothType
    DEF TypeOK, StopLive, Enter, Stay, ctl, flt, dbs, env
  <1>17. ASSUME NEW done \in BOOLEAN, RequestCalibration(done) PROVE TypeOK'
    BY <1>17, SetStateType DEF TypeOK, RequestCalibration, Enter, flt, dbs, env
  <1>18. CASE StartTeachIn \/ AbortTeachIn
    BY <1>18, SetStateType
    DEF TypeOK, StartTeachIn, AbortTeachIn, Enter, flt, dbs, env
  <1>19. ASSUME DispatchNotReady
         PROVE  /\ im' \in ImType /\ backup' \in BOOLEAN
                /\ UNCHANGED <<state, dbLock, arg>>
                /\ next' \in States \cup {"none"} /\ phase' \in Phases
                /\ cont' \in Conts /\ lock' \in Threads \cup {"free"}
    <2>1. im' \in ImType
      BY <1>19, SetStateType, StopBothType
      DEF TypeOK, DispatchNotReady, Enter, Stay
    <2>2. backup' \in BOOLEAN
      <3>1. OnlyBackup \in BOOLEAN
        BY DEF OnlyBackup
      <3> QED BY <1>19, <3>1, Zenon DEF TypeOK, DispatchNotReady
    <2> QED
      BY <1>19, <2>1, <2>2 DEF TypeOK, DispatchNotReady, Enter, Stay, ctl
  <1>20. ASSUME NEW c \in Faults, SignalNotReady(c) PROVE TypeOK'
    <2>1. DispatchNotReady
      BY <1>20 DEF SignalNotReady
    <2>2. /\ im' \in ImType /\ backup' \in BOOLEAN
          /\ UNCHANGED <<state, dbLock, arg>>
          /\ next' \in States \cup {"none"} /\ phase' \in Phases
          /\ cont' \in Conts /\ lock' \in Threads \cup {"free"}
      BY <1>19, <2>1
    <2>3. /\ rel' \subseteq Faults /\ errField' \subseteq Faults
          /\ faulty' \subseteq Faults /\ ready' \in BOOLEAN
      BY <1>20 DEF TypeOK, SignalNotReady, Report
    <2>4. UNCHANGED <<dbs, infoAt, estop, estopQ, productID>>
      BY <1>20 DEF SignalNotReady
    <2> QED
      BY <2>2, <2>3, <2>4 DEF TypeOK, dbs
  <1>21. CASE SignalNotReadyNone
    <2>1. CASE rel # {}
      <3>1. DispatchNotReady
        BY <1>21, <2>1 DEF SignalNotReadyNone
      <3>2. /\ im' \in ImType /\ backup' \in BOOLEAN
            /\ UNCHANGED <<state, dbLock, arg>>
            /\ next' \in States \cup {"none"} /\ phase' \in Phases
            /\ cont' \in Conts /\ lock' \in Threads \cup {"free"}
        BY <1>19, <3>1
      <3>3. /\ rel' = rel /\ errField' \subseteq Faults /\ ready' \in BOOLEAN
            /\ UNCHANGED <<dbs, env, productID>>
        BY <1>21, <2>1 DEF TypeOK, SignalNotReadyNone, Report
      <3> QED
        BY <3>2, <3>3 DEF TypeOK, dbs, env
    <2>2. CASE rel = {}
      BY <1>21, <2>2 DEF TypeOK, SignalNotReadyNone, Report, Stay, ctl, dbs, env
    <2> QED BY <2>1, <2>2
  <1>22. ASSUME NEW c \in Faults, SignalReady(c) PROVE TypeOK'
    BY <1>22, SetStateType
    DEF TypeOK, SignalReady, Toggle, Report, Enter, Stay, ctl, dbs
  <1>23. CASE QuitSystemFault
    BY <1>23, SetStateType DEF TypeOK, QuitSystemFault, Enter, dbs, env
  <1>24. CASE EmergencyStop
    <2>1. estopQ' \in Seq({"stop", "reset"})
      BY <1>24 DEF TypeOK, EmergencyStop
    <2> QED
      BY <1>24, <2>1, SetStateType, StopBothType
      DEF TypeOK, EmergencyStop, Enter, Stay, ctl, flt, dbs
  <1>25. CASE ResetEmergencyStop
    <2>1. estopQ' \in Seq({"stop", "reset"})
      BY <1>25 DEF TypeOK, ResetEmergencyStop
    <2> QED
      BY <1>25, <2>1, SetStateType
      DEF TypeOK, ResetEmergencyStop, AfterEmergency, Enter, Stay, ctl, flt, dbs
  <1>26. CASE TriggerEmergencyStop
    BY <1>26 DEF TypeOK, TriggerEmergencyStop, ctl, flt, dbs
  <1>27. ASSUME NEW c \in Changes, Edit(c) PROVE TypeOK'
    BY <1>27 DEF TypeOK, Edit, ctl, flt, env
  <1>28. ASSUME NEW c \in Changes, Setup(c) PROVE TypeOK'
    BY <1>28 DEF TypeOK, Setup, ctl, flt, env
  <1>29. CASE ReadOperate \/ ReadNotReady \/ ReadLive
    BY <1>29 DEF TypeOK, ReadOperate, ReadNotReady, ReadLive, ctl, flt, env
  <1>30. CASE DbCheck
    BY <1>30 DEF TypeOK, DbCheck, flt, dbs, env
  <1>31. CASE UpdateLiveMode
    BY <1>31, SetStateType DEF TypeOK, UpdateLiveMode, Enter, Stay, ctl, flt, env
  <1> QED
    BY <1>0, <1>1, <1>2, <1>3, <1>4, <1>5, <1>6, <1>7, <1>8, <1>9, <1>10, <1>11,
       <1>12, <1>13, <1>14, <1>15, <1>16, <1>17, <1>18, <1>20, <1>21, <1>22,
       <1>23, <1>24, <1>25, <1>26, <1>27, <1>28, <1>29, <1>30, <1>31
    DEF Next, Handler, Main, Insp, Cmd, Db

LEMMA TypeInit == Init => TypeOK
  <1> SUFFICES ASSUME Init PROVE TypeOK
    OBVIOUS
  <1>1. im \in ImType
    BY WorkflowAssumption DEF Init, ImType, States
  <1>2. estopQ \in Seq({"stop", "reset"})
    BY DEF Init
  <1> QED
    BY <1>1, <1>2, WorkflowAssumption
    DEF Init, TypeOK, States, Threads, Changes, Phases, Conts

(***************************************************************************)
(* The handler that owns m_oLock.                                          *)
(***************************************************************************)
\* Actions of threads that are not, or not visibly, inside a handler.
Aside == \/ \E found \in BOOLEAN : Start(found) \/ PreStart(found)
         \/ End \/ Info
         \/ \E found \in BOOLEAN : InfoActivate(found)
         \/ TriggerEmergencyStop
         \/ \E c \in Changes : Edit(c) \/ Setup(c)
         \/ ReadOperate \/ ReadNotReady \/ ReadLive

LEMMA AsideStep == Aside => UNCHANGED <<ctl, rel>>
  BY DEF Aside, Start, PreStart, End, Stay, Info, InfoActivate, Edit, Setup,
         TriggerEmergencyStop, ReadOperate, ReadNotReady, ReadLive, flt

\* Every action, in the order the proofs below treat them.
LEMMA NextCases ==
    Next => \/ Aside \/ TakeDbLock \/ RunDbCheck \/ RunStartAuto \/ Construct
            \/ Assign \/ Initialize \/ Exit
            \/ \E p \in Products \cup {NoProduct} : StartAuto(p)
            \/ StopAuto \/ StartLive \/ StopLive
            \/ \E done \in BOOLEAN : RequestCalibration(done)
            \/ StartTeachIn \/ AbortTeachIn
            \/ \E c \in Faults : SignalNotReady(c)
            \/ SignalNotReadyNone
            \/ \E c \in Faults : SignalReady(c)
            \/ QuitSystemFault \/ EmergencyStop \/ ResetEmergencyStop
            \/ DbCheck \/ UpdateLiveMode
  BY DEF Next, Handler, Main, Insp, Cmd, Db, Aside

LEMMA ShapeStep ==
    TypeOK /\ HandlerShape /\ LockOrder /\ [Next]_vars
        => HandlerShape' /\ LockOrder'
  <1> SUFFICES ASSUME TypeOK, HandlerShape, LockOrder, [Next]_vars
               PROVE  HandlerShape' /\ LockOrder'
    OBVIOUS
  <1> USE DEF HandlerShape, LockOrder
  <1> lock \in Threads \cup {"free"} /\ "free" \notin Threads
    BY DEF TypeOK, Threads
  <1>0. CASE UNCHANGED vars
    BY <1>0 DEF vars, ctl
  <1>1. CASE Aside
    BY <1>1, AsideStep DEF ctl
  <1>2. CASE TakeDbLock \/ RunDbCheck
    BY <1>2 DEF TakeDbLock, RunDbCheck, Release
  <1>3. CASE RunStartAuto
    BY <1>3 DEF RunStartAuto, Enter, Release, ctl
  <1>4. CASE Construct
    BY <1>4 DEF Construct
  <1>5. CASE Assign
    BY <1>5 DEF Assign, Release
  <1>6. CASE Initialize \/ Exit
    BY <1>6 DEF Initialize, Exit, Begin, Enter, FirstState, Threads
  <1>7. ASSUME NEW p \in Products \cup {NoProduct}, StartAuto(p)
        PROVE  HandlerShape' /\ LockOrder'
    BY <1>7 DEF StartAuto, Begin, Threads
  <1>8. CASE StopAuto
    BY <1>8 DEF StopAuto, Begin, Enter, Threads
  <1>9. CASE StartLive \/ StopLive
    BY <1>9 DEF StartLive, StopLive, Begin, Enter, Stay, ctl, Threads
  <1>10. ASSUME NEW done \in BOOLEAN, RequestCalibration(done)
         PROVE  HandlerShape' /\ LockOrder'
    BY <1>10 DEF RequestCalibration, Begin, Enter, Threads
  <1>11. CASE StartTeachIn \/ AbortTeachIn
    BY <1>11 DEF StartTeachIn, AbortTeachIn, Begin, Enter, Threads
  <1>12. ASSUME lock = "free", DispatchNotReady PROVE HandlerShape' /\ LockOrder'
    BY <1>12 DEF DispatchNotReady, Enter, Stay, ctl, Threads
  <1>13. ASSUME NEW c \in Faults, SignalNotReady(c)
         PROVE  HandlerShape' /\ LockOrder'
    BY <1>12, <1>13 DEF SignalNotReady, Begin
  <1>14. CASE SignalNotReadyNone
    <2>1. CASE rel # {}
      BY <1>12, <1>14, <2>1 DEF SignalNotReadyNone, Begin
    <2>2. CASE rel = {}
      BY <1>14, <2>2 DEF SignalNotReadyNone, Stay, ctl
    <2> QED BY <2>1, <2>2
  <1>15. ASSUME NEW c \in Faults, SignalReady(c)
         PROVE  HandlerShape' /\ LockOrder'
    BY <1>15 DEF SignalReady, Begin, Enter, Stay, ctl, Threads
  <1>16. CASE QuitSystemFault
    BY <1>16 DEF QuitSystemFault, Begin, Enter, Threads
  <1>17. CASE EmergencyStop
    BY <1>17 DEF EmergencyStop, Enter, Stay, ctl, Threads
  <1>18. CASE ResetEmergencyStop
    BY <1>18 DEF ResetEmergencyStop, AfterEmergency, Enter, Stay, ctl, Threads
  <1>19. CASE DbCheck
    BY <1>19 DEF DbCheck, Threads
  <1>20. CASE UpdateLiveMode
    BY <1>20 DEF UpdateLiveMode, Enter, Stay, ctl, Threads
  <1> QED
    BY <1>0, <1>1, <1>2, <1>3, <1>4, <1>5, <1>6, <1>7, <1>8, <1>9, <1>10, <1>11,
       <1>13, <1>14, <1>15, <1>16, <1>17, <1>18, <1>19, <1>20, NextCases

(***************************************************************************)
(* The states a handler builds.                                            *)
(***************************************************************************)
LEMMA MoveStep ==
    TypeOK /\ HandlerShape /\ LegalMove /\ FaultFreeMove /\ [Next]_vars
        => LegalMove' /\ FaultFreeMove'
  <1> SUFFICES ASSUME TypeOK, HandlerShape, LegalMove, FaultFreeMove, [Next]_vars
               PROVE  LegalMove' /\ FaultFreeMove'
    OBVIOUS
  <1> USE DEF LegalMove, FaultFreeMove, ModeOf, Station!Moves
  <1> state \in States /\ next \in States \cup {"none"}
    BY DEF TypeOK
  <1> lock = "free" => next = "none"
    BY DEF HandlerShape
  <1>0. CASE UNCHANGED vars
    BY <1>0 DEF vars, ctl, flt
  <1>1. CASE Aside
    BY <1>1, AsideStep DEF ctl
  <1>2. CASE TakeDbLock \/ RunDbCheck
    BY <1>2 DEF TakeDbLock, RunDbCheck, Release, flt
  <1>3. CASE RunStartAuto
    BY <1>3 DEF RunStartAuto, Enter, Release, ctl, HandlerShape
  <1>4. CASE Construct
    BY <1>4 DEF Construct, flt
  <1>5. CASE Assign
    BY <1>5 DEF Assign, Release, HandlerShape, flt
  <1>6. CASE Initialize \/ Exit
    BY <1>6 DEF Initialize, Exit, Begin, Enter, FirstState, flt
  <1>7. ASSUME NEW p \in Products \cup {NoProduct}, StartAuto(p)
        PROVE  LegalMove' /\ FaultFreeMove'
    BY <1>7 DEF StartAuto, flt
  <1>8. CASE StopAuto
    BY <1>8 DEF StopAuto, Begin, Enter
  <1>9. CASE StartLive \/ StopLive
    BY <1>9 DEF StartLive, StopLive, Begin, Enter, Stay, ctl, flt
  <1>10. ASSUME NEW done \in BOOLEAN, RequestCalibration(done)
         PROVE  LegalMove' /\ FaultFreeMove'
    BY <1>10 DEF RequestCalibration, Begin, Enter, flt
  <1>11. CASE StartTeachIn \/ AbortTeachIn
    BY <1>11 DEF StartTeachIn, AbortTeachIn, Begin, Enter
  <1>12. ASSUME lock = "free", DispatchNotReady PROVE LegalMove' /\ FaultFreeMove'
    BY <1>12 DEF DispatchNotReady, Enter, Stay, ctl
  <1>13. ASSUME NEW c \in Faults, SignalNotReady(c)
         PROVE  LegalMove' /\ FaultFreeMove'
    BY <1>12, <1>13 DEF SignalNotReady, Begin
  <1>14. CASE SignalNotReadyNone
    <2>1. CASE rel # {}
      BY <1>12, <1>14, <2>1 DEF SignalNotReadyNone, Begin
    <2>2. CASE rel = {}
      BY <1>14, <2>2 DEF SignalNotReadyNone, Stay, ctl
    <2> QED BY <2>1, <2>2
  <1>15. ASSUME NEW c \in Faults, SignalReady(c)
         PROVE  LegalMove' /\ FaultFreeMove'
    BY <1>15 DEF SignalReady, Begin, Enter, Stay, ctl
  <1>16. CASE QuitSystemFault
    BY <1>16 DEF QuitSystemFault, Begin, Enter
  <1>17. CASE EmergencyStop
    BY <1>17 DEF EmergencyStop, Enter, Stay, ctl, flt
  <1>18. CASE ResetEmergencyStop
    BY <1>18 DEF ResetEmergencyStop, AfterEmergency, Enter, Stay, ctl, flt
  <1>19. CASE DbCheck
    BY <1>19 DEF DbCheck, flt
  <1>20. CASE UpdateLiveMode
    BY <1>20 DEF UpdateLiveMode, Enter, Stay, ctl, flt
  <1> QED
    BY <1>0, <1>1, <1>2, <1>3, <1>4, <1>5, <1>6, <1>7, <1>8, <1>9, <1>10, <1>11,
       <1>13, <1>14, <1>15, <1>16, <1>17, <1>18, <1>19, <1>20, NextCases

(***************************************************************************)
(* The events of the emergency stop.                                       *)
(***************************************************************************)
LEMMA LastOfAppend ==
    ASSUME NEW S, NEW q \in Seq(S), NEW e \in S
    PROVE  Append(q, e) # <<>> /\ Append(q, e)[Len(Append(q, e))] = e
  <1>1. Len(Append(q, e)) = Len(q) + 1
    OBVIOUS
  <1> QED BY <1>1

LEMMA LastOfTail ==
    ASSUME NEW S, NEW q \in Seq(S), q # <<>>
    PROVE  /\ Tail(q) # <<>> => Tail(q)[Len(Tail(q))] = q[Len(q)]
           /\ Tail(q) = <<>> => Head(q) = q[Len(q)]
  <1>1. Len(q) \in Nat /\ Len(q) > 0 /\ Len(Tail(q)) = Len(q) - 1
    OBVIOUS
  <1>2. ASSUME Tail(q) # <<>> PROVE Tail(q)[Len(Tail(q))] = q[Len(q)]
    <2>1. Tail(q) \in Seq(S) /\ Len(Tail(q)) > 0
      BY <1>2
    <2> QED BY <1>1, <2>1
  <1>3. Len(q) - 1 = 0 => Head(q) = q[Len(q)]
    <2> SUFFICES ASSUME Len(q) = 1 PROVE Head(q) = q[Len(q)]
      BY <1>1
    <2> QED OBVIOUS
  <1>4. ASSUME Tail(q) = <<>> PROVE Head(q) = q[Len(q)]
    <2>1. Len(<<>>) = 0
      OBVIOUS
    <2>2. Len(Tail(q)) = 0
      BY <1>4, <2>1, Zenon
    <2> QED BY <1>1, <1>3, <2>2, Zenon
  <1> QED BY <1>2, <1>4

LEMMA EmergencyStep ==
    TypeOK /\ HandlerShape /\ LegalMove /\ EmergencyPending /\ [Next]_vars
        => EmergencyPending'
  <1> SUFFICES ASSUME TypeOK, HandlerShape, LegalMove, EmergencyPending, [Next]_vars
               PROVE  EmergencyPending'
    OBVIOUS
  <1> USE DEF EmergencyPending, InEmergency
  <1> state \in States /\ next \in States \cup {"none"} /\ estop \in BOOLEAN
      /\ estopQ \in Seq({"stop", "reset"})
    BY DEF TypeOK
  <1> lock = "free" => next = "none"
    BY DEF HandlerShape
  <1>0. CASE UNCHANGED vars
    BY <1>0 DEF vars, ctl, env
  <1>1. CASE TriggerEmergencyStop
    BY <1>1, LastOfAppend DEF TriggerEmergencyStop, ctl
  <1>2. ASSUME Aside, ~TriggerEmergencyStop PROVE EmergencyPending'
    <2>1. UNCHANGED <<estop, estopQ>>
      BY <1>2 DEF Aside, Start, PreStart, End, Info, InfoActivate, Edit, Setup,
                  ReadOperate, ReadNotReady, ReadLive, env
    <2> QED BY <1>2, <2>1, AsideStep DEF ctl
  <1>3. CASE TakeDbLock \/ RunDbCheck
    BY <1>3 DEF TakeDbLock, RunDbCheck, Release, env, HandlerShape
  <1>4. CASE RunStartAuto
    BY <1>4 DEF RunStartAuto, Enter, Release, ctl, env, HandlerShape
  <1>5. CASE Construct
    BY <1>5 DEF Construct, env
  <1>6. CASE Assign
    BY <1>6 DEF Assign, Release, HandlerShape, LegalMove, ModeOf, Station!Moves, env
  <1>7. CASE Initialize \/ Exit
    BY <1>7 DEF Initialize, Exit, Begin, Enter, FirstState, env
  <1>8. ASSUME NEW p \in Products \cup {NoProduct}, StartAuto(p)
        PROVE  EmergencyPending'
    BY <1>8 DEF StartAuto, env
  <1>9. CASE StopAuto
    BY <1>9 DEF StopAuto, Begin, Enter, env
  <1>10. CASE StartLive \/ StopLive
    BY <1>10 DEF StartLive, StopLive, Begin, Enter, Stay, ctl, env
  <1>11. ASSUME NEW done \in BOOLEAN, RequestCalibration(done)
         PROVE  EmergencyPending'
    BY <1>11 DEF RequestCalibration, Begin, Enter, env
  <1>12. CASE StartTeachIn \/ AbortTeachIn
    BY <1>12 DEF StartTeachIn, AbortTeachIn, Begin, Enter, env
  <1>13. ASSUME lock = "free", DispatchNotReady, UNCHANGED <<estop, estopQ>>
         PROVE  EmergencyPending'
    BY <1>13 DEF DispatchNotReady, Enter, Stay, ctl
  <1>14. ASSUME NEW c \in Faults, SignalNotReady(c)
         PROVE  EmergencyPending'
    BY <1>13, <1>14 DEF SignalNotReady, Begin
  <1>15. CASE SignalNotReadyNone
    <2>1. CASE rel # {}
      BY <1>13, <1>15, <2>1 DEF SignalNotReadyNone, Begin, env
    <2>2. CASE rel = {}
      BY <1>15, <2>2 DEF SignalNotReadyNone, Stay, ctl, env
    <2> QED BY <2>1, <2>2
  <1>16. ASSUME NEW c \in Faults, SignalReady(c)
         PROVE  EmergencyPending'
    BY <1>16 DEF SignalReady, Begin, Enter, Stay, ctl
  <1>17. CASE QuitSystemFault
    BY <1>17 DEF QuitSystemFault, Begin, Enter, env
  <1>18. CASE EmergencyStop
    <2>1. /\ lock = "free" /\ estopQ # <<>> /\ Head(estopQ) = "stop"
          /\ estopQ' = Tail(estopQ) /\ estop' = estop
      BY <1>18 DEF EmergencyStop
    <2>2. \/ next' = "eEmergencyStop" /\ state' = state
          \/ state' = state /\ next' = next
             /\ state \in {"eInit", "eShutdown", "eEmergencyStop", "eUpdateLiveMode"}
      BY <1>18 DEF EmergencyStop, Enter, Stay, ctl
    <2>3. state # "eUpdateLiveMode"
      BY <2>1 DEF HandlerShape
    <2>4. /\ Tail(estopQ) # <<>> =>
               Tail(estopQ)[Len(Tail(estopQ))] = estopQ[Len(estopQ)]
          /\ Tail(estopQ) = <<>> => Head(estopQ) = estopQ[Len(estopQ)]
      BY <2>1, LastOfTail
    <2> QED BY <2>1, <2>2, <2>3, <2>4
  <1>19. CASE ResetEmergencyStop
    BY <1>19, LastOfTail DEF ResetEmergencyStop, AfterEmergency, Enter, Stay, ctl
  <1>20. CASE DbCheck
    BY <1>20 DEF DbCheck, env
  <1>21. CASE UpdateLiveMode
    BY <1>21 DEF UpdateLiveMode, Enter, Stay, ctl, env
  <1> QED
    BY <1>0, <1>1, <1>2, <1>3, <1>4, <1>5, <1>6, <1>7, <1>8, <1>9, <1>10, <1>11,
       <1>12, <1>14, <1>15, <1>16, <1>17, <1>18, <1>19, <1>20, <1>21, NextCases

(***************************************************************************)
(* The inductive invariant and the theorems.                               *)
(***************************************************************************)
LEMMA IInvInit == Init => IInv
  <1> SUFFICES ASSUME Init PROVE IInv
    OBVIOUS
  <1>1. HandlerShape /\ LockOrder /\ LegalMove /\ FaultFreeMove
    BY DEF Init, HandlerShape, LockOrder, LegalMove, FaultFreeMove
  <1>2. EmergencyPending
    BY DEF Init, EmergencyPending, InEmergency
  <1> QED BY <1>1, <1>2, TypeInit DEF IInv

LEMMA IInvStep == IInv /\ [Next]_vars => IInv'
  BY TypeStep, ShapeStep, MoveStep, EmergencyStep DEF IInv

\* Every reachable state of the station satisfies the inductive invariant.
THEOREM Invariance == Spec => []IInv
  BY IInvInit, IInvStep, PTL DEF Spec

\* Every variable keeps its type.
THEOREM TypeCorrect == Spec => []TypeOK
  <1>1. IInv => TypeOK
    BY DEF IInv
  <1> QED BY <1>1, Invariance, PTL

\* m_oDbChangesMutex is only ever held inside m_oLock.
THEOREM LocksOrdered == Spec => []LockOrder
  <1>1. IInv => LockOrder
    BY DEF IInv
  <1> QED BY <1>1, Invariance, PTL

\* No emergency stop is lost, however its events and initialize interleave.
THEOREM EmergencySafe == Spec => []EmergencyDelivered
  <1>1. IInv => EmergencyDelivered
    BY DEF IInv, TypeOK, HandlerShape, EmergencyPending, InEmergency,
           EmergencyDelivered, Quiescent
  <1> QED BY <1>1, Invariance, PTL

\* Only the assignment at the end of changeState is visible to the clients.
LEMMA OnlyAssignMoves == Next /\ ~Assign => state' = state
  BY NextCases, AsideStep
  DEF TakeDbLock, RunDbCheck, RunStartAuto, Construct, Initialize, Exit,
      StartAuto, StopAuto, StartLive, StopLive, RequestCalibration,
      StartTeachIn, AbortTeachIn, SignalNotReady, SignalNotReadyNone,
      DispatchNotReady, SignalReady, QuitSystemFault, EmergencyStop,
      ResetEmergencyStop, DbCheck, UpdateLiveMode, Enter, Stay, Release, ctl

\* The station goes back to Operate only without a recorded fault.
THEOREM FaultsAcknowledged == Spec => OperateFaultFree
  <1>1. IInv /\ [Next]_vars
           => [(state \in {"eNotReady", "eEmergencyStop"} /\ state' = "eOperate")
                 => (rel = {})]_vars
    <2> SUFFICES ASSUME IInv, Next, state \in {"eNotReady", "eEmergencyStop"},
                        state' = "eOperate"
                 PROVE  rel = {}
      OBVIOUS
    <2>1. CASE Assign
      BY <2>1 DEF Assign, IInv, FaultFreeMove
    <2>2. CASE ~Assign
      BY <2>2, OnlyAssignMoves
    <2> QED BY <2>1, <2>2
  <1> QED BY <1>1, Invariance, PTL DEF Spec, OperateFaultFree

\* The workflow implements the abstract station: every step is a move of the
\* operating mode or does not change it.
THEOREM StationImplemented == Spec => ImplementsStationModes
  <1>1. Init => Station!ModeInit
    BY DEF Init, Station!ModeInit, StationMode, ModeOf
  <1>2. IInv /\ [Next]_vars => [Station!ModeNext]_StationMode
    <2> SUFFICES ASSUME IInv, [Next]_vars, StationMode' # StationMode
                 PROVE  Station!ModeNext
      OBVIOUS
    <2>1. state' # state
      BY DEF StationMode
    <2>2. Next /\ Assign
      BY <2>1, OnlyAssignMoves DEF vars, ctl
    <2>3. next \in States /\ state' = next
      BY <2>2 DEF Assign, IInv, TypeOK, HandlerShape
    <2>4. StationMode = ModeOf(state) /\ StationMode' = ModeOf(next)
      BY <2>3 DEF StationMode
    <2>5. <<StationMode, StationMode'>> \in Station!Moves
      BY <2>3, <2>4 DEF IInv, LegalMove, States
    <2>6. StationMode' \in Station!Modes
      BY <2>4 DEF ModeOf, Station!Modes
    <2> QED BY <2>5, <2>6 DEF Station!ModeNext, Station!Move
  <1> QED
    BY <1>1, <1>2, Invariance, PTL
    DEF Spec, ImplementsStationModes, Station!ModeSpec

\* A fault signalled to a working station is never taken for a backup request.
THEOREM FaultsReported == Spec => BackupNeverMasksFault
  <1>1. TypeOK /\ [Next]_vars
           => [\A c \in faulty' \ faulty :
                 state \in {"eOperate", "eLiveMode"}
                 \/ (state \in {"eAutomaticMode", "eProductTeachIn"}
                     /\ rel' # {ExtEquipment})
                    => next' = "eNotReady"]_vars
    <2> SUFFICES ASSUME TypeOK, Next, NEW c \in faulty' \ faulty,
                        state \in {"eOperate", "eLiveMode"}
                        \/ (state \in {"eAutomaticMode", "eProductTeachIn"}
                            /\ rel' # {ExtEquipment})
                 PROVE  next' = "eNotReady"
      OBVIOUS
    <2>1. ASSUME Aside PROVE faulty' = faulty
      BY <2>1 DEF Aside, Start, PreStart, End, Info, InfoActivate, Edit, Setup,
                  TriggerEmergencyStop, ReadOperate, ReadNotReady, ReadLive, env
    <2>2. \E d \in Faults : SignalNotReady(d)
      BY <2>1, NextCases
      DEF TakeDbLock, RunDbCheck, RunStartAuto, Construct, Assign, Initialize, Exit,
          StartAuto, StopAuto, StartLive, StopLive, RequestCalibration,
          StartTeachIn, AbortTeachIn, SignalNotReadyNone, SignalReady,
          QuitSystemFault, EmergencyStop, ResetEmergencyStop, DbCheck,
          UpdateLiveMode, env
    <2> QED
      BY <2>2 DEF SignalNotReady, DispatchNotReady, OnlyBackup, Enter
  <1> QED BY <1>1, TypeCorrect, PTL DEF Spec, BackupNeverMasksFault

(***************************************************************************)
(* Changes of the data base.                                               *)
(***************************************************************************)
\* In Operate the db thread is on its way to dbCheck with what was noted, unless
\* that was overtaken; so it is when the dbCheck of a new Operate is over.
Checked ==
    (\/ state = "eOperate" /\ dbPc \notin {"isOperate", "check"}
     \/ phase = "built" /\ next = "eOperate")
        => pending \subseteq overtaken

LEMMA CheckedStep ==
    ASSUME TypeOK, HandlerShape, Checked, [Next]_vars
    PROVE  Checked'
  <1> USE DEF Checked
  <1>0. im \in ImType
    BY DEF TypeOK
  <1>1. CASE UNCHANGED vars
    BY <1>1 DEF vars, ctl, dbs
  <1>2. CASE Start(TRUE) \/ Start(FALSE) \/ PreStart(TRUE) \/ PreStart(FALSE) \/ End \/ Info
             \/ InfoActivate(TRUE) \/ InfoActivate(FALSE) \/ TriggerEmergencyStop
    BY <1>2 DEF Start, PreStart, End, Stay, Info, InfoActivate, TriggerEmergencyStop, ctl, dbs
  <1>3. ASSUME NEW c \in Changes, Edit(c) PROVE Checked'
    BY <1>3 DEF Edit, ctl
  <1>4. ASSUME NEW c \in Changes, Setup(c) PROVE Checked'
    <2>1. /\ UNCHANGED ctl /\ dbPc' = "isOperate" /\ pending' = pending \cup {c}
          /\ phase = "built" /\ next = "eOperate" => overtaken' = overtaken \cup {c}
      BY <1>4 DEF Setup
    <2>2. QED BY <2>1 DEF ctl
  <1>5. CASE ReadOperate \/ ReadNotReady \/ ReadLive
    BY <1>5 DEF ReadOperate, ReadNotReady, ReadLive, ctl
  <1>6. CASE RunDbCheck
    <2>1. pending' = {}
      BY <1>0, <1>6, ChangesType DEF RunDbCheck
    <2>2. QED BY <2>1
  <1>7. CASE Construct
    <2>1. CASE next = "eOperate"
      <3>1. pending' = {}
        BY <1>0, <1>7, <2>1, ChangesType DEF Construct
      <3>2. QED BY <3>1
    <2>2. CASE next # "eOperate"
      <3>1. UNCHANGED <<state, next, dbPc>>
        BY <1>7 DEF Construct
      <3>2. UNCHANGED <<pending, overtaken>> \/ pending' = {}
        <4>1. \/ UNCHANGED <<pending, overtaken>>
              \/ ApplyChanges(StopLiveMode(StopInspect(im)))
          BY <1>7, <2>2 DEF Construct
        <4>2. QED BY <1>0, <4>1, ChangesType, StopBothType
      <3>3. QED BY <2>2, <3>1, <3>2
    <2>3. QED BY <2>1, <2>2
  <1>8. CASE Assign
    <2>1. /\ phase = "built" /\ state' = next /\ UNCHANGED dbs
          /\ phase' # "built"
      BY <1>8 DEF Assign, Release
    <2>2. QED BY <2>1 DEF dbs
  <1>9. CASE TakeDbLock \/ RunStartAuto \/ DbCheck
    <2>1. UNCHANGED <<state, dbs>> /\ phase' # "built"
      BY <1>9 DEF TakeDbLock, RunStartAuto, DbCheck, Enter, Release, ctl
    <2>2. QED BY <2>1 DEF dbs
  <1>10. CASE UpdateLiveMode
    <2>1. /\ UNCHANGED <<state, pending, overtaken>> /\ dbPc = "update"
          /\ phase' # "built" \/ UNCHANGED <<phase, next>>
      BY <1>10 DEF UpdateLiveMode, Enter, Stay, ctl
    <2>2. QED BY <2>1
  <1>11. ASSUME NEW p \in Products \cup {NoProduct}, StartAuto(p) PROVE Checked'
    BY <1>11 DEF StartAuto, dbs
  <1>12. CASE Initialize \/ Exit \/ StopAuto \/ StartLive \/ StopLive \/ StartTeachIn \/ AbortTeachIn
    BY <1>12 DEF Initialize, Exit, StopAuto, StartLive, StopLive, StartTeachIn, AbortTeachIn,
                 Enter, Stay, ctl, dbs
  <1>13. ASSUME NEW done \in BOOLEAN, RequestCalibration(done) PROVE Checked'
    BY <1>13 DEF RequestCalibration, Enter, dbs
  <1>14. CASE \/ \E c \in Faults : SignalNotReady(c) \/ SignalReady(c)
              \/ SignalNotReadyNone \/ QuitSystemFault \/ EmergencyStop \/ ResetEmergencyStop
    <2>1. UNCHANGED <<state, dbs>> /\ (phase' # "built" \/ UNCHANGED <<phase, next>>)
      BY <1>14 DEF SignalNotReady, SignalNotReadyNone, DispatchNotReady, SignalReady,
                   QuitSystemFault, EmergencyStop, ResetEmergencyStop, Enter, Stay, ctl
    <2>2. QED BY <2>1 DEF dbs
  <1>15. QED
    <2>1. \A f \in BOOLEAN : f = TRUE \/ f = FALSE
      OBVIOUS
    <2>2. CASE Aside
      BY <1>2, <1>3, <1>4, <1>5, <2>1, <2>2 DEF Aside
    <2>3. QED
      BY <1>1, <1>6, <1>7, <1>8, <1>9, <1>10, <1>11, <1>12, <1>13, <1>14, <2>2, NextCases

\* A station that is ready has loaded what was changed, but for the changes that
\* were noted while it became ready, after its dbCheck (setupProduct,
\* setupFilterParameter, dbCheck, changeState).
THEOREM ReadyStationChecked == Spec => []ReadyButOvertaken
  <1>1. Init => Checked
    BY DEF Init, Checked
  <1>2. IInv /\ Checked /\ [Next]_vars => Checked'
    BY CheckedStep DEF IInv
  <1>3. Checked => ReadyButOvertaken
    BY DEF Checked, ReadyButOvertaken
  <1>4. QED BY <1>1, <1>2, <1>3, Invariance, PTL DEF Spec

(***************************************************************************)
(* What NotReady reports.                                                  *)
(***************************************************************************)
\* The outputs tell of the recorded faults while NotReady rests, and from its
\* constructor on.
Reported ==
    \/ state = "eNotReady" /\ next = "none"
    \/ next = "eNotReady" /\ phase = "built"
    => ~ready /\ errField = rel

LEMMA ReportedStep ==
    ASSUME "signalNotReadyNone" \notin Requests, HandlerShape, Reported, [Next]_vars
    PROVE  Reported'
  <1> USE DEF Reported, HandlerShape
  <1>0. CASE UNCHANGED vars
    BY <1>0 DEF vars, ctl, flt
  <1>1. CASE Aside
    <2>1. UNCHANGED <<ctl, flt>>
      BY <1>1 DEF Aside, Start, PreStart, End, Stay, Info, InfoActivate, Edit, Setup,
         TriggerEmergencyStop, ReadOperate, ReadNotReady, ReadLive
    <2> QED BY <2>1 DEF ctl, flt
  <1>2. CASE TakeDbLock \/ RunDbCheck
    BY <1>2 DEF TakeDbLock, RunDbCheck, Release, flt
  <1>3. CASE RunStartAuto
    BY <1>3 DEF RunStartAuto, Enter, Release, ctl, flt
  <1>4. CASE Construct
    BY <1>4 DEF Construct, Report, flt
  <1>5. CASE Assign
    BY <1>5 DEF Assign, Release, flt
  <1>6. CASE Initialize \/ Exit
    BY <1>6 DEF Initialize, Exit, Begin, Enter, FirstState, flt
  <1>7. ASSUME NEW p \in Products \cup {NoProduct}, StartAuto(p) PROVE Reported'
    BY <1>7 DEF StartAuto, flt
  <1>8. CASE StopAuto
    BY <1>8 DEF StopAuto, Begin, Enter, flt
  <1>9. CASE StartLive \/ StopLive
    BY <1>9 DEF StartLive, StopLive, Begin, Enter, Stay, ctl, flt
  <1>10. ASSUME NEW done \in BOOLEAN, RequestCalibration(done) PROVE Reported'
    BY <1>10 DEF RequestCalibration, Begin, Enter, flt
  <1>11. CASE StartTeachIn \/ AbortTeachIn
    BY <1>11 DEF StartTeachIn, AbortTeachIn, Begin, Enter, flt
  <1>12. ASSUME NEW c \in Faults, SignalNotReady(c) PROVE Reported'
    BY <1>12 DEF SignalNotReady, DispatchNotReady, Report, Begin, Enter, Stay, ctl
  <1>13. CASE SignalNotReadyNone
    BY <1>13 DEF SignalNotReadyNone, Begin
  <1>14. ASSUME NEW c \in Faults, SignalReady(c) PROVE Reported'
    BY <1>14 DEF SignalReady, Report, Begin, Enter, Stay, ctl
  <1>15. CASE QuitSystemFault
    BY <1>15 DEF QuitSystemFault, Begin, Enter
  <1>16. CASE EmergencyStop
    BY <1>16 DEF EmergencyStop, Enter, Stay, ctl, flt
  <1>17. CASE ResetEmergencyStop
    BY <1>17 DEF ResetEmergencyStop, AfterEmergency, Enter, Stay, ctl, flt
  <1>18. CASE DbCheck
    BY <1>18 DEF DbCheck, flt
  <1>19. CASE UpdateLiveMode
    BY <1>19 DEF UpdateLiveMode, Enter, Stay, ctl, flt
  <1> QED
    BY <1>0, <1>1, <1>2, <1>3, <1>4, <1>5, <1>6, <1>7, <1>8, <1>9, <1>10, <1>11,
       <1>12, <1>13, <1>14, <1>15, <1>16, <1>17, <1>18, <1>19, NextCases

\* In NotReady the outputs hold exactly the recorded faults, if nothing is
\* logged as fatal without an error code.
THEOREM FaultsShown ==
    "signalNotReadyNone" \notin Requests => (Spec => []NotReadyReported)
  <1> SUFFICES ASSUME "signalNotReadyNone" \notin Requests PROVE Spec => []NotReadyReported
    OBVIOUS
  <1>1. Init => Reported
    BY DEF Init, Reported
  <1>2. IInv /\ Reported /\ [Next]_vars => Reported'
    BY ReportedStep DEF IInv
  <1>3. IInv /\ Reported => NotReadyReported
    BY DEF IInv, HandlerShape, Reported, NotReadyReported, Quiescent
  <1> QED BY <1>1, <1>2, <1>3, Invariance, PTL DEF Spec

(***************************************************************************)
(* The InspectManager follows the workflow.                                *)
(***************************************************************************)
FollowsAtRest ==
    /\ im.mode = state \/ (state = "eProductTeachIn" /\ im.mode = "eAutomaticMode")
    /\ state = "eAutomaticMode" => im.active # NoProduct
    /\ im.active # NoProduct => state \in {"eAutomaticMode", "eLiveMode"}

\* While a state is built: the two inspecting states have their product, and
\* every other one begins without.
FollowsMoving ==
    /\ im.mode = next
    /\ next \in {"eAutomaticMode", "eLiveMode"} => im.active # NoProduct
    /\ next \notin {"eAutomaticMode", "eLiveMode", "eUpdateLiveMode"}
       \/ (next = "eUpdateLiveMode" /\ phase = "built")
          => im.active = NoProduct

Following ==
    ~im.dead =>
        /\ im.graph => im.active # NoProduct
        /\ IF next = "none" THEN FollowsAtRest ELSE FollowsMoving

\* A product that is stopped is no longer active and runs no graph.
LEMMA StopEffect ==
    ASSUME NEW m \in ImType, NEW r, r = StopLiveMode(StopInspect(m)), ~r.dead
    PROVE  r \in ImType /\ r.active = NoProduct /\ ~r.graph /\ r.mode = m.mode
  BY DEF StopLiveMode, StopInspect, Die, ImType

\* What a seam does to the InspectManager changes neither mode nor product.
LEMMA SeamEffect ==
    ASSUME NEW m \in ImType, NEW found \in BOOLEAN,
           NEW r \in {StopInspect(m), SeamPreStart(m, found), StartInspect(m, found),
                      ActivateSeamSeries(m, found), Die(m)}
    PROVE  /\ r \in ImType
           /\ r.mode = m.mode /\ r.active = m.active
           /\ m.dead => r.dead
           /\ r.graph => m.graph \/ r.active # NoProduct
  BY DEF StopInspect, SeamPreStart, StartInspect, ActivateSeamSeries, Die, ImType

LEMMA BeginEffect ==
    ASSUME NEW m \in ImType, NEW found \in BOOLEAN
    PROVE  LET r == BeginInspect(m, found) IN
           /\ r \in ImType
           /\ r.mode = m.mode /\ r.active = m.active
           /\ m.dead => r.dead
           /\ r.graph => m.graph \/ r.active # NoProduct
  <1> DEFINE a == StartInspect(m, found)
             b == StopInspect(a)
  <1>1. /\ a \in ImType /\ a.mode = m.mode /\ a.active = m.active /\ (m.dead => a.dead)
        /\ a.graph => m.graph \/ a.active # NoProduct
    BY SeamEffect
  <1>2. /\ b \in ImType /\ b.mode = a.mode /\ b.active = a.active /\ (a.dead => b.dead)
        /\ b.graph => a.graph \/ b.active # NoProduct
    BY <1>1, SeamEffect
  <1>3. BeginInspect(m, found) \in {a, b} BY DEF BeginInspect
  <1> HIDE DEF a, b
  <1> QED BY <1>1, <1>2, <1>3

\* A product that is activated is active; the mode is set by changeState.
LEMMA SetEffect ==
    ASSUME NEW m \in ImType, NEW p \in Products, NEW s \in States
    PROVE  /\ Activate(m, p).active = p /\ Activate(m, p).graph = m.graph
           /\ Activate(m, p).dead = m.dead /\ Activate(m, p).mode = m.mode
           /\ SetState(m, s).mode = s /\ SetState(m, s).active = m.active
           /\ SetState(m, s).graph = m.graph /\ SetState(m, s).dead = m.dead
           /\ SetState(m, s).series = m.series /\ SetState(m, s).seam = m.seam
           /\ Activate(m, p).series = m.series /\ Activate(m, p).seam = m.seam
  BY DEF Activate, SetState, ImType

LEMMA ChangeEffect ==
    ASSUME NEW m \in ImType, NEW ps
    PROVE  LET r == ChangeProducts(m, ps) IN
           /\ r.mode = m.mode /\ r.active = m.active /\ r.graph = m.graph
           /\ r.dead = m.dead /\ r.series = m.series /\ r.seam = m.seam
  BY DEF ChangeProducts, ImType

\* A handler that enters the state s with the InspectManager m.
LEMMA EnterFollows ==
    ASSUME NEW t, NEW k, NEW m \in ImType, NEW s \in States, Enter(t, m, s, k),
           ~m.dead => /\ m.graph => m.active # NoProduct
                      /\ s \in {"eAutomaticMode", "eLiveMode"} => m.active # NoProduct
                      /\ s \in {"eAutomaticMode", "eLiveMode", "eUpdateLiveMode"}
                         \/ m.active = NoProduct
    PROVE  Following'
  <1>1. im' = SetState(m, s) /\ next' = s /\ phase' = "ctor" BY DEF Enter
  <1>2. /\ im'.mode = s /\ im'.active = m.active /\ im'.graph = m.graph /\ im'.dead = m.dead
    BY <1>1, SetEffect, WorkflowAssumption
  <1>3. "none" \notin States BY DEF States
  <1> QED BY <1>1, <1>2, <1>3 DEF Following, FollowsMoving

LEMMA FollowsStep ==
    ASSUME IInv, Following, [Next]_vars PROVE Following'
  <1> USE DEF HandlerShape
  <1>a. TypeOK /\ HandlerShape BY DEF IInv
  <1>b. im \in ImType /\ next \in States \cup {"none"} /\ state \in States
        /\ arg \in Products \cup {NoProduct}
    BY <1>a DEF TypeOK
  <1>c. "none" \notin States /\ NoProduct \notin Products /\ Default \in Products
    BY WorkflowAssumption DEF States
  <1>d. lock = "free" \/ phase \in {"dbLock", "run"} => next = "none" BY <1>a
  <1>0. CASE UNCHANGED vars
    BY <1>0 DEF vars, ctl, Following, FollowsAtRest, FollowsMoving
  <1> SUFFICES ASSUME Next PROVE Following'
    BY <1>0
  <1>e. ~im.dead BY DEF Next
  <1>f. /\ im.graph => im.active # NoProduct
        /\ next = "none" => FollowsAtRest
        /\ next # "none" => FollowsMoving
    BY <1>e DEF Following
  <1>g. ASSUME UNCHANGED ctl,
               im' \in ImType, im'.dead \/ (im'.mode = im.mode /\ im'.active = im.active),
               im'.dead \/ (im'.graph => im.graph \/ im'.active # NoProduct)
        PROVE  Following'
    BY <1>f, <1>g DEF ctl, Following, FollowsAtRest, FollowsMoving
  <1>1. CASE Aside
    <2>1. UNCHANGED ctl BY <1>1, AsideStep
    <2>2. \/ im' = im
          \/ \E found \in BOOLEAN :
                \/ im' = BeginInspect(im, found)
                \/ im' \in {StopInspect(im), SeamPreStart(im, found), Die(im),
                            ActivateSeamSeries(im, found)}
      BY <1>1 DEF Aside, Start, PreStart, End, Stay, Info, InfoActivate, Edit, Setup,
         TriggerEmergencyStop, ReadOperate, ReadNotReady, ReadLive
    <2>3. CASE im' = im BY <1>b, <1>g, <2>1, <2>3
    <2>4. ASSUME NEW found \in BOOLEAN, im' = BeginInspect(im, found) PROVE Following'
      BY <1>b, <1>g, <2>1, <2>4, BeginEffect
    <2>5. ASSUME NEW found \in BOOLEAN,
                 im' \in {StopInspect(im), SeamPreStart(im, found), Die(im),
                          ActivateSeamSeries(im, found)}
          PROVE  Following'
      BY <1>b, <1>g, <2>1, <2>5, SeamEffect
    <2> QED BY <2>2, <2>3, <2>4, <2>5
  <1>2. CASE TakeDbLock \/ RunDbCheck
    <2>1. im'.mode = im.mode /\ im'.active = im.active /\ im'.graph = im.graph
      BY <1>2, <1>b, ChangeEffect DEF TakeDbLock, RunDbCheck, ApplyChanges
    <2>2. next = "none" /\ next' = "none" /\ state' = state
      BY <1>2, <1>a DEF TakeDbLock, RunDbCheck, Release
    <2> QED BY <1>f, <2>1, <2>2 DEF Following, FollowsAtRest
  <1>3. CASE RunStartAuto
    <2>0. next = "none" /\ phase = "run" BY <1>3, <1>a DEF RunStartAuto
    <2>1. CASE state = "eOperate" /\ arg # NoProduct
      <3>1. Enter(lock, Activate(im, arg), "eAutomaticMode", "done")
        BY <1>3, <2>1 DEF RunStartAuto
      <3>2. arg \in Products BY <1>b, <2>1
      <3>3. /\ Activate(im, arg) \in ImType /\ Activate(im, arg).active # NoProduct
        BY <1>b, <1>c, <3>2, ActivateType, SetEffect DEF States
      <3> QED BY <3>1, <3>3, EnterFollows DEF States
    <2>2. CASE state = "eLiveMode" /\ rel = {}
      <3>1. Enter(lock, StopLiveMode(StopInspect(im)), "eOperate", "auto")
        BY <1>3, <2>2 DEF RunStartAuto
      <3> QED BY <1>b, <3>1, StopEffect, StopBothType, EnterFollows DEF States
    <2>3. CASE state = "eLiveMode" /\ rel # {}
      <3>1. im' = StopLiveMode(StopLiveMode(StopInspect(im)))
        BY <1>3, <2>3 DEF RunStartAuto
      <3>2. DEFINE m == StopLiveMode(StopInspect(im))
      <3>3. m \in ImType /\ (m.dead \/ m.active = NoProduct)
        BY <1>b, StopEffect, StopBothType
      <3> HIDE DEF m
      <3>4. StopLiveMode(m).dead BY <3>3 DEF StopLiveMode, Die, ImType
      <3> QED BY <3>1, <3>4 DEF m, Following
    <2>4. CASE state = "eProductTeachIn"
      <3>1. im' = SetState(im, "eAutomaticMode") /\ next' = "none" /\ state' = state
        BY <1>3, <2>4 DEF RunStartAuto, Release
      <3>2. im'.mode = "eAutomaticMode" /\ im'.active = im.active /\ im'.graph = im.graph
        BY <1>b, <1>c, <3>1, SetEffect DEF States
      <3> QED BY <1>f, <2>0, <2>4, <3>1, <3>2 DEF Following, FollowsAtRest
    <2>5. CASE state \notin {"eLiveMode", "eProductTeachIn"}
               /\ ~(state = "eOperate" /\ arg # NoProduct)
      <3>1. im' = im /\ next' = "none" /\ state' = state
        BY <1>3, <2>5 DEF RunStartAuto, Release
      <3> QED BY <1>f, <2>0, <3>1 DEF Following, FollowsAtRest
    <2> QED BY <2>1, <2>2, <2>3, <2>4, <2>5
  <1>4. CASE Construct
    <2>0. next # "none" /\ FollowsMoving /\ next' = next /\ phase' = "built"
      BY <1>4, <1>a, <1>f DEF Construct
    <2>1. CASE next = "eUpdateLiveMode"
      <3>1. PICK m \in ImType : m = StopLiveMode(StopInspect(im)) /\ ApplyChanges(m)
        BY <1>4, <1>b, <2>1, StopBothType DEF Construct
      <3>2. /\ im'.mode = m.mode /\ im'.active = m.active /\ im'.graph = m.graph
            /\ im'.dead = m.dead
        BY <3>1, ChangeEffect DEF ApplyChanges
      <3>3. ~m.dead => m.active = NoProduct /\ ~m.graph /\ m.mode = im.mode
        BY <1>b, <3>1, StopEffect
      <3> QED BY <2>0, <2>1, <3>2, <3>3 DEF Following, FollowsMoving
    <2>2. CASE next # "eUpdateLiveMode"
      <3>0. im' = im \/ im' = ChangeProducts(im, pending)
        BY <1>4, <2>2 DEF Construct, ApplyChanges
      <3>1. im'.mode = im.mode /\ im'.active = im.active /\ im'.graph = im.graph
        BY <1>b, <3>0, ChangeEffect
      <3> QED BY <1>f, <2>0, <2>2, <3>1 DEF Following, FollowsMoving
    <2> QED BY <2>1, <2>2
  <1>5. CASE Assign
    <2>0. next # "none" /\ FollowsMoving /\ phase = "built" /\ state' = next
      BY <1>5, <1>a, <1>f DEF Assign
    <2>1. CASE cont \in {"done", "auto"}
      <3>1. im' = im /\ next' = "none"
        BY <1>5, <2>1 DEF Assign, Release
      <3>2. next # "eUpdateLiveMode" BY <1>a, <2>1
      <3> QED BY <1>f, <2>0, <3>1, <3>2 DEF Following, FollowsMoving, FollowsAtRest
    <2>2. CASE cont = "calibrate"
      <3>1. PICK s \in {"eNotReady", "eOperate"} : im' = SetState(im, s) /\ next' = s
        BY <1>5, <2>2 DEF Assign
      <3>2. im'.mode = s /\ im'.active = im.active /\ im'.graph = im.graph
        BY <1>b, <1>c, <3>1, SetEffect DEF States
      <3>3. next = "eCalibrate" BY <1>a, <2>0, <2>2
      <3> QED BY <1>f, <2>0, <3>1, <3>2, <3>3 DEF Following, FollowsMoving
    <2>3. CASE cont = "live"
      <3>1. PICK series \in BOOLEAN, seam \in BOOLEAN :
               im' = BeginInspect(ActivateSeamSeries(im, series), seam)
        BY <1>5, <2>3 DEF Assign
      <3>2. next' = "none" /\ next = "eLiveMode"
        BY <1>5, <1>a, <2>0, <2>3 DEF Assign, Release
      <3>3. PICK m \in ImType : /\ m = ActivateSeamSeries(im, series)
                                /\ m.mode = im.mode /\ m.active = im.active
                                /\ m.graph => im.graph \/ m.active # NoProduct
        BY <1>b, SeamEffect
      <3>4. /\ im'.mode = im.mode /\ im'.active = im.active
            /\ im'.graph => m.graph \/ im'.active # NoProduct
        BY <3>1, <3>3, BeginEffect
      <3> QED BY <1>f, <2>0, <3>2, <3>3, <3>4 DEF Following, FollowsMoving, FollowsAtRest
    <2>4. CASE cont = "startLive"
      <3>1. im' = SetState(Activate(im, Default), "eLiveMode") /\ next' = "eLiveMode"
        BY <1>5, <2>4 DEF Assign
      <3>2. Activate(im, Default) \in ImType /\ Activate(im, Default).active = Default
        BY <1>b, <1>c, ActivateType, SetEffect DEF States
      <3>3. im'.mode = "eLiveMode" /\ im'.active = Default
        BY <1>c, <3>1, <3>2, SetEffect DEF States
      <3> QED BY <1>c, <3>1, <3>3 DEF Following, FollowsMoving
    <2> QED BY <1>5, <2>1, <2>2, <2>3, <2>4 DEF Assign
  <1>h. ASSUME lock = "free", NEW t, NEW k, NEW s \in States,
               state \notin {"eAutomaticMode", "eLiveMode"},
               s \notin {"eAutomaticMode", "eLiveMode"}, Enter(t, im, s, k)
        PROVE  Following'
    <2>1. im.active = NoProduct BY <1>d, <1>f, <1>h DEF FollowsAtRest
    <2> QED BY <1>b, <1>f, <1>h, <2>1, EnterFollows
  <1>i. ASSUME lock = "free", NEW t, NEW k, NEW s \in States,
               Enter(t, StopLiveMode(StopInspect(im)), s, k),
               s \notin {"eAutomaticMode", "eLiveMode"}
        PROVE  Following'
    BY <1>b, <1>i, StopEffect, StopBothType, EnterFollows
  <1>6. CASE Initialize \/ Exit
    BY <1>6, <1>h DEF Initialize, Exit, Begin, FirstState, States
  <1>7. ASSUME NEW p \in Products \cup {NoProduct}, StartAuto(p) PROVE Following'
    <2>1. next = "none" /\ next' = "none" /\ state' = state /\ im' = im
      BY <1>7, <1>d DEF StartAuto, Begin
    <2> QED BY <1>f, <2>1 DEF Following, FollowsAtRest
  <1>8. CASE StopAuto
    BY <1>8, <1>h, <1>i DEF StopAuto, Begin, StopAutomaticMode, States
  <1>9. CASE StartLive
    <2>1. Enter("cmd", Activate(im, Default), "eLiveMode", "live")
      BY <1>9 DEF StartLive
    <2>2. Activate(im, Default) \in ImType /\ Activate(im, Default).active = Default
      BY <1>b, <1>c, ActivateType, SetEffect DEF States
    <2> QED BY <1>c, <2>1, <2>2, EnterFollows DEF States
  <1>10. CASE StopLive
    <2>1. CASE Enter("cmd", StopLiveMode(StopInspect(im)), "eOperate", "done")
      BY <1>10, <1>i, <2>1 DEF StopLive, Begin, States
    <2>2. CASE Stay(StopLiveMode(StopInspect(im)))
      <3>1. lock = "free" /\ state = "eLiveMode" /\ next = "none"
        BY <1>10, <1>d DEF StopLive, Begin
      <3>2. im' = StopLiveMode(StopInspect(im)) /\ next' = next /\ state' = state
        BY <2>2 DEF Stay, ctl
      <3>3. ~im'.dead => im'.active = NoProduct /\ ~im'.graph /\ im'.mode = im.mode
        BY <1>b, <3>2, StopEffect
      <3> QED BY <1>f, <3>1, <3>2, <3>3 DEF Following, FollowsAtRest
    <2> QED BY <1>10, <2>1, <2>2 DEF StopLive
  <1>11. ASSUME NEW done \in BOOLEAN, RequestCalibration(done) PROVE Following'
    BY <1>11, <1>h DEF RequestCalibration, Begin, States
  <1>12. CASE StartTeachIn \/ AbortTeachIn
    BY <1>12, <1>h DEF StartTeachIn, AbortTeachIn, Begin, States
  <1>s. ASSUME Stay(im) PROVE Following'
    BY <1>b, <1>f, <1>s, <1>g DEF Stay
  <1>13. ASSUME lock = "free", DispatchNotReady PROVE Following'
    <2>1. CASE Stay(im) BY <1>s, <2>1
    <2>2. CASE ~Stay(im)
      <3>1. CASE state \in {"eAutomaticMode", "eLiveMode"}
        <4>1. Enter("cmd", StopLiveMode(StopInspect(im)), "eNotReady", "done")
          BY <1>13, <2>2, <3>1 DEF DispatchNotReady, StopAutomaticMode
        <4> QED BY <1>13, <1>i, <4>1 DEF States
      <3>2. CASE state \notin {"eAutomaticMode", "eLiveMode"}
        <4>1. Enter("cmd", im, "eNotReady", "done")
          BY <1>13, <2>2, <3>2 DEF DispatchNotReady
        <4> QED BY <1>13, <1>h, <3>2, <4>1 DEF States
      <3> QED BY <3>1, <3>2
    <2> QED BY <2>1, <2>2
  <1>14. ASSUME NEW c \in Faults, SignalNotReady(c) PROVE Following'
    BY <1>13, <1>14 DEF SignalNotReady, Begin
  <1>15. CASE SignalNotReadyNone
    BY <1>13, <1>15, <1>s DEF SignalNotReadyNone, Begin
  <1>16. ASSUME NEW c \in Faults, SignalReady(c) PROVE Following'
    BY <1>16, <1>h, <1>s DEF SignalReady, Begin, States
  <1>17. CASE QuitSystemFault
    BY <1>17, <1>h DEF QuitSystemFault, Begin, States
  <1>18. CASE EmergencyStop
    BY <1>18, <1>h, <1>i, <1>s DEF EmergencyStop, StopAutomaticMode, States
  <1>19. CASE ResetEmergencyStop
    BY <1>19, <1>h, <1>s DEF ResetEmergencyStop, AfterEmergency, States
  <1>20. CASE DbCheck
    <2>1. next = "none" /\ next' = "none" /\ state' = state /\ im' = im
      BY <1>20, <1>d DEF DbCheck
    <2> QED BY <1>f, <2>1 DEF Following, FollowsAtRest
  <1>21. CASE UpdateLiveMode
    <2>1. CASE Enter("db", im, "eUpdateLiveMode", "startLive")
      BY <1>b, <1>f, <2>1, EnterFollows DEF States
    <2> QED BY <1>21, <1>s, <2>1 DEF UpdateLiveMode
  <1> QED
    BY <1>1, <1>2, <1>3, <1>4, <1>5, <1>6, <1>7, <1>8, <1>9, <1>10, <1>11, <1>12,
       <1>14, <1>15, <1>16, <1>17, <1>18, <1>19, <1>20, <1>21, NextCases

LEMMA AlwaysFollowing == Spec => [](IInv /\ Following)
  <1>1. Init => Following
    BY DEF Init, Following, FollowsAtRest
  <1>2. IInv /\ Following /\ [Next]_vars => Following'
    BY FollowsStep
  <1> QED BY <1>1, <1>2, Invariance, PTL DEF Spec

\* Whichever way a mode ends, the InspectManager is in the state of the
\* workflow and works with a product in the two inspecting states only.
THEOREM AnalyzerFollows == Spec => []InspectManagerFollows
  <1>1. IInv /\ Following => InspectManagerFollows
    BY DEF IInv, HandlerShape, Following, FollowsAtRest, InspectManagerFollows, Quiescent
  <1> QED BY <1>1, AlwaysFollowing, PTL

(***************************************************************************)
(* No request kills the process, if none of Crashing is made.              *)
(***************************************************************************)
\* The state the running handler leads to, and what is recorded on the way:
\* a working station has no fault but the request for a backup.
Coming == IF next = "none" THEN state ELSE next

FaultsKnown ==
    /\ Coming \in {"eInit", "eOperate", "eCalibrate", "eLiveMode", "eUpdateLiveMode"}
          => rel = {}
    /\ Coming \in {"eAutomaticMode", "eProductTeachIn"}
          => rel = {} \/ (rel = {ExtEquipment} /\ backup)
    /\ state = "eInit" => rel = {} /\ faulty = {}
    /\ next # "eInit"

LEMMA KnownStep ==
    ASSUME Requests \cap Crashing = {}, TypeOK, HandlerShape, FaultFreeMove,
           FaultsKnown, [Next /\ NoEarlyFault]_vars
    PROVE  FaultsKnown'
  <1> USE DEF FaultsKnown, Coming, HandlerShape
  <1>a. "none" \notin States /\ {"signalReady", "abortProductTeachInMode"} \cap Requests = {}
    BY DEF States, Crashing
  <1>b. state \in States /\ next \in States \cup {"none"} BY DEF TypeOK
  <1>c. lock = "free" => next = "none" OBVIOUS
  <1>0. CASE UNCHANGED vars
    BY <1>0 DEF vars, ctl, flt, env
  <1>1. CASE Aside
    <2>1. UNCHANGED <<ctl, flt, faulty>>
      BY <1>1 DEF Aside, Start, PreStart, End, Stay, Info, InfoActivate, Edit, Setup,
         TriggerEmergencyStop, ReadOperate, ReadNotReady, ReadLive, env
    <2> QED BY <2>1 DEF ctl, flt
  <1>2. CASE TakeDbLock \/ RunDbCheck
    BY <1>2 DEF TakeDbLock, RunDbCheck, Release, flt, env
  <1>3. CASE RunStartAuto
    BY <1>3, <1>a DEF RunStartAuto, Enter, Release, ctl, flt, env
  <1>4. CASE Construct
    BY <1>4 DEF Construct, flt, env
  <1>5. CASE Assign
    <2>1. UNCHANGED <<rel, backup, faulty>> /\ next # "none" /\ state' = next
      BY <1>5 DEF Assign, flt, env
    <2> QED BY <1>5, <1>a, <2>1 DEF Assign, Release
  <1>6. CASE Initialize \/ Exit
    BY <1>6 DEF Initialize, Exit, Begin, Enter, FirstState, flt, env
  <1>7. ASSUME NEW p \in Products \cup {NoProduct}, StartAuto(p) PROVE FaultsKnown'
    BY <1>7 DEF StartAuto, flt, env
  <1>8. CASE StopAuto
    BY <1>8, <1>a DEF StopAuto, Begin, Enter, flt, env
  <1>9. CASE StartLive \/ StopLive
    BY <1>9 DEF StartLive, StopLive, Begin, Enter, Stay, ctl, flt, env
  <1>10. ASSUME NEW done \in BOOLEAN, RequestCalibration(done) PROVE FaultsKnown'
    BY <1>10 DEF RequestCalibration, Begin, Enter, flt, env
  <1>11. CASE StartTeachIn
    BY <1>11 DEF StartTeachIn, Begin, Enter, flt, env
  <1>12. CASE AbortTeachIn
    BY <1>12, <1>a DEF AbortTeachIn, Begin
  <1>13. ASSUME lock = "free", state # "eInit", UNCHANGED <<infoAt>>, DispatchNotReady
         PROVE  FaultsKnown'
    BY <1>13, <1>a DEF DispatchNotReady, OnlyBackup, Enter, Stay, ctl
  <1>14. ASSUME NEW c \in Faults, SignalNotReady(c) PROVE FaultsKnown'
    <2>1. CASE UNCHANGED faulty
      BY <1>13, <1>14, <2>1 DEF SignalNotReady, Begin
    <2>2. CASE ~UNCHANGED faulty
      <3>1. state # "eInit" BY <2>2 DEF NoEarlyFault, vars, env
      <3> QED BY <1>13, <1>14, <3>1 DEF SignalNotReady, Begin
    <2> QED BY <2>1, <2>2
  <1>15. CASE SignalNotReadyNone
    <2>1. CASE rel = {}
      BY <1>15, <2>1 DEF SignalNotReadyNone, Stay, ctl, env
    <2>2. CASE rel # {}
      BY <1>13, <1>15, <2>2 DEF SignalNotReadyNone, Begin, env
    <2> QED BY <2>1, <2>2
  <1>16. ASSUME NEW c \in Faults, SignalReady(c) PROVE FaultsKnown'
    BY <1>16, <1>a DEF SignalReady, Begin
  <1>17. CASE QuitSystemFault
    BY <1>17 DEF QuitSystemFault, Begin, Enter, env
  <1>18. CASE EmergencyStop
    BY <1>18 DEF EmergencyStop, Enter, Stay, ctl, flt
  <1>19. CASE ResetEmergencyStop
    BY <1>19 DEF ResetEmergencyStop, AfterEmergency, Enter, Stay, ctl, flt
  <1>20. CASE DbCheck
    BY <1>20 DEF DbCheck, flt, env
  <1>21. CASE UpdateLiveMode
    BY <1>21 DEF UpdateLiveMode, Enter, Stay, ctl, flt, env
  <1> QED
    BY <1>0, <1>1, <1>2, <1>3, <1>4, <1>5, <1>6, <1>7, <1>8, <1>9, <1>10, <1>11,
       <1>12, <1>14, <1>15, <1>16, <1>17, <1>18, <1>19, <1>20, <1>21, NextCases

\* A graph runs only with what stopInspect dereferences.
Whole(m) == ~m.dead /\ (m.graph => m.active # NoProduct /\ m.series /\ m.seam)

LEMMA StopWhole ==
    ASSUME NEW m \in ImType, Whole(m)
    PROVE  /\ Whole(StopInspect(m)) /\ ~StopInspect(m).graph
           /\ StopInspect(m).active = m.active
           /\ m.active # NoProduct =>
                 /\ Whole(StopLiveMode(StopInspect(m)))
                 /\ ~StopLiveMode(StopInspect(m)).graph
  <1> DEFINE a == StopInspect(m)
  <1>1. a \in ImType /\ Whole(a) /\ ~a.graph /\ a.active = m.active
    BY DEF StopInspect, Whole, ImType
  <1> HIDE DEF a
  <1>2. a.active # NoProduct => Whole(StopLiveMode(a)) /\ ~StopLiveMode(a).graph
    BY <1>1 DEF StopLiveMode, Whole, ImType
  <1> QED BY <1>1, <1>2 DEF a

LEMMA SeamWhole ==
    ASSUME NEW m \in ImType, NEW found \in BOOLEAN, Whole(m)
    PROVE  Whole(SeamPreStart(m, found)) /\ Whole(StartInspect(m, found))
  BY DEF SeamPreStart, StartInspect, Whole, ImType

LEMMA BeginWhole ==
    ASSUME NEW m \in ImType, NEW found \in BOOLEAN, Whole(m)
    PROVE  Whole(BeginInspect(m, found))
  <1>1. StartInspect(m, found) \in ImType /\ Whole(StartInspect(m, found))
    BY SeamWhole, SeamEffect
  <1>2. Whole(StopInspect(StartInspect(m, found)))
    BY <1>1, StopWhole
  <1> QED BY <1>1, <1>2 DEF BeginInspect

LEMMA SeriesWhole ==
    ASSUME NEW m \in ImType, NEW found \in BOOLEAN, Whole(m), ~m.graph,
           m.active # NoProduct
    PROVE  Whole(ActivateSeamSeries(m, found))
  BY DEF ActivateSeamSeries, Whole, ImType

LEMMA SetWhole ==
    ASSUME NEW m \in ImType, NEW s \in States, Whole(m)
    PROVE  /\ Whole(SetState(m, s))
           /\ \A p \in Products : Whole(Activate(m, p))
           /\ \A ps : Whole(ChangeProducts(m, ps))
  <1>1. Whole(SetState(m, s)) BY SetEffect, WorkflowAssumption DEF Whole
  <1>2. ASSUME NEW p \in Products PROVE Whole(Activate(m, p))
    BY <1>2, SetEffect, WorkflowAssumption DEF Whole
  <1>3. ASSUME NEW ps PROVE Whole(ChangeProducts(m, ps))
    BY ChangeEffect DEF Whole
  <1> QED BY <1>1, <1>2, <1>3

\* What is dereferenced without a check is there: the InspectManager has its
\* product wherever live mode can be left, and no graph when it is entered.
Alive ==
    /\ Whole(im)
    /\ infoAt = "none"
    /\ state = "eLiveMode" /\ next = "none" => im.active # NoProduct
    /\ next = "eUpdateLiveMode" /\ phase = "ctor" => im.active # NoProduct
    /\ next = "eLiveMode" => ~im.graph

LEMMA EnterAlive ==
    ASSUME NEW t, NEW k, NEW m \in ImType, NEW s \in States, Enter(t, m, s, k),
           infoAt' = "none", Whole(m),
           s = "eUpdateLiveMode" => m.active # NoProduct,
           s = "eLiveMode" => ~m.graph
    PROVE  Alive'
  <1>1. im' = SetState(m, s) /\ next' = s BY DEF Enter
  <1>2. Whole(im') /\ im'.active = m.active /\ im'.graph = m.graph
    BY <1>1, SetWhole, SetEffect, WorkflowAssumption
  <1>3. "none" \notin States BY DEF States
  <1> QED BY <1>1, <1>2, <1>3 DEF Alive, Whole

LEMMA AliveStep ==
    ASSUME Requests \cap Crashing = {}, IInv, Following, FaultsKnown, Alive, [Next]_vars
    PROVE  Alive'
  <1> USE DEF HandlerShape
  <1>a. TypeOK /\ HandlerShape /\ LegalMove BY DEF IInv
  <1>b. im \in ImType /\ next \in States \cup {"none"} /\ state \in States
        /\ arg \in Products \cup {NoProduct}
    BY <1>a DEF TypeOK
  <1>c. "none" \notin States /\ NoProduct \notin Products /\ Default \in Products
    BY WorkflowAssumption DEF States
  <1>d. lock = "free" \/ phase \in {"dbLock", "run"} => next = "none" BY <1>a
  <1>e. /\ Whole(im) /\ infoAt = "none"
        /\ im.graph => im.active # NoProduct
        /\ next = "none" => FollowsAtRest
        /\ next # "none" => FollowsMoving
    BY DEF Alive, Following, Whole
  <1>f. {"info", "signalReady", "abortProductTeachInMode"} \cap Requests = {}
    BY DEF Crashing
  <1>g. state = "eAutomaticMode" \/ state = "eLiveMode" => next # "none" \/ im.active # NoProduct
    BY <1>e DEF Alive, FollowsAtRest
  <1>0. CASE UNCHANGED vars
    BY <1>0 DEF vars, ctl, env, Alive, Whole
  <1>s. ASSUME UNCHANGED <<state, next, phase, infoAt>>, Whole(im'),
               im'.active = im.active, next = "none" \/ im'.graph = im.graph
        PROVE  Alive'
    BY <1>s, <1>c DEF Alive
  <1>1. CASE Aside
    <2>1. UNCHANGED <<state, next, phase>> BY <1>1, AsideStep DEF ctl
    <2>2. CASE im' = im /\ infoAt' = "none"
      BY <1>e, <1>s, <2>1, <2>2
    <2>3. CASE ~(im' = im /\ infoAt' = "none")
      <3>1. /\ lock = "free" /\ infoAt' = infoAt
            /\ \E found \in BOOLEAN :
                  im' \in {BeginInspect(im, found), StopInspect(im), SeamPreStart(im, found)}
        BY <1>1, <1>e, <1>f, <2>3 DEF Aside, Start, PreStart, End, Stay, Info, Begin, env,
           InfoActivate, Edit, Setup, TriggerEmergencyStop, ReadOperate, ReadNotReady, ReadLive
      <3>2. PICK found \in BOOLEAN :
                  im' \in {BeginInspect(im, found), StopInspect(im), SeamPreStart(im, found)}
        BY <3>1
      <3>3. Whole(im') /\ im'.active = im.active
        <4>1. CASE im' = BeginInspect(im, found)
          BY <1>b, <1>e, <4>1, BeginEffect, BeginWhole
        <4>2. CASE im' = StopInspect(im)
          BY <1>b, <1>e, <4>2, StopWhole
        <4>3. CASE im' = SeamPreStart(im, found)
          BY <1>b, <1>e, <4>3, SeamWhole, SeamEffect
        <4> QED BY <3>2, <4>1, <4>2, <4>3
      <3> QED BY <1>d, <1>s, <2>1, <3>1, <3>3
    <2> QED BY <2>2, <2>3
  <1>2. CASE TakeDbLock \/ RunDbCheck
    <2>1. im' = im \/ im' = ChangeProducts(im, pending)
      BY <1>2 DEF TakeDbLock, RunDbCheck, ApplyChanges
    <2>2. Whole(im') /\ im'.active = im.active
      BY <1>b, <1>c, <1>e, <2>1, SetWhole, ChangeEffect DEF States
    <2>3. next = "none" /\ next' = "none" /\ state' = state /\ infoAt' = infoAt
      BY <1>2, <1>a DEF TakeDbLock, RunDbCheck, Release, env
    <2> QED BY <1>c, <2>2, <2>3 DEF Alive
  <1>3. CASE RunStartAuto
    <2>0. next = "none" /\ phase = "run" /\ infoAt' = "none"
      BY <1>3, <1>a, <1>e DEF RunStartAuto, env
    <2>1. CASE state = "eOperate" /\ arg # NoProduct
      <3>1. Enter(lock, Activate(im, arg), "eAutomaticMode", "done")
        BY <1>3, <2>1 DEF RunStartAuto
      <3>2. Activate(im, arg) \in ImType /\ Whole(Activate(im, arg))
        BY <1>b, <1>e, <2>1, ActivateType, SetWhole DEF States
      <3> QED BY <2>0, <3>1, <3>2, EnterAlive DEF States
    <2>2. CASE state = "eLiveMode"
      <3>1. rel = {} BY <2>0, <2>2 DEF FaultsKnown, Coming
      <3>2. Enter(lock, StopLiveMode(StopInspect(im)), "eOperate", "auto")
        BY <1>3, <2>2, <3>1 DEF RunStartAuto
      <3> QED BY <1>b, <1>e, <1>g, <2>0, <2>2, <3>2, StopWhole, StopBothType, EnterAlive
              DEF States
    <2>3. CASE state = "eProductTeachIn"
      <3>1. im' = SetState(im, "eAutomaticMode") /\ next' = "none" /\ state' = state
        BY <1>3, <2>3 DEF RunStartAuto, Release
      <3> QED BY <1>b, <1>e, <2>0, <2>3, <3>1, SetWhole DEF Alive, States
    <2>4. CASE state \notin {"eLiveMode", "eProductTeachIn"}
               /\ ~(state = "eOperate" /\ arg # NoProduct)
      <3>1. im' = im /\ next' = "none" /\ state' = state
        BY <1>3, <2>4 DEF RunStartAuto, Release
      <3> QED BY <1>e, <2>0, <2>4, <3>1 DEF Alive
    <2> QED BY <2>1, <2>2, <2>3, <2>4
  <1>4. CASE Construct
    <2>0. next # "none" /\ next' = next /\ phase = "ctor" /\ phase' = "built"
          /\ infoAt' = "none"
      BY <1>4, <1>a, <1>e DEF Construct, env
    <2>1. CASE next = "eUpdateLiveMode"
      <3>1. PICK m \in ImType : m = StopLiveMode(StopInspect(im)) /\ ApplyChanges(m)
        BY <1>4, <1>b, <2>1, StopBothType DEF Construct
      <3>2. Whole(m) BY <1>b, <1>e, <2>0, <2>1, <3>1, StopWhole DEF Alive
      <3>3. Whole(im') BY <1>c, <3>1, <3>2, SetWhole DEF ApplyChanges, States
      <3> QED BY <1>c, <2>0, <2>1, <3>3 DEF Alive
    <2>2. CASE next # "eUpdateLiveMode"
      <3>1. im' = im \/ im' = ChangeProducts(im, pending)
        BY <1>4, <2>2 DEF Construct, ApplyChanges
      <3>2. Whole(im') /\ im'.graph = im.graph
        BY <1>b, <1>c, <1>e, <3>1, SetWhole, ChangeEffect DEF States
      <3> QED BY <2>0, <2>2, <3>2 DEF Alive
    <2> QED BY <2>1, <2>2
  <1>5. CASE Assign
    <2>0. next # "none" /\ FollowsMoving /\ phase = "built" /\ state' = next
          /\ infoAt' = "none"
      BY <1>5, <1>a, <1>e DEF Assign, env
    <2>1. CASE cont \in {"done", "auto"}
      <3>1. im' = im /\ next' = "none"
        BY <1>5, <2>1 DEF Assign, Release
      <3> QED BY <1>c, <1>e, <2>0, <3>1 DEF Alive, FollowsMoving
    <2>2. CASE cont = "calibrate"
      <3>1. PICK s \in {"eNotReady", "eOperate"} : im' = SetState(im, s) /\ next' = s
        BY <1>5, <2>2 DEF Assign
      <3>2. Whole(im') BY <1>b, <1>e, <3>1, SetWhole DEF States
      <3> QED BY <2>0, <3>1, <3>2 DEF Alive
    <2>3. CASE cont = "live"
      <3>1. PICK series \in BOOLEAN, seam \in BOOLEAN :
               im' = BeginInspect(ActivateSeamSeries(im, series), seam)
        BY <1>5, <2>3 DEF Assign
      <3>2. next' = "none" /\ next = "eLiveMode" /\ im.active # NoProduct
        BY <1>5, <1>a, <2>0, <2>3 DEF Assign, Release, FollowsMoving
      <3>3. PICK m \in ImType : /\ m = ActivateSeamSeries(im, series)
                                /\ m.active = im.active /\ Whole(m)
        BY <1>b, <1>e, <3>2, SeamEffect, SeriesWhole DEF Alive
      <3>4. im'.active = im.active /\ Whole(im')
        BY <3>1, <3>3, BeginEffect, BeginWhole
      <3> QED BY <2>0, <3>2, <3>4 DEF Alive
    <2>4. CASE cont = "startLive"
      <3>1. im' = SetState(Activate(im, Default), "eLiveMode") /\ next' = "eLiveMode"
        BY <1>5, <2>4 DEF Assign
      <3>2. next = "eUpdateLiveMode" /\ im.active = NoProduct /\ ~im.graph
        BY <1>a, <1>e, <2>0, <2>4 DEF FollowsMoving
      <3>3. Activate(im, Default) \in ImType /\ Whole(Activate(im, Default))
            /\ Activate(im, Default).graph = im.graph
        BY <1>b, <1>c, <1>e, ActivateType, SetEffect, SetWhole DEF States
      <3>4. Whole(im') /\ ~im'.graph
        BY <1>c, <3>1, <3>2, <3>3, SetEffect, SetWhole DEF States
      <3> QED BY <2>0, <3>1, <3>4 DEF Alive
    <2> QED BY <1>5, <2>1, <2>2, <2>3, <2>4 DEF Assign
  <1>h. ASSUME infoAt' = infoAt, NEW t, NEW k, NEW s \in States,
               s \notin {"eLiveMode", "eUpdateLiveMode"}, Enter(t, im, s, k)
        PROVE  Alive'
    BY <1>b, <1>e, <1>h, EnterAlive
  <1>i. ASSUME infoAt' = infoAt, NEW t, NEW k, NEW s \in States, im.active # NoProduct,
               s \notin {"eLiveMode", "eUpdateLiveMode"},
               Enter(t, StopLiveMode(StopInspect(im)), s, k)
        PROVE  Alive'
    BY <1>b, <1>e, <1>i, StopWhole, StopBothType, EnterAlive
  <1>6. CASE Initialize \/ Exit
    BY <1>6, <1>h DEF Initialize, Exit, FirstState, States, env
  <1>7. ASSUME NEW p \in Products \cup {NoProduct}, StartAuto(p) PROVE Alive'
    <2>1. next = "none" /\ next' = "none" /\ state' = state /\ im' = im /\ infoAt' = infoAt
      BY <1>7, <1>d DEF StartAuto, Begin, env
    <2> QED BY <1>e, <2>1 DEF Alive
  <1>8. CASE StopAuto
    BY <1>8, <1>d, <1>g, <1>h, <1>i DEF StopAuto, Begin, StopAutomaticMode, States, env
  <1>9. CASE StartLive
    <2>1. Enter("cmd", Activate(im, Default), "eLiveMode", "live") /\ infoAt' = infoAt
          /\ lock = "free" /\ state = "eOperate"
      BY <1>9 DEF StartLive, Begin, env
    <2>2. ~im.graph BY <1>d, <1>e, <2>1 DEF FollowsAtRest
    <2>3. Activate(im, Default) \in ImType /\ Whole(Activate(im, Default))
          /\ ~Activate(im, Default).graph
      BY <1>b, <1>c, <1>e, <2>2, ActivateType, SetEffect, SetWhole DEF States
    <2> QED BY <1>e, <2>1, <2>3, EnterAlive DEF States
  <1>10. CASE StopLive
    <2>1. state = "eLiveMode" /\ next = "none" /\ infoAt' = infoAt
      BY <1>10, <1>d DEF StopLive, Begin, env
    <2>2. rel = {} BY <2>1 DEF FaultsKnown, Coming
    <2> QED BY <1>10, <1>g, <1>i, <2>1, <2>2 DEF StopLive, States
  <1>11. ASSUME NEW done \in BOOLEAN, RequestCalibration(done) PROVE Alive'
    BY <1>11, <1>h DEF RequestCalibration, States, env
  <1>12. CASE StartTeachIn \/ AbortTeachIn
    BY <1>12, <1>h DEF StartTeachIn, AbortTeachIn, States, env
  <1>st. ASSUME Stay(im), infoAt' = infoAt PROVE Alive'
    BY <1>e, <1>s, <1>st DEF Stay, ctl
  <1>13. ASSUME lock = "free", infoAt' = infoAt, DispatchNotReady PROVE Alive'
    <2>1. CASE Stay(im) BY <1>st, <1>13, <2>1
    <2>2. CASE ~Stay(im)
      <3>1. CASE state \in {"eAutomaticMode", "eLiveMode"}
        <4>1. Enter("cmd", StopLiveMode(StopInspect(im)), "eNotReady", "done")
          BY <1>13, <2>2, <3>1 DEF DispatchNotReady, StopAutomaticMode
        <4> QED BY <1>13, <1>d, <1>g, <1>i, <3>1, <4>1 DEF States
      <3>2. CASE state \notin {"eAutomaticMode", "eLiveMode"}
        <4>1. Enter("cmd", im, "eNotReady", "done")
          BY <1>13, <2>2, <3>2 DEF DispatchNotReady
        <4> QED BY <1>13, <1>h, <4>1 DEF States
      <3> QED BY <3>1, <3>2
    <2> QED BY <2>1, <2>2
  <1>14. ASSUME NEW c \in Faults, SignalNotReady(c) PROVE Alive'
    BY <1>13, <1>14 DEF SignalNotReady, Begin
  <1>15. CASE SignalNotReadyNone
    BY <1>13, <1>15, <1>st DEF SignalNotReadyNone, Begin, env
  <1>16. ASSUME NEW c \in Faults, SignalReady(c) PROVE Alive'
    BY <1>16, <1>f DEF SignalReady, Begin
  <1>17. CASE QuitSystemFault
    BY <1>17, <1>h DEF QuitSystemFault, States, env
  <1>18. CASE EmergencyStop
    <2>1. lock = "free" /\ infoAt' = infoAt BY <1>18 DEF EmergencyStop
    <2>2. CASE state \in {"eAutomaticMode", "eLiveMode"}
      <3>1. Enter("cmd", StopLiveMode(StopInspect(im)), "eEmergencyStop", "done")
        BY <1>18, <2>2 DEF EmergencyStop, StopAutomaticMode
      <3> QED BY <1>d, <1>g, <1>i, <2>1, <2>2, <3>1 DEF States
    <2>3. CASE state \notin {"eAutomaticMode", "eLiveMode"}
      BY <1>18, <1>h, <1>st, <2>1, <2>3 DEF EmergencyStop, States
    <2> QED BY <2>2, <2>3
  <1>19. CASE ResetEmergencyStop
    BY <1>19, <1>h, <1>st DEF ResetEmergencyStop, AfterEmergency, States
  <1>20. CASE DbCheck
    <2>1. next = "none" /\ next' = "none" /\ state' = state /\ im' = im /\ infoAt' = infoAt
      BY <1>20, <1>d DEF DbCheck, env
    <2> QED BY <1>e, <2>1 DEF Alive
  <1>21. CASE UpdateLiveMode
    <2>1. lock = "free" /\ next = "none" /\ infoAt' = infoAt
      BY <1>21, <1>d DEF UpdateLiveMode, env
    <2>2. CASE state = "eLiveMode"
      BY <1>21, <1>b, <1>e, <1>g, <2>1, <2>2, EnterAlive DEF UpdateLiveMode, States
    <2>3. CASE state # "eLiveMode"
      BY <1>21, <1>st, <2>1, <2>3 DEF UpdateLiveMode
    <2> QED BY <2>2, <2>3
  <1> QED
    BY <1>0, <1>1, <1>2, <1>3, <1>4, <1>5, <1>6, <1>7, <1>8, <1>9, <1>10, <1>11, <1>12,
       <1>14, <1>15, <1>16, <1>17, <1>18, <1>19, <1>20, <1>21, NextCases

\* Without the requests of Crashing, and without a fault before initialize, no
\* order of requests makes the process die.
THEOREM RequestsSurvived ==
    Requests \cap Crashing = {} => (DisciplinedSpec => []EveryRequestHandled)
  <1> SUFFICES ASSUME Requests \cap Crashing = {}
               PROVE  DisciplinedSpec => []EveryRequestHandled
    OBVIOUS
  <1>1. Init => FaultsKnown /\ Alive
    BY DEF Init, FaultsKnown, Coming, Alive, Whole
  <1>2. IInv /\ Following /\ FaultsKnown /\ Alive /\ [Next /\ NoEarlyFault]_vars
           => (FaultsKnown /\ Alive)'
    BY KnownStep, AliveStep DEF IInv
  <1>3. Alive => EveryRequestHandled
    BY DEF Alive, Whole, EveryRequestHandled
  <1>4. [Next /\ NoEarlyFault]_vars => [Next]_vars
    OBVIOUS
  <1> QED
    BY <1>1, <1>2, <1>3, <1>4, AlwaysFollowing, PTL DEF Spec, DisciplinedSpec

=============================================================================
