------------------------------ MODULE Workflow ------------------------------
(***************************************************************************)
(* The workflow state machine of an inspection station                     *)
(* (src/qnx/Mod_Workflow): the StateContext, its states, the threads that  *)
(* call it and the part of the analyzer's InspectManager it drives.        *)
(*                                                                         *)
(* Threads.  Every event interface has one handler thread:                 *)
(*   main  AppMain::runClientCode: initialize, exit                        *)
(*   cmd   InspectionCmd: live mode, teach-in, calibration, faults,        *)
(*         emergency stop                                                  *)
(*   insp  Inspection: automatic mode, seam series, seams                  *)
(*   db    DbNotification: the user changed the data base                  *)
(*                                                                         *)
(* A handler runs under StateContext::m_oLock, so two of them never        *)
(* interleave.  What does interleave with a handler is the code that reads *)
(* or calls the current state without the lock: currentState(),            *)
(* getProductID() and setSeamseries().  They see m_pCurrentState, which    *)
(* changeState() assigns only after the constructor of the new state has   *)
(* run; a handler is therefore cut into the steps                          *)
(*     begin, [wait for m_oDbChangesMutex], construct, assign, ...         *)
(***************************************************************************)
EXTENDS Integers, Sequences

CONSTANTS
    Products,        \* products in the data base, all activated
    Params,          \* filter parameters in the data base
    Default,         \* the default product, inspected in live mode
    Faults,          \* error codes (bits of LogErrorType)
    ExtEquipment,    \* eExtEquipment = 512, also the GUI's backup request
    HomingRequired,  \* ForceHomingOfAxis, and an axis or the collimator is enabled
    HomingAfterStop, \* ForceHomingOfAxis, and an axis is enabled
    Requests,        \* which requests the environment makes
    NoProduct,       \* no product: the null UUID, or a null pointer
    MaxEstop         \* bound: emergency-stop events in flight

ASSUME WorkflowAssumption ==
    /\ Default \in Products
    /\ NoProduct \notin Products
    /\ Products \cap Params = {}
    /\ ExtEquipment \in Faults
    /\ HomingRequired \in BOOLEAN /\ HomingAfterStop \in BOOLEAN
    /\ HomingAfterStop => HomingRequired
    /\ MaxEstop \in Nat

VARIABLES
    state,      \* type of *m_pCurrentState
    next,       \* state being constructed by changeState, or "none"
    phase,      \* where the owner of m_oLock is in its handler
    cont,       \* what that handler does once the new state is assigned
    lock,       \* owner of m_oLock, or "free"
    dbLock,     \* owner of m_oDbChangesMutex, or "free"
    arg,        \* product a startAuto handler was called with
    rel,        \* m_oRelatedException, as the set of its bits
    backup,     \* m_oIsBackupRequested
    ready,      \* the SystemReady output
    errField,   \* the SystemErrorField output
    productID,  \* m_oProductID
    pending,    \* m_oDbChanges
    im,         \* the InspectManager, see ImType
    overtaken,  \* ghost: changes noted when the dbCheck of a new Operate was over
    edits,      \* changes whose notification is under way to the db thread
    dbPc,       \* where the db thread is in its handler
    dbItem,     \* the change that handler is about
    infoAt,     \* state whose activateSeamSeries the insp thread is to call
    faulty,     \* components that reported a fault and no repair
    estop,      \* InspectionControl's m_oTriggerEmergencyStop
    estopQ      \* its events under way to the cmd thread

ctl  == <<state, next, phase, cont, lock, dbLock, arg>>
flt  == <<rel, backup, ready, errField>>
dbs  == <<pending, overtaken, edits, dbPc, dbItem>>
env  == <<infoAt, faulty, estop, estopQ>>
vars == <<ctl, flt, dbs, env, productID, im>>

-----------------------------------------------------------------------------
States == {"eInit", "eOperate", "eAutomaticMode", "eLiveMode", "eShutdown",
           "eCalibrate", "eNotReady", "eProductTeachIn", "eEmergencyStop",
           "eUpdateLiveMode"}

Threads == {"main", "cmd", "insp", "db"}
Changes == Products \cup Params
Phases  == {"idle", "dbLock", "run", "ctor", "built"}
Conts   == {"done", "auto", "check", "calibrate", "live", "startLive"}

\* What the workflow sees of the InspectManager: m_oState, m_pActiveProduct
\* and whether it points to an erased product, whether m_pActiveSeamSeries,
\* m_pActiveSeam and m_pActiveGraph (with m_pActiveSeamInterval) are set, and
\* whether the process died of a null pointer or of unbounded recursion.
ImType == [mode : States, active : Products \cup {NoProduct},
           series : BOOLEAN, seam : BOOLEAN, graph : BOOLEAN,
           dangling : BOOLEAN, dead : BOOLEAN]

TypeOK ==
    /\ state \in States
    /\ next \in States \cup {"none"}
    /\ phase \in Phases
    /\ cont \in Conts
    /\ lock \in Threads \cup {"free"}
    /\ dbLock \in Threads \cup {"free"}
    /\ arg \in Products \cup {NoProduct}
    /\ rel \subseteq Faults
    /\ backup \in BOOLEAN
    /\ ready \in BOOLEAN
    /\ errField \subseteq Faults
    /\ productID \in Products \cup {NoProduct}
    /\ pending \subseteq Changes
    /\ im \in ImType
    /\ overtaken \subseteq Changes
    /\ edits \subseteq Changes
    /\ dbPc \in {"idle", "isOperate", "isNotReady", "isLive", "check", "update"}
    /\ dbItem \in Changes
    /\ infoAt \in States \cup {"none"}
    /\ faulty \subseteq Faults
    /\ estop \in BOOLEAN
    /\ estopQ \in Seq({"stop", "reset"})

-----------------------------------------------------------------------------
(***************************************************************************)
(* InspectManager operations, each atomic under m_oManSync, as functions   *)
(* of the InspectManager's state: a handler composes them in call order.   *)
(***************************************************************************)
Die(m) == [m EXCEPT !.dead = TRUE]

\* Mutant: the analyzer is told of the new state before it is chosen.
SetStateEarly(m, s) == [m EXCEPT !.mode = next]

SetState(m, s) == [m EXCEPT !.mode = s]

Activate(m, p) == [m EXCEPT !.active = p, !.dangling = FALSE]

\* found: the active product has that seam series.  The active product is
\* dereferenced without a check; a new series leaves no active seam.
ActivateSeamSeries(m, found) ==
    IF m.active = NoProduct THEN Die(m)
    ELSE IF found THEN [m EXCEPT !.series = TRUE, !.seam = FALSE] ELSE m

\* found: the seam exists.  Without a product the assertion throws and is
\* caught.  A missing series is activated first; every product has series 0.
SeamPreStart(m, found) ==
    IF m.active = NoProduct THEN m
    ELSE [m EXCEPT !.series = TRUE, !.seam = m.seam \/ found]

\* A seam chosen by seamPreStart is kept, otherwise it is looked up.
StartInspect(m, found) ==
    IF m.active = NoProduct THEN m
    ELSE LET ok == m.seam \/ found
         IN  [m EXCEPT !.series = TRUE, !.seam = ok, !.graph = m.graph \/ ok]

\* Mutant: the active graph is kept.
StopInspectKeepsGraph(m) ==
    IF ~m.graph THEN m
    ELSE IF m.active = NoProduct \/ ~m.series \/ ~m.seam THEN Die(m)
    ELSE [m EXCEPT !.seam = FALSE]

\* Series and seam of an active graph are dereferenced without a check.
StopInspect(m) ==
    IF ~m.graph THEN m
    ELSE IF m.active = NoProduct \/ ~m.series \/ ~m.seam THEN Die(m)
    ELSE [m EXCEPT !.graph = FALSE, !.seam = FALSE]

\* Mutant: the active product is not reset.
StopLiveModeKeepsProduct(m) ==
    IF m.active = NoProduct THEN Die(m)
    ELSE [m EXCEPT !.series = FALSE, !.seam = FALSE]

\* The null check of the active product does not cover its last use.
StopLiveMode(m) ==
    IF m.active = NoProduct THEN Die(m)
    ELSE [m EXCEPT !.active = NoProduct, !.series = FALSE, !.seam = FALSE,
                   !.dangling = FALSE]

StopAutomaticMode(m) == StopLiveMode(StopInspect(m))

\* changeProduct asserts that no seam is active ...
Refuses(m) == m.seam \/ m.graph

\* ... and else erases the product, active or not, before it reads the data
\* base and builds it again: whatever throws after that, the old one is gone.
ChangeProducts(m, ps) ==
    IF Refuses(m) THEN m ELSE [m EXCEPT !.dangling = @ \/ m.active \in ps]

\* endInspect of the live and automatic states after a failed start, and the
\* start itself (LiveMode::beginInspect, AutomaticMode::beginInspect).
BeginInspect(m, found) ==
    IF m.active = NoProduct \/ m.seam \/ found
    THEN StartInspect(m, found)
    ELSE StopInspect(StartInspect(m, found))
-----------------------------------------------------------------------------
(***************************************************************************)
(* The shape of a handler.                                                 *)
(***************************************************************************)
\* Thread t takes m_oLock; it is not inside another call.
Begin(t, request) ==
    /\ request \in Requests
    /\ lock = "free"
    /\ t = "insp" => infoAt = "none"
    /\ t = "db" => dbPc = "idle"

\* changeState(s), first half: the analyzer is informed, then the constructor
\* of s starts; m_pCurrentState is still the old state.
Enter(t, m, s, k) ==
    /\ im' = SetState(m, s)
    /\ lock' = t
    /\ next' = s
    /\ phase' = "ctor"
    /\ cont' = k
    /\ UNCHANGED <<state, dbLock, arg>>

\* The handler ends, in the state it began in.
Stay(m) ==
    /\ im' = m
    /\ UNCHANGED ctl

\* Mutant: m_oDbChangesMutex is not unlocked at the end of the handler.
ReleaseKeepsDbLock ==
    /\ lock' = "free"
    /\ phase' = "idle"
    /\ cont' = "done"
    /\ next' = "none"
    /\ arg' = NoProduct
    /\ UNCHANGED dbLock

\* The owner of m_oLock leaves its handler, and the scope of every mutex.
Release ==
    /\ lock' = "free"
    /\ dbLock' = IF dbLock = lock THEN "free" ELSE dbLock
    /\ phase' = "idle"
    /\ cont' = "done"
    /\ next' = "none"
    /\ arg' = NoProduct

\* Mutant: the mutex is not recursive.
CanLockDbOnce == dbLock = "free"

\* dbCheck gets m_oDbChangesMutex; it is recursive, startAuto may hold it.
CanLockDb == dbLock \in {"free", lock}

\* dbCheck on an InspectManager m.  Every change is loaded in a try block of its
\* own, whose handler only logs: an active seam, an error of the data base, an
\* invalid task, a task or graph that is not there keep that change from being
\* loaded.  Whether it was or not, the list is cleared.
ApplyChanges(m) ==
    /\ im' = ChangeProducts(m, pending)
    /\ pending' = {}
    /\ overtaken' = {}
    /\ UNCHANGED <<edits, dbItem>>

\* Mutant: the error field is latched.
ReportLatched(isReady, faults) == /\ ready' = isReady
                                  /\ errField' = errField \cup faults

\* The SystemReady and SystemErrorField outputs.
Report(isReady, faults) == /\ ready' = isReady
                           /\ errField' = faults

-----------------------------------------------------------------------------
(***************************************************************************)
(* main: AppMain::runClientCode                                            *)
(***************************************************************************)
\* Mutant: the emergency-stop input is not read.
FirstStateBlind == IF HomingRequired THEN "eNotReady" ELSE "eOperate"

\* The emergency-stop input and the axes decide on the first state.
FirstState == IF estop THEN "eEmergencyStop"
              ELSE IF HomingRequired THEN "eNotReady" ELSE "eOperate"

\* Init::initialize: load the products and go to the first state.  A product
\* that cannot be loaded is passed over.
Initialize ==
    /\ Begin("main", "initialize")
    /\ state = "eInit"
    /\ productID' = Default
    /\ Enter("main", im, FirstState, "done")
    /\ UNCHANGED <<flt, dbs, env>>

\* Mutant: every state supports exit.
ExitAnywhere ==
    /\ Begin("main", "exit")
    /\ Enter("main", im, "eShutdown", "done")
    /\ UNCHANGED <<flt, dbs, env, productID>>

\* exit is supported in two states; elsewhere the request is lost.
Exit ==
    /\ Begin("main", "exit")
    /\ state \in {"eInit", "eOperate"}
    /\ Enter("main", im, "eShutdown", "done")
    /\ UNCHANGED <<flt, dbs, env, productID>>

-----------------------------------------------------------------------------
(***************************************************************************)
(* insp: the robot's commands                                              *)
(***************************************************************************)
\* startAuto holds both mutexes: m_oLock first, then m_oDbChangesMutex.
StartAuto(p) ==
    /\ Begin("insp", "startAuto")
    /\ lock' = "insp"
    /\ phase' = "dbLock"
    /\ cont' = "auto"
    /\ arg' = p
    /\ UNCHANGED <<state, next, dbLock, flt, dbs, env, productID, im>>

StopAuto ==
    /\ Begin("insp", "stopAuto")
    /\ LET after == IF backup /\ rel = {ExtEquipment} THEN "eNotReady"
                                                      ELSE "eOperate"
       IN  \/ /\ state = "eAutomaticMode"
              /\ Enter("insp", StopAutomaticMode(im), after, "done")
           \/ /\ state = "eProductTeachIn"
              /\ Enter("insp", im, after, "done")
    /\ UNCHANGED <<flt, dbs, env, productID>>

\* InspectionServer::start, end and seamPreStart.
Start(found) ==
    /\ Begin("insp", "start")
    /\ state \in {"eAutomaticMode", "eLiveMode"}
    /\ Stay(BeginInspect(im, found))
    /\ UNCHANGED <<flt, dbs, env, productID>>

End ==
    /\ Begin("insp", "end")
    /\ state \in {"eAutomaticMode", "eLiveMode"}
    /\ Stay(StopInspect(im))
    /\ UNCHANGED <<flt, dbs, env, productID>>

PreStart(found) ==
    /\ Begin("insp", "seamPreStart")
    /\ state = "eAutomaticMode"
    /\ Stay(SeamPreStart(im, found))
    /\ UNCHANGED <<flt, dbs, env, productID>>

\* InspectionServer::info calls setSeamseries without the lock: the state
\* object is fetched first ...
Info ==
    /\ "info" \in Requests
    /\ infoAt = "none"
    /\ lock # "insp"
    /\ infoAt' = state
    /\ UNCHANGED <<ctl, flt, dbs, faulty, estop, estopQ, productID, im>>

\* ... and then its activateSeamSeries is called, whatever the state is now.
\* ProductTeachInMode calls setSeamseries again, without end.
InfoActivate(found) ==
    /\ infoAt # "none"
    /\ im' = CASE infoAt \in {"eAutomaticMode", "eLiveMode"} ->
                    ActivateSeamSeries(im, found)
               [] infoAt = "eProductTeachIn" -> Die(im)
               [] OTHER -> im
    /\ infoAt' = "none"
    /\ UNCHANGED <<ctl, flt, dbs, faulty, estop, estopQ, productID>>

-----------------------------------------------------------------------------
(***************************************************************************)
(* cmd: the GUI, the components and InspectionControl                      *)
(***************************************************************************)
StartLive ==
    /\ Begin("cmd", "startLivemode")
    /\ state = "eOperate"
    /\ productID' = Default
    /\ Enter("cmd", Activate(im, Default), "eLiveMode", "live")
    /\ UNCHANGED <<flt, dbs, env>>

\* LiveMode::stopLive goes back to Operate only without a fault.
StopLive ==
    /\ Begin("cmd", "stopLivemode")
    /\ state = "eLiveMode"
    /\ LET m == StopLiveMode(StopInspect(im))
       IN  \/ rel = {} /\ Enter("cmd", m, "eOperate", "done")
           \/ rel # {} /\ Stay(m)
    /\ UNCHANGED <<flt, dbs, env, productID>>

\* Operate calibrates in the Calibrate state, NotReady homes the axes:
\* done, the homing succeeded.
RequestCalibration(done) ==
    /\ Begin("cmd", "requestCalibration")
    /\ \/ state = "eOperate" /\ Enter("cmd", im, "eCalibrate", "calibrate")
       \/ /\ state = "eNotReady" /\ done /\ rel = {}
          /\ Enter("cmd", im, "eOperate", "done")
    /\ UNCHANGED <<flt, dbs, env, productID>>

StartTeachIn ==
    /\ Begin("cmd", "startProductTeachInMode")
    /\ state = "eOperate"
    /\ Enter("cmd", im, "eProductTeachIn", "done")
    /\ UNCHANGED <<flt, dbs, env, productID>>

AbortTeachIn ==
    /\ Begin("cmd", "abortProductTeachInMode")
    /\ state = "eProductTeachIn"
    /\ Enter("cmd", im, "eOperate", "done")
    /\ UNCHANGED <<flt, dbs, env, productID>>

\* Mutant: the bit is tested instead of the whole mask.
BackupAmongFaults == ExtEquipment \in rel'

\* m_oRelatedException is 512: the GUI asks for a backup, nothing is broken.
OnlyBackup == rel' = {ExtEquipment}

\* The signalNotReady of the current state, called with m_oRelatedException
\* already at rel'.
DispatchNotReady ==
    \/ /\ state \in {"eOperate", "eLiveMode"}
       /\ backup' = (backup \/ OnlyBackup)
       /\ Enter("cmd",
                IF state = "eLiveMode" THEN StopLiveMode(StopInspect(im)) ELSE im,
                "eNotReady", "done")
    \/ /\ state \in {"eAutomaticMode", "eProductTeachIn"}
       /\ OnlyBackup
       /\ backup' = TRUE
       /\ Stay(im)
    \/ /\ state \in {"eAutomaticMode", "eProductTeachIn"}
       /\ ~OnlyBackup
       /\ Enter("cmd",
                IF state = "eAutomaticMode" THEN StopAutomaticMode(im) ELSE im,
                "eNotReady", "done")
       /\ UNCHANGED backup
    \/ /\ state \in {"eInit", "eNotReady", "eEmergencyStop", "eShutdown"}
       /\ Stay(im)
       /\ UNCHANGED backup

\* StateContext::signalNotReady(c), from a component or the logger.
SignalNotReady(c) ==
    /\ Begin("cmd", "signalNotReady")
    /\ rel' = rel \cup {c}
    /\ Report(FALSE, rel')
    /\ faulty' = faulty \cup {c}
    /\ DispatchNotReady
    /\ UNCHANGED <<dbs, infoAt, estop, estopQ, productID>>

\* signalNotReady(eNone), from a wmLog(eFatal) without an error code.
SignalNotReadyNone ==
    /\ Begin("cmd", "signalNotReadyNone")
    /\ \/ /\ rel # {}
          /\ UNCHANGED rel
          /\ Report(FALSE, rel)
          /\ DispatchNotReady
       \/ /\ rel = {}
          /\ Report(TRUE, {})
          /\ Stay(im)
          /\ UNCHANGED <<rel, backup>>
    /\ UNCHANGED <<dbs, env, productID>>

\* StateContext::signalReady(c): the bit is toggled, not cleared.
Toggle(c) == IF c \in rel THEN rel \ {c} ELSE rel \cup {c}

SignalReady(c) ==
    /\ Begin("cmd", "signalReady")
    /\ c \in faulty
    /\ faulty' = faulty \ {c}
    /\ rel' = Toggle(c)
    /\ Report(rel' = {}, rel')
    /\ \/ rel' = {} /\ state = "eNotReady" /\ Enter("cmd", im, "eOperate", "done")
       \/ ~(rel' = {} /\ state = "eNotReady") /\ Stay(im)
    /\ UNCHANGED <<backup, dbs, infoAt, estop, estopQ, productID>>

\* The operator acknowledges every fault.
QuitSystemFault ==
    /\ Begin("cmd", "quitSystemFault")
    /\ state = "eNotReady"
    /\ rel' = {}
    /\ Enter("cmd", im, "eOperate", "done")
    /\ UNCHANGED <<backup, ready, errField, dbs, env, productID>>

\* The emergencyStop event of InspectionControl; Init, Shutdown and
\* EmergencyStop ignore it.
EmergencyStop ==
    /\ lock = "free"
    /\ estopQ # <<>> /\ Head(estopQ) = "stop"
    /\ estopQ' = Tail(estopQ)
    /\ \/ /\ state = "eAutomaticMode"
          /\ Enter("cmd", StopAutomaticMode(im), "eEmergencyStop", "done")
       \/ /\ state = "eLiveMode"
          /\ Enter("cmd", StopLiveMode(StopInspect(im)), "eEmergencyStop", "done")
       \/ /\ state \in {"eOperate", "eNotReady", "eCalibrate", "eProductTeachIn"}
          /\ Enter("cmd", im, "eEmergencyStop", "done")
       \/ /\ state \in {"eInit", "eShutdown", "eEmergencyStop", "eUpdateLiveMode"}
          /\ Stay(im)
    /\ UNCHANGED <<flt, dbs, infoAt, faulty, estop, productID>>

\* Mutant: recorded faults are not looked at.
AfterEmergencyBlind == IF HomingAfterStop THEN "eNotReady" ELSE "eOperate"

\* Back from an emergency stop, but not to Operate with a fault.  The collimator
\* is not asked about here.
AfterEmergency ==
    IF HomingAfterStop \/ rel # {} THEN "eNotReady" ELSE "eOperate"

\* The resetEmergencyStop event; only EmergencyStop reacts.
ResetEmergencyStop ==
    /\ lock = "free"
    /\ estopQ # <<>> /\ Head(estopQ) = "reset"
    /\ estopQ' = Tail(estopQ)
    /\ \/ /\ state = "eEmergencyStop"
          /\ Enter("cmd", im, AfterEmergency, "done")
       \/ state # "eEmergencyStop" /\ Stay(im)
    /\ UNCHANGED <<flt, dbs, infoAt, faulty, estop, productID>>

\* VI_InspectionControl::TriggerEmergencyStop, on each edge of the input: the
\* flag Initialize reads is set first, then the event is sent.
TriggerEmergencyStop ==
    /\ "emergency" \in Requests
    /\ Len(estopQ) < MaxEstop
    /\ estop' = ~estop
    /\ estopQ' = Append(estopQ, IF estop THEN "reset" ELSE "stop")
    /\ UNCHANGED <<ctl, flt, dbs, infoAt, faulty, productID, im>>

-----------------------------------------------------------------------------
(***************************************************************************)
(* db: the user changes the data base, DbNotificationServer is told        *)
(***************************************************************************)
\* The data base is changed and the notification is sent.
Edit(c) ==
    /\ "edit" \in Requests
    /\ edits' = edits \cup {c}
    /\ UNCHANGED <<ctl, flt, pending, overtaken, dbPc, dbItem, env, productID, im>>

\* setupProduct and setupFilterParameter begin with dbAltered, which takes
\* m_oDbChangesMutex only.
Setup(c) ==
    /\ dbPc = "idle" /\ lock # "db"
    /\ c \in edits
    /\ dbLock = "free"
    /\ edits' = edits \ {c}
    /\ pending' = pending \cup {c}
    /\ overtaken' = IF phase = "built" /\ next = "eOperate" THEN overtaken \cup {c}
                                                          ELSE overtaken \ {c}
    /\ dbItem' = c
    /\ dbPc' = "isOperate"
    /\ UNCHANGED <<ctl, flt, env, productID, im>>

\* Mutant: no check while another handler runs.
ReadOperateUnlessBusy ==
    /\ dbPc = "isOperate"
    /\ dbPc' = IF state = "eOperate" /\ lock = "free" THEN "check" ELSE "isNotReady"
    /\ UNCHANGED <<ctl, flt, pending, overtaken, edits, dbItem, env, productID, im>>

\* Then the current state is read, without m_oLock, up to three times.
ReadOperate ==
    /\ dbPc = "isOperate"
    /\ dbPc' = IF state = "eOperate" THEN "check" ELSE "isNotReady"
    /\ UNCHANGED <<ctl, flt, pending, overtaken, edits, dbItem, env, productID, im>>

ReadNotReady ==
    /\ dbPc = "isNotReady"
    /\ dbPc' = IF state = "eNotReady" THEN "check"
               ELSE IF dbItem \in Products THEN "isLive" ELSE "idle"
    /\ UNCHANGED <<ctl, flt, pending, overtaken, edits, dbItem, env, productID, im>>

ReadLive ==
    /\ dbPc = "isLive"
    /\ dbPc' = IF state = "eLiveMode" /\ productID = dbItem THEN "update"
                                                            ELSE "idle"
    /\ UNCHANGED <<ctl, flt, pending, overtaken, edits, dbItem, env, productID, im>>

\* dbCheck: m_oLock first, then m_oDbChangesMutex.
DbCheck ==
    /\ dbPc = "check"
    /\ lock = "free"
    /\ lock' = "db"
    /\ phase' = "dbLock"
    /\ cont' = "check"
    /\ UNCHANGED <<state, next, dbLock, arg, flt, dbs, env, productID, im>>

\* updateLiveMode: supported in LiveMode only.
UpdateLiveMode ==
    /\ dbPc = "update"
    /\ lock = "free"
    /\ dbPc' = "idle"
    /\ \/ state = "eLiveMode" /\ Enter("db", im, "eUpdateLiveMode", "startLive")
       \/ state # "eLiveMode" /\ Stay(im)
    /\ UNCHANGED <<flt, pending, overtaken, edits, dbItem, env, productID>>

-----------------------------------------------------------------------------
(***************************************************************************)
(* The owner of m_oLock goes on.                                           *)
(***************************************************************************)
TakeDbLock ==
    /\ phase = "dbLock"
    /\ dbLock = "free"
    /\ dbLock' = lock
    /\ phase' = "run"
    /\ UNCHANGED <<state, next, cont, lock, arg, flt, dbs, env, productID, im>>

RunDbCheck ==
    /\ phase = "run" /\ cont = "check"
    /\ ApplyChanges(im)
    /\ dbPc' = "idle"
    /\ Release
    /\ UNCHANGED <<state, flt, env, productID>>

\* The startAuto of the current state.
RunStartAuto ==
    /\ phase = "run" /\ cont = "auto"
    /\ \/ /\ state = "eOperate" /\ arg # NoProduct
          /\ productID' = arg
          /\ Enter(lock, Activate(im, arg), "eAutomaticMode", "done")
       \/ /\ state = "eOperate" /\ arg = NoProduct
          /\ productID' = NoProduct
          /\ Release
          /\ UNCHANGED <<state, im>>
       \/ /\ state = "eLiveMode" /\ rel = {}
          /\ Enter(lock, StopLiveMode(StopInspect(im)), "eOperate", "auto")
          /\ UNCHANGED productID
       \/ \* stopLive stays in LiveMode: startAuto calls itself, and the next
          \* stopLiveMode finds no product
          /\ state = "eLiveMode" /\ rel # {}
          /\ im' = StopLiveMode(StopLiveMode(StopInspect(im)))
          /\ UNCHANGED <<ctl, productID>>
       \/ /\ state = "eProductTeachIn"
          /\ productID' = arg
          /\ im' = SetState(im, "eAutomaticMode")
          /\ Release
          /\ UNCHANGED state
       \/ /\ state \notin {"eOperate", "eLiveMode", "eProductTeachIn"}
          /\ Release
          /\ UNCHANGED <<state, im, productID>>
    /\ UNCHANGED <<flt, dbs, env>>

\* The constructor of the next state.  Operate and UpdateLiveMode call
\* dbCheck.
Construct ==
    /\ phase = "ctor"
    /\ phase' = "built"
    /\ \/ /\ next = "eOperate"
          /\ CanLockDb
          /\ ApplyChanges(im)
          /\ Report(TRUE, {})
          /\ UNCHANGED <<rel, backup>>
       \/ /\ next = "eUpdateLiveMode"
          /\ CanLockDb
          /\ ApplyChanges(StopLiveMode(StopInspect(im)))
          /\ UNCHANGED flt
       \/ /\ next = "eNotReady"
          /\ Report(FALSE, rel)
          /\ backup' = (backup /\ rel # {ExtEquipment})
          /\ UNCHANGED <<rel, im, pending, overtaken, edits, dbItem>>
       \/ /\ next = "eEmergencyStop"
          /\ ready' = FALSE
          /\ UNCHANGED <<rel, backup, errField, im, pending, overtaken, edits,
                          dbItem>>
       \/ /\ next \notin {"eOperate", "eUpdateLiveMode", "eNotReady",
                          "eEmergencyStop"}
          /\ UNCHANGED <<flt, im, pending, overtaken, edits, dbItem>>
    /\ UNCHANGED <<state, next, cont, lock, dbLock, arg, dbPc, env, productID>>

\* changeState(next), second half: m_pCurrentState is assigned and the handler
\* goes on with cont.
Assign ==
    /\ phase = "built"
    /\ state' = next
    /\ \/ /\ cont = "done"
          /\ Release
          /\ UNCHANGED <<im, productID>>
       \/ /\ cont = "auto"
          /\ phase' = "run"
          /\ next' = "none"
          /\ UNCHANGED <<cont, lock, dbLock, arg, im, productID>>
       \/ \* Calibrate::calibrate, then back
          LET after == IF backup THEN "eNotReady" ELSE "eOperate"
          IN  /\ cont = "calibrate"
              /\ im' = SetState(im, after)
              /\ next' = after
              /\ phase' = "ctor"
              /\ cont' = "done"
              /\ UNCHANGED <<lock, dbLock, arg, productID>>
       \/ \* setSeamseries and beginInspect of the new LiveMode
          /\ cont = "live"
          /\ \E series, seam \in BOOLEAN :
                im' = BeginInspect(ActivateSeamSeries(im, series), seam)
          /\ Release
          /\ UNCHANGED productID
       \/ \* UpdateLiveMode::startLive
          /\ cont = "startLive"
          /\ productID' = Default
          /\ im' = SetState(Activate(im, Default), "eLiveMode")
          /\ next' = "eLiveMode"
          /\ phase' = "ctor"
          /\ cont' = "live"
          /\ UNCHANGED <<lock, dbLock, arg>>
    /\ UNCHANGED <<flt, dbs, env>>

-----------------------------------------------------------------------------
Init ==
    /\ state = "eInit" /\ next = "none"
    /\ phase = "idle" /\ cont = "done"
    /\ lock = "free" /\ dbLock = "free"
    /\ arg = NoProduct
    /\ rel = {} /\ backup = FALSE
    /\ ready = FALSE /\ errField = {}
    /\ productID = NoProduct
    /\ pending = {}
    /\ im = [mode |-> "eInit", active |-> NoProduct, series |-> FALSE,
             seam |-> FALSE, graph |-> FALSE, dangling |-> FALSE, dead |-> FALSE]
    /\ overtaken = {} /\ edits = {}
    /\ dbPc = "idle" /\ dbItem = Default
    /\ infoAt = "none"
    /\ faulty = {}
    /\ estop = FALSE /\ estopQ = <<>>

\* The owner of m_oLock executes its handler.
Handler == TakeDbLock \/ RunDbCheck \/ RunStartAuto \/ Construct \/ Assign

Main == Initialize \/ Exit

Insp ==
    \/ \E p \in Products \cup {NoProduct} : StartAuto(p)
    \/ StopAuto
    \/ \E found \in BOOLEAN : Start(found)
    \/ End
    \/ \E found \in BOOLEAN : PreStart(found)
    \/ Info
    \/ \E found \in BOOLEAN : InfoActivate(found)

Cmd ==
    \/ StartLive \/ StopLive
    \/ \E done \in BOOLEAN : RequestCalibration(done)
    \/ StartTeachIn \/ AbortTeachIn
    \/ \E c \in Faults : SignalNotReady(c)
    \/ SignalNotReadyNone
    \/ \E c \in Faults : SignalReady(c)
    \/ QuitSystemFault
    \/ EmergencyStop \/ ResetEmergencyStop \/ TriggerEmergencyStop

Db ==
    \/ \E c \in Changes : Edit(c)
    \/ \E c \in Changes : Setup(c)
    \/ ReadOperate \/ ReadNotReady \/ ReadLive
    \/ DbCheck \/ UpdateLiveMode

Next == ~im.dead /\ (Handler \/ Main \/ Insp \/ Cmd \/ Db)

Spec == Init /\ [][Next]_vars

-----------------------------------------------------------------------------
(***************************************************************************)
(* Properties                                                              *)
(***************************************************************************)
\* No handler is running: the states the clients of the workflow can see.
Quiescent == lock = "free"

\* The InspectManager follows the workflow: it is in the state of the
\* workflow (startAuto in teach-in reports automatic mode to it), a product
\* is active in the two inspecting states only, and a graph runs only with
\* an active product (changeState, startAuto, stopAuto, startLive, stopLive,
\* signalNotReady and emergencyStop of the states).
InspectManagerFollows ==
    Quiescent /\ ~im.dead =>
        /\ \/ im.mode = state
           \/ state = "eProductTeachIn" /\ im.mode = "eAutomaticMode"
        /\ state = "eAutomaticMode" => im.active # NoProduct
        /\ im.active # NoProduct => state \in {"eAutomaticMode", "eLiveMode"}
        /\ im.graph => im.active # NoProduct

\* In NotReady the outputs tell the customer's controller of the fault: not
\* ready, and the error field holds exactly the recorded faults (the
\* constructor of NotReady, signalNotReady, signalReady).
NotReadyReported ==
    Quiescent /\ state = "eNotReady" => ~ready /\ errField = rel

\* An emergency stop is never lost and never outlives the input: when its
\* events are all handled the workflow is in EmergencyStop exactly while the
\* input is set, also when the input changes during initialize
\* (TriggerEmergencyStop, Init::initialize, resetEmergencyStop).
EmergencyDelivered ==
    Quiescent /\ estopQ = <<>> /\ state \notin {"eInit", "eShutdown"} =>
        (estop <=> state = "eEmergencyStop")

\* m_oDbChangesMutex is held over a step only by the owner of m_oLock, so the
\* two mutexes are always taken in this order and cannot form a cycle
\* (startAuto, dbCheck, dbAltered).
LockOrder == dbLock # "free" => lock = dbLock

\* No fault that is still recorded is forgotten on the way back to work:
\* NotReady and EmergencyStop are left for Operate only without one
\* (quitSystemFault, signalReady, calibrate, resetEmergencyStop).
OperateFaultFree ==
    [][(state \in {"eNotReady", "eEmergencyStop"} /\ state' = "eOperate")
          => (rel = {})]_vars

\* A requested backup never hides a fault: a fault signalled to a working
\* station takes it to NotReady at once, unless the backup bit is the only
\* one set (signalNotReady of Operate, AutomaticMode, LiveMode, teach-in).
BackupNeverMasksFault ==
    [][\A c \in faulty' \ faulty :
          state \in {"eOperate", "eLiveMode"}
          \/ (state \in {"eAutomaticMode", "eProductTeachIn"} /\ rel' # {ExtEquipment})
             => next' = "eNotReady"]_vars

\* A station that is ready has taken up what was changed: no change waits in
\* Operate, however notifications, state reads without the lock, dbCheck and
\* state changes interleave.  Excepted are changes noted between the dbCheck in
\* the constructor of Operate and the assignment of the new state (dbAltered,
\* setupProduct, setupFilterParameter, dbCheck, changeState).
ReadyButOvertaken ==
    Quiescent /\ state = "eOperate" /\ dbPc = "idle" => pending \subseteq overtaken

\* The operating mode a state of the workflow stands for.
ModeOf(s) ==
    CASE s = "eInit" -> "starting"
      [] s = "eOperate" -> "ready"
      [] s = "eNotReady" -> "fault"
      [] s = "eEmergencyStop" -> "emergency"
      [] s = "eShutdown" -> "ended"
      [] OTHER -> "working"

StationMode == ModeOf(state)

Station == INSTANCE StationModes WITH mode <- StationMode

\* Whatever the threads do, the clients see the station work only from ready,
\* and never resume from a fault or an emergency stop: the workflow implements
\* StationModes (the states' handlers and changeState).
ImplementsStationModes == Station!ModeSpec

(***************************************************************************)
(* The inductive invariant of the proofs.                                  *)
(***************************************************************************)
\* What the phase of a handler says of the locks and of the state it builds.
HandlerShape ==
    /\ (lock = "free") <=> (phase = "idle")
    /\ (next = "none") <=> (phase \notin {"ctor", "built"})
    /\ phase = "idle" => dbLock = "free" /\ cont = "done"
    /\ phase = "dbLock" => dbLock = "free"
    /\ phase = "run" \/ (phase \in {"ctor", "built"} /\ cont = "auto")
          => dbLock = lock
    /\ phase \in {"dbLock", "run"} => cont \in {"auto", "check"}
    /\ phase \in {"ctor", "built"} /\ cont # "done" =>
          <<cont, next>> \in {<<"auto", "eOperate">>, <<"calibrate", "eCalibrate">>,
                              <<"startLive", "eUpdateLiveMode">>,
                              <<"live", "eLiveMode">>}
    /\ next = "eUpdateLiveMode" => cont = "startLive"
    /\ state = "eUpdateLiveMode" => next = "eLiveMode"

\* The state being built is one the station may move to.
LegalMove ==
    next # "none" => \/ ModeOf(next) = ModeOf(state)
                     \/ <<ModeOf(state), ModeOf(next)>> \in Station!Moves

\* Operate is built after a fault or a stop only if no fault is recorded.
FaultFreeMove ==
    state \in {"eNotReady", "eEmergencyStop"} /\ next = "eOperate" => rel = {}

\* The state the workflow is in once the running handler has ended agrees with
\* the input, except for the events under way, the last of which tells it.
InEmergency == IF next = "none" THEN state = "eEmergencyStop"
                                ELSE next = "eEmergencyStop"

EmergencyPending ==
    /\ estopQ # <<>> =>
          estopQ[Len(estopQ)] = IF estop THEN "stop" ELSE "reset"
    /\ (/\ estopQ = <<>>
        /\ state # "eShutdown"
        /\ ~(state = "eInit" /\ next \in {"none", "eShutdown"}))
          => (estop <=> InEmergency)

\* All of it: what every reachable state of the station satisfies.
IInv == TypeOK /\ HandlerShape /\ LockOrder /\ LegalMove /\ FaultFreeMove
        /\ EmergencyPending

\* Requests whose order can crash the process: info, which calls the state
\* without the lock, and the two after which live mode can be left or entered
\* with a recorded exception (signalReady toggles the bit,
\* abortProductTeachIn returns to Operate with it).
Crashing == {"info", "signalReady", "abortProductTeachInMode"}

\* No component reports a fault before initialize, and the owner of m_oLock
\* keeps running.
NoEarlyFault == state = "eInit" => UNCHANGED faulty

DisciplinedSpec == Init /\ [][Next /\ NoEarlyFault]_vars /\ WF_vars(Handler)

\* Every handler ends: changeState recurses and calls back into the new state,
\* but comes to rest (startAuto through stopLive, dbCheck, updateLiveMode).
HandlersTerminate == ~Quiescent ~> Quiescent

\* No order of requests makes the process die of a null pointer or an endless
\* recursion (the default handlers of AbstractState, stopLiveMode, stopInspect
\* and activateSeamSeries of the InspectManager, setSeamseries).
EveryRequestHandled == ~im.dead

\* The data base is updated only when it is safe: the product the
\* InspectManager works with is never erased under it (the DbNotificationServer
\* reads currentState, dbCheck, changeProduct).
ActiveProductAlive == ~im.dangling

\* A change is applied at once in Operate and else when the station is ready
\* again: no change waits in Operate (the DbNotificationServer's warning that it
\* will be applied when the state returns to ready).
ReadyUpToDate ==
    Quiescent /\ state = "eOperate" /\ dbPc = "idle" => pending = {}

\* A component that reports it is repaired leaves the system with the faults of
\* the others: only faulty components are recorded (signalReady).
RelatedOnlyFaulty == rel \subseteq faulty

=============================================================================
