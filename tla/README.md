# A TLA+ model of the WeldMaster inspection station

WeldMaster (`src/qnx`) runs a laser-welding inspection station: cameras and
sensors look at a weld seam while a robot or scan head moves over it, filter
graphs evaluate each image, and results go back to the customer's controller
through a fieldbus. The system is a set of processes that talk through events
and messages over shared memory.

This directory holds a model of it: modules that TLC checks on small instances,
and proofs that TLAPS checks for every instance. `PROJECT.json` maps each
definition to the lines it models and lists the runs, hazards, findings and
theorems.

## 1. The system

| Part (`src/qnx/...`) | State it keeps | Operations | What is hard |
|---|---|---|---|
| `Mod_Workflow` state machine | `StateContext`: current state object, mask of recorded faults, backup flag, product, list of pending data-base changes, two recursive mutexes | one request method per command; each state object overrides the ones it supports | requests come from four threads in any order; state changes recurse through constructors; some code reads the state without the lock |
| `Mod_Workflow` servers (`inspectionServer`, `inspectionCmdServer.h`, `dbNotificationServer`), `App_Workflow/AppMain` | none (forward to `StateContext`) | robot commands, operator commands, data-base notifications, start and shutdown | each has its own event-handler thread |
| `Mod_Analyzer/inspectManager` | active product, seam series, seam, interval, graph; image and sample queues | activate, start and stop an inspection, change a product or parameter, receive an image or sample | raw pointers into maps the data base changes; data handlers race with start and stop |
| `Mod_Analyzer/processingThread`, `signalAdapter`, `resultHandler` | a work slot per worker, the image each works on, which threads still owe a result | schedule, run, join, send results | several images are in one filter graph at a time and must leave it in order |
| `Mod_InspectionControl` | the customer's fieldbus bits, edge memories | one trigger method per bit, one event each | the flag and the event of one edge reach the workflow at different times |
| `wmMPSCQueue`, `wmLogger` | intrusive lock-free queue, log buffer | push from any thread, pop by one | included by no program; out of scope |
| `System` (`shMemRingAllocator`, `eventSignaler`, `eventHandler`) | a ring of blocks in shared memory, each with a count of readers; subscribers | allocate, free, send, subscribe, remove | several processes, exhaustion, subscription during sending |
| `fliplib` | an image counter per filter, pipes with a slot per image in flight, flags of arrived inputs | signal, synchronize, proceed, skip, reset | a filter must fire once per image, in order, when every input has arrived; gaps and failures must not block it |
| `Mod_ModuleManager`, `ConnectServer` | registered modules and their publications; start order | register, publish, subscribe; start, watch | any registration order; processes that die |
| `Mod_Scheduler`, `Mod_VideoRecorder` | tasks and triggers; recording flag and image buffers | timers and events; start, stop | timer and command threads |
| `Mod_Grabber*`, `Mod_Trigger`, `Mod_WeldHeadControl`, `Mod_CHRCommunication`, `Mod_EtherCATMaster`, `Mod_Fieldbus` | device state | drivers | hardware; reach the workflow as faults |
| `App_Gui`, `App_Grapheditor`, `App_WobbelFigureEditor`, `Mod_Storage` | Qt views, data base | user interface | out of scope; their requests are inputs |
| `Filter_*`, `Analyzer_Interface`, `Mod_Calibration`, `dxfReader`, `Rhothor_Lib`, `Pf` | image processing | numeric algorithms | floating point; out of scope |

How they interact for an inspection: the robot sets fieldbus bits;
InspectionControl turns each edge into an event; the workflow's servers call
`StateContext`; the state's handler drives the InspectManager and changes the
state; images arrive in the InspectManager and pass through the filter graph;
results leave through `ResultsServer`. Any component reports a fault with
`signalNotReady(code)` and its repair with `signalReady(code)`; the GUI
acknowledges with `quitSystemFault`.

What must be true of each:

* workflow: no request order loses a fault or an emergency stop, returns to work
  by accident, deadlocks, or leaves the InspectManager in another mode than
  the workflow's; data-base changes are applied, and only when it is safe;
* InspectManager: each image is processed once, with its samples, in the interval
  it belongs to, and none after the seam has ended;
* ring: what is put in comes out once and in order; a block is reused
  only after every reader has freed it;
* filter graph and workers: a filter fires once per image, in order, with that image's
  data; results leave in order; no worker waits for ever;
* module manager: every subscriber is connected to every publisher of its
  interface, in whatever order they register.

## 2. Plan

| # | Module | Models | Composed with / refines | Proved |
|---|---|---|---|---|
| 1 | `Workflow` | state machine, servers, workflow side of the InspectManager | implements `StationModes` | inductive invariants, every invariant checked, refinement |
| 2 | `FilterPipeline` | workers, image counters, pipes, group events, result handler | closed by an orderly manager | types, image order, own data, signals, order of results, no deadlock |
| 3 | `InspectManager` | image and sample queues, pairing, processing modes, interval change, a full work slot, start and stop | workers go step by step through one counter for all filters, which module 2 refines informally; `KeepsOrder` is what module 2 assumes of its manager | types, pairing, order, skipped images counted once, no deadlock of the workers |
| 4 | `EventChannel` | ring allocation, lock counts, pulses, message loops, activation of pairs, faults | implements `EventDelivery` | inductive invariant, refinement |
| 5 | `ModuleManager` | registration, activation of pairs, waiting publishers | its pairs are what module 4 activates | inductive invariant, counts, waits, shared memory |

Not planned any more, with the reasons in section 8: `ConnectServer`, `Mod_Scheduler`,
`Mod_VideoRecorder`, `Mod_WeldHeadControl`.

How the modules fit together: `ModuleManager` connects publishers and subscribers of
an event interface; `EventChannel` carries the events of one interface and makes good
what `EventDelivery` says, per sender in order and none twice; `InspectManager`
assumes exactly that of its sources (`wire`, one sequence per source) and hands images to
the workers; `FilterPipeline` assumes `KeepsOrder` of it; `Workflow` starts and stops it.
The modules are checked one by one and not as one product, which TLC could not
explore.

Every safety invariant and every safety property of a step that a passing run checks is also
a theorem, for every value of the constants. Only model-checked are the liveness properties
`HandlersTerminate`, `CleanWorkFinishes`, `BlockReturns` and `WaiterReleased`: liveness under
fairness is out of the prover's reach.

## 3. The workflow: `StationModes`, `Workflow`, `MCWorkflow`

### Correspondence

| Model | Code |
|---|---|
| `state` | type of `*m_pCurrentState` |
| `lock`, `dbLock` | owners of `m_oLock`, `m_oDbChangesMutex` (both recursive `Poco::Mutex`) |
| `next`, `phase`, `cont` | the call stack of the handler that owns `m_oLock`: the state under construction, where the handler is, what it does after `changeState` |
| `rel`, `backup`, `ready`, `errField` | `m_oRelatedException` as a set of bits, `m_oIsBackupRequested`, outputs SystemReady and SystemErrorField |
| `productID`, `pending` | `m_oProductID`, `m_oDbChanges` |
| `im` | the InspectManager: `mode` (`m_oState`), `active`, `series`, `seam`, `graph` (its raw pointers), `dangling` (the active product was erased), `dead` (null pointer or stack overflow) |
| `edits` | changes whose notification is under way |
| `overtaken` | ghost: changes noted after the `dbCheck` of a new Operate and before it is the current state |
| `dbPc`, `dbItem`, `infoAt` | program counters of the code that runs without `m_oLock` |
| `estop`, `estopQ` | `m_oTriggerEmergencyStop` and its events, in order |
| `faulty` | ghost: components that reported a fault and no repair |

A handler runs under `m_oLock`, so handlers do not interleave with each other.
`changeState` informs the InspectManager, runs the constructor of the new state and
only then assigns `m_pCurrentState`; `DbNotificationServer` and
`InspectionServer::info` read that pointer without the lock. A handler is
therefore several steps: the request (`StartAuto`, `SignalNotReady`, ...), an
optional wait for `m_oDbChangesMutex` (`TakeDbLock`), `RunStartAuto` or
`RunDbCheck`, `Construct`, `Assign`. Requests a state does not support are not
actions unless they have an effect (`AbstractState` ignores them).

Abstractions:

* consecutive InspectManager calls inside one handler are one step (each is atomic
  under `m_oManSync`; between two of them only `info` could run);
* a product, a seam, a fault are model values; looking up a seam or a series by
  number succeeds or fails (`found`); every product has seam series 0, and
  the default product exists;
* a homing or calibration run is one step that succeeds or not;
* the emergency-stop feature is enabled; of the events of the cmd thread only the
  emergency-stop ones keep their order, every other request may come at any time;
* `changeProduct` throws while a seam is active, before it erases anything; apart from that it
  and `changeFilterParameter` may throw for the data base, an invalid task, a graph that is not
  there. `dbCheck` logs whatever is thrown and clears the list all the same, and `changeProduct`
  erases the old product before it reads the data base, so a load that fails there and one that
  succeeds are one step of the model; what a half-built product then lacks is left out;
* the data base answers the question for the list of products, with which `dbCheck` begins; that it throws out of a
  state's constructor there is not modelled;
* whether homing is required is two constants: the first state after `initialize` asks for the
  axes and the collimator (`HomingRequired`, init.cpp:33), the way back from an emergency stop for the axes
  only (`HomingAfterStop`, emergencyStop.cpp:42);
* left out: simulation stations, line lasers, axes' head mode, the calls to the video
  recorder, status texts.

`StationModes` says what a client may rely on: six modes (starting, ready,
working, fault, emergency, ended) and the moves between them. There is no move from
fault or emergency to working, and none from working to ended. `Workflow` maps
its states to modes (`ModeOf`) and implements it.

### Properties

| Property | Hazard it is about |
|---|---|
| `InspectManagerFollows` | a mode ends on one of five paths (stop request, fault, emergency stop, live-mode update, startAuto in live mode); one that forgets to deactivate product or graph leaves the analyzer running |
| `NotReadyReported` | in NotReady the controller sees not-ready and exactly the recorded faults, also when faults are added and repaired while there |
| `EmergencyDelivered` | the stop input changes before, during and after `initialize`, which reads the flag while the event of the same edge waits |
| `LockOrder` | two mutexes, three ways to take them |
| `OperateFaultFree` | four ways back to Operate, each must look at the recorded faults |
| `BackupNeverMasksFault` | the GUI's backup request is coded as a fault bit and postponed to the end of the cycle; a real fault must not be postponed with it |
| `ReadyButOvertaken` | a change is noted under one mutex, the state read later without the other: whatever comes in between, some `dbCheck` takes the change up before the station is ready; excepted is the window of the finding `overtaken` |
| `ReadyUpToDate` | what the code says of noted changes: applied at once or when the station is ready again |
| `ImplementsStationModes` | all of it, seen from outside |
| `EveryRequestHandled` | no null pointer, no endless recursion, in any order of requests |
| `HandlersTerminate` | `changeState` recurses through constructors and mutexes but comes to rest |

### Runs

| Run | Bounds | Result |
|---|---|---|
| `faults` | 1 product, 3 faults (one of them the backup bit), at most 2 emergency events in flight, no data-base edits; collimator but no axes to home | passes, 338 121 states |
| `live` | 1 product, 1 parameter, edits at any time, 2 faults, homing forced, 1 emergency event; requests that may crash the process left out | passes, 857 812 states; deadlock is checked |
| `stale` | 1 product, 1 parameter, edits at any time, no faults | `ActiveProductAlive` violated |
| `overtaken` | as `stale` | `ReadyUpToDate` violated |
| `repair` | as `faults` with 2 faults, nothing to home | `RelatedOnlyFaulty` violated |

Why the bounds are enough: a product and a parameter show a change of the active product and one
of something else, in one list or each in a list of its own; three faults show one fault added while a second is
repaired and a backup is requested; two emergency events show a stop and its reset
both waiting while `initialize` runs. `CHECK_DEADLOCK FALSE` stands where the
system does stop: after `exit`, or when the modelled process has died.

`NotReadyReported` is checked without the request `signalNotReady(eNone)`: the code
then raises SystemReady whatever the state (stateContext.cpp:222, "this can
happen with wmLog(eFatal)").

The `live` run assumes weak fairness of `Handler`: the thread that owns `m_oLock` keeps
running (the servers' threads are ordinary scheduled threads that do not block
in a handler except for a mutex). No fairness is assumed for requests, nor for who
gets a mutex next. Its specification is `DisciplinedSpec`: it leaves out `info`,
`signalReady`, `abortProductTeachInMode` (`Crashing`) and faults before `initialize`
(`NoEarlyFault`), because with them the code can be brought to a null pointer
(see below) and nothing terminates after that.

### Findings

* `stale`: `setupProduct` reads `currentState()` without the lock and then calls `dbCheck`,
  which does not check again. If live or automatic mode starts in between, and no
  seam is active yet, the product in use is erased and rebuilt
  (`m_pActiveProduct` dangles). `dbCheck` is documented to be called "when it is save to update".
* `overtaken`: `changeState` builds Operate, whose constructor applies the noted changes, and
  assigns it afterwards. A notification in between notes its change, finds the old state current,
  applies nothing and says that the change will be applied "when state returns to ready". The station is ready,
  and the change waits for the next return to Operate or the next notification.
* `repair`: `signalReady` toggles the bit. Fault, acknowledgement by the
  operator, repair: the repair records a fault again, and the system is NotReady at the
  next opportunity because of a component that works.

Three more things the model shows, without a run of their own:

* A change that cannot be loaded is lost: `dbCheck` logs what the load throws and clears the list.
  A data-base error is enough; the race of `stale` with a seam under inspection is another way.
  No text of the repository says that a load is tried again, so no property asks for it.
* With the requests of `Crashing` let in, TLC violates `EveryRequestHandled`: `info` in teach-in
  recurses without end (productTeachInMode.cpp:39); with other requests, `stopLive` with a
  recorded fault stays in live mode (the next `startAuto` dereferences a null product), and `info`
  during a seam clears the seam (`stopInspect` dereferences it).
* A fault before `initialize` does the same where no homing is required.

### Proofs: `WorkflowProofs`

All theorems hold for every set of products, parameters, faults and requests, and any
bound on emergency events, under `WorkflowAssumption` (the default product is a
product, the backup bit is a fault, products and parameters differ).

`Invariance` proves the inductive invariant `IInv`, a conjunction of

* `TypeOK`;
* `HandlerShape`: what the phase of the running handler says of the locks and of the state it
  builds. Needed because the later steps of a handler know what the
  earlier ones established only through it;
* `LockOrder`;
* `LegalMove`, `FaultFreeMove`: the state under construction is a legal successor, and Operate is
  under construction after a fault or stop only with no fault recorded. They
  carry the decision made at the request to the step where `state` changes;
* `EmergencyPending`: the last event in flight tells the value of the input, and with none in
  flight the state *under construction* agrees with the input.
  `EmergencyDelivered` alone is not inductive: it says nothing while a handler runs.

`ShapeStep`, `MoveStep`, `EmergencyStep` and `TypeStep` show that each action preserves its
part; `TypeCorrect`, `LocksOrdered` and `EmergencySafe` follow. `OnlyAssignMoves`
(the state changes in `Assign` only) reduces `FaultsAcknowledged` and `StationImplemented` to `Assign`
and the invariant. `FaultsReported` follows from the guard structure of the handlers of
`signalNotReady`.

Four more theorems rest on it:

* `ReadyStationChecked`: `ReadyButOvertaken` speaks of a quiet station; `Checked` says of every state that
  in Operate, once the db thread has read it or its `dbCheck` is over, and of Operate under
  construction after its `dbCheck`, that the noted changes are overtaken ones.
* `FaultsShown`: `NotReadyReported` is silent while a handler runs, so `Reported` says the same of
  NotReady under construction once its constructor has set the outputs. The
  hypothesis is that `signalNotReady(eNone)` is not requested, as in the run.
* `AnalyzerFollows`: `Following` says what the InspectManager is in at rest and, while a
  handler runs, how far it has been brought towards the state under construction. A dead
  process is excepted: it has no state.
* `RequestsSurvived`: under `DisciplinedSpec`, if no request of `Crashing` is made, `Alive`: the
  pointers the next handler dereferences are there. It needs `FaultsKnown`: working states have no
  fault recorded but a postponed backup, so no mode is left half-way. Each of the exclusions is
  needed: TLC brings the process down with any one of the three requests left in, and, where no
  homing is required, with a fault before `initialize`.

Only model-checked: `HandlersTerminate`.

## 4. The pipelined inspection: `FilterPipeline`, `MCFilterPipeline`

Up to `g_oNbPar` images are inspected at the same time, each by a worker thread that
walks the whole filter graph. Nothing but an integer per filter, its image
counter, keeps them in order: a worker waits in `synchronizeOnImgNb` until the counter
is its image's number, and `preSignalAction` increments it.

### Correspondence

| Model | Code |
|---|---|
| `work`, `job` | `ProcessingThread::m_work`; the `SignalAdapter` that runs (`m_working`) |
| `pc`, `idx`, `inputs`, `at`, `img`, `carry` | where the worker is in `SignalAdapter::run` and in the calls it makes: the filter of the loop, the sources still to signal, the filter it calls, the number it calls it with, the image whose data it read there |
| `waiting` | the worker is in the wait loop, past the check at the start of `synchronizeOnImgNb` |
| `counter` | `m_oCounter` of each filter and of the result handler |
| `imagePipe`, `samplePipe`, `slot`, `avail` | the slots of the `SynchronePipe`s, as the number of the image whose data is there |
| `subscriber` | which worker's sample pipe a sample source reads |
| `flag` | `PipeGroupEvent::signalerCounters_` |
| `processing` | `ResultHandler::m_processing` (thread local) |
| `last` | `m_lastProcessedImage` |
| `accepted`, `delivered`, `faults` | ghosts: images handed to workers, results sent, disturbances so far |

One step is one access to state the workers share: a counter, a pipe, the flags of a
group event. A pipe calls its readers in the writer's thread, so the call chain
source, filter, result handler is the worker's program counter (`at`) and not a
process of its own.

Abstractions:

* the graph is the smallest with every mechanism: an image source, a source
  per sample sensor, one filter that waits for all of them, the result handler. The
  filter map's order (by UUID) is a constant;
* an image's data is its number, so reading a wrong slot is visible;
* the image queue and the sample queues are not here: `ScheduleImage` is a manager that
  keeps the promised order, with gaps (an image lost, or refused because the
  worker's slot is full), overtriggered images and images without a sample.
  A single seam interval; the seam ends when its last image is done (`NextSeam`);
* images out of order are not generated (an adapter with one returns at once).

### Properties

| Property | Hazard it is about |
|---|---|
| `InImageOrder` | the test before the wait is made without the mutex; a skip or a reset moves counters that others wait for |
| `OwnData` | slots are reused after `g_oNbPar` images, sample pipes are reconnected for every image: data of another image may be read |
| `SignalsOnce` | the flags of a group event are reset on three paths; the code asserts that none is pending |
| `ResultsInOrder` | one result per image, in order, also after a gap |
| `OldestGoesOn` | each worker waits in several filters for another one; everyone could wait for everyone. Whoever has the oldest image can always go on |
| `CleanWorkFinishes` | a counter that a gap did not close, in any filter or in the result handler, blocks a worker and whoever joins it |
| `WorkFinishes` | the same without the proviso below |
| `OvertriggeredSkipped` | the documented meaning of the mode |

`InImageOrder`, `OwnData`, `SignalsOnce`, `ResultsInOrder`, `OldestGoesOn` and `CleanWorkFinishes` are
promised as long as no image was overtriggered, lacked a sample or failed in a filter or
the result handler (`clean`); gaps in the numbers are allowed. After such an image
the code does not keep them, which the two findings show.

### Runs

| Run | Bounds | Result |
|---|---|---|
| `pipeline` | 2 workers, image numbers 0 to 4 with any gaps, any number of seams, at most one missing sample or failing filter or handler (and one more failure of the handler that the adapter then calls itself) | passes, 301 524 states |
| `overtriggered` | 2 workers, 2 images, one overtriggered | `OvertriggeredSkipped` violated |
| `lostsample` | 3 workers, 3 images, one without its sample | `WorkFinishes` violated |

Two workers and five numbers use every slot twice and let a gap lie before, between and
after images in flight; three workers and four numbers were tried as well and pass. A behaviour
ends after the seam in which something went wrong, and when a worker hangs:
`CHECK_DEADLOCK FALSE`.

Fairness is weak fairness of each worker's step: a worker is a thread of its own, and
outside `synchronizeOnImgNb` it waits for nothing. A worker whose counter has its number
stays enabled until it runs, as only the owner of the number increments the counter.
No fairness is assumed for the manager.

### Findings

* `overtriggered`: `SignalAdapter::run` lets an overtriggered image pass every filter
  without work and then processes it: the `return` at line 99 tests for the
  wrong mode (`OutOfOrderImage`, handled before).
* `lostsample`: an image without its sample never completes the filter's group event, so
  its worker calls the result handler itself, without waiting for its turn. With
  an earlier image on its way there, the handler's counter passes
  that image's number, and that image's worker waits for ever. Joining it, at the next interval
  or at the stop of the inspection, never returns.

### Proofs: `FilterPipelineProofs`

`TypeCorrect`, `FiltersInImageOrder`, `EachItsOwnData`, `NoSignalTwice`,
`ResultsLeaveInOrder` and `OldestNeverWaits` state the run's six invariants for every `NbPar`, sequence of
sensors, order of the filter map, bound on the images, and number of faults, from
`PipelineAssumption` only (at least one worker; the two sequences list the
keys of a map). `TypeCorrect` holds always; the others, like the properties they state, speak
of a clean pipeline, and once something was overtriggered, lacked its sample or failed
they promise nothing.

None of the five is inductive. The invariant is `IInv == TInv /\ CInv`, and `CInv` says of a
clean pipeline:

| Part | What it says | Why it is needed |
|---|---|---|
| `JInv` | the jobs in hand form a chain: of two, one has its predecessor at or after the other's image; each is in the slot of its own number | two workers never claim the same stretch of numbers |
| `Counters` | for a worker in its place, what every counter is: in which part of the walk it has passed a filter (`Fits`) | a counter is moved only inside the stretch from the worker's last image plus one to its own image plus one, so no step of a worker changes what another's place says (`OthersFit`) |
| `LInv` | `Shape`: which places, calls and inputs belong together; `Data`: which slots and flags a worker has filled so far | reading one's own data, and no signal pending |
| `Results` | the images accepted and not delivered are exactly those still open, in order | a result leaves when all before it have left |

A single worker needs a conjunct of its own (`Alone`): its slot holds one job waiting while it
runs another, and no second worker's wait keeps the counters where the first left them.

For each part the proof treats apart the worker that moves (for `Counters` in a lemma per
action: `TakeWorkFits`, `SkipFits`, ..., `DoneFits`), the others, whom its step does not
disturb (`OthersFit`, `ShapeOthers`, `DataOthers`, `OpenOthers`), and the manager's two actions.

`OldestNeverWaits` needs one more invariant, as `Counters` only bounds the counters from above:
`Connected`, that the image before each one in hand is in hand too or every filter is done
with it. The oldest image's predecessor is not in hand, so every counter has reached the
number its worker waits for, and by `Counters` none is past it. That there is an
oldest is the least element of a set of natural numbers (`WFMin`). The theorem says that
the pipeline has no deadlock; that a worker which can go on does is fairness:
`CleanWorkFinishes` is liveness and stays with TLC, as does all that the model does when it is not clean.

## 5. The intake of images and samples: `InspectManager`, `MCInspectManager`

The sources of a seam (the camera, and a device per sample sensor) send one frame per
trigger, each through an event channel of its own. The manager queues what comes until
an image and the samples that belong to it are there, notes lost and skipped
images, chooses the seam interval and hands image and samples to a worker.

### Correspondence

| Model | Code |
|---|---|
| `wire` | frames of each source under way: what the event channel still holds |
| `cycle`, `interval`, `needed` | `m_triggerCycle`, `m_pActiveSeamInterval`, the sample sensors of the seam's graphs |
| `imageQueue`, `sampleQueue` | `m_oImageQueue` (an image with its processing mode), `m_oSampleQueues` |
| `last`, `lastSkipped`, `fromSensor`, `inInspection` | `m_lastProcessedImage`, `m_lastSkippedImageNumber`, `m_oNumImagesSkippedFromSensor`, `m_oNumImagesSkippedInInspection` |
| `slot`, `job` | `ProcessingThread::m_work`, `m_working` |
| `stage`, `waiting` | where a worker is in `SignalAdapter::run` (skip, ensure, process, done); is it inside the wait of `synchronizeOnImgNb` |
| `joined`, `counter` | `m_oNbSeamJoined`; the image counters of the active graph, all taken as one |
| `handed`, `trouble` | ghosts: what was handed out last; what disturbed this inspection |

`data(image)` and `data(sample)` hold `m_oManSync` from start to end, so each is one
action (`DataImage`, `DataSample`): receive, change the interval (which joins the workers),
note what is missing, decide the mode, then enqueue or start processing. `LoseFrame`
is a frame lost before it arrives, `DropFrame` one of an earlier inspection.
A worker takes its work, skips (for a gap or overtriggering), lifts the counter, processes
and is done in a step each. `Synchronized` is `synchronizeOnImgNb`: a number already passed
does not wait, but one that waits goes on at equality only, so a counter that passes
it in between leaves it waiting for ever.
A burst replaces the one before, and a cancelled source may still have `MaxLate`
frames under way (`SentBefore`, external: the trigger and grabber processes).

What `trouble` remembers of an inspection:

| Element | Meaning |
|---|---|
| `imageLost`, `sampleLost` | a frame of that kind did not arrive |
| `forced` | three images, or three samples, in a row: the oldest was processed with what there is |
| `late` | an image arrived while another waited for its samples |
| `skewed` | the interval changed while fewer images were finished than numbers had passed |
| `doubled` | a job moves the counter past its number twice: it directly follows the last image and is skipped *and* processed, or its number was handed out before |
| `restarted` | an inspection was started into a running one |

### Properties

| Property | Hazard it is about |
|---|---|
| `Paired` | image and samples come through different channels, in any order, and frames of an earlier inspection are still under way; an interval change happens between the arrival of an image and of its samples |
| `TakenInOrder` | frames are lost, refused by a full slot, forced through; still no image or sample is taken twice or behind a newer one |
| `KeepsOrder` | the mode of an image is decided against the last image *handed out*; the pipeline hangs or mixes images if number and mode do not fit |
| `Served` | counters jump over gaps, are skipped over, and restart at the number of finished images in a new graph, while other workers wait for an exact number: if no worker can go on, join at the next interval or at the stop never returns |
| `SkippedOnce` | two counters, one shared mark; an image must not be counted under both |

The provisos in these properties are the cases in which the code does something else.
Each was found by leaving it out:

* An image that arrives while its predecessor waits for a sample is compared with the last
  image *processed*: it is marked MissingImage and its predecessor is counted as
  lost, although both are processed (`late`).
* The job that a third image in a row forces through has the newest image's number and the
  oldest image's data, and so has every one after it (`forced`).
* The first proviso of `SkippedOnce` has to name `sampleLost`: after a lost sample an image goes
  under the number of the next image's sample; if both are overtriggered, that number is noted
  as skipped twice. It takes three faults and was found in the attempt to prove the property
  without it.
* A lost sample pairs every later image with a sample of the next one; when the samples
  catch up, a number is handed out under mode Normal two past the last, and with several
  workers its worker waits for ever (`sampleLost`). Lost images with sample sensors do the
  same from the other side (`imageLost`). The accounting for lost frames is sound only for
  graphs without sample sensors.
* An interval change sets the counters to the number of finished images. After a loss that is
  less than the next number, and with several workers that image's worker
  waits for ever (`skewed`).
* An overtriggered image is skipped, and then processed although `inspectManager.h` says it
  should be skipped (finding of run `overtriggered`). After a gap the second turn is the one the
  gap left free. But directly after the last image the counter passes its number in the skip
  and the next one in the processing; if the next image's worker waits by then and
  wakes too late, it waits for ever (`doubled`; `signalAdapter.cpp:69-118`).
* `startInspect` in a running inspection resets neither queues nor counters (`restarted`).

### Run

`intake`: two workers, two sensors (symmetric), intervals ending at images 1 and 2, five
images without sensors, one less per sensor, two inspections, one late frame per
source, three faults: 2 597 495 states. Two sensors show samples of
one sensor ahead of the other's; five numbers use one slot three times and cross both
interval ends, the second into "beyond the last interval"; two workers are enough for one
to wait while the other passes its number, without the proviso `doubled` TLC
shows that in this instance; two inspections show
frames of the first in the second. `RestartBound` restricts a start into a running
inspection to one in which nothing has been handed out. Nothing here is
said about progress except `Served`, which is an invariant; so there is no fairness. The
bounds end every behaviour: `CHECK_DEADLOCK FALSE`.

### Proofs: `InspectManagerProofs`

For any number of workers, sensors, intervals, images, inspections and faults:
`TypeCorrect`, `FramesTakenInOrder`, `EachImagePaired` and `NumbersGrow`. The inductive
invariant `IInv` adds to `TypeOK`

* `InOrder`: per source, what was taken, what waits in the queue and what is under way
  is one ascending sequence. `TakenInOrder` speaks of two consecutive steps only;
* `Resting`: between inspections nothing is queued, scheduled or running;
* `InInterval`: a job that is not finished belongs to the active interval, which holds because
  a change of interval joins the workers first;
* `Pairs`: while undisturbed, what waits of each source starts with the same number, and
  what is under way goes on from there (`Complete`), and never does each source wait
  (`NoneReady`): so the heads of the queues belong together.

`KeepsOrder` needs `Growing` beside it: in an orderly inspection at most one image waits,
and the mode it was given still fits the last number.

### Proofs: `InspectManagerWorkProofs`

What goes on when images are lost or late. Three more inductive invariants:

* `InTurn`, while no sample was lost, no image forced and no inspection restarted (`Steady`):
  what waits of a sample follows the sample taken last, images in the queue are ahead of
  the last one handed out, only the first of them can be in mode Normal, and the mark
  for skipped images is not ahead of the image that arrived last.
* `Counted`: the two counters of skipped images add up to no more than the numbers up to the
  mark. `NotedCounts` and `StartCounts` say what one image adds. From it
  `ImagesSkippedOnce`, which states `SkippedOnce`.
* `Chained`: the unfinished jobs cover ranges of numbers that do not overlap, the
  counter has passed none of them, and the image before each is finished, as the counter tells,
  or is itself unfinished. So the unfinished job with the lowest number
  (`LowestUnfinished`) finds the counter exactly where it waits for it, or waits in the slot of an
  idle worker; and a worker that moves the counter is that one (`OnTurn`), so it passes
  nobody's number (`TurnMoves`). From it `WorkersGoOn`, which states `Served`.

No liveness is checked here, and nothing of this module is only model-checked.

## 6. The event channel: `EventDelivery`, `EventChannel`, `MCEventChannel`

All publishers and subscribers of one event interface share a ring of blocks in shared memory.

### Correspondence

| Model | Code |
|---|---|
| `count`, `content` | `m_oLockCount` of each block, the event in it |
| `sPc`, `position`, `block`, `todo` | a sender between `INIT_EVENT` and the end of `send()`: the scan for a block, the claimed block, the subscribers not yet told |
| `multiUse`, `listed` | `multiUse_` (what a claim sets the count to), `subscriberLists_` |
| `pulses`, `rPc`, `current` | pulses queued at a subscriber, its message loop, the block it handles in place |
| `stage` | how far the module manager's activation of a pair is |
| `lost`, `wiped`, `seen` | ghosts: locks nobody will release; counts reset under an event on its way; the last event taken |

A claim is a compare-and-swap and so one step; the write, each pulse and the release are
steps of their own. Faults: a pulse fails, a handler throws (its loop frees the block and ends),
a process dies and leaves what it holds.

`EventDelivery` is what a user of the channel sees: a sender announces an event, each of
its readers is handed it or never told, takes what it was handed in that order, and
*what it reads is what was sent*. No blocks, no counts. `EventChannel` implements it
(`KeepsPromise`) with inbox and reading mapped through the contents of the blocks:
a block overwritten under a reader would change the abstract inbox and break it.

### Properties

| Property | Hazard it is about |
|---|---|
| `LockBalance` | claimed, told, waiting, handled, failed, dead: at every moment the count is the number of readers that still owe the block plus the locks lost |
| `KeepsPromise`, `InOrder` | a block claimed too early is written under a reader; pulses reordered or doubled |
| `BlockReturns` | a block that never comes back: the ring runs dry and every sender throws |

What the code does *not* promise, and the properties therefore exclude:

* a late activation: the allocator's constructor sets all counts to zero, also in a
  ring that is in use. Blocks on their way count as free, are written
  over, and the reader's release takes the count below zero, which ends its loop (`wiped`);
* an event sent between the counting of a new subscriber and its entry in the lists locks
  its block once too often, and that block is gone (`lost`);
* a failed pulse, a dead reader or a handler that threw keep their blocks. There is no
  supervision that gives them back: after as many such events as there are blocks, nothing
  can be sent.

### Run

`events`: two publishers (two events and one), two subscribers, three pairs activated at any
time, two blocks, one fault: 265 589 states. Two blocks let one be in use while the
other is claimed, and three events make each be reused; the third pair joins
under traffic. `CHECK_DEADLOCK FALSE`: the events run out, or a fault ends a loop.
Fairness: weak fairness of a sender's and a reader's steps (threads that run, none of
them waits for another); none for activation, for new events or faults.

### Proofs: `EventChannelProofs`, `EventDeliveryProofs`

For any finite sets of senders and readers, any pairs, blocks, events and faults.
`CInv` adds to the types (`TInv`, with what the program counters say of the claimed
block) that no reader owes a block twice (`Hold`, and the pulses of a reader are
distinct), `Balance` (the lock count), and `Enough` (a send buffer counts at least the listed
subscribers, so that no lock is missing). The balance is what makes `Free` safe: a count of zero means
that nobody owes the block, so the write changes nothing that
`EventDelivery` can see. From it: `LocksBalance`, `ChannelKeepsPromise` (the refinement, one
step per action) and, with `HandedInOrder` of the abstract specification,
`EventsInOrder`. Only model-checked: `BlockReturns` (liveness).

## 7. The registry: `ModuleManager`, `MCModuleManager`

Every module tells the manager what it subscribes to and publishes; the manager activates each
matching pair. Each module has a handler thread of its own there.

### Correspondence

| Model | Code |
|---|---|
| `next`, `stage` | which request of the module its handler thread works on, and where: entering it, before the walk, walking, past a walk without match, blocked |
| `lock` | `commonMutex_` |
| `catalogue`, `subscriptions`, `paired`, `waitingPublishers` | `catalogue_`, `subscriptions_`, `activationPairs_`, `waitingPublishers_` |
| `todo` | matches the walk has still to activate |
| `protocol`, `sendMemory`, `multiUse` | the shared memory of a subscription, the one a publisher sends through, its count of readers |
| `released`, `missed`, `overlap` | the semaphore of a waiting publisher; ghosts: publishers a subscriber missed, pairs whose requests overlapped |

A request takes the lock twice, for the entry and for the walk, and other requests run in
between; a publication that found nobody then waits on a semaphore, having entered itself in
a list *without* the lock. Lists are sets and a walk takes its matches in any order,
which includes the code's.

### Properties

| Property | Hazard it is about |
|---|---|
| `MatchesActivated` | two requests that match run at once: each may have entered before or after the other walked |
| `PublishedIsPaired` | `publish` of a message returns only with a subscriber, whoever's subscription set it free |
| `ReadersCounted` | `addSubscriber` is called once per activation, for known and for new subscribers, in any order: a reader that is not counted reads blocks which are being written, one counted twice keeps them for ever. Never fewer uses than readers; exactly one per reader unless their requests overlapped |
| `ReadersCountedOnce` | the same without that proviso, as the code's comments promise |
| `OneMemory` | with several publishers and subscribers the memory is handed from pair to pair; unless requests overlap all use one |
| `WaitsForAReason` | a publisher that waits beside a ready subscriber was missed in one of exactly two ways |
| `WaiterReleased` | a waiting publisher in the list is set free by the next match |

The missed wake-up is real: a subscriber whose walk comes between the end of the
publisher's walk and its entry in the list (mmAccessor.cpp:423) passes it by, and the module
waits until another subscriber matches.

### Finding

* `doublecount`: a publication and a subscription are both entered before either walks, so both walks
  activate the pair, and each activation adds a use to the publisher's buffers
  (eventSignaler.cpp:220). "Double registrations shall have no effect" (:247) is kept for the lists
  only. With section 6 this costs the publisher a lock per block: no block is free again, and after one
  round of the ring there is none to claim.

### Runs

`registry`: grabber, inspection, workflow and calibration make nine requests, subscriptions
before publications and events before messages as in `ModuleManagerConnector`: two
publishers and two subscribers of one event, a message to one module from each of two
publishers, a message to anybody. 111 125 states. Fairness: weak fairness of each handler
thread; the number of requests is finite, so that nobody is kept from the lock for ever.
`CHECK_DEADLOCK FALSE`: the requests end, or a publisher waits. `doublecount` is the same instance
without fairness.

### Proofs: `ModuleManagerProofs`

For any set of modules and any program. `IInv`: `TypeOK`; `HandlerInv` (what a handler's stage
says of its request); `WalkInv` (who walks has the lock, and what it found is paired or still to
be activated: `MatchesActivated` alone is not inductive as
it says nothing while a walk runs); `ReleasedInv` (a released publisher has a pair). From it
`TypeCorrect`, `NobodyLeftOut`, `PublishReturnsPaired`. `JInv` adds the counts, by pair, of the
walks done and to do: each pair is counted once per walk that found it, so `ReadersCountedRight`. `WaitInv` adds what a publisher between its walk and
its entry in the list knows of each subscriber: `WaitIsJustified`. `MemoryInv` says that a
subscriber has a memory exactly when it is paired, and that all pairs of an interface use one
(`Shared`) unless its requests overlapped: under the lock only the walked entry is half
done (`OtherUntouched`), so a pair that gets a new memory is the first of its interface
(`FirstPair`). From it `MemoryShared`.
Only model-checked: `WaiterReleased` (liveness).

## 8. Not modelled

* `wmMPSCQueue`, `wmLogger`: no program includes them.
* `ConnectServer`: forks the configured processes and waits for each to answer through a
  pipe. Its order does not matter to the registry, which is modelled with any order.
* `Mod_Scheduler`: a timer that copies and deletes files. Nothing in the inspection depends on it.
* `Mod_VideoRecorder`: takes images from the inspection and gives nothing back.
* `Mod_WeldHeadControl`, `Mod_Grabber*`, `Mod_Trigger`, `Mod_EtherCATMaster`, `Mod_Fieldbus`:
  drivers whose control is tied to the devices' libraries; in the models they are faults
  that may be signalled, frames that may be lost, a homing run that may fail.
* The remaining fieldbus bits of `Mod_InspectionControl`: each is forwarded as an event without
  state; the emergency stop is the one with a flag beside its event, and is modelled.
* `App_Gui`, the editors, `Mod_Storage`: requests in any order are their model.
* `Filter_*`, `Mod_Calibration`, `dxfReader`, `Rhothor_Lib`: numeric algorithms on images in
  floating point; a filter is an opaque step that may fail. They, with the GUI and the vendored
  code, are nearly all of the repository's lines.

`PROJECT.json` gives the reason for each component and, for each hazard no property
covers, why.
