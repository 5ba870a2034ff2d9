--------------------------- MODULE FilterPipeline ---------------------------
(***************************************************************************)
(* The pipelined inspection: up to g_oNbPar images are in the filter graph *)
(* at the same time, one per worker thread.                                *)
(*                                                                         *)
(*   ProcessingThread (processingThread.cpp)  a worker with one work slot  *)
(*   SignalAdapter    (signalAdapter.cpp)     the work on one image        *)
(*   BaseFilter       (fliplib)               the image counter that makes *)
(*                                            filters take images in order *)
(*   SynchronePipe, PipeGroupEvent (fliplib)  data and signals, with one   *)
(*                                            slot per image in flight     *)
(*   ResultHandler    (resultHandler.cpp)     the sink of every graph      *)
(*                                                                         *)
(* The graph: an image source and a source per sample sensor, a filter     *)
(* that waits for all of them (a group event), and the result handler,     *)
(* which is not in the graph's filter map.  A pipe calls its reader in the *)
(* writer's thread, so a worker walks                                      *)
(*    source, [filter, result handler]                                     *)
(* once per source, and the last source to signal takes it to the filter.  *)
(*                                                                         *)
(* The spec closes the pipeline with a manager that obeys the order the    *)
(* InspectManager promises (image numbers only grow; a gap is a missing    *)
(* image); module InspectManager shows when the real one keeps that order.  *)
(***************************************************************************)
EXTENDS Integers, Sequences, SequencesExt

CONSTANTS
    NbPar,        \* g_oNbPar, the number of worker threads
    Sensors,      \* the sample sensors, in the order of their ids
    FilterMap,    \* the graph's filters, in the order of their UUIDs
    LastImage,    \* bound: the highest image number
    Modes,        \* the processing modes the manager asks for
    FiltersFail,  \* a filter or the handler may throw
    MaxFaults     \* bound: overtriggered images, images without a sample and
                  \* failures of a filter or the handler in one behaviour

\* The filters every graph has; a sample sensor stands for its SampleSource.
Image   == "image"
Filter  == "filter"
Handler == "handler"
None    == "none"

Sources == {Image} \cup Range(Sensors)
Filters == Sources \cup {Filter}

\* Both sequences list the keys of a map.
ASSUME PipelineAssumption ==
    /\ NbPar \in Nat \ {0}
    /\ LastImage \in Nat
    /\ FiltersFail \in BOOLEAN
    /\ MaxFaults \in Nat
    /\ Modes \subseteq {"Normal", "Overtriggered", "MissingImage"}
    /\ Sensors \in Seq(Range(Sensors)) /\ IsInjective(Sensors)
    /\ Range(Sensors) \cap {Image, Filter, Handler, None} = {}
    /\ FilterMap \in Seq(Filters) /\ IsInjective(FilterMap)
    /\ Range(FilterMap) = Filters

VARIABLES
    work,        \* ProcessingThread::m_work: the adapter waiting for the worker
    job,         \* the adapter the worker runs (m_working)
    pc,          \* where the worker is in SignalAdapter::run
    idx,         \* position in a loop over the filters
    inputs,      \* sources still to be signaled
    at,          \* filter whose proceed the worker calls, waits for or is in
    waiting,     \* it waits in synchronizeOnImgNb, past the check at its start
    img,         \* image number of that call
    carry,       \* image number of the data it read
    processing,  \* ResultHandler::m_processing, one per thread
    counter,     \* BaseFilter::m_oCounter
    subscriber,  \* worker whose sample pipe a sample source reads from
    imagePipe,   \* data in m_oPipeImageFrame, one slot per image in flight
    samplePipe,  \* data in m_oPipesSampleFrame, one such pipe per worker
    slot,        \* data in the output pipes, one slot per image in flight
    avail,       \* SynchronePipe::m_dataAvailable of the result pipe
    flag,        \* PipeGroupEvent::signalerCounters_ of the filter
    last,        \* m_lastProcessedImage, the last image handed to a worker
    accepted,    \* images handed to a worker in this seam, in that order
    delivered,   \* images whose result the handler took to send, in that order
    faults       \* overtriggered images, images without a sample, failures

workerVars == <<pc, idx, waiting, inputs, at, img, carry, processing>>
pipeVars   == <<subscriber, imagePipe, samplePipe, slot, avail, flag>>
vars == <<work, job, workerVars, counter, pipeVars, last, accepted, delivered, faults>>

Workers == 0 .. NbPar - 1
Images  == 0 .. LastImage
Slot(n) == n % NbPar

\* Filters in the order of a visitor over the filter map; and with the result
\* handler, which the adapter visits after them.
VisitedGraph == FilterMap      \* mutant: the result handler is forgotten
Visited == Append(FilterMap, Handler)

NoJob == [n |-> -1, mode |-> "Normal", last |-> -1, samples |-> {}]
Job   == [n : Images, mode : {"Normal", "Overtriggered", "MissingImage", "OutOfOrderImage"},
          last : Images \cup {-1}, samples : SUBSET Range(Sensors)]

\* Nothing has disturbed the pipeline yet.
clean == faults = 0

Init ==
    /\ work = [w \in Workers |-> NoJob]
    /\ job  = [w \in Workers |-> NoJob]
    /\ pc   = [w \in Workers |-> "idle"]
    /\ idx  = [w \in Workers |-> 1]
    /\ waiting = [w \in Workers |-> FALSE]
    /\ inputs = [w \in Workers |-> <<>>]
    /\ at   = [w \in Workers |-> None]
    /\ img  = [w \in Workers |-> 0]
    /\ carry = [w \in Workers |-> 0]
    /\ processing = [w \in Workers |-> FALSE]
    /\ counter = [f \in Filters \cup {Handler} |-> 0]
    /\ subscriber = [s \in Range(Sensors) |-> 0]
    /\ imagePipe = [k \in Workers |-> 0]
    /\ samplePipe = [w \in Workers |-> [k \in Workers |-> 0]]
    /\ slot = [f \in Filters |-> [k \in Workers |-> 0]]
    /\ avail = [k \in Workers |-> FALSE]
    /\ flag = [s \in Sources |-> [k \in Workers |-> FALSE]]
    /\ last = -1
    /\ accepted = <<>>
    /\ delivered = <<>>
    /\ faults = 0

-----------------------------------------------------------------------------
(* BaseFilter: the image counter. *)

\* The call of synchronizeOnImgNb the worker is in: of which filter, for which
\* image number.
SyncFilter(w) == CASE pc[w] = "skip" -> Visited[idx[w]]
                   [] pc[w] = "sync" -> FilterMap[idx[w]]
                   [] OTHER -> at[w]
SyncNumber(w) == CASE pc[w] = "skip" -> job[w].last + 1
                   [] pc[w] = "sync" -> job[w].n
                   [] OTHER -> img[w]

\* It returns at once without parallelism, and with an error in the log when
\* the counter is already past the number.  Once it waits, it waits until the
\* counter is the number: a counter that jumps past it leaves it waiting.
SynchronizedBehind(w) ==       \* mutant: the comparison is swapped
    \/ NbPar = 1
    \/ counter[SyncFilter(w)] = SyncNumber(w)
    \/ ~waiting[w] /\ counter[SyncFilter(w)] < SyncNumber(w)

Synchronized(w) ==
    \/ NbPar = 1
    \/ counter[SyncFilter(w)] = SyncNumber(w)
    \/ ~waiting[w] /\ counter[SyncFilter(w)] > SyncNumber(w)

Proceed(w) == Synchronized(w) /\ waiting' = [waiting EXCEPT ![w] = FALSE]

Wait(w) ==
    /\ pc[w] \in {"skip", "sync", "call"}
    /\ SyncFilter(w) \in Sources \/ pc[w] # "sync"
    /\ ~Synchronized(w) /\ ~waiting[w]
    /\ waiting' = [waiting EXCEPT ![w] = TRUE]
    /\ UNCHANGED <<work, job, pc, idx, inputs, at, img, carry, processing,
                   counter, pipeVars, last, accepted, delivered, faults>>

\* preSignalAction: the filter is free for its next image.
PreSignalAction(f) == counter' = [counter EXCEPT ![f] = @ + 1]

\* ensureImageNumber
EnsureImageNumber(f, n) ==
    counter' = [counter EXCEPT ![f] = IF @ < n THEN n ELSE @]

-----------------------------------------------------------------------------
(* ProcessingThread::run and the start of SignalAdapter::run. *)

FirstStep(j) ==
    CASE j.mode = "OutOfOrderImage" -> "done"
      [] j.mode \in {"Overtriggered", "MissingImage"} -> "skip"
      [] OTHER -> "sync"

TakeWork(w) ==
    /\ pc[w] = "idle"
    /\ work[w] # NoJob
    /\ job' = [job EXCEPT ![w] = work[w]]
    /\ work' = [work EXCEPT ![w] = NoJob]
    /\ pc' = [pc EXCEPT ![w] = FirstStep(work[w])]
    /\ idx' = [idx EXCEPT ![w] = 1]
    /\ UNCHANGED <<waiting, inputs, at, img, carry, processing, counter, pipeVars, last,
                   accepted, delivered, faults>>

\* run() returned: the slot's waiters in join() are notified.
FinishWork(w) ==
    /\ pc[w] = "done"
    /\ pc' = [pc EXCEPT ![w] = "idle"]
    /\ job' = [job EXCEPT ![w] = NoJob]
    /\ at' = [at EXCEPT ![w] = None]
    /\ img' = [img EXCEPT ![w] = 0]
    /\ carry' = [carry EXCEPT ![w] = 0]
    /\ UNCHANGED <<work, idx, waiting, inputs, processing, counter, pipeVars, last, accepted, delivered, faults>>

\* One filter of a loop over a list of filters is done; after the last one
\* the worker goes on to step.
AdvanceKeepsIndex(w, list, step) ==   \* mutant: the next loop starts at the end
    /\ idx' = [idx EXCEPT ![w] = @ + 1]
    /\ IF idx[w] < Len(list) THEN UNCHANGED pc ELSE pc' = [pc EXCEPT ![w] = step]

Advance(w, list, step) ==
    IF idx[w] < Len(list)
    THEN idx' = [idx EXCEPT ![w] = @ + 1] /\ UNCHANGED pc
    ELSE idx' = [idx EXCEPT ![w] = 1] /\ pc' = [pc EXCEPT ![w] = step]

\* SkipImageProcessingVisitor: every filter lets the image after the last
\* processed one pass without work.
SkipImageProcessing(w) ==
    LET f == Visited[idx[w]] IN
    /\ pc[w] = "skip"
    /\ Proceed(w)
    /\ PreSignalAction(f)
    /\ Advance(w, Visited, "ensure")
    /\ UNCHANGED <<work, job, inputs, at, img, carry, processing, pipeVars, last,
                   accepted, delivered, faults>>

\* ensureImageNumber(n) on every filter and on the result handler.  The code
\* goes on to process the image, overtriggered or not.
EnsureAll(w) ==
    LET f == Visited[idx[w]] IN
    /\ pc[w] = "ensure"
    /\ EnsureImageNumber(f, job[w].n)
    /\ Advance(w, Visited, "sync")
    /\ UNCHANGED <<work, job, waiting, inputs, at, img, carry, processing, pipeVars, last,
                   accepted, delivered, faults>>

\* synchronizeSourceFilters, then ResultHandler::startProcessing.
SynchronizeNone(w) ==          \* mutant: the source filters are not waited for
    LET lastFilter == idx[w] = Len(FilterMap) IN
    /\ pc[w] = "sync"
    /\ Advance(w, FilterMap, "signal")
    /\ processing' = [processing EXCEPT ![w] = @ \/ lastFilter]
    /\ inputs' = IF lastFilter THEN [inputs EXCEPT ![w] = <<Image>> \o Sensors] ELSE inputs
    /\ UNCHANGED <<work, job, waiting, at, img, carry, counter, pipeVars, last, accepted,
                   delivered, faults>>

SynchronizeSource(w) ==
    LET lastFilter == idx[w] = Len(FilterMap) IN
    /\ pc[w] = "sync"
    /\ IF FilterMap[idx[w]] \in Sources THEN Proceed(w) ELSE UNCHANGED waiting
    /\ Advance(w, FilterMap, "signal")
    /\ processing' = [processing EXCEPT ![w] = @ \/ lastFilter]
    /\ inputs' = IF lastFilter THEN [inputs EXCEPT ![w] = <<Image>> \o Sensors] ELSE inputs
    /\ UNCHANGED <<work, job, at, img, carry, counter, pipeVars, last, accepted, delivered, faults>>

\* The adapter has no sample of this sensor.
NoSample(w) ==
    /\ pc[w] = "signal"
    /\ inputs[w] # <<>>
    /\ Head(inputs[w]) \notin {Image} \cup job[w].samples
    /\ inputs' = [inputs EXCEPT ![w] = Tail(@)]
    /\ UNCHANGED <<work, job, pc, idx, waiting, at, img, carry, processing, counter, pipeVars,
                   last, accepted, delivered, faults>>

\* The adapter writes its image to the image pipe, or connects its sample pipe
\* to the sample's source and writes the sample; then it signals the source.
SignalSource(w) ==
    /\ pc[w] = "signal"
    /\ inputs[w] # <<>>
    /\ Head(inputs[w]) \in {Image} \cup job[w].samples
    /\ LET s == Head(inputs[w])
           n == job[w].n
       IN /\ IF s = Image
             THEN /\ imagePipe' = [imagePipe EXCEPT ![Slot(n)] = n]
                  /\ UNCHANGED <<subscriber, samplePipe>>
             ELSE /\ subscriber' = [subscriber EXCEPT ![s] = w]
                  /\ samplePipe' = [samplePipe EXCEPT ![w][Slot(n)] = n]
                  /\ UNCHANGED imagePipe
          /\ at' = [at EXCEPT ![w] = s]
          /\ img' = [img EXCEPT ![w] = n]
    /\ inputs' = [inputs EXCEPT ![w] = Tail(@)]
    /\ pc' = [pc EXCEPT ![w] = "call"]
    /\ UNCHANGED <<work, job, idx, waiting, carry, processing, counter, slot, avail, flag,
                   last, accepted, delivered, faults>>

\* timedProceed, timedProceedGroup: the filter takes the image its counter
\* stands at, and reads its input pipes there.
InputNumber(f) ==
    LET k == Slot(counter[f]) IN
    CASE f = Image   -> imagePipe[k]
      [] f = Filter  -> slot[Image][k]
      [] f = Handler -> slot[Filter][k]
      [] OTHER       -> samplePipe[subscriber[f]][k]

\* ResultHandler::proceedGroup sends the results it finds in its slot.
SendResultsAhead ==            \* mutant: the counter is incremented before the read
    LET k == Slot(counter[Handler] + 1) IN
    /\ avail' = [avail EXCEPT ![k] = FALSE]
    /\ delivered' = IF avail[k] THEN Append(delivered, slot[Filter][k]) ELSE delivered

SendResults ==
    LET k == Slot(counter[Handler]) IN
    /\ avail' = [avail EXCEPT ![k] = FALSE]
    /\ delivered' = IF avail[k] THEN Append(delivered, slot[Filter][k]) ELSE delivered

EnterFilter(w) ==
    /\ pc[w] = "call"
    /\ Proceed(w)
    /\ carry' = [carry EXCEPT ![w] = InputNumber(at[w])]
    /\ IF at[w] = Handler THEN SendResults ELSE UNCHANGED <<avail, delivered>>
    /\ pc' = [pc EXCEPT ![w] = "inside"]
    /\ UNCHANGED <<work, job, idx, inputs, at, img, processing, counter,
                   subscriber, imagePipe, samplePipe, slot, flag, last, accepted, faults>>

\* The filter has its result and frees its counter.
LeaveFilter(w) ==
    /\ pc[w] = "inside"
    /\ at[w] # Handler
    /\ PreSignalAction(at[w])
    /\ pc' = [pc EXCEPT ![w] = "emit"]
    /\ UNCHANGED <<work, job, idx, waiting, inputs, at, img, carry, processing,
                   pipeVars, last, accepted, delivered, faults>>

\* The filter or the handler throws: timedProceed, or timedProceedGroup, catches
\* and calls preSignalAction itself.  A filter then signals nothing; a handler
\* has not said that it is through with the image.
FilterFails(w) ==
    /\ FiltersFail /\ faults < MaxFaults
    /\ pc[w] = "inside"
    /\ PreSignalAction(at[w])
    /\ pc' = [pc EXCEPT ![w] = "signal"]
    /\ faults' = faults + 1
    /\ UNCHANGED <<work, job, idx, waiting, inputs, at, img, carry, processing,
                   pipeVars, last, accepted, delivered>>

LeaveHandler(w) ==
    /\ pc[w] = "inside"
    /\ at[w] = Handler
    /\ PreSignalAction(Handler)
    /\ processing' = [processing EXCEPT ![w] = FALSE]
    /\ pc' = [pc EXCEPT ![w] = "signal"]
    /\ UNCHANGED <<work, job, idx, waiting, inputs, at, img, carry, pipeVars,
                   last, accepted, delivered, faults>>

\* PipeGroupEvent::signalhandler after source s signaled image number n: a
\* signal of another pipe that holds older data is taken back.
Signaled(s, n) ==
    [t \in Sources |->
        IF t = s THEN [flag[t] EXCEPT ![Slot(n)] = TRUE]
        ELSE IF slot[t][Slot(n)] < n THEN [flag[t] EXCEPT ![Slot(n)] = FALSE]
        ELSE flag[t]]

\* resetSignalCounter: no pipe has a signal pending for image number n.
ResetSamples(flags, n) ==      \* mutant: the first pipe is left out
    [t \in Sources |-> IF t = Image THEN flags[t] ELSE [flags[t] EXCEPT ![Slot(n)] = FALSE]]

ResetSignals(flags, n) == [t \in Sources |-> [flags[t] EXCEPT ![Slot(n)] = FALSE]]

\* A source writes its pipe and signals the filter's group event; when all
\* pipes have signaled, the event resets its flags and calls the filter.
EmitSource(w) ==
    LET s == at[w]
        n == carry[w]
        signaled == Signaled(s, n)
        complete == \A t \in Sources : signaled[t][Slot(n)]
    IN
    /\ pc[w] = "emit"
    /\ s \in Sources
    /\ slot' = [slot EXCEPT ![s][Slot(n)] = n]
    /\ IF complete
       THEN /\ flag' = ResetSignals(signaled, n)
            /\ at' = [at EXCEPT ![w] = Filter]
            /\ img' = [img EXCEPT ![w] = n]
            /\ pc' = [pc EXCEPT ![w] = "call"]
       ELSE /\ flag' = signaled
            /\ pc' = [pc EXCEPT ![w] = "signal"]
            /\ UNCHANGED <<at, img>>
    /\ UNCHANGED <<work, job, idx, waiting, inputs, carry, processing, counter,
                   subscriber, imagePipe, samplePipe, avail, last, accepted, delivered, faults>>

\* The filter writes the result pipe, whose only reader is the handler.
EmitResult(w) ==
    LET n == carry[w] IN
    /\ pc[w] = "emit"
    /\ at[w] = Filter
    /\ slot' = [slot EXCEPT ![Filter][Slot(n)] = n]
    /\ avail' = [avail EXCEPT ![Slot(n)] = TRUE]
    /\ at' = [at EXCEPT ![w] = Handler]
    /\ img' = [img EXCEPT ![w] = n]
    /\ pc' = [pc EXCEPT ![w] = "call"]
    /\ UNCHANGED <<work, job, idx, waiting, inputs, carry, processing, counter,
                   subscriber, imagePipe, samplePipe, flag, last, accepted, delivered, faults>>

\* All sources are signaled and the handler was called: the image is done.
ImageDone(w) ==
    /\ pc[w] = "signal"
    /\ inputs[w] = <<>>
    /\ ~processing[w]
    /\ pc' = [pc EXCEPT ![w] = "done"]
    /\ UNCHANGED <<work, job, idx, waiting, inputs, at, img, carry, processing,
                   counter, pipeVars, last, accepted, delivered, faults>>

\* The handler was not called: the adapter resets the group events of its slot
\* and calls proceedGroup itself, without synchronizing.
CallHandler(w) ==
    /\ pc[w] = "signal"
    /\ inputs[w] = <<>>
    /\ processing[w]
    /\ flag' = ResetSignals(flag, job[w].n)
    /\ SendResults
    /\ pc' = [pc EXCEPT ![w] = "handler"]
    /\ UNCHANGED <<work, job, idx, waiting, inputs, at, img, carry, processing,
                   counter, subscriber, imagePipe, samplePipe, slot, last, accepted, faults>>

HandlerCalled(w) ==
    /\ pc[w] = "handler"
    /\ PreSignalAction(Handler)
    /\ processing' = [processing EXCEPT ![w] = FALSE]
    /\ pc' = [pc EXCEPT ![w] = "ensureNext"]
    /\ UNCHANGED <<work, job, idx, waiting, inputs, at, img, carry, pipeVars,
                   last, accepted, delivered, faults>>

\* The handler throws in that call: run() catches and returns, so that neither
\* the handler's counter nor those of the graph reach the next number.  (Only
\* after another fault does the adapter call the handler, and this one is not
\* counted beside it.)
HandlerFails(w) ==
    /\ FiltersFail
    /\ pc[w] = "handler"
    /\ pc' = [pc EXCEPT ![w] = "done"]
    /\ UNCHANGED <<work, job, idx, waiting, inputs, at, img, carry, processing,
                   counter, pipeVars, last, accepted, delivered, faults>>

\* ensureImageNumber(n + 1) on the graph: some filters may not have run.
EnsureNext(w) ==
    /\ pc[w] = "ensureNext"
    /\ EnsureImageNumber(FilterMap[idx[w]], job[w].n + 1)
    /\ Advance(w, FilterMap, "done")
    /\ UNCHANGED <<work, job, waiting, inputs, at, img, carry, processing,
                   pipeVars, last, accepted, delivered, faults>>

Step(w) ==
    \/ TakeWork(w) \/ FinishWork(w) \/ Wait(w)
    \/ SkipImageProcessing(w) \/ EnsureAll(w) \/ SynchronizeSource(w)
    \/ NoSample(w) \/ SignalSource(w) \/ EnterFilter(w) \/ LeaveFilter(w) \/ FilterFails(w)
    \/ LeaveHandler(w) \/ EmitSource(w) \/ EmitResult(w)
    \/ ImageDone(w) \/ CallHandler(w) \/ HandlerCalled(w) \/ HandlerFails(w)
    \/ EnsureNext(w)

-----------------------------------------------------------------------------
(* The manager: images in the order of their numbers, some of them missing.  *)
(* The mode follows from the number as in InspectManager::data; the timer's  *)
(* verdict that the station is overtriggered overrides it.                   *)

Idle == \A w \in Workers : work[w] = NoJob /\ job[w] = NoJob

Disturbed(mode, samples) == mode = "Overtriggered" \/ samples # Range(Sensors)

\* A full work slot refuses the image (scheduleWork times out): the manager
\* keeps last, and the image's number is a gap for the next one.
Schedule(n, mode, samples) ==
    LET w == Slot(n) IN
    /\ work[w] = NoJob
    /\ work' = [work EXCEPT ![w] = [n |-> n, mode |-> mode, last |-> last,
                                    samples |-> samples]]
    /\ last' = n
    /\ accepted' = Append(accepted, n)
    /\ faults' = IF Disturbed(mode, samples) THEN faults + 1 ELSE faults
    /\ UNCHANGED <<job, workerVars, counter, pipeVars, delivered>>

ScheduleImage ==
    \E n \in Images, mode \in Modes, samples \in SUBSET Range(Sensors) :
        /\ n > last
        /\ mode = "Normal" => n = last + 1
        /\ mode = "MissingImage" => n > last + 1
        /\ Disturbed(mode, samples) => faults < MaxFaults
        /\ Schedule(n, mode, samples)

\* The seam ends and the next one starts: the workers are joined, the counters
\* start again at 0 and the group events are reset.  (Bound: a behaviour ends
\* with the seam a fault occurred in.)
NextSeam ==
    /\ Idle
    /\ clean
    /\ last = LastImage
    /\ last' = -1
    /\ counter' = [f \in Filters \cup {Handler} |-> 0]
    /\ flag' = [s \in Sources |-> [k \in Workers |-> FALSE]]
    /\ accepted' = <<>>
    /\ delivered' = <<>>
    /\ UNCHANGED <<work, job, workerVars, subscriber, imagePipe, samplePipe, slot, avail,
                   faults>>

Next == ScheduleImage \/ NextSeam \/ \E w \in Workers : Step(w)

Spec == Init /\ [][Next]_vars

FairSpec == Spec /\ \A w \in Workers : WF_vars(Step(w))

-----------------------------------------------------------------------------
(* Properties *)

\* The types of the variables.
TypeOK ==
    /\ work \in [Workers -> Job \cup {NoJob}]
    /\ job \in [Workers -> Job \cup {NoJob}]
    /\ pc \in [Workers -> {"idle", "skip", "ensure", "sync", "signal", "call", "inside",
                            "emit", "handler", "ensureNext", "done"}]
    /\ idx \in [Workers -> 1 .. Len(Visited)]
    /\ waiting \in [Workers -> BOOLEAN]
    /\ inputs \in [Workers -> Seq(Sources)]
    /\ at \in [Workers -> Filters \cup {Handler, None}]
    /\ img \in [Workers -> Images]
    /\ carry \in [Workers -> Images]
    /\ processing \in [Workers -> BOOLEAN]
    /\ counter \in [Filters \cup {Handler} -> Nat]
    /\ subscriber \in [Range(Sensors) -> Workers]
    /\ imagePipe \in [Workers -> Images]
    /\ samplePipe \in [Workers -> [Workers -> Images]]
    /\ slot \in [Filters -> [Workers -> Images]]
    /\ avail \in [Workers -> BOOLEAN]
    /\ flag \in [Sources -> [Workers -> BOOLEAN]]
    /\ last \in Images \cup {-1}
    /\ accepted \in Seq(Images)
    /\ delivered \in Seq(Images)
    /\ faults \in 0 .. MaxFaults

\* A filter works on one image at a time, the one its counter stands at
\* (BaseFilter.cpp, timedProceed and timedProceedGroup), as long as no image
\* was overtriggered, lacked a sample or failed in the graph.
InImageOrder ==
    clean => \A v, w \in Workers :
        pc[w] = "inside" =>
            /\ counter[at[w]] = job[w].n
            /\ v # w /\ pc[v] = "inside" => at[v] # at[w]

\* What a filter reads is its own image: neither the slot of an output pipe
\* nor the connection of a sample pipe has been taken over by an image behind
\* it (SynchronePipe::read, SignalAdapter::run).
OwnData ==
    clean => \A w \in Workers :
        pc[w] = "inside" =>
            /\ carry[w] = job[w].n
            /\ at[w] = Filter =>
                   \A s \in Sources : slot[s][Slot(counter[Filter])] = job[w].n

\* The assertion in PipeGroupEvent::signalhandler: a pipe that signals has no
\* signal pending in its slot (PipeGroupEvent.cpp), with the same proviso.
SignalsOnce ==
    clean => \A w \in Workers :
        pc[w] = "emit" /\ at[w] \in Sources => ~flag[at[w]][Slot(carry[w])]

\* Results leave the station in the order of the images, and when the workers
\* are idle every image that was handed to one has its result.
ResultsInOrder ==
    clean => /\ IsPrefix(delivered, accepted)
             /\ Idle => delivered = accepted

\* The image a worker is on, or takes next, and whether the worker can go on with
\* it: it waits for nobody in synchronizeOnImgNb.
Current(w) == IF job[w] # NoJob THEN job[w] ELSE work[w]

CanGoOn(w) ==
    /\ Current(w) # NoJob
    /\ pc[w] = "skip" \/ pc[w] = "call" \/ (pc[w] = "sync" /\ SyncFilter(w) \in Sources)
          => Synchronized(w)

\* The workers never all wait for each other: who has the oldest image can go on,
\* with the same proviso (BaseFilter::synchronizeOnImgNb).
OldestGoesOn ==
    clean => \/ Idle
             \/ \E w \in Workers :
                   /\ CanGoOn(w)
                   /\ \A v \in Workers : \A j \in {work[v], job[v]} \ {NoJob} : Current(w).n <= j.n

\* Joining a worker ends (ProcessingThread::join): whoever has work finishes
\* it, as long as no image was overtriggered, lacked a sample or failed.
HasWork(w) == work[w] # NoJob \/ job[w] # NoJob

CleanWorkFinishes == \A w \in Workers : HasWork(w) ~> (~HasWork(w) \/ ~clean)

\* "it is possible that some filter weren't processed. Thus we need to ensure
\* the image number" (signalAdapter.cpp): whatever is missing, the work ends.
WorkFinishes == \A w \in Workers : HasWork(w) ~> ~HasWork(w)

\* ProcessingMode::Overtriggered: "processing of image should be skipped"
\* (inspectManager.h).
OvertriggeredSkipped ==
    \A w \in Workers : pc[w] = "inside" => job[w].mode # "Overtriggered"
=============================================================================
