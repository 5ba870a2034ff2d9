--------------------------- MODULE InspectManager ---------------------------
(***************************************************************************)
(* How the InspectManager (Mod_Analyzer) takes in images and samples.  The *)
(* sources of a seam send one frame per trigger, each source through a     *)
(* channel of its own, so frames of different sources come in any order.   *)
(* The manager waits in queues until an image and the samples that belong  *)
(* to it are there, and hands them to a worker thread; it also chooses the *)
(* seam interval, whose graph processes the image, and notes which images  *)
(* were lost.                                                              *)
(*                                                                         *)
(* The handlers hold m_oManSync from start to end, so each is one step;    *)
(* the workers run beside them.  What a worker does inside the graph is    *)
(* module FilterPipeline; here one counter stands for the counters of the  *)
(* graph's filters, and a worker that skips and processes an image moves it*)
(* in the order in which it moves each of them.  The graphs of a seam have *)
(* an image source and the same sample sensors.  Simulation, where images  *)
(* are requested one by one, calibration and live mode without a graph are *)
(* left out.                                                               *)
(***************************************************************************)
EXTENDS Integers, Sequences, FiniteSets

CONSTANTS
    NbPar,         \* g_oNbPar, the number of worker threads
    Sensors,       \* the sample sensors of the station
    Ends,          \* last image of each seam interval, in order
    LastImage,     \* bound: the highest image number
    LastTrigger,   \* the last image of a seam, by the sensors of its graphs
    MaxCycles,     \* bound: starts of an inspection
    MaxLate,       \* bound: frames of a source under way when a seam ends
    MaxFaults      \* bound: lost frames and verdicts "overtriggered"

Image   == "image"
Sources == {Image} \cup Sensors
Workers == 0 .. NbPar - 1
Numbers == 0 .. LastImage
Modes   == {"Normal", "Overtriggered", "MissingImage", "OutOfOrderImage"}

ASSUME IntakeAssumption ==
    /\ NbPar \in Nat \ {0}
    /\ Image \notin Sensors
    /\ Ends \in Seq(Nat) /\ Ends # <<>>
    /\ \A i, j \in DOMAIN Ends : i < j => Ends[i] < Ends[j]
    /\ LastImage \in Nat
    /\ LastTrigger \in [SUBSET Sensors -> Numbers]
    /\ MaxCycles \in Nat
    /\ MaxLate \in Nat
    /\ MaxFaults \in Nat

VARIABLES
    wire,         \* frames of each source under way to the manager
    cycle,        \* m_triggerCycle
    imageQueue,   \* m_oImageQueue, each image with its processing mode
    sampleQueue,  \* m_oSampleQueues
    interval,     \* m_pActiveSeamInterval, 0 between two inspections
    needed,       \* the sample sensors of the seam's graphs
    last,         \* m_lastProcessedImage
    lastSkipped,  \* m_lastSkippedImageNumber
    fromSensor,   \* m_oNumImagesSkippedFromSensor
    inInspection, \* m_oNumImagesSkippedInInspection
    joined,       \* m_oNbSeamJoined
    counter,      \* the image the filters of the active graph expect
    slot,         \* ProcessingThread::m_work of each worker
    job,          \* the work it runs (m_working)
    stage,        \* what it does next in SignalAdapter::run
    waiting,      \* it waits in synchronizeOnImgNb, past the check at its start
    handed,       \* what the manager handed out last
    faults,       \* faults so far (bound)
    trouble       \* what disturbed this inspection (history)

skipVars   == <<lastSkipped, fromSensor, inInspection>>
runVars    == <<job, stage, waiting>>
workerVars == <<joined, counter, slot, runVars>>
vars == <<wire, cycle, imageQueue, sampleQueue, interval, needed, last, skipVars,
          workerVars, handed, faults, trouble>>

\* A frame carries the trigger context: cycle and image number.
Frame == [cycle : 1 .. MaxCycles, n : Numbers]

NoFrame == [cycle |-> 0, n |-> -1]
NoJob == [n |-> -1, image |-> NoFrame, mode |-> "Normal",
          samples |-> [s \in Sensors |-> NoFrame], last |-> -1]

Stages == {"skip", "ensure", "process", "done"}

Job == [n : Numbers \cup {-1}, image : Frame \cup {NoFrame}, mode : Modes,
        samples : [Sensors -> Frame \cup {NoFrame}], last : Numbers \cup {-1}]

Idle == \A w \in Workers : slot[w] = NoJob /\ job[w] = NoJob

Init ==
    /\ wire = [c \in Sources |-> <<>>]
    /\ cycle = 0
    /\ imageQueue = <<>>
    /\ sampleQueue = [s \in Sensors |-> <<>>]
    /\ interval = 0
    /\ needed = {}
    /\ last = -1
    /\ lastSkipped = -1
    /\ fromSensor = 0
    /\ inInspection = 0
    /\ joined = 0
    /\ counter = 0
    /\ slot = [w \in Workers |-> NoJob]
    /\ job = [w \in Workers |-> NoJob]
    /\ stage = [w \in Workers |-> "done"]
    /\ waiting = [w \in Workers |-> FALSE]
    /\ handed = NoJob
    /\ faults = 0
    /\ trouble = {}

-----------------------------------------------------------------------------
(* The seam interval.                                                      *)

First(i) == IF i = 1 THEN 0 ELSE Ends[i - 1] + 1

\* mutant: beyond the last interval there is none
NoneBeyond(n) ==
    LET found == {i \in DOMAIN Ends : First(i) <= n /\ n <= Ends[i]} IN
    IF found = {} THEN 0 ELSE CHOOSE i \in found : TRUE

\* The interval image n lies in; beyond the last one, the interval stays.
IntervalOf(n) ==
    LET found == {i \in DOMAIN Ends : First(i) <= n /\ n <= Ends[i]} IN
    IF found = {} THEN interval ELSE CHOOSE i \in found : TRUE

\* mutant: the counters of the new graph start at 0
CountsFromZero(i) == IF i = interval THEN counter ELSE 0

\* setCounter: the new graph goes on where the old one ended, by the number of
\* images the workers have finished.
CounterIn(i) == IF i = interval THEN counter ELSE joined

\* changeSeamInterval: before a graph is replaced the workers are joined.  The
\* counters of the new graph are behind when an image was lost before.
ChangeSeamInterval(i) ==
    /\ i # interval /\ interval # 0 => Idle
    /\ interval' = i
    /\ counter' = CounterIn(i)

Skew(i) == IF i # interval /\ joined # last + 1 THEN {"skewed"} ELSE {}

-----------------------------------------------------------------------------
(* Start and end of an inspection.                                         *)

\* The sources end their triggers at cancel, and at the next burst; what they
\* have sent is still under way.
SentBefore ==
    {[c \in Sources |-> SubSeq(wire[c], 1, sent[c])] :
        sent \in {f \in [Sources -> 0 .. MaxLate] : \A c \in Sources : f[c] <= Len(wire[c])}}

\* The frames a source sends in a cycle.
Burst(c, sensors) == [k \in 1 .. LastTrigger[sensors] + 1 |-> [cycle |-> c, n |-> k - 1]]

\* Bound: an inspection is started into a running one only while no sample of
\* that has come and no image of it is processed.
RestartBound == interval # 0 => last = -1 /\ \A s \in Sensors : sampleQueue[s] = <<>>

\* startInspect: the first interval, a new cycle, and the burst of triggers.
\* Nothing is reset when an inspection is still running.
StartInspect ==
    /\ cycle < MaxCycles
    /\ RestartBound
    /\ ChangeSeamInterval(1)
    /\ cycle' = cycle + 1
    /\ IF interval = 0 THEN needed' \in SUBSET Sensors ELSE UNCHANGED needed
    /\ \E sent \in SentBefore :
          wire' = [c \in Sources |->
                      IF c \in {Image} \cup needed' THEN sent[c] \o Burst(cycle + 1, needed') ELSE sent[c]]
    /\ trouble' = trouble \cup (IF interval # 0 THEN {"restarted"} ELSE {}) \cup Skew(1)
    /\ UNCHANGED <<imageQueue, sampleQueue, last, skipVars, joined, slot, runVars, handed, faults>>

\* stopInspect: the triggers are cancelled, the workers joined and all is reset.
StopInspect ==
    /\ interval # 0
    /\ Idle
    /\ wire' \in SentBefore
    /\ imageQueue' = <<>>
    /\ sampleQueue' = [s \in Sensors |-> <<>>]
    /\ interval' = 0
    /\ needed' = {}
    /\ last' = -1
    /\ lastSkipped' = -1
    /\ fromSensor' = 0
    /\ inInspection' = 0
    /\ joined' = 0
    /\ counter' = 0
    /\ handed' = NoJob
    /\ trouble' = {}
    /\ UNCHANGED <<cycle, slot, runVars, faults>>

-----------------------------------------------------------------------------
(* Frames arrive.                                                          *)

Arrives(c) == wire[c] # <<>>
Arriving(c) == Head(wire[c])
Receive(c) == wire' = [wire EXCEPT ![c] = Tail(@)]

\* mutant: the cycle is not compared
AnyCycleIsCurrent(f) == interval # 0

\* data() takes the frames of the inspection that runs now.
Current(f) == interval # 0 /\ f.cycle = cycle

\* A frame of an earlier inspection, or none is running.
DropFrame(c) ==
    /\ Arrives(c)
    /\ ~ Current(Arriving(c))
    /\ Receive(c)
    /\ UNCHANGED <<cycle, imageQueue, sampleQueue, interval, needed, last, skipVars, workerVars,
                   handed, faults, trouble>>

\* A frame is lost on its way.
LoseFrame(c) ==
    /\ faults < MaxFaults
    /\ Arrives(c)
    /\ Current(Arriving(c))
    /\ Receive(c)
    /\ faults' = faults + 1
    /\ trouble' = trouble \cup {IF c = Image THEN "imageLost" ELSE "sampleLost"}
    /\ UNCHANGED <<cycle, imageQueue, sampleQueue, interval, needed, last, skipVars, workerVars, handed>>

\* A verdict of the timer (checkOvertriggering), or with several workers all
\* of them in the graph.
MayBeOvertriggered ==
    \/ faults < MaxFaults
    \/ NbPar > 1 /\ \A w \in Workers : job[w] # NoJob

\* mutant: numbers noted before are counted again
NotedAgain(n) == (last + 1) .. (n - 1)

\* Numbers an arriving image shows to be lost, the ones noted before excepted.
NewlyMissing(n) == {i \in (last + 1) .. (n - 1) : i > lastSkipped}

\* What is noted about image n when it arrives.
Noted(n, over) ==
    LET missing == NewlyMissing(n) IN
    [lastSkipped |-> IF over THEN n ELSE IF missing # {} THEN n - 1 ELSE lastSkipped,
     fromSensor  |-> fromSensor + Cardinality(missing),
     inInspection |-> inInspection + (IF over THEN 1 ELSE 0)]

\* mutant: a missing image is not noticed
ModeKnowsNoGap(n, over) ==
    IF n <= last THEN "OutOfOrderImage" ELSE IF over THEN "Overtriggered" ELSE "Normal"

ModeOf(n, over) ==
    CASE n <= last -> "OutOfOrderImage"
      [] n > last /\ over -> "Overtriggered"
      [] n > last + 1 /\ ~ over -> "MissingImage"
      [] n = last + 1 /\ ~ over -> "Normal"

\* areAllSamplesQueued
AllSamplesQueued(queues) == \A s \in needed : queues[s] # <<>>

Note(noted) ==
    /\ lastSkipped' = noted.lastSkipped
    /\ fromSensor' = noted.fromSensor
    /\ inInspection' = noted.inInspection

\* mutant: the newest sample is taken
NewestSamples(queues) ==
    [s \in Sensors |-> IF queues[s] = <<>> THEN NoFrame ELSE queues[s][Len(queues[s])]]

\* dequeueSamples
DequeuedSamples(queues) ==
    [s \in Sensors |-> IF queues[s] = <<>> THEN NoFrame ELSE Head(queues[s])]

\* A job that moves the counter past its number twice: an image that follows the
\* last one and is skipped and then processed, or whose number was handed out.
Doubled(n, mode) ==
    IF slot[n % NbPar] = NoJob /\ (n <= last \/ (n = last + 1 /\ mode # "Normal"))
    THEN {"doubled"} ELSE {}

\* startProcessing, with the number of the frame that just arrived: its worker
\* gets the oldest image and the oldest samples.  A full work slot refuses
\* them when the wait for it times out; else the frame is handed on later.
StartProcessing(n, images, queues, noted) ==
    LET w == n % NbPar
        work == [n |-> n, image |-> Head(images).frame, mode |-> Head(images).mode,
                 samples |-> DequeuedSamples(queues), last |-> last] IN
    /\ imageQueue' = Tail(images)
    /\ sampleQueue' = [s \in Sensors |-> IF queues[s] = <<>> THEN <<>> ELSE Tail(queues[s])]
    /\ handed' = work
    /\ IF slot[w] = NoJob
       THEN /\ slot' = [slot EXCEPT ![w] = work]
            /\ last' = n
            /\ Note(noted)
       ELSE /\ UNCHANGED <<slot, last>>
            /\ IF noted.lastSkipped < n
               THEN Note([noted EXCEPT !.lastSkipped = n, !.inInspection = @ + 1])
               ELSE Note(noted)

\* The frame waits in its queue.
Enqueue(images, queues, noted) ==
    /\ imageQueue' = images
    /\ sampleQueue' = queues
    /\ Note(noted)
    /\ UNCHANGED <<handed, slot, last>>

\* data(image): three images in a row are taken for an error of the graph, and
\* the oldest is processed with the samples there are.
DataImage ==
    /\ Arrives(Image) /\ Current(Arriving(Image))
    /\ Receive(Image)
    /\ \E over \in BOOLEAN :
          LET n == Arriving(Image).n
              images == Append(imageQueue, [frame |-> Arriving(Image), mode |-> ModeOf(n, over)])
              complete == AllSamplesQueued(sampleQueue)
              forced == ~ complete /\ Len(images) >= 3 IN
          /\ over => MayBeOvertriggered
          /\ faults' = IF over /\ faults < MaxFaults THEN faults + 1 ELSE faults
          /\ ChangeSeamInterval(IntervalOf(n))
          /\ trouble' = trouble \cup Skew(IntervalOf(n))
                                \cup (IF imageQueue # <<>> THEN {"late"} ELSE {})
                                \cup (IF forced THEN {"forced"} ELSE {})
                                \cup (IF complete \/ forced THEN Doubled(n, Head(images).mode) ELSE {})
          /\ IF complete \/ forced
             THEN StartProcessing(n, images, sampleQueue, Noted(n, over))
             ELSE Enqueue(images, sampleQueue, Noted(n, over))
    /\ UNCHANGED <<cycle, needed, joined, runVars>>

\* data(sample): likewise three samples in a row; but without an image nothing
\* is processed.
DataSample(s) ==
    LET n == Arriving(s).n
        queues == [sampleQueue EXCEPT ![s] = Append(@, Arriving(s))]
        complete == AllSamplesQueued(queues)
        forced == ~ complete /\ \E t \in Sensors : Len(queues[t]) >= 3
        starts == (complete \/ forced) /\ imageQueue # <<>>
        noted == [lastSkipped |-> lastSkipped, fromSensor |-> fromSensor,
                  inInspection |-> inInspection] IN
    /\ Arrives(s) /\ Current(Arriving(s))
    /\ Receive(s)
    /\ ChangeSeamInterval(IntervalOf(n))
    /\ trouble' = trouble \cup Skew(IntervalOf(n))
                          \cup (IF starts /\ forced THEN {"forced"} ELSE {})
                          \cup (IF starts THEN Doubled(n, Head(imageQueue).mode) ELSE {})
    /\ IF starts
       THEN StartProcessing(n, imageQueue, queues, noted)
       ELSE Enqueue(imageQueue, queues, noted)
    /\ UNCHANGED <<cycle, needed, joined, runVars, faults>>

-----------------------------------------------------------------------------
(* The workers.                                                            *)

\* What SignalAdapter::run does first: nothing for an image out of order, and
\* the filters skip before an image that is not normal is processed.
FirstStage(mode) ==
    CASE mode = "OutOfOrderImage" -> "done"
      [] mode = "Normal" -> "process"
      [] OTHER -> "skip"

TakeWork(w) ==
    /\ slot[w] # NoJob /\ job[w] = NoJob
    /\ job' = [job EXCEPT ![w] = slot[w]]
    /\ stage' = [stage EXCEPT ![w] = FirstStage(slot[w].mode)]
    /\ slot' = [slot EXCEPT ![w] = NoJob]
    /\ UNCHANGED <<wire, cycle, imageQueue, sampleQueue, interval, needed, last, skipVars, joined,
                   counter, waiting, handed, faults, trouble>>

\* The number a worker synchronizes on: its own, or to skip the first one after
\* the image processed before.
SyncNumber(w) == IF stage[w] = "skip" THEN job[w].last + 1 ELSE job[w].n

\* synchronizeOnImgNb: a single worker does not wait, nor does one that comes
\* too late.  Once it waits, it goes on only when the counter is the number.
Synchronized(w) ==
    \/ NbPar = 1
    \/ counter = SyncNumber(w)
    \/ ~ waiting[w] /\ counter > SyncNumber(w)

Running(w, at) == job[w] # NoJob /\ stage[w] = at

Wait(w) ==
    /\ Running(w, "skip") \/ Running(w, "process")
    /\ ~ Synchronized(w) /\ ~ waiting[w]
    /\ waiting' = [waiting EXCEPT ![w] = TRUE]
    /\ UNCHANGED <<wire, cycle, imageQueue, sampleQueue, interval, needed, last, skipVars, joined,
                   counter, slot, job, stage, handed, faults, trouble>>

\* The worker goes on to another stage.
GoOn(w, to) ==
    /\ stage' = [stage EXCEPT ![w] = to]
    /\ waiting' = [waiting EXCEPT ![w] = FALSE]
    /\ UNCHANGED <<wire, cycle, imageQueue, sampleQueue, interval, needed, last, skipVars, joined,
                   slot, job, handed, faults, trouble>>

\* SkipImageProcessingVisitor: the filters count one image.
SkipImage(w) ==
    /\ Running(w, "skip") /\ Synchronized(w)
    /\ counter' = counter + 1
    /\ GoOn(w, "ensure")

AtLeast(a, b) == IF a < b THEN b ELSE a

\* ensureImageNumber
EnsureNumber(w) ==
    /\ Running(w, "ensure")
    /\ counter' = AtLeast(counter, job[w].n)
    /\ GoOn(w, "process")

\* The graph processes the image, and its filters count it.
ProcessImage(w) ==
    /\ Running(w, "process") /\ Synchronized(w)
    /\ counter' = counter + 1
    /\ GoOn(w, "done")

\* Its callback counts every job the worker has finished.
FinishWork(w) ==
    /\ Running(w, "done")
    /\ joined' = joined + 1
    /\ job' = [job EXCEPT ![w] = NoJob]
    /\ UNCHANGED <<wire, cycle, imageQueue, sampleQueue, interval, needed, last, skipVars, counter,
                   slot, stage, waiting, handed, faults, trouble>>

Next ==
    \/ StartInspect
    \/ StopInspect
    \/ DataImage
    \/ \E s \in Sensors : DataSample(s)
    \/ \E c \in Sources : DropFrame(c)
    \/ \E c \in Sources : LoseFrame(c)
    \/ \E w \in Workers : TakeWork(w)
    \/ \E w \in Workers : Wait(w)
    \/ \E w \in Workers : SkipImage(w)
    \/ \E w \in Workers : EnsureNumber(w)
    \/ \E w \in Workers : ProcessImage(w)
    \/ \E w \in Workers : FinishWork(w)

Spec == Init /\ [][Next]_vars

-----------------------------------------------------------------------------
(* Properties.                                                             *)

Queued == [frame : Frame, mode : Modes]

\* Type correctness; between two inspections nothing is queued.
TypeOK ==
    /\ wire \in [Sources -> Seq(Frame)]
    /\ cycle \in 0 .. MaxCycles
    /\ imageQueue \in Seq(Queued)
    /\ sampleQueue \in [Sensors -> Seq(Frame)]
    /\ interval \in 0 .. Len(Ends)
    /\ needed \subseteq Sensors
    /\ interval = 0 => imageQueue = <<>> /\ \A s \in Sensors : sampleQueue[s] = <<>>
    /\ last \in Numbers \cup {-1}
    /\ lastSkipped \in Numbers \cup {-1}
    /\ fromSensor \in Nat /\ inInspection \in Nat /\ joined \in Nat /\ counter \in Nat
    /\ slot \in [Workers -> Job]
    /\ job \in [Workers -> Job]
    /\ stage \in [Workers -> Stages]
    /\ waiting \in [Workers -> BOOLEAN]
    /\ handed \in Job
    /\ faults \in 0 .. MaxFaults
    /\ trouble \subseteq {"imageLost", "sampleLost", "forced", "late", "skewed", "doubled", "restarted"}

\* An image is processed with its own samples, under its own number and in the
\* graph of its own seam interval, as long as no frame was lost, no image was
\* forced through and no inspection was started into a running one.
Paired ==
    trouble \cap {"imageLost", "sampleLost", "forced", "restarted"} = {} =>
       /\ handed # NoJob =>
             /\ handed.image = [cycle |-> cycle, n |-> handed.n]
             /\ \A s \in needed : handed.samples[s] = handed.image
       /\ \A w \in Workers : \A j \in {slot[w], job[w]} \ {NoJob} :
             IntervalOf(j.n) = interval

Before(f, g) == f.cycle < g.cycle \/ (f.cycle = g.cycle /\ f.n < g.n)

\* Whatever is lost, forced or refused: images, and the samples of a sensor,
\* are taken in the order they were triggered, none of them twice.
TakenInOrder ==
    [][handed' # handed /\ handed # NoJob /\ handed' # NoJob =>
          /\ Before(handed.image, handed'.image)
          /\ \A s \in Sensors :
                handed.samples[s] # NoFrame /\ handed'.samples[s] # NoFrame
                   => Before(handed.samples[s], handed'.samples[s])]_vars

HandsOut == \E w \in Workers : slot[w] = NoJob /\ slot'[w] # NoJob

\* What keeps the numbers in order: with sample sensors no frame was lost, and
\* no image arrived while another waited for its samples.
Orderly ==
    /\ "restarted" \notin trouble
    /\ needed # {} => trouble \cap {"imageLost", "sampleLost", "forced", "late"} = {}

\* What the filter pipeline relies on: numbers only grow, a normal image
\* follows the last one and a missing image leaves a gap.
KeepsOrder ==
    [][HandsOut /\ Orderly' =>
          /\ handed'.n > last
          /\ handed'.mode = "Normal" => handed'.n = last + 1
          /\ handed'.mode = "MissingImage" => handed'.n > last + 1]_vars

\* Some worker can always go on, so that a join ends: none waits for a number
\* the counter has passed.  Excepted are an image lost before a change of the
\* seam interval, and a job that moves the counter past its number twice.
Served ==
    \/ Idle
    \/ trouble \cap {"skewed", "doubled", "sampleLost", "forced", "restarted"} # {}
    \/ \E w \in Workers : \/ slot[w] # NoJob /\ job[w] = NoJob
                          \/ job[w] # NoJob /\ (stage[w] \in {"ensure", "done"} \/ Synchronized(w))

\* No image number is noted as skipped twice; and an image the inspection
\* skipped is not noted as lost by the sensor.
SkippedOnce ==
    /\ trouble \cap {"sampleLost", "forced", "restarted"} = {}
          => fromSensor + inInspection <= lastSkipped + 1
    /\ trouble \cap {"imageLost", "sampleLost", "late", "forced", "restarted"} = {}
          => fromSensor = 0
=============================================================================
