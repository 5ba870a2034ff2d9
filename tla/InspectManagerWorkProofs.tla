---------------------- MODULE InspectManagerWorkProofs ----------------------
(***************************************************************************)
(* More proofs about InspectManager, for the same values of the constants: *)
(* what the manager hands to the workers while images may be lost and may  *)
(* come late, so that the workers can always go on, and how it counts the  *)
(* images it skips.                                                        *)
(***************************************************************************)
EXTENDS InspectManagerProofs, WellFoundedInduction

-----------------------------------------------------------------------------
(* The inductive invariant.                                                *)

\* No sample was lost, no image forced through and no inspection started into a
\* running one; images may be lost.
Steady == trouble \cap {"sampleLost", "forced", "restarted"} = {}

\* No sample is missing: what waits follows the sample taken last.
SamplesWith(queues, w) ==
    /\ \A s \in needed : CompleteOf(queues[s], w[s], handed.samples[s].n + 1, Total, cycle)
    /\ \A s \in Sensors \ needed : Foreign(w[s], cycle)

\* An image that waits is of this inspection and ahead of the last one
\* processed; only the first in the queue may follow it without a gap.
ImagesWith(images) ==
    \A i \in DOMAIN images :
       /\ images[i].frame.cycle = cycle
       /\ images[i].mode # "OutOfOrderImage"
       /\ images[i].mode = "Normal" => i = 1 /\ images[i].frame.n = last + 1

\* The image handed out last is the furthest.
Furthest ==
    /\ handed # NoJob => handed.image.cycle = cycle
    /\ last <= handed.image.n
    /\ \A s \in needed : handed.samples[s].n <= handed.image.n

\* The number of the image that arrived last, if it waits or was handed out.
ArrivedIn(images) == IF images = <<>> THEN handed.image.n ELSE images[Len(images)].frame.n

Taken(images, queues, w) ==
    SamplesWith(queues, w) /\ ImagesWith(images) /\ Furthest

InTurn ==
    /\ interval = 0 => last = -1 /\ lastSkipped = -1 /\ fromSensor = 0 /\ inInspection = 0
    /\ Steady /\ interval # 0 =>
          /\ Taken(imageQueue, sampleQueue, wire)
          /\ lastSkipped <= ArrivedIn(imageQueue)
          /\ imageQueue = <<>> \/ ~ AllSamplesQueued(sampleQueue)

-----------------------------------------------------------------------------
(* What arrives and what is handed out.                                    *)

\* Numbers grow along the queue of images.
LEMMA QueueGrows ==
    ASSUME TypeOK, NEW images \in Seq(Queued), NEW queues, NEW w,
           OrderedWith(images, queues, w), ImagesWith(images), Furthest
    PROVE  /\ handed.image.n \in Int
           /\ \A i \in DOMAIN images : images[i].frame.n \in Nat /\ handed.image.n < images[i].frame.n
           /\ \A i, j \in DOMAIN images : i < j => images[i].frame.n < images[j].frame.n
  <1>1. /\ FramesOf(images) \in Seq(Frame) /\ DOMAIN FramesOf(images) = DOMAIN images
        /\ \A i \in DOMAIN images : FramesOf(images)[i] = images[i].frame
    BY FramesOfType
  <1>2. \A i \in DOMAIN images : images[i].frame \in Frame
    BY <1>1
  <1>3. \A i \in DOMAIN images : images[i].frame.n \in Nat /\ images[i].frame.cycle = cycle
    BY <1>2, Constants DEF ImagesWith
  <1>4. Ordered(handed.image, FramesOf(images), w[Image], cycle)
    BY DEF OrderedWith
  <1>5. handed.image \in Frame \cup {NoFrame} /\ cycle \in Nat
    BY Types, Constants
  <1>6. handed.image.n \in Int
    BY <1>5, Constants
  <1>7. ASSUME NEW i \in DOMAIN images PROVE handed.image.n < images[i].frame.n
    <2>1. Before(handed.image, images[i].frame)
      BY <1>1, <1>4 DEF Ordered
    <2>2. CASE handed = NoJob
      <3>1. handed.image.n = -1
        BY <2>2, NoJobType, Constants
      <3>2. QED BY <1>3, <3>1
    <2>3. CASE handed # NoJob
      BY <1>3, <1>5, <2>1, <2>3 DEF Furthest, Before
    <2>4. QED BY <2>2, <2>3
  <1>8. ASSUME NEW i \in DOMAIN images, NEW j \in DOMAIN images, i < j
        PROVE  images[i].frame.n < images[j].frame.n
    <2>1. Before(images[i].frame, images[j].frame)
      BY <1>1, <1>4, <1>8 DEF Ordered
    <2>2. QED BY <1>3, <1>5, <2>1 DEF Before
  <1>9. QED BY <1>3, <1>6, <1>7, <1>8

LEMMA ArrivedType ==
    ASSUME TypeOK, NEW images \in Seq(Queued)
    PROVE  ArrivedIn(images) \in Int /\ last \in Int /\ lastSkipped \in Int
  <1>1. last \in Int /\ lastSkipped \in Int
    BY Constants DEF TypeOK
  <1>2. CASE images = <<>>
    <2>1. handed.image \in Frame \cup {NoFrame}
      BY Types, Constants
    <2>2. handed.image.n \in Int
      BY <2>1, Constants
    <2>3. QED BY <1>1, <1>2, <2>2 DEF ArrivedIn
  <1>3. CASE images # <<>>
    <2>1. Len(images) \in DOMAIN images
      <3>1. DOMAIN images = 1 .. Len(images) /\ Len(images) \in Nat /\ Len(images) >= 1
        BY <1>3, TailOf
      <3>2. QED BY <3>1
    <2>2. images[Len(images)].frame \in Frame
      <3>1. \A e \in Queued : e.frame \in Frame
        BY DEF Queued
      <3>2. images[Len(images)] \in Queued
        BY <2>1
      <3>3. QED BY <3>1, <3>2
    <2>3. images[Len(images)].frame.n \in Int
      BY <2>2, Constants
    <2>4. QED BY <1>1, <1>3, <2>3 DEF ArrivedIn
  <1>4. QED BY <1>2, <1>3

\* How a job starts, in full: its worker accepts it, or it is refused.
LEMMA StartParts ==
    ASSUME TypeOK, NEW n \in Numbers, NEW images \in Seq(Queued), images # <<>>,
           NEW queues \in [Sensors -> Seq(Frame)], NEW noted \in NotedTypes,
           StartProcessing(n, images, queues, noted)
    PROVE  /\ handed'.last = last
           /\ n % NbPar \in Workers
           /\ \/ /\ slot[n % NbPar] = NoJob
                 /\ slot' = [slot EXCEPT ![n % NbPar] = handed']
                 /\ last' = n
                 /\ lastSkipped' = noted.lastSkipped
                 /\ fromSensor' = noted.fromSensor /\ inInspection' = noted.inInspection
              \/ /\ UNCHANGED <<slot, last>>
                 /\ noted.lastSkipped < n /\ lastSkipped' = n
                 /\ fromSensor' = noted.fromSensor /\ inInspection' = noted.inInspection + 1
              \/ /\ UNCHANGED <<slot, last>>
                 /\ ~ noted.lastSkipped < n /\ lastSkipped' = noted.lastSkipped
                 /\ fromSensor' = noted.fromSensor /\ inInspection' = noted.inInspection
  <1> DEFINE work == [n |-> n, image |-> Head(images).frame, mode |-> Head(images).mode,
                      samples |-> DequeuedSamples(queues), last |-> last]
  <1>1. handed' = work
    BY DEF StartProcessing
  <1>2. handed'.last = last
    BY <1>1
  <1>3. n % NbPar \in Workers
    BY Constants DEF Workers
  <1> HIDE DEF work
  <1>4. IF slot[n % NbPar] = NoJob
        THEN /\ slot' = [slot EXCEPT ![n % NbPar] = work] /\ last' = n /\ Note(noted)
        ELSE /\ UNCHANGED <<slot, last>>
             /\ IF noted.lastSkipped < n
                THEN Note([noted EXCEPT !.lastSkipped = n, !.inInspection = @ + 1])
                ELSE Note(noted)
    BY DEF StartProcessing, work
  <1>5. CASE slot[n % NbPar] = NoJob
    BY <1>1, <1>2, <1>3, <1>4, <1>5 DEF Note
  <1>6. CASE slot[n % NbPar] # NoJob /\ noted.lastSkipped < n
    <2>1. /\ UNCHANGED <<slot, last>>
          /\ Note([noted EXCEPT !.lastSkipped = n, !.inInspection = @ + 1])
      BY <1>4, <1>6
    <2>2. /\ lastSkipped' = n /\ fromSensor' = noted.fromSensor
          /\ inInspection' = noted.inInspection + 1
      BY <2>1 DEF Note, NotedTypes
    <2>3. QED BY <1>2, <1>3, <1>6, <2>1, <2>2
  <1>7. CASE slot[n % NbPar] # NoJob /\ ~ noted.lastSkipped < n
    <2>1. UNCHANGED <<slot, last>> /\ Note(noted)
      BY <1>4, <1>7
    <2>2. QED BY <1>2, <1>3, <1>7, <2>1 DEF Note
  <1>8. QED BY <1>5, <1>6, <1>7

\* The oldest image is handed out, under a number that is not ahead of it.
LEMMA StartTaken ==
    ASSUME TypeOK, TypeOK', NEW n \in Numbers, NEW images \in Seq(Queued), images # <<>>,
           NEW queues \in [Sensors -> Seq(Frame)], NEW noted \in NotedTypes,
           StartProcessing(n, images, queues, noted),
           OrderedWith(images, queues, wire'), Taken(images, queues, wire'),
           AllSamplesQueued(queues), n <= Head(images).frame.n,
           noted.lastSkipped <= ArrivedIn(images),
           UNCHANGED <<cycle, needed>>
    PROVE  /\ Taken(imageQueue, sampleQueue, wire)'
           /\ lastSkipped' <= ArrivedIn(imageQueue)'
           /\ handed.image.n < handed'.image.n
  <1>1. /\ imageQueue' = Tail(images)
        /\ \A s \in Sensors :
              sampleQueue'[s] = IF queues[s] = <<>> THEN <<>> ELSE Tail(queues[s])
        /\ handed'.image = Head(images).frame
        /\ \A s \in Sensors :
              handed'.samples[s] = IF queues[s] = <<>> THEN NoFrame ELSE Head(queues[s])
        /\ last' = last \/ last' = n
    BY StartEffect
  <1>2. /\ handed.image.n \in Int
        /\ \A i \in DOMAIN images : images[i].frame.n \in Nat /\ handed.image.n < images[i].frame.n
        /\ \A i, j \in DOMAIN images : i < j => images[i].frame.n < images[j].frame.n
    BY QueueGrows DEF Taken
  <1>3. /\ Head(images) = images[1] /\ DOMAIN images = 1 .. Len(images)
        /\ Len(images) \in Nat /\ Len(images) >= 1 /\ 1 \in DOMAIN images
        /\ Tail(images) \in Seq(Queued)
        /\ Len(Tail(images)) = Len(images) - 1
        /\ DOMAIN Tail(images) = 1 .. (Len(images) - 1)
        /\ \A i \in 1 .. (Len(images) - 1) : Tail(images)[i] = images[i + 1]
    BY TailOf
  <1>4. handed'.image.n = images[1].frame.n /\ handed'.image.cycle = cycle
    BY <1>1, <1>3 DEF Taken, ImagesWith
  <1>5. handed.image.n < handed'.image.n
    BY <1>2, <1>3, <1>4
  <1>6. /\ cycle \in Nat /\ Total \in Int /\ needed \subseteq Sensors
        /\ last \in Int /\ n \in Int
        /\ \A s \in Sensors : wire'[s] \in Seq(Frame) /\ handed.samples[s].n \in Int
    <2>1. \A s \in Sensors : wire'[s] \in Seq(Frame)
      BY DEF TypeOK, Sources
    <2>2. \A s \in Sensors : handed.samples[s] \in Frame \cup {NoFrame}
      BY Types DEF Sources
    <2>3. \A s \in Sensors : handed.samples[s].n \in Int
      BY <2>2, Constants
    <2>4. last \in Numbers \cup {-1}
      BY DEF TypeOK
    <2>5. last \in Int /\ n \in Int
      BY <2>4, Constants
    <2>6. QED BY <2>1, <2>3, <2>5, Types, Numbering
  <1>7. ASSUME NEW s \in needed
        PROVE  /\ handed'.samples[s].n = handed.samples[s].n + 1
               /\ CompleteOf(sampleQueue'[s], wire'[s], handed.samples[s].n + 1 + 1, Total, cycle)
    <2>1. /\ s \in Sensors /\ queues[s] \in Seq(Frame) /\ queues[s] # <<>>
          /\ CompleteOf(queues[s], wire'[s], handed.samples[s].n + 1, Total, cycle)
      BY <1>6 DEF Taken, SamplesWith, AllSamplesQueued
    <2>2. /\ Head(queues[s]) = [cycle |-> cycle, n |-> handed.samples[s].n + 1]
          /\ CompleteOf(Tail(queues[s]), wire'[s], handed.samples[s].n + 1 + 1, Total, cycle)
      BY <1>6, <2>1, HandOutComplete
    <2>3. handed'.samples[s] = Head(queues[s]) /\ sampleQueue'[s] = Tail(queues[s])
      BY <1>1, <2>1
    <2>4. QED BY <2>2, <2>3
  <1>8. SamplesWith(sampleQueue, wire)'
    <2>1. Total' = Total
      BY DEF Total
    <2>2. \A s \in needed : handed'.samples[s].n = handed.samples[s].n + 1
      BY <1>7
    <2>3. \A s \in Sensors \ needed : Foreign(wire'[s], cycle)
      BY DEF Taken, SamplesWith
    <2>4. QED BY <1>7, <2>1, <2>2, <2>3 DEF SamplesWith
  <1>9. ImagesWith(imageQueue)'
    <2> SUFFICES ASSUME NEW i \in 1 .. (Len(images) - 1)
                 PROVE  /\ images[i + 1].frame.cycle = cycle
                        /\ images[i + 1].mode # "OutOfOrderImage"
                        /\ images[i + 1].mode # "Normal"
      BY <1>1, <1>3 DEF ImagesWith
    <2>1. i + 1 \in DOMAIN images /\ i + 1 # 1
      BY <1>3
    <2>2. QED BY <2>1 DEF Taken, ImagesWith
  <1>10. Furthest'
    <2>1. last' <= handed'.image.n
      BY <1>1, <1>2, <1>3, <1>4, <1>5, <1>6 DEF Taken, Furthest
    <2>2. \A s \in needed : handed'.samples[s].n <= handed'.image.n
      <3> TAKE s \in needed
      <3>1. handed'.samples[s].n = handed.samples[s].n + 1
        BY <1>7
      <3>2. handed.samples[s].n <= handed.image.n /\ handed.samples[s].n \in Int
        BY <1>6 DEF Taken, Furthest
      <3>3. QED BY <1>2, <1>3, <1>4, <1>5, <3>1, <3>2
    <2>3. QED BY <1>4, <2>1, <2>2 DEF Furthest
  <1>11. lastSkipped' <= ArrivedIn(imageQueue)'
    <2>1. lastSkipped' = noted.lastSkipped \/ lastSkipped' = n
      BY StartParts
    <2>2. noted.lastSkipped \in Int
      BY Constants DEF NotedTypes
    <2>3. CASE Len(images) = 1
      <3>1. Tail(images) = <<>>
        BY <1>3, <2>3, EmptySeq
      <3>2. ArrivedIn(imageQueue)' = images[1].frame.n
        BY <1>1, <1>4, <3>1 DEF ArrivedIn
      <3>3. ArrivedIn(images) = images[1].frame.n
        BY <2>3 DEF ArrivedIn
      <3>4. QED BY <1>3, <2>1, <3>2, <3>3
    <2>4. CASE Len(images) # 1
      <3>1. Tail(images) # <<>>
        <4>1. Len(Tail(images)) # 0 /\ Len(<<>>) = 0
          BY <1>3, <2>4
        <4>2. QED BY <4>1, Zenon
      <3>2. /\ Len(images) - 1 \in 1 .. (Len(images) - 1) /\ Len(images) - 1 + 1 = Len(images)
            /\ Len(images) \in DOMAIN images /\ 1 < Len(images)
        BY <1>3, <2>4
      <3>3. Tail(images)[Len(Tail(images))] = images[Len(images)]
        BY <1>3, <3>2
      <3>4. ArrivedIn(imageQueue)' = images[Len(images)].frame.n
        BY <1>1, <3>1, <3>3 DEF ArrivedIn
      <3>5. ArrivedIn(images) = images[Len(images)].frame.n
        BY DEF ArrivedIn
      <3>6. n < images[Len(images)].frame.n
        BY <1>2, <1>3, <1>6, <3>2
      <3>7. images[Len(images)].frame.n \in Int
        BY <1>2, <3>2
      <3>8. QED BY <1>6, <2>1, <2>2, <3>4, <3>5, <3>6, <3>7
    <2>5. QED BY <2>3, <2>4
  <1>12. QED BY <1>5, <1>8, <1>9, <1>10, <1>11 DEF Taken

\* A frame that arrives from a source, by what it does to the queues.
ImageTakenIn(over, images) ==
    LET f == Arriving(Image) IN
    /\ f.n \in Numbers
    /\ ArrivedIn(imageQueue) < f.n /\ last < f.n
    /\ images # <<>> /\ ArrivedIn(images) = f.n
    /\ Len(images) = Len(imageQueue) + 1
    /\ imageQueue # <<>> => "late" \in trouble'
    /\ OrderedWith(images, sampleQueue, wire') /\ Taken(images, sampleQueue, wire')
    /\ \/ /\ imageQueue = <<>> /\ AllSamplesQueued(sampleQueue)
          /\ Head(images).frame.n = f.n
          /\ Tail(images) = <<>>
          /\ Doubled(f.n, Head(images).mode) \subseteq trouble'
          /\ StartProcessing(f.n, images, sampleQueue, Noted(f.n, over))
       \/ /\ ~ AllSamplesQueued(sampleQueue)
          /\ Enqueue(images, sampleQueue, Noted(f.n, over))

NotedNow == [lastSkipped |-> lastSkipped, fromSensor |-> fromSensor, inInspection |-> inInspection]

SampleTakenIn(s, queues) ==
    LET f == Arriving(s) IN
    /\ f.n \in Numbers
    /\ OrderedWith(imageQueue, queues, wire') /\ Taken(imageQueue, queues, wire')
    /\ \/ /\ imageQueue # <<>> /\ AllSamplesQueued(queues)
          /\ f.n <= Head(imageQueue).frame.n
          /\ s \in needed /\ Tail(queues[s]) = <<>>
          /\ Doubled(f.n, Head(imageQueue).mode) \subseteq trouble'
          /\ StartProcessing(f.n, imageQueue, queues, NotedNow)
       \/ /\ imageQueue = <<>> \/ ~ AllSamplesQueued(queues)
          /\ Enqueue(imageQueue, queues, NotedNow)

LEMMA ImageArrives ==
    ASSUME TypeOK, InOrder, InTurn, DataImage, Steady'
    PROVE  /\ \E over \in BOOLEAN, images \in Seq(Queued) : ImageTakenIn(over, images)
           /\ Steady /\ interval # 0 /\ interval' # 0
           /\ UNCHANGED <<cycle, needed, joined, runVars>>
           /\ ChangeSeamInterval(interval') /\ trouble \subseteq trouble'
           /\ Skew(interval') \subseteq trouble'
  <1> DEFINE f == Arriving(Image)
  <1>1. /\ Image \in Sources /\ Arrives(Image) /\ Current(f) /\ Receive(Image)
        /\ ChangeSeamInterval(IntervalOf(f.n)) /\ UNCHANGED <<cycle, needed, joined, runVars>>
        /\ trouble \subseteq trouble'
    BY DataImageEffect, Constants
  <1>2. f \in Frame /\ f.n \in Numbers /\ f = Head(wire[Image]) /\ wire[Image] # <<>>
    BY <1>1, ArrivalType DEF Arriving, Arrives
  <1>3. interval # 0 /\ f.cycle = cycle
    BY <1>1 DEF Current
  <1>4. interval' = IntervalOf(f.n) /\ interval' # 0
    <2>1. IntervalOf(f.n) \in 0 .. Len(Ends) /\ IntervalOf(f.n) # 0
      BY <1>3, IntervalOfType DEF TypeOK
    <2>2. QED BY <1>1, <2>1, ChangeType
  <1>5. Steady
    BY <1>1 DEF Steady
  <1>6. PICK over \in BOOLEAN :
          LET e == [frame |-> f, mode |-> ModeOf(f.n, over)]
              images == Append(imageQueue, e) IN
          /\ Skew(IntervalOf(f.n)) \subseteq trouble'
          /\ imageQueue # <<>> => "late" \in trouble'
          /\ AllSamplesQueued(sampleQueue) => Doubled(f.n, Head(images).mode) \subseteq trouble'
          /\ \/ /\ AllSamplesQueued(sampleQueue) \/ "forced" \in trouble'
                /\ StartProcessing(f.n, images, sampleQueue, Noted(f.n, over))
             \/ /\ ~ AllSamplesQueued(sampleQueue)
                /\ Enqueue(images, sampleQueue, Noted(f.n, over))
    BY DEF DataImage
  <1> DEFINE e == [frame |-> f, mode |-> ModeOf(f.n, over)]
             images == Append(imageQueue, e)
  <1> HIDE DEF f
  <1>7. /\ e \in Queued /\ e.frame = f /\ e.mode = ModeOf(f.n, over)
        /\ images \in Seq(Queued) /\ FramesOf(images) = Append(FramesOf(imageQueue), f)
    BY <1>2, ModeType, FramesOfAppend DEF TypeOK, Queued
  <1> HIDE DEF e
  <1>8. /\ Len(imageQueue) \in Nat /\ DOMAIN imageQueue = 1 .. Len(imageQueue)
        /\ images # <<>> /\ Len(images) = Len(imageQueue) + 1
        /\ DOMAIN images = 1 .. (Len(imageQueue) + 1)
        /\ \A i \in 1 .. Len(imageQueue) : images[i] = imageQueue[i]
        /\ images[Len(imageQueue) + 1] = e
    BY <1>7, AppendOf DEF TypeOK
  <1>9. /\ SamplesWith(sampleQueue, wire) /\ ImagesWith(imageQueue) /\ Furthest
        /\ imageQueue = <<>> \/ ~ AllSamplesQueued(sampleQueue)
    BY <1>3, <1>5 DEF InTurn, Taken
  <1>10. /\ wire'[Image] = Tail(wire[Image])
         /\ \A s \in Sensors : wire'[s] = wire[s]
    <2>1. \A s \in Sensors : s \in Sources \ {Image}
      BY Constants DEF Sources
    <2>2. QED BY <1>1, <2>1, ArrivalType
  <1>11. OrderedWith(imageQueue, sampleQueue, wire)
    BY InOrderWith
  <1>12. Ordered(handed.image, FramesOf(imageQueue), wire[Image], cycle)
    BY <1>11 DEF OrderedWith
  <1>13. /\ handed.image \in Frame \cup {NoFrame} /\ FramesOf(imageQueue) \in Seq(Frame)
         /\ wire[Image] \in Seq(Frame) /\ cycle \in Nat
    BY <1>1, Types
  <1>14. OrderedWith(images, sampleQueue, wire')
    <2>1. Ordered(handed.image, FramesOf(images), wire'[Image], cycle)
      BY <1>2, <1>7, <1>10, <1>12, <1>13, ArrivalOrdered
    <2>2. QED BY <1>10, <1>11, <2>1 DEF OrderedWith
  <1>15. ArrivedIn(imageQueue) < f.n /\ handed.image.n < f.n /\ ArrivedIn(imageQueue) \in Int
    <2>1. 1 \in DOMAIN wire[Image] /\ f = wire[Image][1]
      BY <1>2, <1>13, TailOf
    <2>2. handed.image.n < f.n /\ handed.image.n \in Int
      <3>1. Before(handed.image, f)
        BY <1>12, <2>1 DEF Ordered
      <3>2. handed.image.n \in Int /\ f.n \in Nat /\ handed.image.cycle \in Int
        BY <1>2, <1>13, Constants
      <3>3. CASE handed = NoJob
        BY <3>2, <3>3, NoJobType, Constants
      <3>4. CASE handed # NoJob
        BY <1>3, <1>9, <1>13, <3>1, <3>2, <3>4 DEF Before, Furthest
      <3>5. QED BY <3>2, <3>3, <3>4
    <2>3. CASE imageQueue = <<>>
      BY <2>2, <2>3 DEF ArrivedIn
    <2>4. CASE imageQueue # <<>>
      <3>1. Len(imageQueue) >= 1 /\ imageQueue \in Seq(Queued)
        BY <2>4, TailOf DEF TypeOK
      <3>2. Len(imageQueue) \in DOMAIN imageQueue
        BY <1>8, <3>1
      <3>3. /\ Len(imageQueue) \in DOMAIN FramesOf(imageQueue)
            /\ FramesOf(imageQueue)[Len(imageQueue)] = imageQueue[Len(imageQueue)].frame
            /\ imageQueue[Len(imageQueue)].frame \in Frame
        BY <1>13, <3>1, <3>2, FramesOfType
      <3>4. Before(imageQueue[Len(imageQueue)].frame, f)
        BY <1>12, <2>1, <3>3 DEF Ordered
      <3>5. imageQueue[Len(imageQueue)].frame.cycle = cycle
        BY <1>9, <3>2 DEF ImagesWith
      <3>6. imageQueue[Len(imageQueue)].frame.n < f.n /\ imageQueue[Len(imageQueue)].frame.n \in Int
        BY <1>2, <1>3, <1>13, <3>3, <3>4, <3>5, Constants DEF Before
      <3>7. QED BY <2>2, <2>4, <3>6 DEF ArrivedIn
    <2>5. QED BY <2>2, <2>3, <2>4
  <1>16. last < f.n /\ last \in Int /\ f.n \in Int
    <2>1. last <= handed.image.n /\ last \in Int /\ handed.image.n \in Int /\ f.n \in Int
      BY <1>2, <1>9, <1>13, Constants DEF Furthest, TypeOK
    <2>2. QED BY <1>15, <2>1
  <1>17. Fits(e.mode, f.n) /\ e.mode # "OutOfOrderImage"
    <2>1. Fits(e.mode, f.n)
      BY <1>2, <1>7, <1>16, ModeFits
    <2>2. ModeOf(f.n, over) # "OutOfOrderImage"
      BY <1>16 DEF ModeOf
    <2>3. QED BY <1>7, <2>1, <2>2
  <1>18. e.mode = "Normal" => imageQueue = <<>>
    <2> SUFFICES ASSUME e.mode = "Normal", imageQueue # <<>> PROVE FALSE
      OBVIOUS
    <2>1. f.n = last + 1
      BY <1>17 DEF Fits
    <2>2. 1 \in DOMAIN imageQueue /\ Len(imageQueue) \in DOMAIN imageQueue /\ 1 <= Len(imageQueue)
          /\ imageQueue \in Seq(Queued)
      <3>1. Len(imageQueue) >= 1 /\ imageQueue \in Seq(Queued)
        BY TailOf DEF TypeOK
      <3>2. QED BY <1>8, <3>1
    <2>3. /\ handed.image.n < imageQueue[Len(imageQueue)].frame.n
          /\ handed.image.n \in Int
          /\ imageQueue[Len(imageQueue)].frame.n \in Nat
      BY <1>9, <1>11, <2>2, QueueGrows
    <2>4. imageQueue[Len(imageQueue)].frame.n < f.n
      BY <1>15 DEF ArrivedIn
    <2>5. last <= handed.image.n
      BY <1>9 DEF Furthest
    <2>6. QED BY <1>16, <2>1, <2>3, <2>4, <2>5
  <1>19. ImagesWith(images)
    <2> SUFFICES ASSUME NEW i \in DOMAIN images
                 PROVE  /\ images[i].frame.cycle = cycle
                        /\ images[i].mode # "OutOfOrderImage"
                        /\ images[i].mode = "Normal" => i = 1 /\ images[i].frame.n = last + 1
      BY DEF ImagesWith
    <2>1. i \in 1 .. Len(imageQueue) \/ i = Len(imageQueue) + 1
      BY <1>8
    <2>2. CASE i \in 1 .. Len(imageQueue)
      BY <1>8, <1>9, <2>2 DEF ImagesWith
    <2>3. CASE i = Len(imageQueue) + 1
      <3>1. images[i] = e /\ e.frame = f
        BY <1>7, <1>8, <2>3
      <3>2. imageQueue = <<>> => i = 1
        BY <2>3
      <3>3. QED BY <1>3, <1>17, <1>18, <3>1, <3>2 DEF Fits
    <2>4. QED BY <2>1, <2>2, <2>3
  <1>20. SamplesWith(sampleQueue, wire')
    BY <1>9, <1>10, Numbering DEF SamplesWith
  <1>21. ArrivedIn(images) = f.n
    BY <1>7, <1>8 DEF ArrivedIn
  <1>22. "forced" \notin trouble'
    BY DEF Steady
  <1>23. imageQueue = <<>> => Head(images).frame.n = f.n /\ Tail(images) = <<>>
    BY <1>7
  <1> HIDE DEF images
  <1>24. ImageTakenIn(over, images)
    BY <1>2, <1>6, <1>8, <1>9, <1>14, <1>15, <1>16, <1>19, <1>20, <1>21, <1>22, <1>23
       DEF ImageTakenIn, Taken, f, images, e
  <1>25. QED BY <1>1, <1>3, <1>4, <1>5, <1>6, <1>7, <1>24

LEMMA SampleArrives ==
    ASSUME TypeOK, InOrder, InTurn, NEW s \in Sensors, DataSample(s), Steady'
    PROVE  /\ \E queues \in [Sensors -> Seq(Frame)] : SampleTakenIn(s, queues)
           /\ Steady /\ interval # 0 /\ interval' # 0
           /\ UNCHANGED <<cycle, needed, joined, runVars>>
           /\ ChangeSeamInterval(interval') /\ trouble \subseteq trouble'
           /\ Skew(interval') \subseteq trouble'
  <1> DEFINE f == Arriving(s)
             queues == [sampleQueue EXCEPT ![s] = Append(@, f)]
             forced == ~ AllSamplesQueued(queues) /\ \E t \in Sensors : Len(queues[t]) >= 3
             starts == (AllSamplesQueued(queues) \/ forced) /\ imageQueue # <<>>
  <1>1. /\ s \in Sources /\ s # Image /\ Arrives(s) /\ Current(f) /\ Receive(s)
        /\ ChangeSeamInterval(IntervalOf(f.n)) /\ UNCHANGED <<cycle, needed, joined, runVars>>
        /\ trouble \subseteq trouble'
    BY DataSampleEffect, Constants DEF Sources
  <1>2. f \in Frame /\ f.n \in Numbers /\ f = Head(wire[s]) /\ wire[s] # <<>>
    BY <1>1, ArrivalType DEF Arriving, Arrives
  <1>3. interval # 0 /\ f.cycle = cycle
    BY <1>1 DEF Current
  <1>4. interval' = IntervalOf(f.n) /\ interval' # 0
    <2>1. IntervalOf(f.n) \in 0 .. Len(Ends) /\ IntervalOf(f.n) # 0
      BY <1>3, IntervalOfType DEF TypeOK
    <2>2. QED BY <1>1, <2>1, ChangeType
  <1>5. Steady
    BY <1>1 DEF Steady
  <1>6. /\ trouble' = trouble \cup Skew(IntervalOf(f.n))
                              \cup (IF starts /\ forced THEN {"forced"} ELSE {})
                              \cup (IF starts THEN Doubled(f.n, Head(imageQueue).mode) ELSE {})
        /\ IF starts
           THEN StartProcessing(f.n, imageQueue, queues, NotedNow)
           ELSE Enqueue(imageQueue, queues, NotedNow)
    BY DEF DataSample, NotedNow
  <1>7. ~ (forced /\ imageQueue # <<>>)
    <2>1. "forced" \notin trouble'
      BY DEF Steady
    <2>2. QED BY <1>6, <2>1
  <1>7a. imageQueue # <<>> /\ AllSamplesQueued(queues) => Doubled(f.n, Head(imageQueue).mode) \subseteq trouble'
    BY <1>6
  <1> HIDE DEF forced
  <1>8. \/ /\ imageQueue # <<>> /\ AllSamplesQueued(queues)
           /\ StartProcessing(f.n, imageQueue, queues, NotedNow)
        \/ /\ imageQueue = <<>> \/ ~ AllSamplesQueued(queues)
           /\ Enqueue(imageQueue, queues, NotedNow)
    BY <1>6, <1>7
  <1> HIDE DEF f
  <1>9. /\ queues \in [Sensors -> Seq(Frame)] /\ queues[s] = Append(sampleQueue[s], f)
        /\ \A t \in Sensors \ {s} : queues[t] = sampleQueue[t]
    <2>1. sampleQueue \in [Sensors -> Seq(Frame)] /\ Append(sampleQueue[s], f) \in Seq(Frame)
      BY <1>2, AppendOf DEF TypeOK
    <2>2. QED BY <2>1
  <1> HIDE DEF queues
  <1>10. /\ SamplesWith(sampleQueue, wire) /\ ImagesWith(imageQueue) /\ Furthest
         /\ imageQueue = <<>> \/ ~ AllSamplesQueued(sampleQueue)
    BY <1>3, <1>5 DEF InTurn, Taken
  <1>11. /\ wire'[s] = Tail(wire[s])
         /\ \A c \in Sources \ {s} : wire'[c] = wire[c]
    BY <1>1, ArrivalType
  <1>12. OrderedWith(imageQueue, sampleQueue, wire)
    BY InOrderWith
  <1>13. /\ handed.samples[s] \in Frame \cup {NoFrame} /\ sampleQueue[s] \in Seq(Frame)
         /\ wire[s] \in Seq(Frame) /\ cycle \in Nat /\ Total \in Int /\ needed \subseteq Sensors
         /\ handed.samples[s].n \in Int
    BY <1>1, Types, Numbering, Constants
  <1>14. OrderedWith(imageQueue, queues, wire')
    <2>1. Ordered(handed.samples[s], queues[s], wire'[s], cycle)
      BY <1>2, <1>9, <1>11, <1>12, <1>13, ArrivalOrdered DEF OrderedWith
    <2>2. QED BY <1>1, <1>9, <1>11, <1>12, <2>1, Constants DEF OrderedWith, Sources
  <1>15. s \in needed
    <2> SUFFICES ASSUME s \notin needed PROVE FALSE
      OBVIOUS
    <2>1. Foreign(wire[s], cycle)
      BY <1>10 DEF SamplesWith
    <2>2. 1 \in DOMAIN wire[s] /\ f = wire[s][1]
      BY <1>2, <1>13, TailOf
    <2>3. f.cycle < cycle
      BY <2>1, <2>2 DEF Foreign
    <2>4. QED BY <1>3, <1>13, <2>3
  <1>16. /\ f = [cycle |-> cycle, n |-> handed.samples[s].n + 1 + Len(sampleQueue[s])]
         /\ CompleteOf(queues[s], wire'[s], handed.samples[s].n + 1, Total, cycle)
    <2> DEFINE next == handed.samples[s].n + 1
    <2>1. CompleteOf(sampleQueue[s], wire[s], next, Total, cycle)
      BY <1>10, <1>15 DEF SamplesWith
    <2>2. next \in Int /\ Head(wire[s]).cycle = cycle
      BY <1>2, <1>3, <1>13
    <2> HIDE DEF next
    <2>3. /\ Head(wire[s]) = [cycle |-> cycle, n |-> next + Len(sampleQueue[s])]
          /\ CompleteOf(Append(sampleQueue[s], Head(wire[s])), Tail(wire[s]), next, Total, cycle)
      BY <1>2, <1>13, <2>1, <2>2, ArrivalComplete
    <2>4. QED BY <1>2, <1>9, <1>11, <2>3 DEF next
  <1>17. SamplesWith(queues, wire')
    <2>1. \A t \in Sensors \ {s} : wire'[t] = wire[t]
      BY <1>11 DEF Sources
    <2>2. QED BY <1>9, <1>10, <1>13, <1>15, <1>16, <2>1 DEF SamplesWith
  <1>18. ASSUME imageQueue # <<>>, AllSamplesQueued(queues)
         PROVE  f.n <= Head(imageQueue).frame.n /\ Tail(queues[s]) = <<>>
    <2>1. sampleQueue[s] = <<>>
      <3>1. PICK t \in needed : sampleQueue[t] = <<>>
        BY <1>10, <1>18 DEF AllSamplesQueued
      <3>2. queues[t] # <<>>
        BY <1>18 DEF AllSamplesQueued
      <3>3. QED BY <1>9, <1>13, <3>1, <3>2
    <2>2. f.n = handed.samples[s].n + 1
      BY <1>13, <1>16, <2>1
    <2>3. handed.samples[s].n <= handed.image.n
      BY <1>10, <1>15 DEF Furthest
    <2>4. imageQueue \in Seq(Queued) /\ Head(imageQueue) = imageQueue[1] /\ 1 \in DOMAIN imageQueue
      BY <1>18, TailOf DEF TypeOK
    <2>5. /\ handed.image.n < Head(imageQueue).frame.n /\ handed.image.n \in Int
          /\ Head(imageQueue).frame.n \in Nat
      BY <1>10, <1>12, <2>4, QueueGrows
    <2>6. f.n <= Head(imageQueue).frame.n
      BY <1>13, <2>2, <2>3, <2>5
    <2>7. Tail(queues[s]) = <<>>
      BY <1>9, <2>1
    <2>8. QED BY <2>6, <2>7
  <1>19. SampleTakenIn(s, queues)
    BY <1>2, <1>7a, <1>8, <1>10, <1>14, <1>15, <1>17, <1>18 DEF SampleTakenIn, Taken, f
  <1>20. QED BY <1>1, <1>3, <1>4, <1>5, <1>6, <1>9, <1>19

-----------------------------------------------------------------------------
(* Every step keeps the images and the samples in turn.                    *)

\* What is noted about an image that arrives.
LEMMA NotedBehind ==
    ASSUME TypeOK, NEW n \in Numbers, NEW over \in BOOLEAN, lastSkipped <= n
    PROVE  Noted(n, over).lastSkipped <= n /\ Noted(n, over) \in NotedTypes
  <1>1. n \in Int /\ lastSkipped \in Int
    BY Constants DEF TypeOK
  <1>2. Noted(n, over).lastSkipped
           = IF over THEN n ELSE IF NewlyMissing(n) # {} THEN n - 1 ELSE lastSkipped
    BY DEF Noted
  <1>3. QED BY <1>1, <1>2, NotedType

LEMMA InTurnImage ==
    ASSUME TypeOK, TypeOK', InOrder, InTurn, DataImage
    PROVE  InTurn'
  <1>0. interval' # 0
    <2>1. /\ interval # 0 /\ ChangeSeamInterval(IntervalOf(Arriving(Image).n))
      BY DataImageEffect DEF Current
    <2>2. /\ IntervalOf(Arriving(Image).n) \in 0 .. Len(Ends) /\ IntervalOf(Arriving(Image).n) # 0
      BY <2>1, IntervalOfType DEF TypeOK
    <2>3. QED BY <2>1, <2>2, ChangeType
  <1> SUFFICES ASSUME Steady'
               PROVE  /\ Taken(imageQueue, sampleQueue, wire)'
                      /\ lastSkipped' <= ArrivedIn(imageQueue)'
                      /\ imageQueue' = <<>> \/ ~ AllSamplesQueued(sampleQueue)'
    BY <1>0 DEF InTurn
  <1> DEFINE n == Arriving(Image).n
  <1>1. PICK over \in BOOLEAN, images \in Seq(Queued) : ImageTakenIn(over, images)
    BY ImageArrives
  <1>2. /\ UNCHANGED <<cycle, needed>> /\ Steady /\ interval # 0
    BY ImageArrives
  <1>3. /\ n \in Numbers /\ images # <<>> /\ ArrivedIn(images) = n
        /\ ArrivedIn(imageQueue) < n
        /\ OrderedWith(images, sampleQueue, wire') /\ Taken(images, sampleQueue, wire')
    BY <1>1 DEF ImageTakenIn
  <1>4. Noted(n, over).lastSkipped <= n /\ Noted(n, over) \in NotedTypes
    <2>1. lastSkipped <= ArrivedIn(imageQueue)
      BY <1>2 DEF InTurn
    <2>2. n \in Int
      BY <1>3, Constants
    <2>3. ArrivedIn(imageQueue) \in Int /\ lastSkipped \in Int
      BY ArrivedType DEF TypeOK
    <2>4. lastSkipped <= n
      BY <1>3, <2>1, <2>2, <2>3
    <2>5. QED BY <1>3, <2>4, NotedBehind
  <1>5. CASE /\ imageQueue = <<>> /\ AllSamplesQueued(sampleQueue)
             /\ Head(images).frame.n = n /\ Tail(images) = <<>>
             /\ StartProcessing(n, images, sampleQueue, Noted(n, over))
    <2>1. sampleQueue \in [Sensors -> Seq(Frame)] /\ n <= Head(images).frame.n
      <3>1. n \in Int
        BY <1>3, Constants
      <3>2. n <= n
        BY <3>1
      <3>3. QED BY <1>5, <3>2 DEF TypeOK
    <2>2. /\ Taken(imageQueue, sampleQueue, wire)' /\ lastSkipped' <= ArrivedIn(imageQueue)'
      BY <1>2, <1>3, <1>4, <1>5, <2>1, StartTaken
    <2>3. imageQueue' = <<>>
      BY <1>3, <1>4, <1>5, <2>1, StartEffect
    <2>4. QED BY <2>2, <2>3
  <1>6. CASE /\ ~ AllSamplesQueued(sampleQueue)
             /\ Enqueue(images, sampleQueue, Noted(n, over))
    <2> DEFINE noted == Noted(n, over)
    <2>0. Enqueue(images, sampleQueue, noted)
      BY <1>6
    <2> HIDE DEF noted
    <2>1. /\ imageQueue' = images /\ sampleQueue' = sampleQueue /\ handed' = handed /\ last' = last
          /\ lastSkipped' = noted.lastSkipped
      BY <2>0 DEF Enqueue, Note
    <2>2. Taken(imageQueue, sampleQueue, wire)'
      BY <1>2, <1>3, <2>1 DEF Taken, SamplesWith, ImagesWith, Furthest, Total
    <2>3. ArrivedIn(imageQueue)' = n
      BY <1>3, <2>1 DEF ArrivedIn
    <2>4. ~ AllSamplesQueued(sampleQueue)'
      BY <1>2, <1>6, <2>1 DEF AllSamplesQueued
    <2>5. QED BY <1>4, <2>1, <2>2, <2>3, <2>4 DEF noted
  <1>7. QED BY <1>1, <1>5, <1>6 DEF ImageTakenIn

LEMMA InTurnSample ==
    ASSUME TypeOK, TypeOK', InOrder, InTurn, NEW s \in Sensors, DataSample(s)
    PROVE  InTurn'
  <1>0. interval' # 0
    <2>1. /\ interval # 0 /\ ChangeSeamInterval(IntervalOf(Arriving(s).n))
      BY DataSampleEffect DEF Current
    <2>2. /\ IntervalOf(Arriving(s).n) \in 0 .. Len(Ends) /\ IntervalOf(Arriving(s).n) # 0
      BY <2>1, IntervalOfType DEF TypeOK
    <2>3. QED BY <2>1, <2>2, ChangeType
  <1> SUFFICES ASSUME Steady'
               PROVE  /\ Taken(imageQueue, sampleQueue, wire)'
                      /\ lastSkipped' <= ArrivedIn(imageQueue)'
                      /\ imageQueue' = <<>> \/ ~ AllSamplesQueued(sampleQueue)'
    BY <1>0 DEF InTurn
  <1> DEFINE n == Arriving(s).n
  <1>1. PICK queues \in [Sensors -> Seq(Frame)] : SampleTakenIn(s, queues)
    BY SampleArrives
  <1>2. /\ UNCHANGED <<cycle, needed>> /\ Steady /\ interval # 0
    BY SampleArrives
  <1>3. /\ n \in Numbers
        /\ OrderedWith(imageQueue, queues, wire') /\ Taken(imageQueue, queues, wire')
        /\ imageQueue \in Seq(Queued)
        /\ lastSkipped <= ArrivedIn(imageQueue)
    BY <1>1, <1>2 DEF SampleTakenIn, InTurn, TypeOK
  <1>4. NotedNow \in NotedTypes /\ NotedNow.lastSkipped = lastSkipped
    BY DEF NotedNow, NotedTypes, TypeOK
  <1>5. CASE /\ imageQueue # <<>> /\ AllSamplesQueued(queues)
             /\ n <= Head(imageQueue).frame.n
             /\ s \in needed /\ Tail(queues[s]) = <<>>
             /\ StartProcessing(n, imageQueue, queues, NotedNow)
    <2>1. /\ Taken(imageQueue, sampleQueue, wire)' /\ lastSkipped' <= ArrivedIn(imageQueue)'
      BY <1>2, <1>3, <1>4, <1>5, StartTaken
    <2>2. sampleQueue'[s] = <<>>
      BY <1>3, <1>4, <1>5, StartEffect
    <2>3. ~ AllSamplesQueued(sampleQueue)'
      BY <1>2, <1>5, <2>2 DEF AllSamplesQueued
    <2>4. QED BY <2>1, <2>3
  <1>6. CASE /\ imageQueue = <<>> \/ ~ AllSamplesQueued(queues)
             /\ Enqueue(imageQueue, queues, NotedNow)
    <2>1. /\ imageQueue' = imageQueue /\ sampleQueue' = queues /\ handed' = handed /\ last' = last
          /\ lastSkipped' = lastSkipped
      BY <1>4, <1>6 DEF Enqueue, Note
    <2>2. Taken(imageQueue, sampleQueue, wire)'
      BY <1>2, <1>3, <2>1 DEF Taken, SamplesWith, ImagesWith, Furthest, Total
    <2>3. ArrivedIn(imageQueue)' = ArrivedIn(imageQueue)
      BY <2>1 DEF ArrivedIn
    <2>4. imageQueue' = <<>> \/ ~ AllSamplesQueued(sampleQueue)'
      BY <1>2, <1>6, <2>1 DEF AllSamplesQueued
    <2>5. QED BY <1>3, <2>1, <2>2, <2>3, <2>4
  <1>7. QED BY <1>1, <1>5, <1>6 DEF SampleTakenIn

LEMMA InTurnStart ==
    ASSUME TypeOK, TypeOK', InOrder, Resting, InTurn, StartInspect
    PROVE  InTurn'
  <1>0. interval' = 1
    BY DEF StartInspect, ChangeSeamInterval
  <1> SUFFICES ASSUME Steady'
               PROVE  /\ Taken(imageQueue, sampleQueue, wire)'
                      /\ lastSkipped' <= ArrivedIn(imageQueue)'
                      /\ imageQueue' = <<>>
    BY <1>0 DEF InTurn
  <1>1. interval = 0
    <2>1. interval # 0 => "restarted" \in trouble'
      BY DEF StartInspect
    <2>2. QED BY <2>1 DEF Steady
  <1>2. /\ imageQueue' = <<>> /\ \A s \in Sensors : sampleQueue'[s] = <<>>
        /\ handed' = NoJob /\ last' = -1 /\ lastSkipped' = -1
    BY <1>1 DEF TypeOK, Resting, InTurn, StartInspect, skipVars
  <1>3. handed'.image.n = -1 /\ \A s \in Sensors : handed'.samples[s].n = -1
    BY <1>2, NoJobType, Constants
  <1>4. Furthest' /\ ImagesWith(imageQueue)' /\ lastSkipped' <= ArrivedIn(imageQueue)'
    <2>1. needed' \subseteq Sensors
      BY DEF TypeOK
    <2>2. DOMAIN imageQueue' = {}
      BY <1>2
    <2>3. QED BY <1>2, <1>3, <2>1, <2>2 DEF Furthest, ImagesWith, ArrivedIn
  <1>5. SamplesWith(sampleQueue, wire)'
    <2>1. ASSUME NEW s \in Sensors
          PROVE  IF s \in needed'
                 THEN CompleteOf(<<>>, wire'[s], 0, LastTrigger[needed'] + 1, cycle + 1)
                 ELSE Foreign(wire'[s], cycle + 1)
      <3>1. s \in Sources /\ s # Image
        BY Constants DEF Sources
      <3>2. PICK k \in 0 .. Len(wire[s]) :
               wire'[s] = IF s \in {Image} \cup needed'
                          THEN SubSeq(wire[s], 1, k) \o Burst(cycle + 1, needed')
                          ELSE SubSeq(wire[s], 1, k)
        BY <3>1, StartInspectEffect
      <3>3. /\ wire[s] \in Seq(Frame) /\ Waiting(s) \in Seq(Frame)
            /\ HandedOf(s) \in Frame \cup {NoFrame}
            /\ Ordered(HandedOf(s), Waiting(s), wire[s], cycle)
        BY <3>1, Types DEF InOrder
      <3> DEFINE w == SubSeq(wire[s], 1, k)
      <3>4. w \in Seq(Frame) /\ Ordered(HandedOf(s), Waiting(s), w, cycle)
        BY <3>3, EndOrdered
      <3>5. wire'[s] = IF s \in needed' THEN w \o Burst(cycle + 1, needed') ELSE w
        BY <3>1, <3>2
      <3> HIDE DEF w
      <3>6. cycle \in Nat /\ cycle + 1 <= MaxCycles /\ needed' \in SUBSET Sensors
        BY StartInspectEffect, Types
      <3>7. CASE s \in needed'
        BY <3>3, <3>4, <3>5, <3>6, <3>7, BurstComplete
      <3>8. CASE s \notin needed'
        <4>1. \A j \in DOMAIN w : w[j] \in Frame /\ w[j].cycle <= cycle
          BY <3>4 DEF Ordered
        <4>2. \A j \in DOMAIN w : w[j].cycle < cycle + 1
          BY <3>6, <4>1, Constants
        <4>3. QED BY <3>5, <3>8, <4>2 DEF Foreign
      <3>9. QED BY <3>7, <3>8
    <2>2. cycle' = cycle + 1 /\ needed' \subseteq Sensors
      BY StartInspectEffect
    <2>3. \A s \in Sensors : handed'.samples[s].n + 1 = 0
      BY <1>3
    <2>4. QED BY <1>2, <2>1, <2>2, <2>3 DEF SamplesWith, Total
  <1>6. QED BY <1>2, <1>4, <1>5 DEF Taken

LEMMA InTurnDrop ==
    ASSUME TypeOK, TypeOK', InTurn, NEW c \in Sources, DropFrame(c) \/ LoseFrame(c)
    PROVE  InTurn'
  <1>1. /\ Arrives(c) /\ Receive(c) /\ trouble \subseteq trouble'
        /\ UNCHANGED <<cycle, imageQueue, sampleQueue, interval, needed, last, skipVars, handed>>
        /\ \/ Head(wire[c]).cycle # cycle \/ interval = 0
           \/ c = Image \/ "sampleLost" \in trouble'
    BY DEF DropFrame, LoseFrame, Current, Arriving
  <1> SUFFICES ASSUME Steady', interval # 0
               PROVE  SamplesWith(sampleQueue, wire)'
    <2>1. UNCHANGED <<lastSkipped, fromSensor, inInspection>>
      BY <1>1 DEF skipVars
    <2>2. Steady' => Steady
      BY <1>1 DEF Steady
    <2>3. UNCHANGED <<imageQueue, sampleQueue, last, handed, cycle, needed>>
          => /\ ImagesWith(imageQueue)' = ImagesWith(imageQueue)
             /\ Furthest' = Furthest
             /\ ArrivedIn(imageQueue)' = ArrivedIn(imageQueue)
             /\ AllSamplesQueued(sampleQueue)' = AllSamplesQueued(sampleQueue)
      BY DEF ImagesWith, Furthest, ArrivedIn, AllSamplesQueued
    <2>4. QED BY <1>1, <2>1, <2>2, <2>3 DEF InTurn, Taken
  <1>2. Head(wire[c]).cycle # cycle \/ c = Image
    BY <1>1 DEF Steady
  <1>3. SamplesWith(sampleQueue, wire)
    BY <1>1 DEF Steady, InTurn, Taken
  <1>4. wire'[c] = Tail(wire[c]) /\ \A d \in Sources \ {c} : wire'[d] = wire[d]
    BY <1>1, ArrivalType
  <1>5. /\ wire[c] \in Seq(Frame) /\ wire[c] # <<>> /\ Image \notin Sensors
        /\ cycle \in Nat /\ Total \in Int
    BY <1>1, Types, Numbering, Constants DEF Arrives
  <1>6. ASSUME NEW s \in needed
        PROVE  CompleteOf(sampleQueue[s], wire'[s], handed.samples[s].n + 1, Total, cycle)
    <2> DEFINE next == handed.samples[s].n + 1
    <2>1. s \in Sensors /\ s \in Sources
      BY Numbering DEF Sources
    <2>2. /\ sampleQueue[s] \in Seq(Frame) /\ handed.samples[s] \in Frame \cup {NoFrame}
      BY <2>1, Types
    <2>3. next \in Int
      BY <2>2, Constants
    <2>4. CompleteOf(sampleQueue[s], wire[s], next, Total, cycle)
      BY <1>3 DEF SamplesWith
    <2> HIDE DEF next
    <2>5. CASE s = c
      <3>1. Head(wire[s]).cycle # cycle
        BY <1>2, <1>5, <2>1, <2>5
      <3>2. CompleteOf(sampleQueue[s], Tail(wire[s]), next, Total, cycle)
        BY <1>5, <2>2, <2>3, <2>4, <2>5, <3>1, DropComplete
      <3>3. QED BY <1>4, <2>5, <3>2 DEF next
    <2>6. CASE s # c
      BY <1>4, <2>1, <2>4, <2>6 DEF next
    <2>7. QED BY <2>5, <2>6
  <1>7. ASSUME NEW s \in Sensors \ needed PROVE Foreign(wire'[s], cycle)
    <2>1. Foreign(wire[s], cycle)
      BY <1>3 DEF SamplesWith
    <2>2. CASE s = c
      <3>1. DOMAIN wire'[c] = 1 .. (Len(wire[c]) - 1)
        BY <1>4, <1>5, TailOf
      <3>2. \A j \in 1 .. (Len(wire[c]) - 1) :
               j + 1 \in DOMAIN wire[c] /\ wire'[c][j] = wire[c][j + 1]
        BY <1>4, <1>5, TailOf
      <3>3. QED BY <2>1, <2>2, <3>1, <3>2 DEF Foreign
    <2>3. CASE s # c
      BY <1>4, <2>1, <2>3 DEF Sources
    <2>4. QED BY <2>2, <2>3
  <1>8. QED BY <1>1, <1>6, <1>7 DEF SamplesWith, Total

LEMMA InTurnStep ==
    ASSUME IInv, TypeOK', InTurn, [Next]_vars
    PROVE  InTurn'
  <1>0. TypeOK /\ InOrder /\ Resting
    BY DEF IInv
  <1>1. CASE StartInspect
    BY <1>0, <1>1, InTurnStart
  <1>2. CASE StopInspect
    BY <1>2 DEF StopInspect, InTurn
  <1>3. CASE DataImage
    BY <1>0, <1>3, InTurnImage
  <1>4. ASSUME NEW s \in Sensors, DataSample(s) PROVE InTurn'
    BY <1>0, <1>4, InTurnSample
  <1>5. ASSUME NEW c \in Sources, DropFrame(c) \/ LoseFrame(c) PROVE InTurn'
    BY <1>0, <1>5, InTurnDrop
  <1> DEFINE rest == <<wire, cycle, imageQueue, sampleQueue, interval, needed, last, lastSkipped,
                       fromSensor, inInspection, handed, trouble>>
  <1>6. ASSUME NEW w \in Workers, Works(w) PROVE UNCHANGED rest
    BY <1>6, WorksEffect DEF skipVars
  <1>7. UNCHANGED vars => UNCHANGED rest
    BY DEF vars, skipVars
  <1>8. CASE UNCHANGED rest
    BY <1>8 DEF InTurn, Steady, Taken, SamplesWith, ImagesWith, Furthest, ArrivedIn,
                AllSamplesQueued, Total
  <1>9. QED BY <1>1, <1>2, <1>3, <1>4, <1>5, <1>6, <1>7, <1>8 DEF Next, Works

LEMMA AlwaysInTurn == Spec => [](IInv /\ InTurn)
  <1>1. Init => InTurn
    BY DEF Init, InTurn
  <1>2. IInv /\ IInv' /\ InTurn /\ [Next]_vars => InTurn'
    BY InTurnStep DEF IInv
  <1>3. QED BY <1>1, <1>2, AlwaysInvariant, PTL DEF Spec

-----------------------------------------------------------------------------
(* Skipped images are counted once.                                        *)

\* No image was lost or forced through and none came late.
Prompt == Undisturbed /\ "late" \notin trouble

\* The counters stay behind the mark; while all is prompt, the last image handed
\* out is processed or noted.
Counted ==
    Steady /\ interval # 0 =>
       /\ fromSensor + inInspection <= lastSkipped + 1
       /\ Prompt =>
             /\ fromSensor = 0
             /\ handed.image.n <= last \/ handed.image.n <= lastSkipped

\* The numbers newly missing when image n arrives.
LEMMA MissingCount ==
    ASSUME TypeOK, NEW n \in Numbers
    PROVE  /\ Cardinality(NewlyMissing(n)) \in Nat
           /\ NewlyMissing(n) # {} => /\ lastSkipped <= n - 2
                                      /\ Cardinality(NewlyMissing(n)) <= n - 1 - lastSkipped
           /\ NewlyMissing(n) = {} => Cardinality(NewlyMissing(n)) = 0
  <1> DEFINE missing == NewlyMissing(n)
             all == (lastSkipped + 1) .. (n - 1)
  <1>1. last \in Int /\ lastSkipped \in Int /\ n \in Int /\ lastSkipped + 1 \in Int /\ n - 1 \in Int
    BY Constants DEF TypeOK
  <1>2. missing \subseteq all
    BY <1>1 DEF NewlyMissing
  <1>3. IsFiniteSet(all) /\ Cardinality(all) = IF lastSkipped + 1 > n - 1 THEN 0 ELSE n - 1 - (lastSkipped + 1) + 1
    BY <1>1, FS_Interval
  <1>4. IsFiniteSet(missing) /\ Cardinality(missing) <= Cardinality(all)
    BY <1>2, <1>3, FS_Subset
  <1>5. Cardinality(missing) \in Nat
    BY <1>4, FS_CardinalityType
  <1>6. missing = {} => Cardinality(missing) = 0
    BY FS_EmptySet
  <1>7. missing # {} => lastSkipped <= n - 2
    <2> SUFFICES ASSUME NEW i \in missing PROVE lastSkipped <= n - 2
      OBVIOUS
    <2>1. i \in all
      BY <1>2
    <2>2. QED BY <1>1, <2>1
  <1>8. missing # {} => Cardinality(missing) <= n - 1 - lastSkipped
    BY <1>1, <1>3, <1>4, <1>5, <1>7
  <1>9. QED BY <1>5, <1>6, <1>7, <1>8

\* What is noted about an image that is ahead of the mark.
LEMMA NotedCounts ==
    ASSUME TypeOK, NEW n \in Numbers, lastSkipped < n, NEW over \in BOOLEAN,
           fromSensor + inInspection <= lastSkipped + 1
    PROVE  /\ Noted(n, over).fromSensor + Noted(n, over).inInspection <= Noted(n, over).lastSkipped + 1
           /\ lastSkipped <= Noted(n, over).lastSkipped
           /\ NewlyMissing(n) = {} => Noted(n, over).fromSensor = fromSensor
  <1> DEFINE missing == NewlyMissing(n)
             count == Cardinality(missing)
  <1>1. /\ Noted(n, over).lastSkipped = IF over THEN n ELSE IF missing # {} THEN n - 1 ELSE lastSkipped
        /\ Noted(n, over).fromSensor = fromSensor + count
        /\ Noted(n, over).inInspection = inInspection + (IF over THEN 1 ELSE 0)
    BY DEF Noted
  <1>2. /\ count \in Nat
        /\ missing # {} => lastSkipped <= n - 2 /\ count <= n - 1 - lastSkipped
        /\ missing = {} => count = 0
    BY MissingCount
  <1>3. lastSkipped \in Int /\ n \in Int /\ fromSensor \in Int /\ inInspection \in Int
    BY Constants DEF TypeOK
  <1> HIDE DEF count, missing
  <1>4. missing = {} => Noted(n, over).fromSensor = fromSensor
    BY <1>1, <1>2, <1>3
  <1>5. /\ Noted(n, over).fromSensor + Noted(n, over).inInspection <= Noted(n, over).lastSkipped + 1
        /\ lastSkipped <= Noted(n, over).lastSkipped
    <2>1. CASE over
      <3>1. count <= n - 1 - lastSkipped
        BY <1>2, <1>3
      <3>2. QED BY <1>1, <1>2, <1>3, <2>1, <3>1
    <2>2. CASE ~ over /\ missing # {}
      BY <1>1, <1>2, <1>3, <2>2
    <2>3. CASE ~ over /\ missing = {}
      BY <1>1, <1>2, <1>3, <2>3
    <2>4. QED BY <2>1, <2>2, <2>3
  <1>6. QED BY <1>4, <1>5 DEF missing

\* A job that starts is processed or noted.
LEMMA StartCounts ==
    ASSUME TypeOK, NEW n \in Numbers, NEW images \in Seq(Queued), images # <<>>,
           NEW queues \in [Sensors -> Seq(Frame)], NEW noted \in NotedTypes,
           StartProcessing(n, images, queues, noted),
           noted.fromSensor + noted.inInspection <= noted.lastSkipped + 1
    PROVE  /\ fromSensor' + inInspection' <= lastSkipped' + 1
           /\ fromSensor' = noted.fromSensor
           /\ n <= last' \/ n <= lastSkipped'
  <1>1. /\ n \in Int /\ noted.lastSkipped \in Int /\ noted.fromSensor \in Int
        /\ noted.inInspection \in Int
    BY Constants DEF NotedTypes
  <1>2. /\ fromSensor' = noted.fromSensor
        /\ \/ /\ last' = n /\ lastSkipped' = noted.lastSkipped
              /\ inInspection' = noted.inInspection
           \/ /\ noted.lastSkipped < n /\ lastSkipped' = n
              /\ inInspection' = noted.inInspection + 1
           \/ /\ ~ noted.lastSkipped < n /\ lastSkipped' = noted.lastSkipped
              /\ inInspection' = noted.inInspection
    BY StartParts
  <1>3. QED BY <1>1, <1>2

LEMMA CountedImage ==
    ASSUME IInv, InTurn, Counted, DataImage
    PROVE  Counted'
  <1> USE DEF IInv
  <1> SUFFICES ASSUME Steady'
               PROVE  /\ fromSensor' + inInspection' <= lastSkipped' + 1
                      /\ Prompt' =>
                            /\ fromSensor' = 0
                            /\ handed'.image.n <= last' \/ handed'.image.n <= lastSkipped'
    BY DEF Counted
  <1> DEFINE f == Arriving(Image)
             n == f.n
  <1>1. PICK over \in BOOLEAN, images \in Seq(Queued) : ImageTakenIn(over, images)
    BY ImageArrives
  <1>2. Steady /\ interval # 0 /\ trouble \subseteq trouble'
    BY ImageArrives
  <1>3. /\ n \in Numbers /\ images # <<>>
        /\ ArrivedIn(imageQueue) < n /\ last < n
        /\ imageQueue # <<>> => "late" \in trouble'
    BY <1>1 DEF ImageTakenIn
  <1>4. /\ lastSkipped < n /\ n \in Int /\ lastSkipped \in Int /\ last \in Int
        /\ handed.image.n \in Int
    <2>1. lastSkipped <= ArrivedIn(imageQueue)
      BY <1>2 DEF InTurn
    <2>2. ArrivedIn(imageQueue) \in Int /\ lastSkipped \in Int /\ last \in Int
      BY ArrivedType DEF TypeOK
    <2>3. n \in Int
      BY <1>3, Constants
    <2>4. handed.image.n \in Int
      BY Types, Constants
    <2>5. QED BY <1>3, <2>1, <2>2, <2>3, <2>4
  <1>5. /\ fromSensor + inInspection <= lastSkipped + 1
        /\ Prompt => fromSensor = 0 /\ (handed.image.n <= last \/ handed.image.n <= lastSkipped)
    BY <1>2 DEF Counted
  <1>6. Prompt' => Prompt /\ imageQueue = <<>>
    BY <1>2, <1>3 DEF Prompt, Undisturbed
  <1>7. Prompt' => n = handed.image.n + 1
    <2> SUFFICES ASSUME Prompt' PROVE n = handed.image.n + 1
      OBVIOUS
    <2>1. Complete /\ imageQueue = <<>>
      BY <1>2, <1>6 DEF Pairs, Prompt
    <2>2. CompleteOf(FramesOf(imageQueue), wire[Image], NextOut, Total, cycle)
      BY <2>1, CompleteIs DEF CompleteWith
    <2>3. /\ Arrives(Image) /\ Current(f) /\ f = Head(wire[Image])
      BY DataImageEffect DEF Arriving
    <2>4. /\ FramesOf(imageQueue) \in Seq(Frame) /\ wire[Image] \in Seq(Frame)
          /\ wire[Image] # <<>> /\ Head(wire[Image]).cycle = cycle
          /\ cycle \in Nat /\ NextOut \in Int /\ Total \in Int
      BY <2>3, Types, Numbering, Constants DEF Arrives, Current
    <2>5. /\ Head(wire[Image]) = [cycle |-> cycle, n |-> NextOut + Len(FramesOf(imageQueue))]
          /\ CompleteOf(Append(FramesOf(imageQueue), Head(wire[Image])), Tail(wire[Image]),
                        NextOut, Total, cycle)
      BY <2>2, <2>4, ArrivalComplete, Zenon
    <2>6. Len(FramesOf(imageQueue)) = 0
      BY <2>1, FramesOfType DEF TypeOK
    <2>7. n = NextOut + 0
      BY <2>3, <2>5, <2>6
    <2>8. QED BY <1>4, <2>7 DEF NextOut
  <1>8. Prompt' => NewlyMissing(n) = {}
    <2> SUFFICES ASSUME Prompt', NEW i \in (last + 1) .. (n - 1), i > lastSkipped
                 PROVE  FALSE
      BY DEF NewlyMissing
    <2>1. handed.image.n <= last \/ handed.image.n <= lastSkipped
      BY <1>5, <1>6
    <2>2. n = handed.image.n + 1
      BY <1>7
    <2>3. QED BY <1>4, <2>1, <2>2
  <1> DEFINE noted == Noted(n, over)
  <1>9. /\ noted.fromSensor + noted.inInspection <= noted.lastSkipped + 1
        /\ lastSkipped <= noted.lastSkipped
        /\ Prompt' => noted.fromSensor = 0
        /\ noted \in NotedTypes
    BY <1>3, <1>4, <1>5, <1>6, <1>8, NotedCounts, NotedType
  <1> HIDE DEF noted
  <1>10. CASE /\ imageQueue = <<>> /\ Head(images).frame.n = n
              /\ StartProcessing(n, images, sampleQueue, noted)
    <2>1. sampleQueue \in [Sensors -> Seq(Frame)]
      BY DEF TypeOK
    <2>2. /\ fromSensor' + inInspection' <= lastSkipped' + 1
          /\ fromSensor' = noted.fromSensor
          /\ n <= last' \/ n <= lastSkipped'
      BY <1>3, <1>9, <1>10, <2>1, StartCounts
    <2>3. handed'.image = Head(images).frame
      BY <1>3, <1>9, <1>10, <2>1, StartEffect
    <2>4. QED BY <1>9, <1>10, <2>2, <2>3
  <1>11. CASE Enqueue(images, sampleQueue, noted)
    <2>1. /\ handed' = handed /\ last' = last /\ fromSensor' = noted.fromSensor
          /\ inInspection' = noted.inInspection /\ lastSkipped' = noted.lastSkipped
      BY <1>11 DEF Enqueue, Note
    <2>2. Prompt' => handed'.image.n <= last' \/ handed'.image.n <= lastSkipped'
      <3>1. noted.lastSkipped \in Int
        BY <1>9, Constants DEF NotedTypes
      <3>2. QED BY <1>4, <1>5, <1>6, <1>9, <2>1, <3>1
    <2>3. QED BY <1>9, <2>1, <2>2
  <1>12. QED BY <1>1, <1>10, <1>11 DEF ImageTakenIn, noted

LEMMA CountedSample ==
    ASSUME IInv, IInv', InTurn, Counted, NEW s \in Sensors, DataSample(s)
    PROVE  Counted'
  <1> USE DEF IInv
  <1> SUFFICES ASSUME Steady'
               PROVE  /\ fromSensor' + inInspection' <= lastSkipped' + 1
                      /\ Prompt' =>
                            /\ fromSensor' = 0
                            /\ handed'.image.n <= last' \/ handed'.image.n <= lastSkipped'
    BY DEF Counted
  <1> DEFINE n == Arriving(s).n
  <1>1. PICK queues \in [Sensors -> Seq(Frame)] : SampleTakenIn(s, queues)
    BY SampleArrives
  <1>2. Steady /\ interval # 0 /\ interval' # 0 /\ trouble \subseteq trouble'
    BY SampleArrives
  <1>3. n \in Numbers
    BY <1>1 DEF SampleTakenIn
  <1>4. /\ fromSensor + inInspection <= lastSkipped + 1
        /\ Prompt => fromSensor = 0 /\ (handed.image.n <= last \/ handed.image.n <= lastSkipped)
    BY <1>2 DEF Counted
  <1>5. Prompt' => Prompt
    BY <1>2 DEF Prompt, Undisturbed
  <1>6. /\ NotedNow \in NotedTypes
        /\ NotedNow.lastSkipped = lastSkipped /\ NotedNow.fromSensor = fromSensor
        /\ NotedNow.inInspection = inInspection
    BY DEF NotedNow, NotedTypes, TypeOK
  <1>7. CASE /\ imageQueue # <<>>
             /\ StartProcessing(n, imageQueue, queues, NotedNow)
    <2>1. imageQueue \in Seq(Queued)
      BY DEF TypeOK
    <2>2. /\ fromSensor' + inInspection' <= lastSkipped' + 1
          /\ fromSensor' = fromSensor
          /\ n <= last' \/ n <= lastSkipped'
      BY <1>3, <1>4, <1>6, <1>7, <2>1, StartCounts
    <2>3. handed'.n = n /\ handed' # NoJob
      BY <1>3, <1>6, <1>7, <2>1, StartEffect
    <2>4. Prompt' => handed'.image.n = n
      <3>1. Prompt' => HandedPaired'
        BY <1>2 DEF Prompt, Pairs
      <3>2. QED BY <2>3, <3>1 DEF HandedPaired
    <2>5. QED BY <1>4, <1>5, <2>2, <2>4
  <1>8. CASE Enqueue(imageQueue, queues, NotedNow)
    <2>1. /\ handed' = handed /\ last' = last /\ fromSensor' = fromSensor
          /\ inInspection' = inInspection /\ lastSkipped' = lastSkipped
      BY <1>6, <1>8 DEF Enqueue, Note
    <2>2. QED BY <1>4, <1>5, <2>1
  <1>9. QED BY <1>1, <1>7, <1>8 DEF SampleTakenIn

LEMMA CountedStep ==
    ASSUME IInv, IInv', InTurn, Counted, [Next]_vars
    PROVE  Counted'
  <1>1. CASE StartInspect
    <2> SUFFICES ASSUME Steady'
                 PROVE  /\ fromSensor' + inInspection' <= lastSkipped' + 1
                        /\ fromSensor' = 0
                        /\ handed'.image.n <= last'
      BY DEF Counted
    <2>1. interval = 0
      <3>1. interval # 0 => "restarted" \in trouble'
        BY <1>1 DEF StartInspect
      <3>2. QED BY <3>1 DEF Steady
    <2>2. /\ handed' = NoJob /\ last' = -1 /\ lastSkipped' = -1 /\ fromSensor' = 0
          /\ inInspection' = 0
      BY <1>1, <2>1 DEF IInv, Resting, InTurn, StartInspect, skipVars
    <2>3. QED BY <2>2, NoJobType, Constants
  <1>2. CASE StopInspect
    BY <1>2 DEF StopInspect, Counted
  <1>3. CASE DataImage
    BY <1>3, CountedImage
  <1>4. ASSUME NEW s \in Sensors, DataSample(s) PROVE Counted'
    BY <1>4, CountedSample
  <1> DEFINE rest == <<interval, last, lastSkipped, fromSensor, inInspection, handed>>
  <1>5. ASSUME UNCHANGED rest, trouble \subseteq trouble' PROVE Counted'
    <2>1. (Steady' => Steady) /\ (Prompt' => Prompt)
      BY <1>5 DEF Steady, Prompt, Undisturbed
    <2>2. QED BY <1>5, <2>1 DEF Counted
  <1>6. ASSUME NEW c \in Sources, DropFrame(c) \/ LoseFrame(c)
        PROVE  UNCHANGED rest /\ trouble \subseteq trouble'
    BY <1>6 DEF DropFrame, LoseFrame, skipVars
  <1>7. ASSUME NEW w \in Workers, Works(w)
        PROVE  UNCHANGED rest /\ trouble \subseteq trouble'
    BY <1>7, WorksEffect DEF skipVars
  <1>8. UNCHANGED vars => UNCHANGED rest /\ trouble \subseteq trouble'
    BY DEF vars, skipVars
  <1>9. QED BY <1>1, <1>2, <1>3, <1>4, <1>5, <1>6, <1>7, <1>8 DEF Next, Works

\* No image number is noted as skipped twice, as long as no sample was lost, no
\* image was forced through and no inspection was started into a running one;
\* and an image the inspection skipped is not noted as lost by the sensor, as
\* long as no image was lost and none came while another waited for its samples
\* (checkForMissingImage, startProcessing): the counters of skipped images add
\* up to no more than the numbers they were counted for.
THEOREM ImagesSkippedOnce == Spec => []SkippedOnce
  <1>1. Init => Counted
    BY DEF Init, Counted
  <1>2. IInv /\ IInv' /\ InTurn /\ Counted /\ [Next]_vars => Counted'
    BY CountedStep
  <1>3. IInv /\ InTurn /\ Counted => SkippedOnce
    <2> SUFFICES ASSUME IInv, InTurn, Counted, Steady
                 PROVE  /\ fromSensor + inInspection <= lastSkipped + 1
                        /\ Prompt => fromSensor = 0
      BY DEF SkippedOnce, Steady, Prompt, Undisturbed
    <2>1. CASE interval = 0
      BY <2>1 DEF InTurn
    <2>2. CASE interval # 0
      BY <2>2 DEF Counted
    <2>3. QED BY <2>1, <2>2
  <1>4. QED BY <1>1, <1>2, <1>3, AlwaysInTurn, PTL DEF Spec

-----------------------------------------------------------------------------
(* The workers can always go on.                                           *)

\* The work handed to the workers that the filters have not counted.
Unfinished ==
    {j \in Job : j # NoJob /\ \E w \in Workers : j = slot[w] \/ (j = job[w] /\ stage[w] # "done")}

\* The number of the job fits its mode: skipping leads up to the number.
InStep(j) ==
    /\ j.mode # "OutOfOrderImage"
    /\ j.mode = "Normal" => j.n = j.last + 1
    /\ j.mode # "Normal" => j.n > j.last + 1

\* With the counters at c, the image before the job is finished, or it is
\* unfinished.
Preceded(j, c) ==
    \/ c >= j.last + 1
    \/ \E k \in Unfinished : k.n = j.last

\* The counters a worker in the graph may find.
StageFits(w, c) ==
    /\ stage[w] = "skip" => job[w].mode # "Normal" /\ c <= job[w].last + 1
    /\ stage[w] = "ensure" => job[w].mode # "Normal" /\ c = job[w].last + 2
    /\ stage[w] = "process" => job[w].mode = "Normal" \/ c = job[w].n

\* The numbers the jobs cover do not overlap, and the counters c have passed
\* none of the unfinished ones.
Chain(c) ==
    /\ c <= last + 1
    /\ c = last + 1 \/ \E k \in Unfinished : k.n = last
    /\ \A j \in Unfinished : InStep(j) /\ Preceded(j, c) /\ c <= j.n /\ j.n <= last
    /\ \A j, k \in Unfinished : j = k \/ j.n <= k.last \/ k.n <= j.last
    /\ \A w \in Workers : slot[w] # NoJob => c <= slot[w].last + 1 /\ slot[w].n % NbPar = w
    /\ \A w \in Workers : job[w] # NoJob /\ stage[w] # "done" =>
          /\ job[w].n % NbPar = w
          /\ slot[w] # NoJob => job[w].n <= slot[w].last
          /\ StageFits(w, c)

Counts == Steady /\ trouble \cap {"skewed", "doubled"} = {} /\ interval # 0

Chained == Counts => Chain(counter)

LEMMA UnfinishedParts ==
    ASSUME TypeOK, NEW j \in Unfinished
    PROVE  j \in Job /\ j.n \in Int /\ j.last \in Int /\ j.n >= -1
  <1>1. j \in Job
    BY DEF Unfinished
  <1>2. j.n \in Numbers \cup {-1} /\ j.last \in Int
    BY <1>1, JobParts
  <1>3. QED BY <1>1, <1>2, Constants

LEMMA UnfinishedOf ==
    ASSUME TypeOK, NEW w \in Workers
    PROVE  /\ slot[w] # NoJob => slot[w] \in Unfinished
           /\ job[w] # NoJob /\ stage[w] # "done" => job[w] \in Unfinished
  BY DEF TypeOK, Unfinished

LEMMA InStepParts ==
    ASSUME TypeOK, NEW c \in Int, Chain(c), NEW j \in Unfinished
    PROVE  /\ j.n \in Int /\ j.last \in Int /\ last \in Int
           /\ j.last < j.n /\ c <= j.n /\ j.n <= last
  <1>1. j.n \in Int /\ j.last \in Int /\ last \in Int
    BY UnfinishedParts, Constants DEF TypeOK
  <1>2. InStep(j) /\ c <= j.n /\ j.n <= last
    BY DEF Chain
  <1>3. QED BY <1>1, <1>2 DEF InStep

\* One of the unfinished jobs has the lowest number.
LEMMA LowestUnfinished ==
    ASSUME TypeOK, Unfinished # {}
    PROVE  \E j \in Unfinished : \A k \in Unfinished : ~ k.n < j.n
  <1> DEFINE T == {k.n + 1 : k \in Unfinished}
             R == OpToRel(<, Nat)
  <1>1. T \subseteq Nat /\ T # {}
    BY UnfinishedParts
  <1>2. IsWellFoundedOn(R, Nat)
    BY NatLessThanWellFounded
  <1> HIDE DEF R
  <1>3. PICK x \in T : \A y \in T : ~ (<<y, x>> \in R)
    BY <1>1, <1>2, WFMin
  <1>4. PICK j \in Unfinished : x = j.n + 1
    BY <1>3
  <1>5. ASSUME NEW k \in Unfinished, k.n < j.n PROVE FALSE
    <2>1. k.n + 1 \in T /\ k.n + 1 \in Nat /\ x \in Nat
      BY <1>1, <1>3
    <2>2. k.n + 1 < x
      BY <1>4, <1>5, UnfinishedParts
    <2>3. <<k.n + 1, x>> \in R
      BY <2>1, <2>2 DEF R, OpToRel
    <2>4. QED BY <1>3, <2>1, <2>3
  <1>6. QED BY <1>5

\* When the interval changes nobody works, and the counters start behind the
\* last image.
LEMMA IdleChains ==
    ASSUME TypeOK', Idle', counter' = last' + 1
    PROVE  Chain(counter)'
  <1>1. Unfinished' = {} /\ \A w \in Workers : slot'[w] = NoJob /\ job'[w] = NoJob
    BY DEF Idle, Unfinished
  <1>2. last' \in Int /\ counter' \in Int
    BY Constants DEF TypeOK
  <1>3. \A c, l \in Int : c = l + 1 => c <= l + 1
    OBVIOUS
  <1>4. QED BY <1>1, <1>2, <1>3 DEF Chain

LEMMA ChainMoves ==
    ASSUME TypeOK, interval # 0, ChangeSeamInterval(interval'), Skew(interval') \subseteq trouble',
           "skewed" \notin trouble', Chain(counter)
    PROVE  Chain(counter')
  <1>1. CASE interval' = interval
    <2>1. counter' = counter
      BY <1>1 DEF ChangeSeamInterval, CounterIn
    <2>2. QED BY <2>1
  <1>2. CASE interval' # interval
    <2>1. Idle /\ counter' = joined
      BY <1>2 DEF ChangeSeamInterval, CounterIn
    <2>2. joined = last + 1
      BY <1>2 DEF Skew
    <2>3. Unfinished = {} /\ \A w \in Workers : slot[w] = NoJob /\ job[w] = NoJob
      BY <2>1 DEF Idle, Unfinished
    <2>4. last \in Int
      BY Constants DEF TypeOK
    <2>5. QED BY <2>1, <2>2, <2>3, <2>4 DEF Chain
  <1>3. QED BY <1>1, <1>2

\* A job that starts follows the ones handed out before it.
LEMMA StartChains ==
    ASSUME TypeOK, TypeOK', NEW n \in Numbers, NEW images \in Seq(Queued), images # <<>>,
           NEW queues \in [Sensors -> Seq(Frame)], NEW noted \in NotedTypes,
           StartProcessing(n, images, queues, noted), ImagesWith(images),
           n <= Head(images).frame.n,
           Doubled(n, Head(images).mode) \subseteq trouble', "doubled" \notin trouble',
           runVars' = runVars, Chain(counter')
    PROVE  Chain(counter)'
  <1> USE DEF runVars
  <1>0. PICK work : work = handed'
    OBVIOUS
  <1>1. /\ work \in Job /\ work # NoJob
        /\ work.n = n /\ work.last = last
        /\ work.image = Head(images).frame
        /\ work.mode = Head(images).mode
    BY <1>0, StartEffect, StartParts
  <1>2. last \in Int /\ n \in Int /\ counter' \in Int
    BY Constants DEF TypeOK
  <1>3. CASE /\ slot[n % NbPar] = NoJob /\ n % NbPar \in Workers
             /\ slot' = [slot EXCEPT ![n % NbPar] = work] /\ last' = n
    <2> DEFINE u == n % NbPar
    <2>1. u \in Workers /\ slot[u] = NoJob /\ slot' = [slot EXCEPT ![u] = work]
      BY <1>3
    <2>2. InStep(work) /\ last < n
      <3>1. ~ (n <= last) /\ ~ (n = last + 1 /\ work.mode # "Normal")
        BY <1>1, <1>3 DEF Doubled
      <3>2. Head(images) = images[1] /\ 1 \in DOMAIN images /\ Head(images).frame \in Frame
        <4>1. Head(images) = images[1] /\ 1 \in DOMAIN images
          BY TailOf
        <4>2. images[1] \in Queued
          BY <4>1
        <4>3. QED BY <4>1, <4>2 DEF Queued
      <3>3. /\ work.mode # "OutOfOrderImage"
            /\ work.mode = "Normal" => Head(images).frame.n = last + 1
        BY <1>1, <3>2 DEF ImagesWith
      <3>4. last < n /\ (work.mode = "Normal" => n = last + 1)
        BY <1>2, <3>1, <3>3
      <3>5. QED BY <1>1, <1>2, <3>1, <3>3, <3>4 DEF InStep
    <2> HIDE DEF u
    <2>3. slot'[u] = work /\ \A w \in Workers \ {u} : slot'[w] = slot[w]
      BY <2>1 DEF TypeOK
    <2>4. Unfinished' = Unfinished \cup {work}
      BY <1>1, <2>1, <2>3 DEF Unfinished
    <2>5. \A j \in Unfinished : j.n <= last /\ j.n \in Int /\ j.last \in Int
      BY UnfinishedParts DEF Chain
    <2>6. counter' <= last + 1 /\ counter' <= last' + 1 /\ counter' <= work.n /\ work.n <= last'
      BY <1>1, <1>2, <1>3, <2>2 DEF Chain
    <2>7. ASSUME NEW j \in Unfinished'
          PROVE  InStep(j) /\ Preceded(j, counter)' /\ counter' <= j.n /\ j.n <= last'
      <3>1. CASE j = work
        BY <1>1, <1>2, <2>2, <2>4, <2>6, <3>1 DEF Chain, Preceded
      <3>2. CASE j \in Unfinished
        <4>1. InStep(j) /\ Preceded(j, counter') /\ counter' <= j.n /\ j.n <= last
          BY <3>2 DEF Chain
        <4>2. Preceded(j, counter)'
          BY <2>4, <4>1 DEF Preceded
        <4>3. j.n <= last'
          BY <1>2, <1>3, <2>2, <2>5, <3>2
        <4>4. QED BY <4>1, <4>2, <4>3
      <3>3. QED BY <2>4, <3>1, <3>2
    <2>8. \A j, k \in Unfinished' : j = k \/ j.n <= k.last \/ k.n <= j.last
      BY <1>1, <2>4, <2>5 DEF Chain
    <2>9. \E k \in Unfinished' : k.n = last'
      BY <1>1, <1>3, <2>4
    <2>10. ASSUME NEW w \in Workers, slot'[w] # NoJob
           PROVE  counter' <= slot'[w].last + 1 /\ slot'[w].n % NbPar = w
      BY <1>1, <2>3, <2>6, <2>10 DEF Chain, u
    <2>11. ASSUME NEW w \in Workers, job'[w] # NoJob, stage'[w] # "done"
           PROVE  /\ job'[w].n % NbPar = w
                  /\ slot'[w] # NoJob => job'[w].n <= slot'[w].last
                  /\ StageFits(w, counter)'
      <3>1. job[w] \in Unfinished /\ job[w].n % NbPar = w /\ StageFits(w, counter')
            /\ (slot[w] # NoJob => job[w].n <= slot[w].last)
        BY <2>11, UnfinishedOf DEF Chain
      <3>2. StageFits(w, counter)'
        BY <3>1 DEF StageFits
      <3>3. QED BY <1>1, <2>3, <2>5, <3>1, <3>2
    <2>12. QED BY <2>6, <2>7, <2>8, <2>9, <2>10, <2>11 DEF Chain, InStep
  <1>4. CASE UNCHANGED <<slot, last>>
    <2>1. Unfinished' = Unfinished
      BY <1>4 DEF Unfinished
    <2>2. QED BY <1>4, <2>1 DEF Chain, Preceded, InStep, StageFits
  <1>5. QED BY <1>0, <1>3, <1>4, StartParts

\* Nothing starts.
LEMMA ChainKept ==
    ASSUME Chain(counter'), UNCHANGED <<slot, last, job, stage>>
    PROVE  Chain(counter)'
  <1>1. Unfinished' = Unfinished
    BY DEF Unfinished
  <1>2. QED BY <1>1 DEF Chain, Preceded, InStep, StageFits

LEMMA ChainedImage ==
    ASSUME TypeOK, TypeOK', InOrder, InTurn, Chained, DataImage
    PROVE  Chained'
  <1> SUFFICES ASSUME Steady', trouble' \cap {"skewed", "doubled"} = {}
               PROVE  Chain(counter)'
    BY DEF Chained, Counts
  <1> DEFINE n == Arriving(Image).n
  <1>1. PICK over \in BOOLEAN, images \in Seq(Queued) : ImageTakenIn(over, images)
    BY ImageArrives
  <1>2. /\ Steady /\ interval # 0 /\ trouble \subseteq trouble' /\ runVars' = runVars
        /\ ChangeSeamInterval(interval') /\ Skew(interval') \subseteq trouble'
    BY ImageArrives
  <1>3. Chain(counter')
    BY <1>2, ChainMoves DEF Chained, Counts
  <1>4. n \in Numbers /\ images # <<>> /\ n \in Int /\ Taken(images, sampleQueue, wire')
    BY <1>1, Constants DEF ImageTakenIn
  <1> DEFINE noted == Noted(n, over)
  <1>5. noted \in NotedTypes
    BY <1>4, NotedType
  <1> HIDE DEF noted
  <1>6. CASE /\ Head(images).frame.n = n
             /\ Doubled(n, Head(images).mode) \subseteq trouble'
             /\ StartProcessing(n, images, sampleQueue, noted)
    <2>1. sampleQueue \in [Sensors -> Seq(Frame)] /\ n <= Head(images).frame.n
      <3>1. n <= n
        BY <1>4
      <3>2. QED BY <1>6, <3>1 DEF TypeOK
    <2>2. QED BY <1>2, <1>3, <1>4, <1>5, <1>6, <2>1, StartChains DEF Taken
  <1>7. CASE Enqueue(images, sampleQueue, noted)
    BY <1>2, <1>3, <1>7, ChainKept DEF Enqueue, runVars
  <1>8. QED BY <1>1, <1>6, <1>7 DEF ImageTakenIn, noted

LEMMA ChainedSample ==
    ASSUME TypeOK, TypeOK', InOrder, InTurn, Chained, NEW s \in Sensors, DataSample(s)
    PROVE  Chained'
  <1> SUFFICES ASSUME Steady', trouble' \cap {"skewed", "doubled"} = {}
               PROVE  Chain(counter)'
    BY DEF Chained, Counts
  <1> DEFINE n == Arriving(s).n
  <1>1. PICK queues \in [Sensors -> Seq(Frame)] : SampleTakenIn(s, queues)
    BY SampleArrives
  <1>2. /\ Steady /\ interval # 0 /\ trouble \subseteq trouble' /\ runVars' = runVars
        /\ ChangeSeamInterval(interval') /\ Skew(interval') \subseteq trouble'
    BY SampleArrives
  <1>3. Chain(counter')
    BY <1>2, ChainMoves DEF Chained, Counts
  <1>4. /\ n \in Numbers /\ imageQueue \in Seq(Queued)
        /\ Taken(imageQueue, queues, wire')
    BY <1>1 DEF SampleTakenIn, TypeOK
  <1>5. NotedNow \in NotedTypes
    BY DEF NotedNow, NotedTypes, TypeOK
  <1>6. CASE /\ imageQueue # <<>> /\ n <= Head(imageQueue).frame.n
             /\ Doubled(n, Head(imageQueue).mode) \subseteq trouble'
             /\ StartProcessing(n, imageQueue, queues, NotedNow)
    BY <1>2, <1>3, <1>4, <1>5, <1>6, StartChains DEF Taken
  <1>7. CASE Enqueue(imageQueue, queues, NotedNow)
    BY <1>2, <1>3, <1>7, ChainKept DEF Enqueue, runVars
  <1>8. QED BY <1>1, <1>6, <1>7 DEF SampleTakenIn

LEMMA ChainedTake ==
    ASSUME TypeOK, Chained, NEW w \in Workers, TakeWork(w)
    PROVE  Chained'
  <1>1. /\ slot[w] # NoJob /\ job[w] = NoJob
        /\ job' = [job EXCEPT ![w] = slot[w]] /\ slot' = [slot EXCEPT ![w] = NoJob]
        /\ stage' = [stage EXCEPT ![w] = FirstStage(slot[w].mode)]
        /\ UNCHANGED <<interval, last, counter, trouble>>
    BY DEF TakeWork
  <1>2. /\ job'[w] = slot[w] /\ slot'[w] = NoJob /\ stage'[w] = FirstStage(slot[w].mode)
        /\ \A v \in Workers \ {w} : job'[v] = job[v] /\ slot'[v] = slot[v] /\ stage'[v] = stage[v]
    BY <1>1 DEF TypeOK
  <1> SUFFICES ASSUME Chain(counter) PROVE Chain(counter)'
    BY <1>1 DEF Chained, Counts, Steady
  <1>3. slot[w] \in Unfinished /\ counter \in Int
    BY <1>1, UnfinishedOf DEF TypeOK
  <1>4. InStep(slot[w]) /\ counter <= slot[w].last + 1 /\ slot[w].n % NbPar = w
    BY <1>1, <1>3 DEF Chain
  <1>5. /\ stage'[w] \in {"skip", "process"}
        /\ slot[w].mode = "Normal" => stage'[w] = "process"
        /\ slot[w].mode # "Normal" => stage'[w] = "skip"
    BY <1>2, <1>4 DEF FirstStage, InStep
  <1>6. Unfinished' = Unfinished
    BY <1>1, <1>2, <1>5 DEF Unfinished
  <1>7. StageFits(w, counter)'
    BY <1>1, <1>2, <1>4, <1>5 DEF StageFits
  <1>8. ASSUME NEW v \in Workers, job'[v] # NoJob, stage'[v] # "done"
        PROVE  /\ job'[v].n % NbPar = v
               /\ slot'[v] # NoJob => job'[v].n <= slot'[v].last
               /\ StageFits(v, counter)'
    <2>1. CASE v = w
      BY <1>2, <1>4, <1>7, <2>1
    <2>2. CASE v # w
      <3>1. job'[v] = job[v] /\ slot'[v] = slot[v] /\ stage'[v] = stage[v]
        BY <1>2, <2>2
      <3>2. QED BY <1>1, <1>8, <3>1 DEF Chain, StageFits
    <2>3. QED BY <2>1, <2>2
  <1>9. \A v \in Workers : slot'[v] # NoJob => counter' <= slot'[v].last + 1 /\ slot'[v].n % NbPar = v
    BY <1>1, <1>2 DEF Chain
  <1>10. QED BY <1>1, <1>6, <1>8, <1>9 DEF Chain, Preceded, InStep

\* It is the turn of a worker: the counters move up to the end of its numbers,
\* and pass no other job.
LEMMA TurnMoves ==
    ASSUME TypeOK, TypeOK', NEW w \in Workers, NEW to \in Stages,
           job[w] # NoJob, stage[w] # "done", Chain(counter),
           UNCHANGED <<slot, job, last>>, stage' = [stage EXCEPT ![w] = to],
           job[w].last + 1 <= counter, counter <= counter',
           IF to = "done" THEN counter' = job[w].n + 1 ELSE counter' <= job[w].n,
           StageFits(w, counter)'
    PROVE  Chain(counter)'
  <1> DEFINE j == job[w]
  <1>1. /\ j \in Unfinished /\ counter \in Int /\ counter' \in Int
        /\ j.n \in Int /\ j.last \in Int /\ last \in Int
        /\ j.last < j.n /\ counter <= j.n /\ j.n <= last
    BY UnfinishedOf, InStepParts DEF TypeOK
  <1>2. stage'[w] = to /\ \A v \in Workers \ {w} : stage'[v] = stage[v]
    BY DEF TypeOK
  <1>3. j.n % NbPar = w /\ (slot[w] # NoJob => j.n <= slot[w].last)
    BY DEF Chain
  <1> HIDE DEF j
  <1>4. /\ slot[w] # j
        /\ \A v \in Workers \ {w} : slot[v] # j /\ (stage[v] # "done" => job[v] # j)
    <2>1. j # NoJob
      BY DEF j
    <2>2. slot[w] # j
      BY <1>1, <1>3, <2>1
    <2>3. ASSUME NEW v \in Workers \ {w} PROVE slot[v] # j /\ (stage[v] # "done" => job[v] # j)
      BY <1>3, <2>1, <2>3 DEF Chain
    <2>4. QED BY <2>2, <2>3
  <1>5. /\ Unfinished' \subseteq Unfinished /\ Unfinished \subseteq Unfinished' \cup {j}
        /\ to = "done" => j \notin Unfinished'
        /\ to # "done" => Unfinished' = Unfinished
    <2>1. to = "done" => j \notin Unfinished'
      BY <1>2, <1>4 DEF Unfinished
    <2>2. Unfinished \subseteq Unfinished' \cup {j}
      BY <1>2 DEF Unfinished, j
    <2>3. Unfinished' \subseteq Unfinished
      BY <1>2 DEF Unfinished
    <2>4. to # "done" => j \in Unfinished'
      BY <1>1, <1>2 DEF Unfinished, j
    <2>5. QED BY <2>1, <2>2, <2>3, <2>4
  <1>6. ASSUME NEW k \in Unfinished, k # j
        PROVE  /\ k.n \in Int /\ k.last \in Int /\ k.last < k.n
               /\ j.n <= k.last /\ counter < k.last + 1
               /\ counter' <= k.last + 1 /\ counter' <= k.n
    <2>1. /\ k.n \in Int /\ k.last \in Int /\ k.last < k.n
          /\ counter <= k.n
      BY <1>1, InStepParts
    <2>2. ~ (k.n <= j.last)
      BY <1>1, <2>1 DEF j
    <2>3. j.n <= k.last
      BY <1>1, <1>6, <2>2 DEF Chain
    <2>4. counter' <= j.n + 1
      BY <1>1 DEF j
    <2>5. QED BY <1>1, <2>1, <2>3, <2>4
  <1>7. counter' <= last + 1 /\ (to = "done" => counter' = j.n + 1) /\ (to # "done" => counter' <= j.n)
    BY <1>1 DEF j
  <1>8. ASSUME NEW k \in Unfinished'
        PROVE  InStep(k) /\ Preceded(k, counter)' /\ counter' <= k.n /\ k.n <= last
    <2>1. k \in Unfinished /\ InStep(k) /\ Preceded(k, counter) /\ k.n <= last
      BY <1>5 DEF Chain
    <2>2. counter' <= k.n
      BY <1>5, <1>6, <1>7, <2>1
    <2>3. k.last \in Int
      BY <2>1, UnfinishedParts
    <2>4. counter' >= k.last + 1 \/ \E i \in Unfinished' : i.n = k.last
      <3>1. CASE counter >= k.last + 1
        BY <1>1, <2>3, <3>1
      <3>2. CASE \E i \in Unfinished : i.n = k.last
        <4>1. PICK i \in Unfinished : i.n = k.last
          BY <3>2
        <4>2. CASE i \in Unfinished'
          BY <4>1, <4>2
        <4>3. CASE i = j /\ to = "done"
          BY <1>1, <1>7, <2>3, <4>1, <4>3
        <4>4. QED BY <1>5, <4>2, <4>3
      <3>3. QED BY <2>1, <3>1, <3>2 DEF Preceded
    <2>5. Preceded(k, counter)'
      BY <2>4 DEF Preceded
    <2>6. QED BY <2>1, <2>2, <2>5
  <1>9. counter' = last + 1 \/ \E k \in Unfinished' : k.n = last
    <2>1. CASE counter = last + 1
      BY <1>1, <1>7, <2>1
    <2>2. CASE \E k \in Unfinished : k.n = last
      BY <1>5, <1>7, <2>2
    <2>3. QED BY <2>1, <2>2 DEF Chain
  <1>10. ASSUME NEW v \in Workers, slot[v] # NoJob
         PROVE  counter' <= slot[v].last + 1 /\ slot[v].n % NbPar = v
    <2>1. slot[v] \in Unfinished /\ slot[v] # j
      BY <1>4, <1>10, UnfinishedOf
    <2>2. QED BY <1>6, <1>10, <2>1 DEF Chain
  <1>11. ASSUME NEW v \in Workers \ {w}, job[v] # NoJob, stage[v] # "done"
         PROVE  StageFits(v, counter)'
    <2>1. job[v] \in Unfinished /\ job[v] # j
      BY <1>4, <1>11, UnfinishedOf
    <2>2. /\ job[v].n \in Int /\ job[v].last \in Int /\ job[v].last < job[v].n
          /\ counter < job[v].last + 1 /\ counter' <= job[v].last + 1
      BY <1>6, <2>1
    <2>3. StageFits(v, counter)
      BY <1>11 DEF Chain
    <2>4. /\ stage[v] # "ensure"
          /\ stage[v] = "skip" => job[v].mode # "Normal"
          /\ stage[v] = "process" => job[v].mode = "Normal"
      BY <1>1, <2>2, <2>3 DEF StageFits
    <2>5. stage'[v] = stage[v]
      BY <1>2
    <2>6. QED BY <2>2, <2>4, <2>5 DEF StageFits
  <1>12. ASSUME NEW v \in Workers, job[v] # NoJob, stage'[v] # "done"
         PROVE  /\ job[v].n % NbPar = v
                /\ slot[v] # NoJob => job[v].n <= slot[v].last
                /\ StageFits(v, counter)'
    <2>1. stage[v] # "done"
      BY <1>2, <1>12
    <2>2. StageFits(v, counter)'
      BY <1>11, <1>12, <2>1
    <2>3. QED BY <1>12, <2>1, <2>2 DEF Chain
  <1>13. QED BY <1>5, <1>7, <1>8, <1>9, <1>10, <1>12 DEF Chain, InStep

\* A worker that goes on finds its own number.
LEMMA OnTurn ==
    ASSUME TypeOK, NEW w \in Workers, Chain(counter), Synchronized(w),
           Running(w, "skip") \/ Running(w, "process")
    PROVE  counter = SyncNumber(w) /\ job[w].last + 1 <= counter
  <1> DEFINE j == job[w]
  <1>1. /\ j \in Unfinished /\ counter \in Int
        /\ j.n \in Int /\ j.last \in Int /\ j.last < j.n /\ counter <= j.n
    BY UnfinishedOf, InStepParts DEF Running, TypeOK
  <1>2. InStep(j) /\ Preceded(j, counter) /\ StageFits(w, counter)
    BY <1>1 DEF Chain, Running
  <1>3. CASE stage[w] = "process" /\ j.mode # "Normal"
    BY <1>1, <1>2, <1>3 DEF StageFits, SyncNumber
  <1>4. CASE stage[w] = "skip" \/ j.mode = "Normal"
    <2>1. SyncNumber(w) = j.last + 1 /\ counter <= j.last + 1
      BY <1>1, <1>2, <1>4 DEF SyncNumber, StageFits, InStep, Running
    <2>2. CASE NbPar # 1
      BY <1>1, <2>1, <2>2 DEF Synchronized
    <2>3. CASE NbPar = 1
      <3>1. w = 0 /\ Workers = {0}
        BY <2>3 DEF Workers
      <3>2. ASSUME NEW k \in Unfinished, k.n = j.last PROVE FALSE
        <4>1. k = slot[w] \/ k = job[w]
          BY <3>1 DEF Unfinished
        <4>2. k # NoJob
          BY DEF Unfinished
        <4>3. CASE k = slot[w]
          <5>1. j.n <= k.last
            BY <4>2, <4>3 DEF Chain, Running
          <5>2. k.n \in Int /\ k.last \in Int /\ k.last < k.n
            BY <1>1, InStepParts
          <5>3. QED BY <1>1, <3>2, <5>1, <5>2
        <4>4. QED BY <1>1, <3>2, <4>1, <4>3
      <3>3. counter >= j.last + 1
        BY <1>2, <3>2 DEF Preceded
      <3>4. QED BY <1>1, <2>1, <3>3
    <2>4. QED BY <1>1, <2>1, <2>2, <2>3
  <1>5. QED BY <1>1, <1>3, <1>4 DEF Running

LEMMA ChainedWorks ==
    ASSUME TypeOK, TypeOK', Chained, NEW w \in Workers, Works(w), ~ TakeWork(w)
    PROVE  Chained'
  <1>1. UNCHANGED <<interval, last, trouble>>
    BY WorksEffect
  <1> SUFFICES ASSUME Chain(counter) PROVE Chain(counter)'
    BY <1>1 DEF Chained, Counts, Steady
  <1> DEFINE j == job[w]
  <1>2. ASSUME job[w] # NoJob, stage[w] # "done"
        PROVE  /\ j \in Unfinished /\ counter \in Int
               /\ j.n \in Int /\ j.last \in Int /\ j.last < j.n /\ counter <= j.n
               /\ InStep(j) /\ StageFits(w, counter)
    <2>1. j \in Unfinished /\ counter \in Int
      BY <1>2, UnfinishedOf DEF TypeOK
    <2>2. j.n \in Int /\ j.last \in Int /\ j.last < j.n /\ counter <= j.n
      BY <2>1, InStepParts
    <2>3. InStep(j) /\ StageFits(w, counter)
      BY <1>2, <2>1 DEF Chain
    <2>4. QED BY <2>1, <2>2, <2>3
  <1>3. CASE Wait(w)
    BY <1>3, ChainKept DEF Wait
  <1>4. CASE FinishWork(w)
    <2>1. /\ stage[w] = "done" /\ job' = [job EXCEPT ![w] = NoJob]
          /\ UNCHANGED <<slot, last, stage, counter>>
      BY <1>4 DEF FinishWork, Running
    <2>2. job'[w] = NoJob /\ \A v \in Workers \ {w} : job'[v] = job[v]
      BY <2>1 DEF TypeOK
    <2>3. Unfinished' = Unfinished
      BY <2>1, <2>2 DEF Unfinished
    <2>4. QED BY <2>1, <2>2, <2>3 DEF Chain, Preceded, InStep, StageFits
  <1>5. CASE SkipImage(w)
    <2>1. /\ Running(w, "skip") /\ Synchronized(w) /\ counter' = counter + 1
          /\ stage' = [stage EXCEPT ![w] = "ensure"] /\ UNCHANGED <<slot, job, last>>
      BY <1>5 DEF SkipImage, GoOn
    <2>2. counter = j.last + 1
      BY <2>1, OnTurn DEF SyncNumber, Running
    <2>3. j.mode # "Normal" /\ j.n > j.last + 1
      BY <1>2, <2>1 DEF Running, StageFits, InStep
    <2>4. stage'[w] = "ensure"
      BY <2>1 DEF TypeOK
    <2>5. StageFits(w, counter)'
      BY <1>2, <2>1, <2>2, <2>3, <2>4 DEF StageFits, Running
    <2>6. /\ counter <= counter' /\ counter' <= j.n /\ j.last + 1 <= counter
          /\ "ensure" \in Stages /\ "ensure" # "done"
      BY <1>2, <2>1, <2>2, <2>3 DEF Running, Stages
    <2>7. QED BY <2>1, <2>5, <2>6, TurnMoves DEF Running
  <1>6. CASE EnsureNumber(w)
    <2>1. /\ Running(w, "ensure") /\ counter' = AtLeast(counter, j.n)
          /\ stage' = [stage EXCEPT ![w] = "process"] /\ UNCHANGED <<slot, job, last>>
      BY <1>6 DEF EnsureNumber, GoOn
    <2>2. counter' = j.n
      BY <1>2, <2>1 DEF AtLeast, Running
    <2>3. stage'[w] = "process"
      BY <2>1 DEF TypeOK
    <2>4. StageFits(w, counter)'
      BY <2>1, <2>2, <2>3 DEF StageFits
    <2>5. counter = j.last + 2
      BY <1>2, <2>1 DEF Running, StageFits
    <2>6. /\ counter <= counter' /\ counter' <= j.n /\ j.last + 1 <= counter
          /\ "process" \in Stages /\ "process" # "done"
      BY <1>2, <2>1, <2>2, <2>5 DEF Running, Stages
    <2>7. QED BY <2>1, <2>4, <2>6, TurnMoves DEF Running
  <1>7. CASE ProcessImage(w)
    <2>1. /\ Running(w, "process") /\ Synchronized(w) /\ counter' = counter + 1
          /\ stage' = [stage EXCEPT ![w] = "done"] /\ UNCHANGED <<slot, job, last>>
      BY <1>7 DEF ProcessImage, GoOn
    <2>2. counter = j.n /\ j.last + 1 <= counter
      BY <2>1, OnTurn DEF SyncNumber, Running
    <2>3. stage'[w] = "done"
      BY <2>1 DEF TypeOK
    <2>4. StageFits(w, counter)'
      BY <2>3 DEF StageFits
    <2>5. counter <= counter' /\ counter' = j.n + 1 /\ "done" \in Stages
      BY <1>2, <2>1, <2>2 DEF Running, Stages
    <2>6. QED BY <2>1, <2>2, <2>4, <2>5, TurnMoves DEF Running
  <1>8. QED BY <1>3, <1>4, <1>5, <1>6, <1>7 DEF Works

LEMMA ChainedStep ==
    ASSUME IInv, TypeOK', InTurn, Chained, [Next]_vars
    PROVE  Chained'
  <1>0. TypeOK /\ InOrder /\ Resting
    BY DEF IInv
  <1>1. CASE StartInspect
    <2> SUFFICES ASSUME Steady', "skewed" \notin trouble' PROVE Chain(counter)'
      BY DEF Chained, Counts
    <2>1. interval = 0
      <3>1. interval # 0 => "restarted" \in trouble'
        BY <1>1 DEF StartInspect
      <3>2. QED BY <3>1 DEF Steady
    <2>2. UNCHANGED <<last, slot, job>> /\ Idle /\ Skew(1) \subseteq trouble'
          /\ counter' = CounterIn(1)
      BY <1>0, <1>1, <2>1 DEF Resting, StartInspect, runVars, ChangeSeamInterval
    <2>3. counter' = joined /\ joined = last + 1
      BY <2>1, <2>2 DEF CounterIn, Skew
    <2>4. Idle'
      BY <2>2 DEF Idle
    <2>5. QED BY <2>2, <2>3, <2>4, IdleChains
  <1>2. CASE StopInspect
    BY <1>2 DEF StopInspect, Chained, Counts
  <1>3. CASE DataImage
    BY <1>0, <1>3, ChainedImage
  <1>4. ASSUME NEW s \in Sensors, DataSample(s) PROVE Chained'
    BY <1>0, <1>4, ChainedSample
  <1>5. ASSUME NEW w \in Workers, Works(w) PROVE Chained'
    BY <1>0, <1>5, ChainedTake, ChainedWorks
  <1> DEFINE rest == <<interval, last, counter, slot, job, stage>>
  <1>6. ASSUME UNCHANGED rest, trouble \subseteq trouble' PROVE Chained'
    <2>1. Counts' => Counts
      BY <1>6 DEF Counts, Steady
    <2>2. Chain(counter) => Chain(counter)'
      BY <1>6, ChainKept
    <2>3. QED BY <2>1, <2>2 DEF Chained
  <1>7. ASSUME NEW c \in Sources, DropFrame(c) \/ LoseFrame(c)
        PROVE  UNCHANGED rest /\ trouble \subseteq trouble'
    BY <1>7 DEF DropFrame, LoseFrame, workerVars, runVars
  <1>8. UNCHANGED vars => UNCHANGED rest /\ trouble \subseteq trouble'
    BY DEF vars, workerVars, runVars
  <1>9. QED BY <1>1, <1>2, <1>3, <1>4, <1>5, <1>6, <1>7, <1>8 DEF Next, Works

\* A join is never stuck (ProcessingThread::join): whatever the number of
\* workers, some worker can take its work or go on in SignalAdapter::run, where
\* one that waits in synchronizeOnImgNb goes on only when the counter is its
\* number.  Excepted are a lost sample, an image forced through, an inspection
\* started into a running one, an image lost before a change of the seam
\* interval, and a job that moves the counter past its number twice.  The
\* unfinished image with the lowest number is the one whose turn it is, and no
\* other moves the counter.
THEOREM WorkersGoOn == Spec => []Served
  <1>1. Init => Chained
    BY DEF Init, Chained, Counts
  <1>2. IInv /\ IInv' /\ InTurn /\ Chained /\ [Next]_vars => Chained'
    BY ChainedStep DEF IInv
  <1>3. IInv /\ Chained => Served
    <2> DEFINE Steps(w) ==
          \/ slot[w] # NoJob /\ job[w] = NoJob
          \/ job[w] # NoJob /\ (stage[w] \in {"ensure", "done"} \/ Synchronized(w))
    <2> SUFFICES ASSUME IInv, Chained, ~ Idle, Steady, trouble \cap {"skewed", "doubled"} = {}
                 PROVE  \E w \in Workers : Steps(w)
      BY DEF Served, Steady
    <2>0. TypeOK
      BY DEF IInv
    <2>1. Chain(counter)
      BY DEF IInv, Resting, Chained, Counts
    <2>2. PICK v \in Workers : slot[v] # NoJob \/ job[v] # NoJob
      BY DEF Idle
    <2>3. CASE Unfinished = {}
      <3>1. slot[v] = NoJob /\ stage[v] = "done"
        BY <2>0, <2>2, <2>3, UnfinishedOf
      <3>2. QED BY <2>2, <3>1
    <2>4. CASE Unfinished # {}
      <3>1. PICK j \in Unfinished : \A k \in Unfinished : ~ k.n < j.n
        BY <2>0, <2>4, LowestUnfinished
      <3>2. PICK w \in Workers : j = slot[w] \/ (j = job[w] /\ stage[w] # "done")
        BY DEF Unfinished
      <3>3. j # NoJob /\ counter \in Int
        BY <2>0 DEF Unfinished, TypeOK
      <3>4. j.n \in Int /\ j.last \in Int /\ j.last < j.n /\ counter <= j.n
        BY <2>0, <2>1, <3>3, InStepParts
      <3>5. InStep(j) /\ counter >= j.last + 1
        <4>1. InStep(j) /\ Preceded(j, counter)
          BY <2>1 DEF Chain
        <4>2. QED BY <3>1, <3>4, <4>1 DEF Preceded
      <3>6. CASE j = job[w] /\ stage[w] # "done"
        <4>1. StageFits(w, counter) /\ stage[w] \in Stages
          BY <2>0, <2>1, <3>3, <3>6 DEF Chain, TypeOK
        <4>2. CASE stage[w] = "skip"
          BY <3>3, <3>4, <3>5, <3>6, <4>1, <4>2 DEF StageFits, Synchronized, SyncNumber
        <4>3. CASE stage[w] = "process"
          BY <3>3, <3>4, <3>5, <3>6, <4>1, <4>3 DEF StageFits, InStep, Synchronized, SyncNumber
        <4>4. QED BY <3>3, <3>6, <4>1, <4>2, <4>3 DEF Stages
      <3>7. CASE j = slot[w] /\ job[w] # NoJob /\ stage[w] # "done"
        <4>1. job[w] \in Unfinished /\ job[w].n <= j.last
          BY <2>0, <2>1, <3>3, <3>7, UnfinishedOf DEF Chain
        <4>2. job[w].n \in Int
          BY <2>0, <4>1, UnfinishedParts
        <4>3. QED BY <3>1, <3>4, <4>1, <4>2
      <3>8. CASE j = slot[w] /\ (job[w] = NoJob \/ stage[w] = "done")
        BY <3>3, <3>8
      <3>9. QED BY <3>2, <3>6, <3>7, <3>8
    <2>5. QED BY <2>3, <2>4
  <1>4. QED BY <1>1, <1>2, <1>3, AlwaysInTurn, PTL DEF Spec
=============================================================================
