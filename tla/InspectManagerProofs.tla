------------------------ MODULE InspectManagerProofs ------------------------
(***************************************************************************)
(* Proofs about InspectManager, for any number of workers, any set of      *)
(* sample sensors, any seam intervals and any number of images, inspections*)
(* and faults.                                                             *)
(***************************************************************************)
EXTENDS InspectManager, FiniteSetTheorems, SequenceTheorems, TLAPS

-----------------------------------------------------------------------------
(* The inductive invariant.                                                *)

\* What lies between a source and the last job: its frame in that job, its
\* frames that wait, its frames under way.
HandedOf(c) == IF c = Image THEN handed.image ELSE handed.samples[c]

FramesOf(images) == [i \in DOMAIN images |-> images[i].frame]

Waiting(c) == IF c = Image THEN FramesOf(imageQueue) ELSE sampleQueue[c]

\* A frame taken, frames waiting and frames under way, each before the next.
Ordered(h, q, w, now) ==
    /\ h.cycle <= now
    /\ \A i \in DOMAIN q : q[i].cycle <= now /\ Before(h, q[i])
    /\ \A j \in DOMAIN w : w[j].cycle <= now /\ Before(h, w[j])
    /\ \A i, j \in DOMAIN q : i < j => Before(q[i], q[j])
    /\ \A i, j \in DOMAIN w : i < j => Before(w[i], w[j])
    /\ \A i \in DOMAIN q, j \in DOMAIN w : Before(q[i], w[j])

InOrder == \A c \in Sources : Ordered(HandedOf(c), Waiting(c), wire[c], cycle)

\* Between two inspections nothing is left, and the work of the workers
\* belongs to the active interval.
Resting == interval = 0 => Idle /\ handed = NoJob

InInterval ==
    \A w \in Workers : \A j \in {slot[w], job[w]} \ {NoJob} : IntervalOf(j.n) = interval

Undisturbed == trouble \cap {"imageLost", "sampleLost", "forced", "restarted"} = {}

\* The number of the next image to hand out, and the sources that take part.
NextOut == handed.image.n + 1
Taking == {Image} \cup needed

\* Of a source that sends `total` frames none is missing: what waits begins with
\* frame `next`, and what is under way goes on from there, behind frames of
\* earlier inspections.
CompleteOf(q, w, next, total, now) ==
    LET old == Len(w) + Len(q) + next - total IN
    /\ 0 <= old /\ old <= Len(w)
    /\ \A i \in DOMAIN q : q[i] = [cycle |-> now, n |-> next + i - 1]
    /\ \A j \in DOMAIN w :
          IF j <= old THEN w[j].cycle < now
                      ELSE w[j] = [cycle |-> now, n |-> next + Len(q) + (j - old) - 1]

Foreign(w, now) == \A j \in DOMAIN w : w[j].cycle < now

Total == LastTrigger[needed] + 1

Complete ==
    /\ \A c \in Taking : CompleteOf(Waiting(c), wire[c], NextOut, Total, cycle)
    /\ \A c \in Sources \ Taking : Foreign(wire[c], cycle)

\* What can be handed out has been.
NoneReady == \E c \in Taking : Waiting(c) = <<>>

HandedPaired ==
    handed # NoJob =>
        /\ handed.image = [cycle |-> cycle, n |-> handed.n]
        /\ \A s \in needed : handed.samples[s] = handed.image

Pairs == Undisturbed /\ interval # 0 => Complete /\ NoneReady /\ HandedPaired

IInv == TypeOK /\ InOrder /\ Resting /\ InInterval /\ Pairs

\* The mode of an image fits its number and the number processed last.
Fits(mode, n) ==
    /\ n > last
    /\ mode = "Normal" => n = last + 1
    /\ mode = "MissingImage" => n > last + 1

\* Numbers grow while the inspection is orderly: at most one image waits, with
\* a mode that still fits.
Growing ==
    /\ interval = 0 => last = -1
    /\ Orderly /\ interval # 0 =>
          /\ last <= handed.image.n
          /\ handed # NoJob => handed.image.cycle = cycle
          /\ imageQueue # <<>> =>
                /\ needed # {}
                /\ Len(imageQueue) = 1
                /\ Fits(imageQueue[1].mode, imageQueue[1].frame.n)

-----------------------------------------------------------------------------
(* Frames in their order.                                                  *)

\* A queue is empty or has a head and a tail.
LEMMA TailOf ==
    ASSUME NEW S, NEW q \in Seq(S), q # <<>>
    PROVE  /\ Head(q) \in S /\ Tail(q) \in Seq(S)
           /\ Len(q) \in Nat /\ Len(q) >= 1
           /\ DOMAIN q = 1 .. Len(q)
           /\ Head(q) = q[1]
           /\ Len(Tail(q)) = Len(q) - 1
           /\ DOMAIN Tail(q) = 1 .. (Len(q) - 1)
           /\ \A i \in 1 .. (Len(q) - 1) : Tail(q)[i] = q[i + 1]
  OBVIOUS

LEMMA AppendOf ==
    ASSUME NEW S, NEW q \in Seq(S), NEW e \in S
    PROVE  /\ Append(q, e) \in Seq(S)
           /\ Len(q) \in Nat
           /\ DOMAIN q = 1 .. Len(q)
           /\ Append(q, e) # <<>>
           /\ Len(Append(q, e)) = Len(q) + 1
           /\ DOMAIN Append(q, e) = 1 .. (Len(q) + 1)
           /\ \A i \in 1 .. Len(q) : Append(q, e)[i] = q[i]
           /\ Append(q, e)[Len(q) + 1] = e
  OBVIOUS

\* A frame that arrives, taken from what is under way.
LEMMA ArrivalOrdered ==
    ASSUME NEW h \in Frame \cup {NoFrame}, NEW q \in Seq(Frame), NEW w \in Seq(Frame),
           NEW now \in Nat, Ordered(h, q, w, now), w # <<>>
    PROVE  /\ Ordered(h, q, Tail(w), now)
           /\ Ordered(h, Append(q, Head(w)), Tail(w), now)
  <1> DEFINE r == Append(q, Head(w))
             v == Tail(w)
  <1>1. /\ Head(w) = w[1] /\ DOMAIN w = 1 .. Len(w) /\ Len(w) \in Nat /\ Len(w) >= 1
        /\ DOMAIN v = 1 .. (Len(w) - 1)
        /\ \A j \in DOMAIN v : j + 1 \in DOMAIN w /\ 1 < j + 1 /\ v[j] = w[j + 1]
        /\ 1 \in DOMAIN w
    BY TailOf
  <1>2. /\ DOMAIN r = 1 .. (Len(q) + 1)
        /\ DOMAIN q = 1 .. Len(q) /\ Len(q) \in Nat
        /\ \A i \in DOMAIN q : r[i] = q[i]
        /\ r[Len(q) + 1] = w[1]
    BY TailOf, AppendOf
  <1>3. \A i \in DOMAIN r : i \in DOMAIN q \/ i = Len(q) + 1
    BY <1>2
  <1>4. \A i, j \in DOMAIN v : i < j => Before(v[i], v[j])
    <2> SUFFICES ASSUME NEW i \in DOMAIN v, NEW j \in DOMAIN v, i < j
                 PROVE  Before(v[i], v[j])
      OBVIOUS
    <2>1. i + 1 < j + 1
      BY <1>1
    <2>2. QED BY <1>1, <2>1 DEF Ordered
  <1>5. /\ \A j \in DOMAIN v : v[j].cycle <= now /\ Before(h, v[j]) /\ Before(w[1], v[j])
        /\ \A i \in DOMAIN q, j \in DOMAIN v : Before(q[i], v[j])
    BY <1>1 DEF Ordered
  <1>6. Ordered(h, q, v, now)
    BY <1>4, <1>5 DEF Ordered
  <1>7. \A i \in DOMAIN r : r[i].cycle <= now /\ Before(h, r[i])
    BY <1>1, <1>2, <1>3 DEF Ordered
  <1>8. \A i, j \in DOMAIN r : i < j => Before(r[i], r[j])
    <2> SUFFICES ASSUME NEW i \in DOMAIN r, NEW j \in DOMAIN r, i < j
                 PROVE  Before(r[i], r[j])
      OBVIOUS
    <2>1. i \in DOMAIN q
      BY <1>2
    <2>2. CASE j \in DOMAIN q
      BY <2>1, <2>2, <1>2 DEF Ordered
    <2>3. CASE j = Len(q) + 1
      BY <2>1, <2>3, <1>1, <1>2 DEF Ordered
    <2>4. QED BY <1>3, <2>2, <2>3
  <1>9. \A i \in DOMAIN r, j \in DOMAIN v : Before(r[i], v[j])
    BY <1>2, <1>3, <1>5
  <1>10. Ordered(h, r, v, now)
    BY <1>4, <1>5, <1>7, <1>8, <1>9 DEF Ordered
  <1>11. QED BY <1>6, <1>10

\* The oldest of the waiting frames is handed out.
LEMMA HandOutOrdered ==
    ASSUME NEW h \in Frame \cup {NoFrame}, NEW q \in Seq(Frame), NEW w \in Seq(Frame),
           NEW now \in Nat, Ordered(h, q, w, now), q # <<>>
    PROVE  Before(h, Head(q)) /\ Ordered(Head(q), Tail(q), w, now)
  <1> DEFINE r == Tail(q)
  <1>1. /\ Head(q) = q[1] /\ DOMAIN q = 1 .. Len(q) /\ Len(q) \in Nat /\ 1 \in DOMAIN q
        /\ DOMAIN r = 1 .. (Len(q) - 1)
        /\ \A j \in DOMAIN r : j + 1 \in DOMAIN q /\ 1 < j + 1 /\ r[j] = q[j + 1]
    BY TailOf
  <1>2. \A i, j \in DOMAIN r : i < j => Before(r[i], r[j])
    <2> SUFFICES ASSUME NEW i \in DOMAIN r, NEW j \in DOMAIN r, i < j
                 PROVE  Before(r[i], r[j])
      OBVIOUS
    <2>1. i + 1 < j + 1
      BY <1>1
    <2>2. QED BY <1>1, <2>1 DEF Ordered
  <1>3. QED BY <1>1, <1>2 DEF Ordered

\* No frame waits: the place in the job stays empty.
LEMMA NothingOrdered ==
    ASSUME NEW h, NEW w \in Seq(Frame), NEW now \in Nat,
           \E q : Ordered(h, q, w, now)
    PROVE  Ordered(NoFrame, <<>>, w, now)
  <1>1. \A j \in DOMAIN w : w[j] \in Frame
    OBVIOUS
  <1>2. \A f \in Frame : Before(NoFrame, f)
    BY IntakeAssumption DEF Frame, NoFrame, Before
  <1>3. /\ NoFrame.cycle <= now
        /\ DOMAIN <<>> = {}
    BY DEF NoFrame
  <1>4. PICK q : Ordered(h, q, w, now)
    OBVIOUS
  <1>5. /\ \A j \in DOMAIN w : w[j].cycle <= now
        /\ \A i, j \in DOMAIN w : i < j => Before(w[i], w[j])
    BY <1>4 DEF Ordered
  <1>6. QED BY <1>1, <1>2, <1>3, <1>5 DEF Ordered

\* What is under way when the sources end their triggers.
LEMMA EndOrdered ==
    ASSUME NEW h, NEW q, NEW w \in Seq(Frame), NEW now, NEW k \in 0 .. Len(w),
           Ordered(h, q, w, now)
    PROVE  /\ SubSeq(w, 1, k) \in Seq(Frame) /\ Len(SubSeq(w, 1, k)) = k
           /\ DOMAIN SubSeq(w, 1, k) = 1 .. k
           /\ \A j \in 1 .. k : j \in DOMAIN w /\ SubSeq(w, 1, k)[j] = w[j]
           /\ Ordered(h, q, SubSeq(w, 1, k), now)
  <1>1. /\ DOMAIN w = 1 .. Len(w) /\ Len(w) \in Nat
        /\ SubSeq(w, 1, k) \in Seq(Frame)
        /\ Len(SubSeq(w, 1, k)) = k
        /\ DOMAIN SubSeq(w, 1, k) = 1 .. k
        /\ \A j \in 1 .. k : j \in DOMAIN w /\ SubSeq(w, 1, k)[j] = w[j]
    OBVIOUS
  <1>2. QED BY <1>1 DEF Ordered

\* The triggers of a new inspection.
LEMMA BurstOrdered ==
    ASSUME NEW h \in Frame \cup {NoFrame}, NEW q \in Seq(Frame), NEW w \in Seq(Frame),
           NEW now \in Nat, now + 1 <= MaxCycles, Ordered(h, q, w, now),
           NEW sensors \in SUBSET Sensors
    PROVE  /\ Burst(now + 1, sensors) \in Seq(Frame)
           /\ w \o Burst(now + 1, sensors) \in Seq(Frame)
           /\ Len(w \o Burst(now + 1, sensors)) = Len(w) + LastTrigger[sensors] + 1
           /\ \A j \in 1 .. Len(w) : (w \o Burst(now + 1, sensors))[j] = w[j]
           /\ \A j \in (Len(w) + 1) .. (Len(w) + LastTrigger[sensors] + 1) :
                 (w \o Burst(now + 1, sensors))[j] = [cycle |-> now + 1, n |-> j - Len(w) - 1]
           /\ Ordered(h, q, w \o Burst(now + 1, sensors), now + 1)
  <1> DEFINE b == Burst(now + 1, sensors)
             u == w \o b
             m == LastTrigger[sensors] + 1
             k == Len(w)
  <1>0. \A f \in Frame \cup {NoFrame} : f.cycle <= now => f.cycle <= now + 1 /\ f.cycle < now + 1
    BY IntakeAssumption DEF Frame, NoFrame
  <1>1. LastTrigger[sensors] \in Numbers /\ m \in Nat
    BY IntakeAssumption DEF Numbers
  <1>2. \A i \in 1 .. m : [cycle |-> now + 1, n |-> i - 1] \in Frame
    BY <1>1, IntakeAssumption DEF Frame, Numbers
  <1>3. b \in Seq(Frame) /\ Len(b) = m /\ \A i \in 1 .. m : b[i] = [cycle |-> now + 1, n |-> i - 1]
    <2>1. b = [i \in 1 .. m |-> [cycle |-> now + 1, n |-> i - 1]]
      BY DEF Burst
    <2> HIDE DEF b, m
    <2>2. b \in [1 .. m -> Frame]
      BY <1>2, <2>1
    <2>3. b \in Seq(Frame) /\ DOMAIN b = 1 .. m
      BY <2>2, <1>1, SeqDef
    <2>4. Len(b) = m
      BY <2>3, <1>1
    <2>5. QED BY <2>1, <2>3, <2>4
  <1> HIDE DEF b, m
  <1>4. /\ u \in Seq(Frame) /\ Len(u) = k + m /\ DOMAIN u = 1 .. (k + m) /\ k \in Nat
        /\ \A j \in 1 .. k : u[j] = w[j]
        /\ \A j \in (k + 1) .. (k + m) : u[j] = b[j - k]
        /\ DOMAIN w = 1 .. k
    <2>1. k \in Nat /\ DOMAIN w = 1 .. k
      OBVIOUS
    <2>2. /\ u \in Seq(Frame) /\ Len(u) = k + m
          /\ \A j \in 1 .. k + m : u[j] = IF j <= k THEN w[j] ELSE b[j - k]
      BY <1>3, ConcatProperties
    <2> HIDE DEF u, k
    <2>3. DOMAIN u = 1 .. (k + m)
      BY <2>2, LenProperties
    <2>4. /\ \A j \in 1 .. k : j \in 1 .. k + m /\ j <= k
          /\ \A j \in (k + 1) .. (k + m) : j \in 1 .. k + m /\ ~ (j <= k)
      BY <2>1, <1>1
    <2>5. QED BY <2>1, <2>2, <2>3, <2>4
  <1>5. \A j \in (k + 1) .. (k + m) : u[j] = [cycle |-> now + 1, n |-> j - k - 1]
    <2>1. \A j \in (k + 1) .. (k + m) : j - k \in 1 .. m
      BY <1>1, <1>4
    <2>2. QED BY <2>1, <1>3, <1>4
  <1> HIDE DEF u, k
  <1>6a. \A j \in (k + 1) .. (k + m) : u[j].cycle = now + 1 /\ u[j].n = j - k - 1
    <2> TAKE j \in (k + 1) .. (k + m)
    <2>1. u[j] = [cycle |-> now + 1, n |-> j - k - 1]
      BY <1>5
    <2>2. QED BY <2>1
  <1>6. \A j \in DOMAIN u : j \in 1 .. k \/ j \in (k + 1) .. (k + m)
    BY <1>1, <1>4
  <1>7. \A i, j \in DOMAIN u : i < j => Before(u[i], u[j])
    <2> SUFFICES ASSUME NEW i \in DOMAIN u, NEW j \in DOMAIN u, i < j
                 PROVE  Before(u[i], u[j])
      OBVIOUS
    <2>1. CASE j \in 1 .. k
      <3>1. i \in 1 .. k
        BY <2>1, <1>1, <1>4
      <3>2. QED BY <2>1, <3>1, <1>4 DEF Ordered
    <2>2. CASE i \in 1 .. k /\ j \in (k + 1) .. (k + m)
      <3>1. u[i] = w[i] /\ w[i].cycle <= now /\ w[i] \in Frame
        BY <2>2, <1>4 DEF Ordered
      <3>2. u[j].cycle = now + 1
        BY <2>2, <1>6a
      <3>3. u[i].cycle < u[j].cycle
        BY <3>1, <3>2, <1>0
      <3>4. QED BY <3>3 DEF Before
    <2>3. CASE i \in (k + 1) .. (k + m) /\ j \in (k + 1) .. (k + m)
      <3>1. /\ u[i].cycle = now + 1 /\ u[i].n = i - k - 1
            /\ u[j].cycle = now + 1 /\ u[j].n = j - k - 1
        BY <2>3, <1>6a
      <3>2. u[i].n < u[j].n /\ u[i].cycle = u[j].cycle
        BY <3>1, <1>1, <1>4
      <3>3. QED BY <3>2 DEF Before
    <2>4. i \in 1 .. k \/ j \in (k + 1) .. (k + m)
      BY <1>6, <1>1, <1>4
    <2>5. QED BY <1>6, <2>1, <2>2, <2>3
  <1>9. \A j \in DOMAIN u : u[j].cycle <= now + 1 /\ Before(h, u[j])
    <2> SUFFICES ASSUME NEW j \in DOMAIN u PROVE u[j].cycle <= now + 1 /\ Before(h, u[j])
      OBVIOUS
    <2>1. CASE j \in 1 .. k
      <3>1. u[j] = w[j] /\ w[j] \in Frame /\ j \in DOMAIN w
        BY <2>1, <1>4
      <3>2. w[j].cycle <= now /\ Before(h, w[j])
        BY <3>1 DEF Ordered
      <3>3. QED BY <3>1, <3>2, <1>0
    <2>2. CASE j \in (k + 1) .. (k + m)
      <3>1. u[j].cycle = now + 1 /\ h.cycle < now + 1
        BY <2>2, <1>6a, <1>0 DEF Ordered
      <3>2. QED BY <3>1 DEF Before
    <2>3. QED BY <2>1, <2>2, <1>6
  <1>10. \A i \in DOMAIN q, j \in DOMAIN u : q[i].cycle <= now + 1 /\ Before(q[i], u[j])
    <2> SUFFICES ASSUME NEW i \in DOMAIN q, NEW j \in DOMAIN u
                 PROVE  q[i].cycle <= now + 1 /\ Before(q[i], u[j])
      OBVIOUS
    <2>0. q[i] \in Frame /\ q[i].cycle <= now
      BY DEF Ordered
    <2>1. CASE j \in 1 .. k
      BY <2>0, <2>1, <1>4, <1>0 DEF Ordered
    <2>2. CASE j \in (k + 1) .. (k + m)
      <3>1. u[j].cycle = now + 1 /\ q[i].cycle < now + 1 /\ q[i].cycle <= now + 1
        BY <2>0, <2>2, <1>6a, <1>0
      <3>2. QED BY <3>1 DEF Before
    <2>3. QED BY <2>1, <2>2, <1>6
  <1>11. \A i \in DOMAIN q : q[i].cycle <= now + 1
    BY <1>0 DEF Ordered
  <1>12. Ordered(h, q, u, now + 1)
    BY <1>7, <1>0, <1>9, <1>10, <1>11 DEF Ordered
  <1>13. k + m = Len(w) + LastTrigger[sensors] + 1
    BY <1>1, <1>4, IntakeAssumption DEF k, m, Numbers
  <1>14. /\ u \in Seq(Frame) /\ b \in Seq(Frame)
         /\ Len(u) = Len(w) + LastTrigger[sensors] + 1
         /\ \A j \in 1 .. Len(w) : u[j] = w[j]
         /\ \A j \in (Len(w) + 1) .. (Len(w) + LastTrigger[sensors] + 1) :
              u[j] = [cycle |-> now + 1, n |-> j - Len(w) - 1]
    BY <1>3, <1>4, <1>5, <1>13 DEF k
  <1>15. QED BY <1>12, <1>14 DEF u, b

\* A source that takes no part in the new inspection.
LEMMA LaterOrdered ==
    ASSUME NEW h \in Frame \cup {NoFrame}, NEW q \in Seq(Frame), NEW w \in Seq(Frame),
           NEW now \in Nat, Ordered(h, q, w, now)
    PROVE  Ordered(h, q, w, now + 1)
  <1>1. \A f \in Frame \cup {NoFrame} : f.cycle <= now => f.cycle <= now + 1
    BY IntakeAssumption DEF Frame, NoFrame
  <1>2. QED BY <1>1 DEF Ordered

-----------------------------------------------------------------------------
(* Types.                                                                  *)

LEMMA Constants ==
    /\ NbPar \in Nat /\ NbPar >= 1
    /\ Image \notin Sensors /\ Image \in Sources
    /\ Ends \in Seq(Nat) /\ Len(Ends) \in Nat /\ Len(Ends) >= 1
    /\ LastImage \in Nat /\ MaxCycles \in Nat /\ MaxFaults \in Nat
    /\ \A n \in Numbers : n \in Int /\ 0 <= n /\ n <= LastImage
    /\ 0 \in Numbers
    /\ NoFrame.cycle = 0 /\ NoFrame.n = -1
    /\ \A f \in Frame : f.cycle \in Int /\ f.n \in Numbers /\ f.n \in Nat /\ f.cycle >= 1
  <1>1. Len(Ends) \in Nat /\ Len(Ends) >= 1
    BY IntakeAssumption
  <1>2. QED BY <1>1, IntakeAssumption DEF Sources, Numbers, NoFrame, Frame

LEMMA NoJobType == NoJob \in Job /\ NoJob.image = NoFrame /\ NoJob.samples \in [Sensors -> {NoFrame}]
  BY DEF NoJob, Job, Modes

LEMMA JobParts ==
    ASSUME NEW j \in Job
    PROVE  /\ j.n \in Numbers \cup {-1} /\ j.n \in Int /\ j.last \in Int
           /\ j.image \in Frame \cup {NoFrame}
           /\ j.samples \in [Sensors -> Frame \cup {NoFrame}]
           /\ j.mode \in Modes
  BY Constants DEF Job

\* IntervalOf: an interval stays an interval.
LEMMA IntervalOfType ==
    ASSUME interval \in 0 .. Len(Ends), NEW n
    PROVE  IntervalOf(n) \in 0 .. Len(Ends) /\ (interval # 0 => IntervalOf(n) # 0)
  <1> DEFINE found == {i \in DOMAIN Ends : First(i) <= n /\ n <= Ends[i]}
  <1>1. CASE found = {}
    BY <1>1 DEF IntervalOf
  <1>2. CASE found # {}
    <2>1. IntervalOf(n) = CHOOSE i \in found : TRUE
      BY <1>2 DEF IntervalOf
    <2>2. IntervalOf(n) \in found
      BY <1>2, <2>1
    <2>3. DOMAIN Ends = 1 .. Len(Ends)
      BY Constants
    <2>4. QED BY <2>2, <2>3, Constants
  <1>3. QED BY <1>1, <1>2

\* The frames of the waiting images.
LEMMA FramesOfType ==
    ASSUME NEW q \in Seq(Queued)
    PROVE  /\ FramesOf(q) \in Seq(Frame)
           /\ Len(FramesOf(q)) = Len(q)
           /\ DOMAIN FramesOf(q) = DOMAIN q
           /\ \A i \in DOMAIN q : FramesOf(q)[i] = q[i].frame
           /\ FramesOf(q) = <<>> <=> q = <<>>
  <1>1. DOMAIN q = 1 .. Len(q) /\ Len(q) \in Nat /\ \A i \in 1 .. Len(q) : q[i].frame \in Frame
    <2>1. DOMAIN q = 1 .. Len(q) /\ Len(q) \in Nat /\ \A i \in 1 .. Len(q) : q[i] \in Queued
      OBVIOUS
    <2>2. \A e \in Queued : e.frame \in Frame
      BY DEF Queued
    <2>3. QED BY <2>1, <2>2
  <1>2. FramesOf(q) \in [1 .. Len(q) -> Frame]
    BY <1>1 DEF FramesOf
  <1>3. FramesOf(q) \in Seq(Frame)
    BY <1>1, <1>2, SeqDef
  <1>4. DOMAIN FramesOf(q) = 1 .. Len(q)
    BY <1>2
  <1>5. Len(FramesOf(q)) = Len(q)
    BY <1>1, <1>3, <1>4
  <1>6. QED BY <1>1, <1>3, <1>4, <1>5 DEF FramesOf

LEMMA FramesOfAppend ==
    ASSUME NEW q \in Seq(Queued), NEW f \in Frame, NEW m \in Modes
    PROVE  /\ Append(q, [frame |-> f, mode |-> m]) \in Seq(Queued)
           /\ FramesOf(Append(q, [frame |-> f, mode |-> m])) = Append(FramesOf(q), f)
  <1> DEFINE e == [frame |-> f, mode |-> m]
             r == Append(q, e)
  <1>1. e \in Queued /\ e.frame = f
    BY DEF Queued
  <1> HIDE DEF e
  <1>2. /\ r \in Seq(Queued) /\ Len(q) \in Nat /\ DOMAIN q = 1 .. Len(q)
        /\ Len(r) = Len(q) + 1 /\ DOMAIN r = 1 .. (Len(q) + 1)
        /\ \A i \in 1 .. Len(q) : r[i] = q[i]
        /\ r[Len(q) + 1] = e
    BY <1>1, AppendOf
  <1> HIDE DEF r
  <1>3. /\ FramesOf(q) \in Seq(Frame) /\ Len(FramesOf(q)) = Len(q)
        /\ \A i \in 1 .. Len(q) : FramesOf(q)[i] = q[i].frame
    BY <1>2, FramesOfType
  <1>4. /\ FramesOf(r) \in Seq(Frame) /\ Len(FramesOf(r)) = Len(q) + 1
        /\ \A i \in 1 .. (Len(q) + 1) : FramesOf(r)[i] = r[i].frame
    BY <1>2, FramesOfType
  <1>5. /\ Append(FramesOf(q), f) \in Seq(Frame)
        /\ Len(Append(FramesOf(q), f)) = Len(q) + 1
        /\ \A i \in 1 .. Len(q) : Append(FramesOf(q), f)[i] = FramesOf(q)[i]
        /\ Append(FramesOf(q), f)[Len(q) + 1] = f
    BY <1>3, AppendOf
  <1>6. \A i \in 1 .. (Len(q) + 1) : FramesOf(r)[i] = Append(FramesOf(q), f)[i]
    <2> TAKE i \in 1 .. (Len(q) + 1)
    <2>1. CASE i \in 1 .. Len(q)
      BY <2>1, <1>2, <1>3, <1>4, <1>5
    <2>2. CASE i = Len(q) + 1
      BY <2>2, <1>1, <1>2, <1>4, <1>5
    <2>3. i \in 1 .. Len(q) \/ i = Len(q) + 1
      BY <1>2
    <2>4. QED BY <2>1, <2>2, <2>3
  <1>7. FramesOf(r) = Append(FramesOf(q), f)
    BY <1>4, <1>5, <1>6, <1>2, SeqEqual
  <1>8. QED BY <1>2, <1>7 DEF r, e

LEMMA FramesOfTail ==
    ASSUME NEW q \in Seq(Queued), q # <<>>
    PROVE  /\ Tail(q) \in Seq(Queued)
           /\ Head(q).frame = Head(FramesOf(q))
           /\ Head(q).frame \in Frame /\ Head(q).mode \in Modes
           /\ FramesOf(Tail(q)) = Tail(FramesOf(q))
  <1>1. /\ Head(q) \in Queued /\ Tail(q) \in Seq(Queued) /\ Len(q) \in Nat /\ Len(q) >= 1
        /\ Head(q) = q[1] /\ Len(Tail(q)) = Len(q) - 1
        /\ DOMAIN q = 1 .. Len(q) /\ DOMAIN Tail(q) = 1 .. (Len(q) - 1)
        /\ \A i \in 1 .. (Len(q) - 1) : Tail(q)[i] = q[i + 1]
    BY TailOf
  <1>2. /\ FramesOf(q) \in Seq(Frame) /\ Len(FramesOf(q)) = Len(q) /\ FramesOf(q) # <<>>
        /\ \A i \in 1 .. Len(q) : FramesOf(q)[i] = q[i].frame
    BY <1>1, FramesOfType
  <1>3. /\ FramesOf(Tail(q)) \in Seq(Frame) /\ Len(FramesOf(Tail(q))) = Len(q) - 1
        /\ \A i \in 1 .. (Len(q) - 1) : FramesOf(Tail(q))[i] = Tail(q)[i].frame
    BY <1>1, FramesOfType
  <1>4. /\ Head(FramesOf(q)) = FramesOf(q)[1] /\ Tail(FramesOf(q)) \in Seq(Frame)
        /\ Len(Tail(FramesOf(q))) = Len(q) - 1
        /\ \A i \in 1 .. (Len(q) - 1) : Tail(FramesOf(q))[i] = FramesOf(q)[i + 1]
    BY <1>2, TailOf
  <1>5. \A i \in 1 .. (Len(q) - 1) : FramesOf(Tail(q))[i] = Tail(FramesOf(q))[i]
    <2> TAKE i \in 1 .. (Len(q) - 1)
    <2>1. i + 1 \in 1 .. Len(q)
      BY <1>1
    <2>2. QED BY <2>1, <1>1, <1>2, <1>3, <1>4
  <1>6. FramesOf(Tail(q)) = Tail(FramesOf(q))
    BY <1>3, <1>4, <1>5, SeqEqual
  <1>7. Head(q).frame = Head(FramesOf(q))
    BY <1>1, <1>2, <1>4
  <1>8. QED BY <1>1, <1>6, <1>7 DEF Queued

LEMMA Types ==
    ASSUME TypeOK
    PROVE  /\ cycle \in Nat /\ cycle <= MaxCycles
           /\ \A c \in Sources : /\ wire[c] \in Seq(Frame)
                                 /\ Waiting(c) \in Seq(Frame)
                                 /\ HandedOf(c) \in Frame \cup {NoFrame}
           /\ Waiting(Image) = FramesOf(imageQueue) /\ HandedOf(Image) = handed.image
           /\ \A s \in Sensors : Waiting(s) = sampleQueue[s] /\ HandedOf(s) = handed.samples[s]
  <1>1. handed.image \in Frame \cup {NoFrame} /\ handed.samples \in [Sensors -> Frame \cup {NoFrame}]
    BY JobParts DEF TypeOK
  <1>2. FramesOf(imageQueue) \in Seq(Frame)
    BY FramesOfType DEF TypeOK
  <1>3. QED BY <1>1, <1>2, Constants DEF TypeOK, Sources, Waiting, HandedOf

NotedTypes == [lastSkipped : Numbers \cup {-1}, fromSensor : Nat, inInspection : Nat]

LEMMA NotedType ==
    ASSUME TypeOK, NEW n \in Numbers, NEW over \in BOOLEAN
    PROVE  Noted(n, over) \in NotedTypes
  <1> DEFINE missing == NewlyMissing(n)
  <1>1. last \in Int /\ n \in Int /\ last + 1 \in Int /\ n - 1 \in Int
    BY Constants DEF TypeOK
  <1>2. IsFiniteSet((last + 1) .. (n - 1))
    BY <1>1, FS_Interval
  <1>3. missing \subseteq (last + 1) .. (n - 1)
    BY DEF NewlyMissing
  <1>4. Cardinality(missing) \in Nat
    BY <1>2, <1>3, FS_Subset, FS_CardinalityType
  <1>5. n \in Numbers \cup {-1} /\ n - 1 \in Numbers \cup {-1}
    BY IntakeAssumption DEF Numbers
  <1>6. /\ fromSensor + Cardinality(missing) \in Nat
        /\ inInspection + (IF over THEN 1 ELSE 0) \in Nat
    BY <1>4 DEF TypeOK
  <1>7. (IF over THEN n ELSE IF missing # {} THEN n - 1 ELSE lastSkipped) \in Numbers \cup {-1}
    BY <1>5 DEF TypeOK
  <1>8. Noted(n, over) = [lastSkipped |-> IF over THEN n ELSE IF missing # {} THEN n - 1 ELSE lastSkipped,
                          fromSensor  |-> fromSensor + Cardinality(missing),
                          inInspection |-> inInspection + (IF over THEN 1 ELSE 0)]
    BY DEF Noted
  <1> HIDE DEF missing
  <1>9. QED BY <1>6, <1>7, <1>8 DEF NotedTypes

LEMMA ModeType ==
    ASSUME TypeOK, NEW n \in Numbers, NEW over \in BOOLEAN
    PROVE  ModeOf(n, over) \in Modes
  <1>1. n \in Int /\ last \in Int
    BY Constants DEF TypeOK
  <1>2. CASE n <= last
    BY <1>1, <1>2 DEF ModeOf, Modes
  <1>3. CASE n > last /\ over
    BY <1>1, <1>3 DEF ModeOf, Modes
  <1>4. CASE n > last + 1 /\ ~ over
    BY <1>1, <1>4 DEF ModeOf, Modes
  <1>5. CASE n = last + 1 /\ ~ over
    BY <1>1, <1>5 DEF ModeOf, Modes
  <1>6. n <= last \/ n > last + 1 \/ n = last + 1
    BY <1>1
  <1>7. n > last + 1 \/ n = last + 1 => n > last
    BY <1>1
  <1>8. QED BY <1>2, <1>3, <1>4, <1>5, <1>6, <1>7

\* What is handed out when a job starts.
LEMMA StartEffect ==
    ASSUME TypeOK, NEW n \in Numbers, NEW images \in Seq(Queued), images # <<>>,
           NEW queues \in [Sensors -> Seq(Frame)], NEW noted \in NotedTypes,
           StartProcessing(n, images, queues, noted)
    PROVE  /\ imageQueue' = Tail(images)
           /\ sampleQueue' \in [Sensors -> Seq(Frame)]
           /\ \A s \in Sensors :
                 sampleQueue'[s] = IF queues[s] = <<>> THEN <<>> ELSE Tail(queues[s])
           /\ handed' \in Job /\ handed' # NoJob
           /\ handed'.n = n
           /\ handed'.image = Head(images).frame
           /\ handed'.mode = Head(images).mode
           /\ \A s \in Sensors :
                 handed'.samples[s] = IF queues[s] = <<>> THEN NoFrame ELSE Head(queues[s])
           /\ last' = last \/ last' = n
           /\ slot' \in [Workers -> Job]
           /\ \A w \in Workers : slot'[w] = slot[w] \/ slot'[w] = handed'
           /\ last' \in Numbers \cup {-1} /\ lastSkipped' \in Numbers \cup {-1}
           /\ fromSensor' \in Nat /\ inInspection' \in Nat
  <1> DEFINE w0 == n % NbPar
             samples == DequeuedSamples(queues)
             work == [n |-> n, image |-> Head(images).frame, mode |-> Head(images).mode,
                      samples |-> samples, last |-> last]
  <1>1. /\ imageQueue' = Tail(images)
        /\ sampleQueue' = [s \in Sensors |-> IF queues[s] = <<>> THEN <<>> ELSE Tail(queues[s])]
        /\ handed' = work
        /\ \/ slot' = [slot EXCEPT ![w0] = work] /\ last' = n /\ Note(noted)
           \/ /\ UNCHANGED <<slot, last>>
              /\ \/ Note(noted)
                 \/ Note([noted EXCEPT !.lastSkipped = n, !.inInspection = @ + 1])
    BY DEF StartProcessing
  <1>2. \A s \in Sensors : queues[s] # <<>> => Head(queues[s]) \in Frame /\ Tail(queues[s]) \in Seq(Frame)
    BY TailOf
  <1>3. samples \in [Sensors -> Frame \cup {NoFrame}]
        /\ \A s \in Sensors : samples[s] = IF queues[s] = <<>> THEN NoFrame ELSE Head(queues[s])
    BY <1>2 DEF DequeuedSamples
  <1>4. Head(images).frame \in Frame /\ Head(images).mode \in Modes
    BY FramesOfTail
  <1> HIDE DEF samples
  <1>5. last \in Numbers \cup {-1}
    BY DEF TypeOK
  <1>6. /\ work \in Job /\ work.n = n /\ work.image = Head(images).frame /\ work.samples = samples
        /\ work.mode = Head(images).mode
    BY <1>3, <1>4, <1>5 DEF Job
  <1> HIDE DEF work
  <1>7. NoJob.n = -1
    BY DEF NoJob
  <1>8. work # NoJob
    BY <1>6, <1>7, Constants
  <1>9. slot' \in [Workers -> Job] /\ \A w \in Workers : slot'[w] = slot[w] \/ slot'[w] = work
    <2>1. slot \in [Workers -> Job]
      BY DEF TypeOK
    <2> HIDE DEF w0
    <2>2. QED BY <1>1, <1>6, <2>1
  <1>10. sampleQueue' \in [Sensors -> Seq(Frame)]
    <2>1. <<>> \in Seq(Frame)
      OBVIOUS
    <2>2. QED BY <1>1, <1>2, <2>1
  <1>11. /\ lastSkipped' \in Numbers \cup {-1}
         /\ fromSensor' \in Nat /\ inInspection' \in Nat
    <2>1. /\ noted.lastSkipped \in Numbers \cup {-1} /\ noted.fromSensor \in Nat
          /\ noted.inInspection \in Nat
      BY DEF NotedTypes
    <2>2. CASE Note(noted)
      BY <2>1, <2>2 DEF Note
    <2>3. CASE Note([noted EXCEPT !.lastSkipped = n, !.inInspection = @ + 1])
      <3>1. /\ lastSkipped' = n /\ fromSensor' = noted.fromSensor
            /\ inInspection' = noted.inInspection + 1
        BY <2>3 DEF Note, NotedTypes
      <3>2. QED BY <2>1, <3>1
    <2>4. QED BY <1>1, <2>2, <2>3
  <1>12. last' \in Numbers \cup {-1}
    BY <1>1, <1>5
  <1>13. QED BY <1>1, <1>3, <1>6, <1>8, <1>9, <1>10, <1>11, <1>12

\* A frame that arrives.
LEMMA ArrivalType ==
    ASSUME TypeOK, NEW c \in Sources, Arrives(c)
    PROVE  /\ Arriving(c) \in Frame /\ Arriving(c).n \in Numbers
           /\ Receive(c) => /\ wire' \in [Sources -> Seq(Frame)]
                            /\ wire'[c] = Tail(wire[c])
                            /\ \A d \in Sources \ {c} : wire'[d] = wire[d]
  <1>1. wire \in [Sources -> Seq(Frame)] /\ wire[c] \in Seq(Frame) /\ wire[c] # <<>>
    BY DEF TypeOK, Arrives
  <1>2. Head(wire[c]) \in Frame /\ Tail(wire[c]) \in Seq(Frame)
    BY <1>1, TailOf
  <1>3. QED BY <1>1, <1>2, Constants DEF Arriving, Receive

\* An image is taken in: a job starts with it at the end of the queue, or it
\* waits.
LEMMA DataImageEffect ==
    ASSUME TypeOK, DataImage
    PROVE  LET f == Arriving(Image) IN
           /\ Arrives(Image) /\ Current(f) /\ Receive(Image)
           /\ ChangeSeamInterval(IntervalOf(f.n))
           /\ trouble \subseteq trouble'
           /\ faults' \in 0 .. MaxFaults
           /\ trouble' \subseteq trouble \cup {"late", "forced", "skewed", "doubled"}
           /\ \E images \in Seq(Queued), noted \in NotedTypes :
                 /\ images # <<>>
                 /\ FramesOf(images) = Append(FramesOf(imageQueue), f)
                 /\ \/ /\ AllSamplesQueued(sampleQueue) \/ "forced" \in trouble'
                       /\ StartProcessing(f.n, images, sampleQueue, noted)
                    \/ /\ ~ AllSamplesQueued(sampleQueue)
                       /\ Enqueue(images, sampleQueue, noted)
           /\ UNCHANGED <<cycle, needed, joined, runVars>>
  <1> DEFINE f == Arriving(Image)
  <1>1. Image \in Sources /\ Arrives(Image) /\ Current(f) /\ Receive(Image)
    BY Constants DEF DataImage
  <1>2. f \in Frame /\ f.n \in Numbers
    BY <1>1, ArrivalType
  <1>3. PICK over \in BOOLEAN :
          LET n == f.n
              images == Append(imageQueue, [frame |-> f, mode |-> ModeOf(n, over)])
              complete == AllSamplesQueued(sampleQueue)
              forced == ~ complete /\ Len(images) >= 3 IN
          /\ faults' = IF over /\ faults < MaxFaults THEN faults + 1 ELSE faults
          /\ ChangeSeamInterval(IntervalOf(n))
          /\ trouble' = trouble \cup Skew(IntervalOf(n))
                                \cup (IF imageQueue # <<>> THEN {"late"} ELSE {})
                                \cup (IF forced THEN {"forced"} ELSE {})
                                \cup (IF complete \/ forced THEN Doubled(n, Head(images).mode) ELSE {})
          /\ IF complete \/ forced
             THEN StartProcessing(n, images, sampleQueue, Noted(n, over))
             ELSE Enqueue(images, sampleQueue, Noted(n, over))
    BY DEF DataImage
  <1> DEFINE images == Append(imageQueue, [frame |-> f, mode |-> ModeOf(f.n, over)])
             noted == Noted(f.n, over)
             forced == ~ AllSamplesQueued(sampleQueue) /\ Len(images) >= 3
  <1> HIDE DEF f
  <1>4. /\ images \in Seq(Queued) /\ images # <<>>
        /\ FramesOf(images) = Append(FramesOf(imageQueue), f)
    <2>1. ModeOf(f.n, over) \in Modes /\ imageQueue \in Seq(Queued)
      BY <1>2, ModeType DEF TypeOK
    <2>2. [frame |-> f, mode |-> ModeOf(f.n, over)] \in Queued
      BY <1>2, <2>1 DEF Queued
    <2>3. QED BY <1>2, <2>1, <2>2, FramesOfAppend, AppendOf
  <1>5. noted \in NotedTypes
    BY <1>2, NotedType
  <1> HIDE DEF images, noted
  <1>6. /\ trouble \subseteq trouble' /\ trouble' \subseteq trouble \cup {"late", "forced", "skewed", "doubled"}
        /\ forced => "forced" \in trouble'
    BY <1>3 DEF Skew, Doubled, images
  <1>7. faults' \in 0 .. MaxFaults
    BY <1>3, Constants DEF TypeOK
  <1>8. \/ /\ AllSamplesQueued(sampleQueue) \/ forced
           /\ StartProcessing(f.n, images, sampleQueue, noted)
        \/ /\ ~ AllSamplesQueued(sampleQueue)
           /\ Enqueue(images, sampleQueue, noted)
    BY <1>3 DEF images, noted
  <1>9. ChangeSeamInterval(IntervalOf(f.n)) /\ UNCHANGED <<cycle, needed, joined, runVars>>
    BY <1>3 DEF DataImage
  <1>10. /\ images # <<>> /\ FramesOf(images) = Append(FramesOf(imageQueue), f)
         /\ \/ /\ AllSamplesQueued(sampleQueue) \/ "forced" \in trouble'
               /\ StartProcessing(f.n, images, sampleQueue, noted)
            \/ /\ ~ AllSamplesQueued(sampleQueue)
               /\ Enqueue(images, sampleQueue, noted)
    BY <1>4, <1>6, <1>8
  <1>11. QED BY <1>1, <1>4, <1>5, <1>6, <1>7, <1>9, <1>10 DEF f

\* A sample is taken in.
LEMMA DataSampleEffect ==
    ASSUME TypeOK, NEW s \in Sensors, DataSample(s)
    PROVE  LET f == Arriving(s) IN
           /\ Arrives(s) /\ Current(f) /\ Receive(s)
           /\ ChangeSeamInterval(IntervalOf(f.n))
           /\ trouble \subseteq trouble'
           /\ trouble' \subseteq trouble \cup {"forced", "skewed", "doubled"}
           /\ \E queues \in [Sensors -> Seq(Frame)], noted \in NotedTypes :
                 /\ queues[s] = Append(sampleQueue[s], f)
                 /\ \A t \in Sensors \ {s} : queues[t] = sampleQueue[t]
                 /\ \/ /\ imageQueue # <<>>
                       /\ AllSamplesQueued(queues) \/ "forced" \in trouble'
                       /\ StartProcessing(f.n, imageQueue, queues, noted)
                    \/ /\ imageQueue = <<>> \/ ~ AllSamplesQueued(queues)
                       /\ Enqueue(imageQueue, queues, noted)
           /\ UNCHANGED <<cycle, needed, joined, runVars, faults>>
  <1> DEFINE f == Arriving(s)
             queues == [sampleQueue EXCEPT ![s] = Append(@, f)]
             forced == ~ AllSamplesQueued(queues) /\ \E t \in Sensors : Len(queues[t]) >= 3
             starts == (AllSamplesQueued(queues) \/ forced) /\ imageQueue # <<>>
             noted == [lastSkipped |-> lastSkipped, fromSensor |-> fromSensor,
                       inInspection |-> inInspection]
  <1>1. s \in Sources /\ Arrives(s) /\ Current(f) /\ Receive(s)
    BY DEF DataSample, Sources
  <1>2. f \in Frame /\ f.n \in Numbers
    BY <1>1, ArrivalType
  <1>3. /\ ChangeSeamInterval(IntervalOf(f.n))
        /\ trouble' = trouble \cup Skew(IntervalOf(f.n))
                              \cup (IF starts /\ forced THEN {"forced"} ELSE {})
                              \cup (IF starts THEN Doubled(f.n, Head(imageQueue).mode) ELSE {})
        /\ IF starts
           THEN StartProcessing(f.n, imageQueue, queues, noted)
           ELSE Enqueue(imageQueue, queues, noted)
        /\ UNCHANGED <<cycle, needed, joined, runVars, faults>>
    BY DEF DataSample
  <1> HIDE DEF f
  <1>4. sampleQueue \in [Sensors -> Seq(Frame)] /\ Append(sampleQueue[s], f) \in Seq(Frame)
    <2>1. sampleQueue \in [Sensors -> Seq(Frame)]
      BY DEF TypeOK
    <2>2. sampleQueue[s] \in Seq(Frame)
      BY <2>1
    <2>3. QED BY <1>2, <2>1, <2>2, AppendOf
  <1>5. /\ queues \in [Sensors -> Seq(Frame)] /\ queues[s] = Append(sampleQueue[s], f)
        /\ \A t \in Sensors \ {s} : queues[t] = sampleQueue[t]
    BY <1>4
  <1>6. noted \in NotedTypes
    BY DEF TypeOK, NotedTypes
  <1> HIDE DEF queues, noted, forced
  <1>7. /\ trouble \subseteq trouble' /\ trouble' \subseteq trouble \cup {"forced", "skewed", "doubled"}
        /\ forced /\ imageQueue # <<>> => "forced" \in trouble'
    BY <1>3 DEF Skew, Doubled
  <1>8. \/ /\ imageQueue # <<>>
           /\ AllSamplesQueued(queues) \/ "forced" \in trouble'
           /\ StartProcessing(f.n, imageQueue, queues, noted)
        \/ /\ imageQueue = <<>> \/ ~ AllSamplesQueued(queues)
           /\ Enqueue(imageQueue, queues, noted)
    BY <1>3, <1>7
  <1>9. QED BY <1>1, <1>3, <1>5, <1>6, <1>7, <1>8 DEF f

LEMMA BurstType ==
    ASSUME TypeOK, cycle + 1 <= MaxCycles, NEW sensors \in SUBSET Sensors
    PROVE  Burst(cycle + 1, sensors) \in Seq(Frame)
  <1>1. <<>> \in Seq(Frame) /\ DOMAIN <<>> = {} /\ cycle \in Nat
    BY Types
  <1>2. NoFrame.cycle <= cycle
    BY <1>1, Constants
  <1>3. Ordered(NoFrame, <<>>, <<>>, cycle)
    BY <1>1, <1>2 DEF Ordered
  <1>4. QED BY <1>1, <1>3, BurstOrdered

LEMMA StartInspectEffect ==
    ASSUME TypeOK, StartInspect
    PROVE  /\ cycle + 1 <= MaxCycles /\ cycle' = cycle + 1
           /\ needed' \subseteq Sensors
           /\ interval # 0 => needed' = needed
           /\ \E sent \in [Sources -> Nat] :
                 \A c \in Sources :
                    /\ sent[c] \in 0 .. Len(wire[c])
                    /\ wire'[c] = IF c \in {Image} \cup needed'
                                  THEN SubSeq(wire[c], 1, sent[c]) \o Burst(cycle + 1, needed')
                                  ELSE SubSeq(wire[c], 1, sent[c])
           /\ wire' = [c \in Sources |-> wire'[c]]
  <1>1. PICK sent \in SentBefore :
          wire' = [c \in Sources |->
                      IF c \in {Image} \cup needed' THEN sent[c] \o Burst(cycle + 1, needed') ELSE sent[c]]
    BY DEF StartInspect
  <1>2. PICK k \in [Sources -> 0 .. MaxLate] :
          /\ \A c \in Sources : k[c] <= Len(wire[c])
          /\ sent = [c \in Sources |-> SubSeq(wire[c], 1, k[c])]
    BY <1>1 DEF SentBefore
  <1>3. \A c \in Sources : Len(wire[c]) \in Nat
    BY DEF TypeOK
  <1>4. k \in [Sources -> Nat] /\ \A c \in Sources : k[c] \in 0 .. Len(wire[c])
    BY <1>2, <1>3, IntakeAssumption
  <1>5. cycle + 1 <= MaxCycles
    BY Constants DEF StartInspect, TypeOK
  <1>6. needed' \subseteq Sensors /\ (interval # 0 => needed' = needed)
    BY DEF StartInspect, TypeOK
  <1>7. \A c \in Sources : wire'[c] = IF c \in {Image} \cup needed'
                                  THEN SubSeq(wire[c], 1, k[c]) \o Burst(cycle + 1, needed')
                                  ELSE SubSeq(wire[c], 1, k[c])
    BY <1>1, <1>2
  <1>8. wire' = [c \in Sources |-> wire'[c]]
    BY <1>1
  <1>9. QED BY <1>4, <1>5, <1>6, <1>7, <1>8 DEF StartInspect

LEMMA StopInspectEffect ==
    ASSUME TypeOK, StopInspect
    PROVE  /\ wire' = [c \in Sources |-> wire'[c]]
           /\ \A c \in Sources : \E k \in 0 .. Len(wire[c]) : wire'[c] = SubSeq(wire[c], 1, k)
  <1>1. PICK k \in [Sources -> 0 .. MaxLate] :
          /\ \A c \in Sources : k[c] <= Len(wire[c])
          /\ wire' = [c \in Sources |-> SubSeq(wire[c], 1, k[c])]
    BY DEF StopInspect, SentBefore
  <1>2. \A c \in Sources : Len(wire[c]) \in Nat /\ k[c] \in Nat
    BY <1>1, IntakeAssumption DEF TypeOK
  <1>3. \A c \in Sources : k[c] \in 0 .. Len(wire[c]) /\ wire'[c] = SubSeq(wire[c], 1, k[c])
    BY <1>1, <1>2
  <1>4. wire' = [c \in Sources |-> wire'[c]]
    BY <1>1
  <1>5. QED BY <1>3, <1>4

LEMMA InitTypes == Init => TypeOK
  <1> SUFFICES ASSUME Init PROVE TypeOK OBVIOUS
  <1>1. /\ <<>> \in Seq(Frame) /\ <<>> \in Seq(Queued)
        /\ 0 \in 0 .. MaxCycles /\ 0 \in 0 .. MaxFaults /\ 0 \in 0 .. Len(Ends)
        /\ 0 \in Nat
    BY Constants
  <1>2. QED BY <1>1, NoJobType DEF Init, Stages, TypeOK

\* The types after a change of the seam interval.
LEMMA ChangeType ==
    ASSUME TypeOK, NEW i \in 0 .. Len(Ends), ChangeSeamInterval(i)
    PROVE  /\ interval' = i /\ interval' \in 0 .. Len(Ends) /\ counter' \in Nat
           /\ i # interval => interval = 0 \/ Idle
  BY DEF ChangeSeamInterval, CounterIn, TypeOK

LEMMA TypeStart ==
    ASSUME TypeOK, StartInspect PROVE TypeOK'
  <1>1. 1 \in 0 .. Len(Ends)
    BY Constants
  <1>2. interval' = 1 /\ interval' \in 0 .. Len(Ends) /\ counter' \in Nat
    BY <1>1, ChangeType DEF StartInspect
  <1>3. /\ cycle \in Nat /\ cycle + 1 <= MaxCycles /\ cycle' = cycle + 1 /\ needed' \subseteq Sensors
        /\ wire' = [c \in Sources |-> wire'[c]]
    BY StartInspectEffect, Types
  <1>4. cycle' \in 0 .. MaxCycles
    BY <1>3, Constants
  <1>5. ASSUME NEW c \in Sources PROVE wire'[c] \in Seq(Frame)
    <2>1. PICK k \in 0 .. Len(wire[c]) :
             wire'[c] = IF c \in {Image} \cup needed'
                        THEN SubSeq(wire[c], 1, k) \o Burst(cycle + 1, needed')
                        ELSE SubSeq(wire[c], 1, k)
      BY StartInspectEffect
    <2>2. wire[c] \in Seq(Frame)
      BY DEF TypeOK
    <2>3. SubSeq(wire[c], 1, k) \in Seq(Frame)
      BY <2>2
    <2>4. Burst(cycle + 1, needed') \in Seq(Frame)
      BY <1>3, BurstType
    <2>5. QED BY <2>1, <2>3, <2>4, ConcatProperties
  <1>6. wire' \in [Sources -> Seq(Frame)]
    BY <1>3, <1>5
  <1>7. trouble' \subseteq {"imageLost", "sampleLost", "forced", "late", "skewed", "doubled", "restarted"}
    BY DEF StartInspect, Skew, TypeOK
  <1>8. QED BY <1>2, <1>3, <1>4, <1>6, <1>7 DEF StartInspect, skipVars, runVars, TypeOK

LEMMA TypeStop ==
    ASSUME TypeOK, StopInspect PROVE TypeOK'
  <1>1. ASSUME NEW c \in Sources PROVE wire'[c] \in Seq(Frame)
    <2>1. PICK k \in 0 .. Len(wire[c]) : wire'[c] = SubSeq(wire[c], 1, k)
      BY StopInspectEffect
    <2>2. wire[c] \in Seq(Frame)
      BY DEF TypeOK
    <2>3. QED BY <2>1, <2>2
  <1>2. wire' \in [Sources -> Seq(Frame)]
    BY <1>1, StopInspectEffect
  <1>3. <<>> \in Seq(Frame) /\ <<>> \in Seq(Queued) /\ 0 \in 0 .. Len(Ends) /\ 0 \in Nat
    BY Constants
  <1>4. QED BY <1>2, <1>3, NoJobType DEF StopInspect, runVars, TypeOK

LEMMA TypeImage ==
    ASSUME TypeOK, DataImage PROVE TypeOK'
  <1> DEFINE f == Arriving(Image)
  <1>1. /\ Image \in Sources /\ Arrives(Image) /\ Current(f) /\ Receive(Image)
        /\ ChangeSeamInterval(IntervalOf(f.n))
        /\ faults' \in 0 .. MaxFaults
        /\ trouble' \subseteq trouble \cup {"late", "forced", "skewed", "doubled"}
        /\ UNCHANGED <<cycle, needed, joined, runVars>>
    BY DataImageEffect, Constants
  <1>2. PICK images \in Seq(Queued), noted \in NotedTypes :
          /\ images # <<>>
          /\ \/ StartProcessing(f.n, images, sampleQueue, noted)
             \/ Enqueue(images, sampleQueue, noted)
    BY DataImageEffect
  <1>3. f.n \in Numbers /\ wire' \in [Sources -> Seq(Frame)]
    BY <1>1, ArrivalType
  <1> HIDE DEF f
  <1>4. /\ interval \in 0 .. Len(Ends) /\ interval # 0
        /\ interval' \in 0 .. Len(Ends) /\ interval' # 0 /\ counter' \in Nat
    <2>1. interval \in 0 .. Len(Ends) /\ interval # 0
      BY <1>1 DEF TypeOK, Current
    <2>2. QED BY <1>1, <2>1, IntervalOfType, ChangeType
  <1>5. trouble' \subseteq {"imageLost", "sampleLost", "forced", "late", "skewed", "doubled", "restarted"}
    BY <1>1 DEF TypeOK
  <1>6. /\ imageQueue' \in Seq(Queued) /\ sampleQueue' \in [Sensors -> Seq(Frame)]
        /\ handed' \in Job /\ slot' \in [Workers -> Job]
        /\ last' \in Numbers \cup {-1} /\ lastSkipped' \in Numbers \cup {-1}
        /\ fromSensor' \in Nat /\ inInspection' \in Nat
    <2>1. CASE StartProcessing(f.n, images, sampleQueue, noted)
      <3>1. Tail(images) \in Seq(Queued) /\ sampleQueue \in [Sensors -> Seq(Frame)]
        BY <1>2, TailOf DEF TypeOK
      <3>2. QED BY <1>2, <1>3, <2>1, <3>1, StartEffect
    <2>2. CASE Enqueue(images, sampleQueue, noted)
      BY <2>2 DEF Enqueue, Note, NotedTypes, TypeOK
    <2>3. QED BY <1>2, <2>1, <2>2
  <1>7. QED BY <1>1, <1>3, <1>4, <1>5, <1>6 DEF runVars, TypeOK

LEMMA TypeSample ==
    ASSUME TypeOK, NEW s \in Sensors, DataSample(s) PROVE TypeOK'
  <1> DEFINE f == Arriving(s)
  <1>1. /\ s \in Sources /\ Arrives(s) /\ Current(f) /\ Receive(s)
        /\ ChangeSeamInterval(IntervalOf(f.n))
        /\ trouble' \subseteq trouble \cup {"forced", "skewed", "doubled"}
        /\ UNCHANGED <<cycle, needed, joined, runVars, faults>>
    BY DataSampleEffect DEF Sources
  <1>2. PICK queues \in [Sensors -> Seq(Frame)], noted \in NotedTypes :
          \/ imageQueue # <<>> /\ StartProcessing(f.n, imageQueue, queues, noted)
          \/ Enqueue(imageQueue, queues, noted)
    BY DataSampleEffect
  <1>3. f.n \in Numbers /\ wire' \in [Sources -> Seq(Frame)]
    BY <1>1, ArrivalType
  <1> HIDE DEF f
  <1>4. /\ interval \in 0 .. Len(Ends) /\ interval # 0
        /\ interval' \in 0 .. Len(Ends) /\ interval' # 0 /\ counter' \in Nat
    <2>1. interval \in 0 .. Len(Ends) /\ interval # 0
      BY <1>1 DEF TypeOK, Current
    <2>2. QED BY <1>1, <2>1, IntervalOfType, ChangeType
  <1>5. trouble' \subseteq {"imageLost", "sampleLost", "forced", "late", "skewed", "doubled", "restarted"}
    BY <1>1 DEF TypeOK
  <1>6. /\ imageQueue' \in Seq(Queued) /\ sampleQueue' \in [Sensors -> Seq(Frame)]
        /\ handed' \in Job /\ slot' \in [Workers -> Job]
        /\ last' \in Numbers \cup {-1} /\ lastSkipped' \in Numbers \cup {-1}
        /\ fromSensor' \in Nat /\ inInspection' \in Nat
    <2>1. CASE imageQueue # <<>> /\ StartProcessing(f.n, imageQueue, queues, noted)
      <3>1. imageQueue \in Seq(Queued) /\ Tail(imageQueue) \in Seq(Queued)
        BY <2>1, TailOf DEF TypeOK
      <3>2. QED BY <1>3, <2>1, <3>1, StartEffect
    <2>2. CASE Enqueue(imageQueue, queues, noted)
      BY <2>2 DEF Enqueue, Note, NotedTypes, TypeOK
    <2>3. QED BY <1>2, <2>1, <2>2
  <1>7. QED BY <1>1, <1>3, <1>4, <1>5, <1>6 DEF runVars, TypeOK

\* A step of a worker.
Works(w) ==
    TakeWork(w) \/ Wait(w) \/ SkipImage(w) \/ EnsureNumber(w) \/ ProcessImage(w) \/ FinishWork(w)

LEMMA WorksEffect ==
    ASSUME NEW w \in Workers, Works(w)
    PROVE  UNCHANGED <<wire, cycle, imageQueue, sampleQueue, interval, needed, last, skipVars,
                       handed, faults, trouble>>
  BY DEF Works, TakeWork, Wait, GoOn, SkipImage, EnsureNumber, ProcessImage, FinishWork

LEMMA TypeStep ==
    ASSUME TypeOK, [Next]_vars PROVE TypeOK'
  <1>1. CASE StartInspect
    BY <1>1, TypeStart
  <1>2. CASE StopInspect
    BY <1>2, TypeStop
  <1>3. CASE DataImage
    BY <1>3, TypeImage
  <1>4. ASSUME NEW s \in Sensors, DataSample(s) PROVE TypeOK'
    BY <1>4, TypeSample
  <1>5. ASSUME NEW c \in Sources, DropFrame(c) PROVE TypeOK'
    <2>1. wire' \in [Sources -> Seq(Frame)]
      BY <1>5, ArrivalType DEF DropFrame
    <2>2. QED BY <1>5, <2>1 DEF DropFrame, skipVars, workerVars, runVars, TypeOK
  <1>6. ASSUME NEW c \in Sources, LoseFrame(c) PROVE TypeOK'
    <2>1. wire' \in [Sources -> Seq(Frame)]
      BY <1>6, ArrivalType DEF LoseFrame
    <2>2. faults' \in 0 .. MaxFaults
      BY <1>6, Constants DEF LoseFrame, TypeOK
    <2>3. trouble' \subseteq {"imageLost", "sampleLost", "forced", "late", "skewed", "doubled", "restarted"}
      BY <1>6 DEF LoseFrame, TypeOK
    <2>4. QED BY <1>6, <2>1, <2>2, <2>3 DEF LoseFrame, skipVars, workerVars, runVars, TypeOK
  <1>7. ASSUME NEW w \in Workers, TakeWork(w) PROVE TypeOK'
    <2>1. slot' \in [Workers -> Job] /\ job' \in [Workers -> Job]
      BY <1>7, NoJobType DEF TakeWork, TypeOK
    <2>2. \A m \in Modes : FirstStage(m) \in Stages
      BY DEF FirstStage, Modes, Stages
    <2>3. slot[w].mode \in Modes
      BY DEF TypeOK, Job
    <2>4. stage' \in [Workers -> Stages]
      BY <1>7, <2>2, <2>3 DEF TakeWork, TypeOK
    <2>5. QED BY <1>7, <2>1, <2>4 DEF TakeWork, skipVars, TypeOK
  <1>8. ASSUME NEW w \in Workers, Works(w), ~ TakeWork(w) PROVE TypeOK'
    <2>1. job[w] \in Job /\ counter \in Nat /\ joined \in Nat
      BY DEF TypeOK
    <2>2. AtLeast(counter, job[w].n) \in Nat
      <3>1. job[w].n \in Int
        BY <2>1, JobParts
      <3>2. QED BY <2>1, <3>1 DEF AtLeast
    <2>3. counter' \in Nat /\ joined' \in Nat /\ slot' = slot
      <3>1. joined' \in {joined, joined + 1}
            /\ counter' \in {counter, counter + 1, AtLeast(counter, job[w].n)}
            /\ slot' = slot
        BY <1>8 DEF Works, Wait, GoOn, SkipImage, EnsureNumber, ProcessImage, FinishWork
      <3>2. QED BY <2>1, <2>2, <3>1
    <2>4. job' \in [Workers -> Job] /\ waiting' \in [Workers -> BOOLEAN]
      BY <1>8, NoJobType DEF Works, Wait, GoOn, SkipImage, EnsureNumber, ProcessImage, FinishWork, TypeOK
    <2>5. stage' \in [Workers -> Stages]
      BY <1>8 DEF Works, Wait, GoOn, SkipImage, EnsureNumber, ProcessImage, FinishWork, Stages, TypeOK
    <2>6. QED BY <1>8, <2>3, <2>4, <2>5, WorksEffect DEF skipVars, TypeOK
  <1>9. CASE UNCHANGED vars
    BY <1>9 DEF vars, skipVars, workerVars, runVars, TypeOK
  <1>10. QED BY <1>1, <1>2, <1>3, <1>4, <1>5, <1>6, <1>7, <1>8, <1>9 DEF Next, Works

-----------------------------------------------------------------------------
(* Frames are taken in the order of their triggers.                        *)

OrderedWith(images, queues, w) ==
    /\ Ordered(handed.image, FramesOf(images), w[Image], cycle)
    /\ \A s \in Sensors : Ordered(handed.samples[s], queues[s], w[s], cycle)

NextTaken ==
    /\ Before(handed.image, handed'.image)
    /\ \A s \in Sensors :
          handed'.samples[s] # NoFrame => Before(handed.samples[s], handed'.samples[s])

LEMMA InOrderWith ==
    ASSUME TypeOK
    PROVE  InOrder <=> OrderedWith(imageQueue, sampleQueue, wire)
  BY Types DEF InOrder, OrderedWith, Sources

LEMMA StartKeepsOrder ==
    ASSUME TypeOK, TypeOK', NEW n \in Numbers, NEW images \in Seq(Queued), images # <<>>,
           NEW queues \in [Sensors -> Seq(Frame)], NEW noted \in NotedTypes,
           StartProcessing(n, images, queues, noted),
           OrderedWith(images, queues, wire'), cycle' = cycle
    PROVE  InOrder' /\ NextTaken
  <1>1. /\ imageQueue' = Tail(images)
        /\ \A s \in Sensors :
              sampleQueue'[s] = IF queues[s] = <<>> THEN <<>> ELSE Tail(queues[s])
        /\ handed'.image = Head(images).frame
        /\ \A s \in Sensors :
              handed'.samples[s] = IF queues[s] = <<>> THEN NoFrame ELSE Head(queues[s])
    BY StartEffect
  <1>2. /\ cycle \in Nat
        /\ handed.image \in Frame \cup {NoFrame}
        /\ \A s \in Sensors : handed.samples[s] \in Frame \cup {NoFrame}
        /\ \A c \in Sources : wire'[c] \in Seq(Frame)
    BY Types, Constants DEF TypeOK, Sources
  <1>3. /\ Before(handed.image, handed'.image)
        /\ Ordered(handed'.image, FramesOf(imageQueue'), wire'[Image], cycle)
    <2>1. /\ FramesOf(images) \in Seq(Frame) /\ FramesOf(images) # <<>>
          /\ FramesOf(Tail(images)) = Tail(FramesOf(images))
          /\ Head(images).frame = Head(FramesOf(images))
      BY FramesOfType, FramesOfTail
    <2>2. wire'[Image] \in Seq(Frame) /\ Ordered(handed.image, FramesOf(images), wire'[Image], cycle)
      BY <1>2, Constants DEF OrderedWith
    <2>3. /\ Before(handed.image, Head(FramesOf(images)))
          /\ Ordered(Head(FramesOf(images)), Tail(FramesOf(images)), wire'[Image], cycle)
      BY <1>2, <2>1, <2>2, HandOutOrdered
    <2>4. QED BY <1>1, <2>1, <2>3
  <1>4. ASSUME NEW s \in Sensors
        PROVE  /\ handed'.samples[s] # NoFrame => Before(handed.samples[s], handed'.samples[s])
               /\ Ordered(handed'.samples[s], sampleQueue'[s], wire'[s], cycle)
    <2>1. /\ queues[s] \in Seq(Frame) /\ wire'[s] \in Seq(Frame)
          /\ Ordered(handed.samples[s], queues[s], wire'[s], cycle)
      BY <1>2 DEF OrderedWith, Sources
    <2>2. CASE queues[s] = <<>>
      <3>1. Ordered(NoFrame, <<>>, wire'[s], cycle)
        BY <1>2, <2>1, NothingOrdered
      <3>2. QED BY <1>1, <2>2, <3>1
    <2>3. CASE queues[s] # <<>>
      <3>1. /\ Before(handed.samples[s], Head(queues[s]))
            /\ Ordered(Head(queues[s]), Tail(queues[s]), wire'[s], cycle)
        BY <1>2, <2>1, <2>3, HandOutOrdered
      <3>2. QED BY <1>1, <2>3, <3>1
    <2>4. QED BY <2>2, <2>3
  <1>5. OrderedWith(imageQueue, sampleQueue, wire)'
    BY <1>3, <1>4 DEF OrderedWith
  <1>6. InOrder'
    <2>1. InOrder' <=> OrderedWith(imageQueue, sampleQueue, wire)'
      BY InOrderWith, PTL
    <2>2. QED BY <1>5, <2>1
  <1>7. QED BY <1>3, <1>4, <1>6 DEF NextTaken

LEMMA PrimedInOrder ==
    ASSUME TypeOK', OrderedWith(imageQueue, sampleQueue, wire)'
    PROVE  InOrder'
  <1>1. InOrder' <=> OrderedWith(imageQueue, sampleQueue, wire)'
    BY InOrderWith, PTL
  <1>2. QED BY <1>1

\* A frame is gone from the wire, nothing else changes.
LEMMA GoneKeepsOrder ==
    ASSUME TypeOK, TypeOK', InOrder, NEW c \in Sources, Arrives(c), Receive(c),
           UNCHANGED <<cycle, imageQueue, sampleQueue, handed>>
    PROVE  InOrder'
  <1>1. OrderedWith(imageQueue, sampleQueue, wire)
    BY InOrderWith
  <1>2. /\ wire'[c] = Tail(wire[c])
        /\ \A d \in Sources \ {c} : wire'[d] = wire[d]
    BY ArrivalType
  <1>3. Ordered(HandedOf(c), Waiting(c), wire'[c], cycle)
    BY <1>2, Types, ArrivalOrdered DEF InOrder, Arrives
  <1>4. \A d \in Sources : Ordered(HandedOf(d), Waiting(d), wire'[d], cycle)
    BY <1>2, <1>3 DEF InOrder
  <1>5. QED BY <1>4 DEF InOrder, HandedOf, Waiting

LEMMA OrderImage ==
    ASSUME TypeOK, TypeOK', InOrder, DataImage
    PROVE  InOrder' /\ (handed' = handed \/ NextTaken)
  <1> DEFINE f == Arriving(Image)
  <1>1. /\ Image \in Sources /\ Arrives(Image) /\ Receive(Image) /\ cycle' = cycle
    BY DataImageEffect, Constants
  <1>2. PICK images \in Seq(Queued), noted \in NotedTypes :
          /\ images # <<>>
          /\ FramesOf(images) = Append(FramesOf(imageQueue), f)
          /\ \/ StartProcessing(f.n, images, sampleQueue, noted)
             \/ Enqueue(images, sampleQueue, noted)
    BY DataImageEffect
  <1>3. f \in Frame /\ f.n \in Numbers /\ f = Head(wire[Image])
    BY <1>1, ArrivalType DEF Arriving
  <1> HIDE DEF f
  <1>4. /\ wire'[Image] = Tail(wire[Image])
        /\ \A d \in Sources \ {Image} : wire'[d] = wire[d]
    BY <1>1, ArrivalType
  <1>5. OrderedWith(imageQueue, sampleQueue, wire)
    BY InOrderWith
  <1>6. Ordered(handed.image, FramesOf(images), wire'[Image], cycle)
    <2>1. /\ handed.image \in Frame \cup {NoFrame} /\ FramesOf(imageQueue) \in Seq(Frame)
          /\ wire[Image] \in Seq(Frame) /\ cycle \in Nat
      BY <1>1, Types
    <2>2. Ordered(handed.image, FramesOf(imageQueue), wire[Image], cycle) /\ wire[Image] # <<>>
      BY <1>1, <1>5 DEF OrderedWith, Arrives
    <2>3. QED BY <1>2, <1>3, <1>4, <2>1, <2>2, ArrivalOrdered
  <1>7. OrderedWith(images, sampleQueue, wire')
    BY <1>4, <1>5, <1>6, Constants DEF OrderedWith, Sources
  <1>8. CASE StartProcessing(f.n, images, sampleQueue, noted)
    BY <1>1, <1>2, <1>3, <1>7, <1>8, StartKeepsOrder DEF TypeOK
  <1>9. CASE Enqueue(images, sampleQueue, noted)
    <2>1. imageQueue' = images /\ sampleQueue' = sampleQueue /\ handed' = handed
      BY <1>9 DEF Enqueue
    <2>2. OrderedWith(imageQueue, sampleQueue, wire)'
      BY <1>1, <1>7, <2>1 DEF OrderedWith
    <2>3. QED BY <2>1, <2>2, PrimedInOrder
  <1>10. QED BY <1>2, <1>8, <1>9

LEMMA OrderSample ==
    ASSUME TypeOK, TypeOK', InOrder, NEW s \in Sensors, DataSample(s)
    PROVE  InOrder' /\ (handed' = handed \/ NextTaken)
  <1> DEFINE f == Arriving(s)
  <1>1. /\ s \in Sources /\ Arrives(s) /\ Receive(s) /\ cycle' = cycle
    BY DataSampleEffect DEF Sources
  <1>2. PICK queues \in [Sensors -> Seq(Frame)], noted \in NotedTypes :
          /\ queues[s] = Append(sampleQueue[s], f)
          /\ \A t \in Sensors \ {s} : queues[t] = sampleQueue[t]
          /\ \/ imageQueue # <<>> /\ StartProcessing(f.n, imageQueue, queues, noted)
             \/ Enqueue(imageQueue, queues, noted)
    BY DataSampleEffect
  <1>3. f \in Frame /\ f.n \in Numbers /\ f = Head(wire[s])
    BY <1>1, ArrivalType DEF Arriving
  <1> HIDE DEF f
  <1>4. /\ wire'[s] = Tail(wire[s])
        /\ \A d \in Sources \ {s} : wire'[d] = wire[d]
    BY <1>1, ArrivalType
  <1>5. OrderedWith(imageQueue, sampleQueue, wire)
    BY InOrderWith
  <1>6. Ordered(handed.samples[s], queues[s], wire'[s], cycle)
    <2>1. /\ handed.samples[s] \in Frame \cup {NoFrame} /\ sampleQueue[s] \in Seq(Frame)
          /\ wire[s] \in Seq(Frame) /\ cycle \in Nat
      BY <1>1, Types
    <2>2. Ordered(handed.samples[s], sampleQueue[s], wire[s], cycle) /\ wire[s] # <<>>
      BY <1>1, <1>5 DEF OrderedWith, Arrives
    <2>3. QED BY <1>2, <1>3, <1>4, <2>1, <2>2, ArrivalOrdered
  <1>7. OrderedWith(imageQueue, queues, wire')
    <2>1. Image # s
      BY Constants
    <2>2. QED BY <1>2, <1>4, <1>5, <1>6, <2>1, Constants DEF OrderedWith, Sources
  <1>8. CASE imageQueue # <<>> /\ StartProcessing(f.n, imageQueue, queues, noted)
    <2>1. imageQueue \in Seq(Queued)
      BY DEF TypeOK
    <2>2. QED BY <1>1, <1>2, <1>3, <1>7, <1>8, <2>1, StartKeepsOrder
  <1>9. CASE Enqueue(imageQueue, queues, noted)
    <2>1. imageQueue' = imageQueue /\ sampleQueue' = queues /\ handed' = handed
      BY <1>9 DEF Enqueue
    <2>2. OrderedWith(imageQueue, sampleQueue, wire)'
      BY <1>1, <1>7, <2>1 DEF OrderedWith
    <2>3. QED BY <2>1, <2>2, PrimedInOrder
  <1>10. QED BY <1>2, <1>8, <1>9

LEMMA OrderStart ==
    ASSUME TypeOK, TypeOK', InOrder, StartInspect
    PROVE  InOrder' /\ handed' = handed
  <1>1. /\ cycle \in Nat /\ cycle + 1 <= MaxCycles /\ cycle' = cycle + 1 /\ needed' \in SUBSET Sensors
        /\ UNCHANGED <<imageQueue, sampleQueue, handed>>
    BY StartInspectEffect, Types DEF StartInspect
  <1>2. ASSUME NEW c \in Sources
        PROVE  Ordered(HandedOf(c), Waiting(c), wire'[c], cycle + 1)
    <2>1. PICK k \in 0 .. Len(wire[c]) :
             wire'[c] = IF c \in {Image} \cup needed'
                        THEN SubSeq(wire[c], 1, k) \o Burst(cycle + 1, needed')
                        ELSE SubSeq(wire[c], 1, k)
      BY StartInspectEffect
    <2>2. /\ wire[c] \in Seq(Frame) /\ Waiting(c) \in Seq(Frame)
          /\ HandedOf(c) \in Frame \cup {NoFrame}
          /\ Ordered(HandedOf(c), Waiting(c), wire[c], cycle)
      BY Types DEF InOrder
    <2>3. /\ SubSeq(wire[c], 1, k) \in Seq(Frame)
          /\ Ordered(HandedOf(c), Waiting(c), SubSeq(wire[c], 1, k), cycle)
      BY <2>2, EndOrdered
    <2>4. CASE c \in {Image} \cup needed'
      <3> DEFINE w == SubSeq(wire[c], 1, k)
      <3>1. w \in Seq(Frame) /\ Ordered(HandedOf(c), Waiting(c), w, cycle)
        BY <2>3
      <3>2. wire'[c] = w \o Burst(cycle + 1, needed')
        BY <2>1, <2>4
      <3> HIDE DEF w
      <3>3. Ordered(HandedOf(c), Waiting(c), w \o Burst(cycle + 1, needed'), cycle + 1)
        BY <1>1, <2>2, <3>1, BurstOrdered
      <3>4. QED BY <3>2, <3>3
    <2>5. CASE c \notin {Image} \cup needed'
      BY <1>1, <2>1, <2>2, <2>3, <2>5, LaterOrdered
    <2>6. QED BY <2>4, <2>5
  <1>3. QED BY <1>1, <1>2 DEF InOrder, HandedOf, Waiting

LEMMA OrderStop ==
    ASSUME TypeOK, TypeOK', InOrder, StopInspect
    PROVE  InOrder' /\ handed' = NoJob
  <1>1. /\ cycle \in Nat /\ cycle' = cycle /\ handed' = NoJob
        /\ imageQueue' = <<>> /\ \A s \in Sensors : sampleQueue'[s] = <<>>
    BY Types DEF StopInspect
  <1>2. FramesOf(imageQueue') = <<>>
    <2>1. <<>> \in Seq(Queued)
      OBVIOUS
    <2>2. QED BY <1>1, <2>1, FramesOfType
  <1>3. ASSUME NEW c \in Sources PROVE Ordered(NoFrame, <<>>, wire'[c], cycle)
    <2>1. PICK k \in 0 .. Len(wire[c]) : wire'[c] = SubSeq(wire[c], 1, k)
      BY StopInspectEffect
    <2>2. /\ wire[c] \in Seq(Frame)
          /\ Ordered(HandedOf(c), Waiting(c), wire[c], cycle)
      BY Types DEF InOrder
    <2>3. /\ SubSeq(wire[c], 1, k) \in Seq(Frame)
          /\ Ordered(HandedOf(c), Waiting(c), SubSeq(wire[c], 1, k), cycle)
      BY <2>2, EndOrdered
    <2>4. QED BY <1>1, <2>1, <2>3, NothingOrdered
  <1>4. /\ handed'.image = NoFrame
        /\ \A s \in Sensors : handed'.samples[s] = NoFrame
    BY <1>1, NoJobType
  <1>5. OrderedWith(imageQueue, sampleQueue, wire)'
    BY <1>1, <1>2, <1>3, <1>4, Constants DEF OrderedWith, Sources
  <1>6. QED BY <1>1, <1>5, PrimedInOrder

\* No step breaks the order, and what is handed out follows what was.
LEMMA OrderStep ==
    ASSUME TypeOK, TypeOK', InOrder, [Next]_vars
    PROVE  InOrder' /\ (handed' = handed \/ handed' = NoJob \/ NextTaken)
  <1>1. CASE StartInspect
    BY <1>1, OrderStart
  <1>2. CASE StopInspect
    BY <1>2, OrderStop
  <1>3. CASE DataImage
    BY <1>3, OrderImage
  <1>4. ASSUME NEW s \in Sensors, DataSample(s)
        PROVE  InOrder' /\ (handed' = handed \/ NextTaken)
    BY <1>4, OrderSample
  <1>5. ASSUME NEW c \in Sources, DropFrame(c) \/ LoseFrame(c) PROVE InOrder' /\ handed' = handed
    <2>1. Arrives(c) /\ Receive(c) /\ UNCHANGED <<cycle, imageQueue, sampleQueue, handed>>
      BY <1>5 DEF DropFrame, LoseFrame
    <2>2. QED BY <2>1, GoneKeepsOrder
  <1>6. CASE UNCHANGED <<wire, cycle, imageQueue, sampleQueue, handed>>
    BY <1>6 DEF InOrder, HandedOf, Waiting
  <1>7. ASSUME NEW w \in Workers, Works(w)
        PROVE  UNCHANGED <<wire, cycle, imageQueue, sampleQueue, handed>>
    BY <1>7, WorksEffect
  <1>8. UNCHANGED vars => UNCHANGED <<wire, cycle, imageQueue, sampleQueue, handed>>
    BY DEF vars
  <1>9. QED BY <1>1, <1>2, <1>3, <1>4, <1>5, <1>6, <1>7, <1>8 DEF Next, Works

LEMMA InitOrder == Init => InOrder
  <1> SUFFICES ASSUME Init PROVE InOrder OBVIOUS
  <1>1. TypeOK
    BY InitTypes
  <1>2. ASSUME NEW c \in Sources PROVE Ordered(NoFrame, <<>>, wire[c], cycle)
    <2>1. wire[c] = <<>> /\ cycle = 0 /\ NoFrame.cycle = 0 /\ DOMAIN <<>> = {}
      BY Constants DEF Init
    <2>2. QED BY <2>1 DEF Ordered
  <1>3. FramesOf(<<>>) = <<>>
    <2>1. <<>> \in Seq(Queued)
      OBVIOUS
    <2>2. QED BY <2>1, FramesOfType
  <1>4. OrderedWith(imageQueue, sampleQueue, wire)
    BY <1>2, <1>3, NoJobType, Constants DEF Init, OrderedWith, Sources
  <1>5. QED BY <1>1, <1>4, InOrderWith

\* The variables have their types, and between two inspections no image and no
\* sample waits in the queues of the manager.
THEOREM TypeCorrect == Spec => []TypeOK
  <1>1. QED BY InitTypes, TypeStep, PTL DEF Spec

LEMMA AlwaysInOrder == Spec => [](TypeOK /\ InOrder)
  <1>1. TypeOK /\ InOrder /\ [Next]_vars => (TypeOK /\ InOrder)'
    BY TypeStep, OrderStep
  <1>2. Init => TypeOK /\ InOrder
    BY InitTypes, InitOrder
  <1>3. QED BY <1>1, <1>2, PTL DEF Spec

\* The handlers data(image) and data(sample) take the images, and the samples
\* of each sensor, in the order they were triggered and none of them twice,
\* whatever is lost, forced through, refused by a full work slot or restarted.
THEOREM FramesTakenInOrder == Spec => TakenInOrder
  <1> DEFINE Follows == handed' # handed /\ handed # NoJob /\ handed' # NoJob =>
          /\ Before(handed.image, handed'.image)
          /\ \A s \in Sensors :
                handed.samples[s] # NoFrame /\ handed'.samples[s] # NoFrame
                   => Before(handed.samples[s], handed'.samples[s])
  <1>1. TypeOK /\ InOrder /\ [Next]_vars => [Follows]_vars
    BY TypeStep, OrderStep DEF NextTaken
  <1>2. QED BY <1>1, AlwaysInOrder, PTL DEF Spec, TakenInOrder

-----------------------------------------------------------------------------
(* The work of the workers belongs to the active interval.                 *)

LEMMA IntervalReached ==
    ASSUME NEW n, interval' = IntervalOf(n)
    PROVE  IntervalOf(n)' = interval'
  BY DEF IntervalOf

LEMMA IntervalKept ==
    ASSUME NEW n, interval' = interval
    PROVE  IntervalOf(n)' = IntervalOf(n)
  BY DEF IntervalOf

\* A frame arrives: if its interval is another one, the workers are idle.
LEMMA ArrivalKeepsInterval ==
    ASSUME TypeOK, TypeOK', Resting, InInterval, NEW n \in Numbers, interval # 0,
           ChangeSeamInterval(IntervalOf(n)), job' = job,
           \A w \in Workers : \/ slot'[w] = slot[w]
                              \/ slot'[w] # NoJob /\ slot'[w].n = n
    PROVE  InInterval' /\ Resting'
  <1>1. /\ IntervalOf(n) \in 0 .. Len(Ends) /\ IntervalOf(n) # 0
        /\ interval' = IntervalOf(n) /\ (IntervalOf(n) # interval => Idle)
    <2>1. IntervalOf(n) \in 0 .. Len(Ends) /\ IntervalOf(n) # 0
      BY IntervalOfType DEF TypeOK
    <2>2. QED BY <2>1, ChangeType
  <1>2. IntervalOf(n)' = interval'
    BY <1>1, IntervalReached
  <1>3. ASSUME NEW w \in Workers, NEW j \in {slot[w], job[w]} \ {NoJob}
        PROVE  IntervalOf(j.n)' = interval'
    <2>1. ~ Idle
      BY DEF Idle
    <2>2. interval' = interval
      BY <1>1, <2>1
    <2>3. IntervalOf(j.n) = interval
      BY DEF InInterval
    <2>4. QED BY <2>2, <2>3, IntervalKept
  <1>4. ASSUME NEW w \in Workers, NEW j \in {slot'[w], job'[w]} \ {NoJob}
        PROVE  IntervalOf(j.n)' = interval'
    <2>1. j \in {slot[w], job[w]} \ {NoJob} \/ j.n = n
      OBVIOUS
    <2>2. QED BY <1>2, <1>3, <2>1
  <1>5. InInterval'
    BY <1>4 DEF InInterval
  <1>6. QED BY <1>1, <1>5 DEF Resting

\* Only a frame changes the interval or brings work.
LEMMA IntervalStep ==
    ASSUME TypeOK, TypeOK', Resting, InInterval, [Next]_vars
    PROVE  Resting' /\ InInterval'
  <1>1. CASE StartInspect
    <2>1. 1 \in 0 .. Len(Ends)
      BY Constants
    <2>2. /\ interval' = 1 /\ UNCHANGED <<slot, job>>
          /\ 1 # interval => interval = 0 \/ Idle
      BY <1>1, <2>1, ChangeType DEF StartInspect, runVars
    <2>3. CASE Idle
      BY <2>2, <2>3 DEF Idle, InInterval, Resting
    <2>4. CASE interval' = interval
      <3>1. ASSUME NEW w \in Workers, NEW j \in {slot[w], job[w]} \ {NoJob}
            PROVE  IntervalOf(j.n)' = interval'
        BY <2>4, IntervalKept DEF InInterval
      <3>2. QED BY <2>2, <3>1 DEF InInterval, Resting
    <2>5. QED BY <2>2, <2>3, <2>4 DEF Resting
  <1>2. CASE StopInspect
    BY <1>2 DEF StopInspect, runVars, Idle, InInterval, Resting
  <1>3. CASE DataImage
    <2> DEFINE f == Arriving(Image)
    <2>1. /\ Arrives(Image) /\ Current(f) /\ ChangeSeamInterval(IntervalOf(f.n)) /\ job' = job
          /\ \E images \in Seq(Queued), noted \in NotedTypes :
                /\ images # <<>>
                /\ \/ StartProcessing(f.n, images, sampleQueue, noted)
                   \/ Enqueue(images, sampleQueue, noted)
      BY <1>3, DataImageEffect DEF runVars
    <2>2. f.n \in Numbers /\ interval # 0
      BY <2>1, ArrivalType, Constants DEF Current
    <2> HIDE DEF f
    <2>3. sampleQueue \in [Sensors -> Seq(Frame)]
      BY DEF TypeOK
    <2>4. \A w \in Workers : slot'[w] = slot[w] \/ (slot'[w] # NoJob /\ slot'[w].n = f.n)
      BY <2>1, <2>2, <2>3, StartEffect DEF Enqueue
    <2>5. QED BY <2>1, <2>2, <2>4, ArrivalKeepsInterval
  <1>4. ASSUME NEW s \in Sensors, DataSample(s) PROVE Resting' /\ InInterval'
    <2> DEFINE f == Arriving(s)
    <2>1. /\ Arrives(s) /\ Current(f) /\ ChangeSeamInterval(IntervalOf(f.n)) /\ job' = job
          /\ \E queues \in [Sensors -> Seq(Frame)], noted \in NotedTypes :
                \/ imageQueue # <<>> /\ StartProcessing(f.n, imageQueue, queues, noted)
                \/ Enqueue(imageQueue, queues, noted)
      BY <1>4, DataSampleEffect DEF runVars
    <2>2. f.n \in Numbers /\ interval # 0
      BY <2>1, ArrivalType DEF Current, Sources
    <2> HIDE DEF f
    <2>3. imageQueue \in Seq(Queued)
      BY DEF TypeOK
    <2>4. \A w \in Workers : slot'[w] = slot[w] \/ (slot'[w] # NoJob /\ slot'[w].n = f.n)
      BY <2>1, <2>2, <2>3, StartEffect DEF Enqueue
    <2>5. QED BY <2>1, <2>2, <2>4, ArrivalKeepsInterval
  <1>5. ASSUME NEW w \in Workers, Works(w) PROVE Resting' /\ InInterval'
    <2>1. /\ interval' = interval /\ handed' = handed
          /\ ~ Idle
      BY <1>5, WorksEffect
      DEF Works, TakeWork, Running, Wait, SkipImage, EnsureNumber, ProcessImage, FinishWork, Idle
    <2>2. \A v \in Workers : \A j \in {slot'[v], job'[v]} \ {NoJob} : j \in {slot[v], job[v]}
      BY <1>5
      DEF Works, TakeWork, Wait, GoOn, SkipImage, EnsureNumber, ProcessImage, FinishWork, TypeOK
    <2>3. ASSUME NEW v \in Workers, NEW j \in {slot'[v], job'[v]} \ {NoJob}
          PROVE  IntervalOf(j.n)' = interval'
      BY <2>1, <2>2, IntervalKept DEF InInterval
    <2>4. InInterval'
      BY <2>3 DEF InInterval
    <2>5. QED BY <2>1, <2>4 DEF Resting
  <1>6. CASE UNCHANGED <<interval, handed, slot, job>>
    <2>1. ASSUME NEW v \in Workers, NEW j \in {slot[v], job[v]} \ {NoJob}
          PROVE  IntervalOf(j.n)' = interval'
      BY <1>6, IntervalKept DEF InInterval
    <2>2. InInterval'
      BY <1>6, <2>1 DEF InInterval
    <2>3. QED BY <1>6, <2>2 DEF Resting, Idle
  <1>7. \A c \in Sources : DropFrame(c) \/ LoseFrame(c) => UNCHANGED <<interval, handed, slot, job>>
    BY DEF DropFrame, LoseFrame, workerVars, runVars
  <1>8. UNCHANGED vars => UNCHANGED <<interval, handed, slot, job>>
    BY DEF vars, workerVars, runVars
  <1>9. QED BY <1>1, <1>2, <1>3, <1>4, <1>5, <1>6, <1>7, <1>8 DEF Next, Works

-----------------------------------------------------------------------------
(* No frame of a source is missing.                                        *)

\* The next frame under way belongs to this inspection: none of an earlier one
\* is before it, and it follows what waits.
LEMMA ArrivalComplete ==
    ASSUME NEW q \in Seq(Frame), NEW w \in Seq(Frame), w # <<>>,
           NEW next \in Int, NEW total \in Int, NEW now \in Nat,
           CompleteOf(q, w, next, total, now), Head(w).cycle = now
    PROVE  /\ Head(w) = [cycle |-> now, n |-> next + Len(q)]
           /\ CompleteOf(Append(q, Head(w)), Tail(w), next, total, now)
  <1> DEFINE old == Len(w) + Len(q) + next - total
             r == Append(q, Head(w))
             v == Tail(w)
  <1>1. /\ Head(w) = w[1] /\ Head(w) \in Frame /\ DOMAIN w = 1 .. Len(w)
        /\ Len(w) \in Nat /\ Len(w) >= 1
        /\ DOMAIN v = 1 .. (Len(w) - 1) /\ Len(v) = Len(w) - 1
        /\ \A j \in 1 .. (Len(w) - 1) : v[j] = w[j + 1]
    BY TailOf
  <1>2. /\ DOMAIN r = 1 .. (Len(q) + 1) /\ Len(r) = Len(q) + 1
        /\ DOMAIN q = 1 .. Len(q) /\ Len(q) \in Nat
        /\ \A i \in 1 .. Len(q) : r[i] = q[i]
        /\ r[Len(q) + 1] = Head(w)
    BY <1>1, AppendOf
  <1> HIDE DEF r, v
  <1>3. old \in Int /\ 0 <= old
    BY <1>1, <1>2 DEF CompleteOf
  <1> HIDE DEF old
  <1>4. \A j \in 1 .. Len(w) : IF j <= old THEN w[j].cycle < now
                      ELSE w[j] = [cycle |-> now, n |-> next + Len(q) + (j - old) - 1]
    BY <1>1 DEF CompleteOf, old
  <1>5. ~ 1 <= old
    BY <1>1, <1>4
  <1>6. old = 0
    BY <1>3, <1>5
  <1>7. \A j \in 1 .. Len(w) : w[j] = [cycle |-> now, n |-> next + Len(q) + j - 1]
    BY <1>4, <1>6, <1>1, <1>2
  <1>8. Head(w) = [cycle |-> now, n |-> next + Len(q)]
    BY <1>1, <1>2, <1>7
  <1>9. Len(v) + Len(r) + next - total = 0
    BY <1>1, <1>2, <1>6 DEF old
  <1>10. \A i \in DOMAIN r : r[i] = [cycle |-> now, n |-> next + i - 1]
    <2> TAKE i \in DOMAIN r
    <2>1. i \in 1 .. Len(q) \/ i = Len(q) + 1
      BY <1>2
    <2>2. CASE i \in 1 .. Len(q)
      BY <1>2, <2>2 DEF CompleteOf
    <2>3. CASE i = Len(q) + 1
      BY <1>2, <1>8, <2>3
    <2>4. QED BY <2>1, <2>2, <2>3
  <1>11. \A j \in DOMAIN v : v[j] = [cycle |-> now, n |-> next + Len(r) + (j - 0) - 1]
    <2> TAKE j \in DOMAIN v
    <2>1. j \in Int /\ j + 1 \in 1 .. Len(w) /\ v[j] = w[j + 1]
      BY <1>1
    <2>2. next + Len(q) + (j + 1) - 1 = next + Len(r) + (j - 0) - 1
      BY <1>2, <2>1
    <2>3. QED BY <1>7, <2>1, <2>2
  <1>12. \A j \in DOMAIN v : ~ j <= 0
    BY <1>1
  <1>13. CompleteOf(r, v, next, total, now)
    BY <1>1, <1>9, <1>10, <1>11, <1>12 DEF CompleteOf
  <1>14. QED BY <1>8, <1>13 DEF r, v

\* The oldest of the waiting frames is handed out.
LEMMA HandOutComplete ==
    ASSUME NEW q \in Seq(Frame), NEW w \in Seq(Frame), q # <<>>,
           NEW next \in Int, NEW total \in Int, NEW now \in Nat,
           CompleteOf(q, w, next, total, now)
    PROVE  /\ Head(q) = [cycle |-> now, n |-> next]
           /\ CompleteOf(Tail(q), w, next + 1, total, now)
  <1> DEFINE r == Tail(q)
  <1>1. /\ Head(q) = q[1] /\ DOMAIN q = 1 .. Len(q)
        /\ Len(q) \in Nat /\ Len(q) >= 1
        /\ DOMAIN r = 1 .. (Len(q) - 1) /\ Len(r) = Len(q) - 1
        /\ \A j \in 1 .. (Len(q) - 1) : r[j] = q[j + 1]
        /\ Len(w) \in Nat /\ DOMAIN w = 1 .. Len(w)
    BY TailOf
  <1> HIDE DEF r
  <1>2. Head(q) = [cycle |-> now, n |-> next]
    <2>1. q[1] = [cycle |-> now, n |-> next + 1 - 1]
      BY <1>1 DEF CompleteOf
    <2>2. QED BY <1>1, <2>1
  <1>3. \A i \in DOMAIN r : r[i] = [cycle |-> now, n |-> next + 1 + i - 1]
    <2> TAKE i \in DOMAIN r
    <2>1. i \in Int /\ i + 1 \in DOMAIN q /\ r[i] = q[i + 1]
      BY <1>1
    <2>2. q[i + 1] = [cycle |-> now, n |-> next + (i + 1) - 1]
      BY <2>1 DEF CompleteOf
    <2>3. QED BY <2>1, <2>2
  <1>4. Len(w) + Len(r) + (next + 1) - total = Len(w) + Len(q) + next - total
    BY <1>1
  <1>5. next + 1 + Len(r) = next + Len(q)
    BY <1>1
  <1>6. CompleteOf(r, w, next + 1, total, now)
    BY <1>3, <1>4, <1>5 DEF CompleteOf
  <1>7. QED BY <1>2, <1>6 DEF r

\* A frame of an earlier inspection is thrown away.
LEMMA DropComplete ==
    ASSUME NEW q \in Seq(Frame), NEW w \in Seq(Frame), w # <<>>,
           NEW next \in Int, NEW total \in Int, NEW now \in Nat,
           CompleteOf(q, w, next, total, now), Head(w).cycle # now
    PROVE  CompleteOf(q, Tail(w), next, total, now)
  <1> DEFINE old == Len(w) + Len(q) + next - total
             v == Tail(w)
  <1>1. /\ Head(w) = w[1] /\ Head(w) \in Frame /\ DOMAIN w = 1 .. Len(w)
        /\ Len(w) \in Nat /\ Len(w) >= 1 /\ Len(q) \in Nat
        /\ DOMAIN v = 1 .. (Len(w) - 1) /\ Len(v) = Len(w) - 1
        /\ \A j \in 1 .. (Len(w) - 1) : v[j] = w[j + 1]
    BY TailOf
  <1>2. Len(v) + Len(q) + next - total = old - 1 /\ old \in Int /\ old <= Len(w)
    BY <1>1 DEF CompleteOf
  <1> HIDE DEF old, v
  <1>3. \A j \in 1 .. Len(w) : IF j <= old THEN w[j].cycle < now
                      ELSE w[j] = [cycle |-> now, n |-> next + Len(q) + (j - old) - 1]
    BY <1>1 DEF CompleteOf, old
  <1>4. 1 <= old
    <2>1. SUFFICES ASSUME ~ 1 <= old PROVE FALSE
      OBVIOUS
    <2>2. w[1] = [cycle |-> now, n |-> next + Len(q) + (1 - old) - 1]
      BY <1>1, <1>3, <2>1
    <2>3. w[1].cycle = now
      BY <2>2
    <2>4. QED BY <1>1, <2>3
  <1>5. \A j \in DOMAIN v :
           IF j <= old - 1 THEN v[j].cycle < now
           ELSE v[j] = [cycle |-> now, n |-> next + Len(q) + (j - (old - 1)) - 1]
    <2> TAKE j \in DOMAIN v
    <2>1. j \in Int /\ j + 1 \in 1 .. Len(w) /\ v[j] = w[j + 1]
      BY <1>1
    <2>2. j + 1 <= old <=> j <= old - 1
      BY <1>2, <2>1
    <2>3. (j + 1) - old = j - (old - 1)
      BY <1>2, <2>1
    <2>4. QED BY <1>3, <2>1, <2>2, <2>3
  <1>6. 0 <= old - 1 /\ old - 1 <= Len(v)
    BY <1>1, <1>2, <1>4
  <1>7. CompleteOf(q, v, next, total, now)
    BY <1>2, <1>5, <1>6 DEF CompleteOf
  <1>8. QED BY <1>7 DEF v

\* A new inspection: its frames are behind the ones of earlier inspections.
LEMMA BurstComplete ==
    ASSUME NEW h \in Frame \cup {NoFrame}, NEW q \in Seq(Frame), NEW w \in Seq(Frame),
           NEW now \in Nat, now + 1 <= MaxCycles, Ordered(h, q, w, now),
           NEW sensors \in SUBSET Sensors
    PROVE  CompleteOf(<<>>, w \o Burst(now + 1, sensors), 0, LastTrigger[sensors] + 1, now + 1)
  <1> DEFINE u == w \o Burst(now + 1, sensors)
  <1>1. /\ u \in Seq(Frame)
        /\ Len(u) = Len(w) + LastTrigger[sensors] + 1
        /\ \A j \in 1 .. Len(w) : u[j] = w[j]
        /\ \A j \in (Len(w) + 1) .. (Len(w) + LastTrigger[sensors] + 1) :
              u[j] = [cycle |-> now + 1, n |-> j - Len(w) - 1]
    <2>1. /\ Burst(now + 1, sensors) \in Seq(Frame)
          /\ u \in Seq(Frame)
          /\ Len(u) = Len(w) + LastTrigger[sensors] + 1
          /\ \A j \in 1 .. Len(w) : u[j] = w[j]
          /\ \A j \in (Len(w) + 1) .. (Len(w) + LastTrigger[sensors] + 1) :
                u[j] = [cycle |-> now + 1, n |-> j - Len(w) - 1]
          /\ Ordered(h, q, u, now + 1)
      BY BurstOrdered, Zenon
    <2>2. QED BY <2>1
  <1>2. Len(w) \in Nat /\ DOMAIN w = 1 .. Len(w) /\ DOMAIN u = 1 .. Len(u)
    BY <1>1
  <1> HIDE DEF u
  <1>3. LastTrigger[sensors] \in Nat
    BY Constants, IntakeAssumption DEF Numbers
  <1>4. \A f \in Frame : f.cycle <= now => f.cycle < now + 1
    BY Constants
  <1>5. \A j \in 1 .. Len(w) : w[j] \in Frame
    BY <1>2
  <1>6. \A j \in DOMAIN u :
           IF j <= Len(w) THEN u[j].cycle < now + 1
           ELSE u[j] = [cycle |-> now + 1, n |-> 0 + 0 + (j - Len(w)) - 1]
    <2> TAKE j \in DOMAIN u
    <2>1. j \in 1 .. Len(w) \/ j \in (Len(w) + 1) .. (Len(w) + LastTrigger[sensors] + 1)
      BY <1>1, <1>2, <1>3
    <2>2. CASE j \in 1 .. Len(w)
      BY <1>1, <1>2, <1>4, <1>5, <2>2 DEF Ordered
    <2>3. CASE j \in (Len(w) + 1) .. (Len(w) + LastTrigger[sensors] + 1)
      <3>1. ~ j <= Len(w) /\ j - Len(w) - 1 = 0 + 0 + (j - Len(w)) - 1
        BY <1>2, <1>3, <2>3
      <3>2. QED BY <1>1, <2>3, <3>1
    <2>4. QED BY <2>1, <2>2, <2>3
  <1>7. Len(<<>>) = 0 /\ DOMAIN <<>> = {}
    OBVIOUS
  <1>8. Len(u) + 0 + 0 - (LastTrigger[sensors] + 1) = Len(w) /\ Len(w) <= Len(u) /\ 0 <= Len(w)
    BY <1>1, <1>2, <1>3
  <1>9. QED BY <1>6, <1>7, <1>8 DEF CompleteOf, u

-----------------------------------------------------------------------------
(* An image is handed out with its own samples.                            *)

\* The invariant with queues that are about to change.
CompleteWith(images, queues, w) ==
    /\ CompleteOf(FramesOf(images), w[Image], NextOut, Total, cycle)
    /\ \A s \in needed : CompleteOf(queues[s], w[s], NextOut, Total, cycle)
    /\ \A s \in Sensors \ needed : Foreign(w[s], cycle)

LEMMA CompleteIs ==
    ASSUME TypeOK
    PROVE  Complete <=> CompleteWith(imageQueue, sampleQueue, wire)
  <1>1. needed \subseteq Sensors /\ Image \notin Sensors
    BY Constants DEF TypeOK
  <1>2. Sources \ Taking = Sensors \ needed
    BY <1>1 DEF Sources, Taking
  <1>3. QED BY <1>1, <1>2, Types DEF Complete, CompleteWith, Taking

LEMMA PrimedComplete ==
    ASSUME TypeOK', CompleteWith(imageQueue, sampleQueue, wire)'
    PROVE  Complete'
  <1>1. Complete' <=> CompleteWith(imageQueue, sampleQueue, wire)'
    BY CompleteIs, PTL
  <1>2. QED BY <1>1

LEMMA Numbering ==
    ASSUME TypeOK
    PROVE  NextOut \in Int /\ Total \in Int /\ needed \subseteq Sensors
  <1>1. handed.image \in Frame \cup {NoFrame}
    BY Types, Constants
  <1>2. handed.image.n \in Int
    BY <1>1, Constants
  <1>3. LastTrigger[needed] \in Int
    BY IntakeAssumption, Constants DEF TypeOK
  <1>4. QED BY <1>2, <1>3 DEF NextOut, Total, TypeOK

\* A job starts with the frames of one number.
LEMMA StartPairs ==
    ASSUME TypeOK, TypeOK', NEW n \in Numbers, NEW images \in Seq(Queued), images # <<>>,
           NEW queues \in [Sensors -> Seq(Frame)], NEW noted \in NotedTypes,
           StartProcessing(n, images, queues, noted),
           CompleteWith(images, queues, wire'), AllSamplesQueued(queues), n = NextOut,
           UNCHANGED <<cycle, needed>>
    PROVE  Complete' /\ HandedPaired'
  <1>1. /\ imageQueue' = Tail(images)
        /\ \A s \in Sensors :
              sampleQueue'[s] = IF queues[s] = <<>> THEN <<>> ELSE Tail(queues[s])
        /\ handed'.n = n
        /\ handed'.image = Head(images).frame
        /\ \A s \in Sensors :
              handed'.samples[s] = IF queues[s] = <<>> THEN NoFrame ELSE Head(queues[s])
    BY StartEffect
  <1>2. /\ cycle \in Nat /\ NextOut \in Int /\ Total \in Int /\ needed \subseteq Sensors
        /\ \A c \in Sources : wire'[c] \in Seq(Frame)
    BY Types, Numbering DEF TypeOK
  <1>3. /\ Head(images).frame = [cycle |-> cycle, n |-> NextOut]
        /\ CompleteOf(FramesOf(imageQueue'), wire'[Image], NextOut + 1, Total, cycle)
    <2>1. /\ FramesOf(images) \in Seq(Frame) /\ FramesOf(images) # <<>>
          /\ FramesOf(Tail(images)) = Tail(FramesOf(images))
          /\ Head(images).frame = Head(FramesOf(images))
      BY FramesOfType, FramesOfTail
    <2>2. /\ wire'[Image] \in Seq(Frame)
          /\ CompleteOf(FramesOf(images), wire'[Image], NextOut, Total, cycle)
      BY <1>2, Constants DEF CompleteWith
    <2>3. /\ Head(FramesOf(images)) = [cycle |-> cycle, n |-> NextOut]
          /\ CompleteOf(Tail(FramesOf(images)), wire'[Image], NextOut + 1, Total, cycle)
      BY <1>2, <2>1, <2>2, HandOutComplete
    <2>4. QED BY <1>1, <2>1, <2>3
  <1>4. ASSUME NEW s \in needed
        PROVE  /\ handed'.samples[s] = [cycle |-> cycle, n |-> NextOut]
               /\ CompleteOf(sampleQueue'[s], wire'[s], NextOut + 1, Total, cycle)
    <2>1. /\ s \in Sensors /\ queues[s] \in Seq(Frame) /\ wire'[s] \in Seq(Frame)
          /\ queues[s] # <<>> /\ CompleteOf(queues[s], wire'[s], NextOut, Total, cycle)
      BY <1>2 DEF CompleteWith, AllSamplesQueued, Sources
    <2>2. /\ Head(queues[s]) = [cycle |-> cycle, n |-> NextOut]
          /\ CompleteOf(Tail(queues[s]), wire'[s], NextOut + 1, Total, cycle)
      BY <1>2, <2>1, HandOutComplete
    <2>3. QED BY <1>1, <2>1, <2>2
  <1>5. NextOut' = NextOut + 1 /\ Total' = Total
    <2>1. handed'.image.n = NextOut
      BY <1>1, <1>3
    <2>2. QED BY <2>1 DEF NextOut, Total
  <1>6. CompleteWith(imageQueue, sampleQueue, wire)'
    BY <1>3, <1>4, <1>5 DEF CompleteWith
  <1>7. Complete'
    BY <1>6, PrimedComplete
  <1>8. HandedPaired'
    BY <1>1, <1>3, <1>4 DEF HandedPaired
  <1>9. QED BY <1>7, <1>8

\* A frame waits.
LEMMA EnqueuePairs ==
    ASSUME TypeOK, TypeOK', NEW images, NEW queues, NEW noted,
           Enqueue(images, queues, noted),
           CompleteWith(images, queues, wire'), HandedPaired,
           UNCHANGED <<cycle, needed>>
    PROVE  Complete' /\ HandedPaired'
  <1>1. imageQueue' = images /\ sampleQueue' = queues /\ handed' = handed
    BY DEF Enqueue
  <1>2. NextOut' = NextOut /\ Total' = Total
    BY <1>1 DEF NextOut, Total
  <1>3. CompleteWith(imageQueue, sampleQueue, wire)'
    BY <1>1, <1>2 DEF CompleteWith
  <1>4. HandedPaired'
    BY <1>1 DEF HandedPaired
  <1>5. QED BY <1>3, <1>4, PrimedComplete

\* Someone waits for nobody: either the images or the samples of a sensor.
LEMMA NoneReadyIs ==
    ASSUME TypeOK
    PROVE  NoneReady <=> imageQueue = <<>> \/ \E s \in needed : sampleQueue[s] = <<>>
  <1>1. FramesOf(imageQueue) = <<>> <=> imageQueue = <<>>
    BY FramesOfType DEF TypeOK
  <1>2. needed \subseteq Sensors
    BY DEF TypeOK
  <1>3. QED BY <1>1, <1>2, Types DEF NoneReady, Taking

LEMMA PrimedNoneReady ==
    ASSUME TypeOK', (imageQueue = <<>> \/ \E s \in needed : sampleQueue[s] = <<>>)'
    PROVE  NoneReady'
  <1>1. NoneReady' <=> (imageQueue = <<>> \/ \E s \in needed : sampleQueue[s] = <<>>)'
    BY NoneReadyIs, PTL
  <1>2. QED BY <1>1

LEMMA PairsImage ==
    ASSUME TypeOK, TypeOK', Pairs, DataImage
    PROVE  Pairs'
  <1> SUFFICES ASSUME Undisturbed'
               PROVE  Complete' /\ NoneReady' /\ HandedPaired'
    BY DEF Pairs
  <1> DEFINE f == Arriving(Image)
  <1>1. /\ Arrives(Image) /\ Current(f) /\ Receive(Image)
        /\ trouble \subseteq trouble'
        /\ UNCHANGED <<cycle, needed>>
    BY DataImageEffect
  <1>2. PICK images \in Seq(Queued), noted \in NotedTypes :
          /\ images # <<>>
          /\ FramesOf(images) = Append(FramesOf(imageQueue), f)
          /\ \/ /\ AllSamplesQueued(sampleQueue) \/ "forced" \in trouble'
                /\ StartProcessing(f.n, images, sampleQueue, noted)
             \/ /\ ~ AllSamplesQueued(sampleQueue)
                /\ Enqueue(images, sampleQueue, noted)
    BY DataImageEffect
  <1>3. /\ f \in Frame /\ f.n \in Numbers /\ f = Head(wire[Image]) /\ wire[Image] # <<>>
        /\ f.cycle = cycle /\ interval # 0
    BY <1>1, ArrivalType, Constants DEF Arriving, Arrives, Current
  <1> HIDE DEF f
  <1>4. /\ wire'[Image] = Tail(wire[Image])
        /\ \A d \in Sources \ {Image} : wire'[d] = wire[d]
    BY <1>1, ArrivalType, Constants
  <1>5. Complete /\ NoneReady /\ HandedPaired
    BY <1>1, <1>3 DEF Pairs, Undisturbed
  <1>6. /\ FramesOf(imageQueue) \in Seq(Frame) /\ wire[Image] \in Seq(Frame)
        /\ cycle \in Nat /\ NextOut \in Int /\ Total \in Int /\ needed \subseteq Sensors
        /\ FramesOf(imageQueue) = <<>> <=> imageQueue = <<>>
    BY Types, Numbering, FramesOfType, Constants DEF TypeOK
  <1>7. CompleteWith(imageQueue, sampleQueue, wire)
    BY <1>5, CompleteIs
  <1>8. /\ f = [cycle |-> cycle, n |-> NextOut + Len(FramesOf(imageQueue))]
        /\ CompleteOf(FramesOf(images), wire'[Image], NextOut, Total, cycle)
    <2>1. /\ Head(wire[Image]).cycle = cycle
          /\ CompleteOf(FramesOf(imageQueue), wire[Image], NextOut, Total, cycle)
      BY <1>3, <1>7 DEF CompleteWith
    <2>2. /\ Head(wire[Image]) = [cycle |-> cycle, n |-> NextOut + Len(FramesOf(imageQueue))]
          /\ CompleteOf(Append(FramesOf(imageQueue), Head(wire[Image])), Tail(wire[Image]),
                        NextOut, Total, cycle)
      BY <1>3, <1>6, <2>1, ArrivalComplete, Zenon
    <2>3. QED BY <1>2, <1>3, <1>4, <2>2
  <1>9. CompleteWith(images, sampleQueue, wire')
    <2>1. \A s \in Sensors : wire'[s] = wire[s]
      BY <1>4, Constants DEF Sources
    <2>2. /\ \A s \in needed : CompleteOf(sampleQueue[s], wire'[s], NextOut, Total, cycle)
          /\ \A s \in Sensors \ needed : Foreign(wire'[s], cycle)
      BY <1>6, <1>7, <2>1 DEF CompleteWith
    <2>3. QED BY <1>8, <2>2 DEF CompleteWith
  <1>10. CASE AllSamplesQueued(sampleQueue) /\ StartProcessing(f.n, images, sampleQueue, noted)
    <2>1. imageQueue = <<>>
      BY <1>5, <1>10, NoneReadyIs DEF AllSamplesQueued
    <2>2. FramesOf(imageQueue) = <<>> /\ Len(<<>>) = 0
      BY <1>6, <2>1
    <2>3. f.n = NextOut
      <3>1. f.n = NextOut + 0
        BY <1>8, <2>2
      <3>2. QED BY <1>6, <3>1
    <2>4. sampleQueue \in [Sensors -> Seq(Frame)]
      BY DEF TypeOK
    <2>5. Complete' /\ HandedPaired'
      BY <1>1, <1>2, <1>3, <1>9, <1>10, <2>3, <2>4, StartPairs
    <2>6. imageQueue' = <<>>
      <3>1. imageQueue' = Tail(images)
        BY <1>2, <1>3, <1>10, <2>4, StartEffect
      <3>2. FramesOf(Tail(images)) = Tail(FramesOf(images)) /\ Tail(images) \in Seq(Queued)
        BY <1>2, FramesOfTail
      <3>3. Tail(Append(<<>>, f)) = <<>>
        OBVIOUS
      <3>4. FramesOf(Tail(images)) = <<>>
        BY <1>2, <2>2, <3>2, <3>3
      <3>5. QED BY <3>1, <3>2, <3>4, FramesOfType
    <2>7. QED BY <2>5, <2>6, PrimedNoneReady
  <1>11. CASE ~ AllSamplesQueued(sampleQueue) /\ Enqueue(images, sampleQueue, noted)
    <2>1. Complete' /\ HandedPaired'
      BY <1>1, <1>5, <1>9, <1>11, EnqueuePairs
    <2>2. \E s \in needed' : sampleQueue'[s] = <<>>
      BY <1>1, <1>11 DEF AllSamplesQueued, Enqueue
    <2>3. QED BY <2>1, <2>2, PrimedNoneReady
  <1>12. "forced" \notin trouble'
    BY DEF Undisturbed
  <1>13. QED BY <1>2, <1>10, <1>11, <1>12

LEMMA PairsSample ==
    ASSUME TypeOK, TypeOK', Pairs, NEW s \in Sensors, DataSample(s)
    PROVE  Pairs'
  <1> SUFFICES ASSUME Undisturbed'
               PROVE  Complete' /\ NoneReady' /\ HandedPaired'
    BY DEF Pairs
  <1> DEFINE f == Arriving(s)
  <1>1. /\ Arrives(s) /\ Current(f) /\ Receive(s)
        /\ trouble \subseteq trouble'
        /\ UNCHANGED <<cycle, needed>>
    BY DataSampleEffect
  <1>2. PICK queues \in [Sensors -> Seq(Frame)], noted \in NotedTypes :
          /\ queues[s] = Append(sampleQueue[s], f)
          /\ \A t \in Sensors \ {s} : queues[t] = sampleQueue[t]
          /\ \/ /\ imageQueue # <<>>
                /\ AllSamplesQueued(queues) \/ "forced" \in trouble'
                /\ StartProcessing(f.n, imageQueue, queues, noted)
             \/ /\ imageQueue = <<>> \/ ~ AllSamplesQueued(queues)
                /\ Enqueue(imageQueue, queues, noted)
    BY DataSampleEffect
  <1>3. /\ s \in Sources /\ s # Image
        /\ f \in Frame /\ f.n \in Numbers /\ f = Head(wire[s]) /\ wire[s] # <<>>
        /\ f.cycle = cycle /\ interval # 0
    BY <1>1, ArrivalType, Constants DEF Arriving, Arrives, Current, Sources
  <1> HIDE DEF f
  <1>4. /\ wire'[s] = Tail(wire[s])
        /\ \A d \in Sources \ {s} : wire'[d] = wire[d]
    BY <1>1, <1>3, ArrivalType
  <1>5. Complete /\ NoneReady /\ HandedPaired
    BY <1>1, <1>3 DEF Pairs, Undisturbed
  <1>6. /\ sampleQueue[s] \in Seq(Frame) /\ wire[s] \in Seq(Frame)
        /\ cycle \in Nat /\ NextOut \in Int /\ Total \in Int /\ needed \subseteq Sensors
        /\ imageQueue \in Seq(Queued)
    BY <1>3, Types, Numbering DEF TypeOK
  <1>7. CompleteWith(imageQueue, sampleQueue, wire)
    BY <1>5, CompleteIs
  <1>8. s \in needed
    <2>1. SUFFICES ASSUME s \notin needed PROVE FALSE
      OBVIOUS
    <2>2. Foreign(wire[s], cycle)
      BY <1>7, <2>1 DEF CompleteWith
    <2>3. 1 \in DOMAIN wire[s] /\ Head(wire[s]) = wire[s][1]
      BY <1>3, <1>6, TailOf
    <2>4. f.cycle < cycle
      BY <1>3, <2>2, <2>3 DEF Foreign
    <2>5. QED BY <1>3, <1>6, <2>4
  <1>9. /\ f = [cycle |-> cycle, n |-> NextOut + Len(sampleQueue[s])]
        /\ CompleteOf(queues[s], wire'[s], NextOut, Total, cycle)
    <2>1. CompleteOf(sampleQueue[s], wire[s], NextOut, Total, cycle)
      BY <1>7, <1>8 DEF CompleteWith
    <2>2. Head(wire[s]).cycle = cycle
      BY <1>3
    <2>3. /\ Head(wire[s]) = [cycle |-> cycle, n |-> NextOut + Len(sampleQueue[s])]
          /\ CompleteOf(Append(sampleQueue[s], Head(wire[s])), Tail(wire[s]), NextOut, Total, cycle)
      BY <1>3, <1>6, <2>1, <2>2, ArrivalComplete, Zenon
    <2>4. QED BY <1>2, <1>3, <1>4, <2>3
  <1>10. CompleteWith(imageQueue, queues, wire')
    BY <1>2, <1>3, <1>4, <1>6, <1>7, <1>8, <1>9, Constants DEF CompleteWith, Sources
  <1>11. CASE imageQueue # <<>> /\ AllSamplesQueued(queues)
              /\ StartProcessing(f.n, imageQueue, queues, noted)
    <2>1. sampleQueue[s] = <<>>
      <3>1. PICK t \in needed : sampleQueue[t] = <<>>
        BY <1>5, <1>11, NoneReadyIs
      <3>2. queues[t] # <<>>
        BY <1>11 DEF AllSamplesQueued
      <3>3. QED BY <1>2, <1>6, <3>1, <3>2
    <2>2. f.n = NextOut
      <3>1. f.n = NextOut + 0
        BY <1>9, <2>1
      <3>2. QED BY <1>6, <3>1
    <2>3. Complete' /\ HandedPaired'
      BY <1>1, <1>2, <1>3, <1>6, <1>10, <1>11, <2>2, StartPairs
    <2>4. sampleQueue'[s] = <<>>
      <3>1. queues[s] = Append(<<>>, f) /\ queues[s] # <<>>
        BY <1>2, <1>8, <1>11, <2>1 DEF AllSamplesQueued
      <3>2. sampleQueue'[s] = IF queues[s] = <<>> THEN <<>> ELSE Tail(queues[s])
        BY <1>3, <1>6, <1>11, StartEffect
      <3>3. Tail(Append(<<>>, f)) = <<>>
        OBVIOUS
      <3>4. QED BY <3>1, <3>2, <3>3
    <2>5. QED BY <1>1, <1>8, <2>3, <2>4, PrimedNoneReady
  <1>12. CASE (imageQueue = <<>> \/ ~ AllSamplesQueued(queues))
              /\ Enqueue(imageQueue, queues, noted)
    <2>1. Complete' /\ HandedPaired'
      BY <1>1, <1>5, <1>10, <1>12, EnqueuePairs
    <2>2. imageQueue' = <<>> \/ \E t \in needed' : sampleQueue'[t] = <<>>
      BY <1>1, <1>12 DEF AllSamplesQueued, Enqueue
    <2>3. QED BY <2>1, <2>2, PrimedNoneReady
  <1>13. "forced" \notin trouble'
    BY DEF Undisturbed
  <1>14. QED BY <1>2, <1>11, <1>12, <1>13

LEMMA PairsStart ==
    ASSUME TypeOK, TypeOK', InOrder, Resting, StartInspect
    PROVE  Pairs'
  <1> SUFFICES ASSUME Undisturbed'
               PROVE  Complete' /\ NoneReady' /\ HandedPaired'
    BY DEF Pairs
  <1>1. /\ cycle \in Nat /\ cycle + 1 <= MaxCycles /\ cycle' = cycle + 1 /\ needed' \in SUBSET Sensors
        /\ UNCHANGED <<imageQueue, sampleQueue, handed>>
    BY StartInspectEffect, Types DEF StartInspect
  <1>2. interval = 0
    <2>1. interval # 0 => "restarted" \in trouble'
      BY DEF StartInspect
    <2>2. QED BY <2>1 DEF Undisturbed
  <1>3. /\ imageQueue = <<>> /\ \A s \in Sensors : sampleQueue[s] = <<>>
        /\ handed = NoJob
    BY <1>2 DEF TypeOK, Resting
  <1>4. FramesOf(<<>>) = <<>>
    <2>1. <<>> \in Seq(Queued)
      OBVIOUS
    <2>2. QED BY <2>1, FramesOfType
  <1>5. NextOut' = 0 /\ Total' = LastTrigger[needed'] + 1
    BY <1>1, <1>3, NoJobType, Constants DEF NextOut, Total
  <1>6. ASSUME NEW c \in Sources
        PROVE  IF c \in {Image} \cup needed'
               THEN CompleteOf(<<>>, wire'[c], 0, LastTrigger[needed'] + 1, cycle + 1)
               ELSE Foreign(wire'[c], cycle + 1)
    <2>1. PICK k \in 0 .. Len(wire[c]) :
             wire'[c] = IF c \in {Image} \cup needed'
                        THEN SubSeq(wire[c], 1, k) \o Burst(cycle + 1, needed')
                        ELSE SubSeq(wire[c], 1, k)
      BY StartInspectEffect
    <2>2. /\ wire[c] \in Seq(Frame) /\ Waiting(c) \in Seq(Frame)
          /\ HandedOf(c) \in Frame \cup {NoFrame}
          /\ Ordered(HandedOf(c), Waiting(c), wire[c], cycle)
      BY Types DEF InOrder
    <2>3. /\ SubSeq(wire[c], 1, k) \in Seq(Frame)
          /\ Ordered(HandedOf(c), Waiting(c), SubSeq(wire[c], 1, k), cycle)
      BY <2>2, EndOrdered
    <2> DEFINE w == SubSeq(wire[c], 1, k)
    <2>4. w \in Seq(Frame) /\ Ordered(HandedOf(c), Waiting(c), w, cycle)
      BY <2>3
    <2>5. wire'[c] = IF c \in {Image} \cup needed' THEN w \o Burst(cycle + 1, needed') ELSE w
      BY <2>1
    <2> HIDE DEF w
    <2>6. CASE c \in {Image} \cup needed'
      <3>1. CompleteOf(<<>>, w \o Burst(cycle + 1, needed'), 0, LastTrigger[needed'] + 1, cycle + 1)
        BY <1>1, <2>2, <2>4, BurstComplete
      <3>2. QED BY <2>5, <2>6, <3>1
    <2>7. CASE c \notin {Image} \cup needed'
      <3>1. \A j \in DOMAIN w : w[j] \in Frame /\ w[j].cycle <= cycle
        BY <2>4 DEF Ordered
      <3>2. \A j \in DOMAIN w : w[j].cycle < cycle + 1
        BY <1>1, <3>1, Constants
      <3>3. QED BY <2>5, <2>7, <3>2 DEF Foreign
    <2>8. QED BY <2>6, <2>7
  <1>7. CompleteWith(imageQueue, sampleQueue, wire)'
    BY <1>1, <1>3, <1>4, <1>5, <1>6, Constants DEF CompleteWith, Sources
  <1>8. Complete'
    BY <1>7, PrimedComplete
  <1>9. NoneReady'
    BY <1>1, <1>3, PrimedNoneReady
  <1>10. HandedPaired'
    BY <1>1, <1>3 DEF HandedPaired
  <1>11. QED BY <1>8, <1>9, <1>10

LEMMA PairsDrop ==
    ASSUME TypeOK, TypeOK', Pairs, NEW c \in Sources, DropFrame(c)
    PROVE  Pairs'
  <1> SUFFICES ASSUME Undisturbed, interval # 0
               PROVE  Complete' /\ NoneReady' /\ HandedPaired'
    BY DEF Pairs, DropFrame, Undisturbed
  <1>1. /\ Arrives(c) /\ Head(wire[c]).cycle # cycle /\ Receive(c)
        /\ UNCHANGED <<cycle, needed, imageQueue, sampleQueue, handed>>
    BY DEF DropFrame, Current, Arriving
  <1>2. /\ wire[c] \in Seq(Frame) /\ wire[c] # <<>> /\ Waiting(c) \in Seq(Frame)
        /\ cycle \in Nat /\ NextOut \in Int /\ Total \in Int
    BY <1>1, Types, Numbering DEF Arrives
  <1>3. wire'[c] = Tail(wire[c]) /\ \A d \in Sources \ {c} : wire'[d] = wire[d]
    BY <1>1, ArrivalType
  <1>4. Complete /\ NoneReady /\ HandedPaired
    BY DEF Pairs
  <1>5. c \in Taking => CompleteOf(Waiting(c), wire'[c], NextOut, Total, cycle)
    BY <1>1, <1>2, <1>3, <1>4, DropComplete DEF Complete
  <1>6. c \notin Taking => Foreign(wire'[c], cycle)
    <2>1. \A j \in 1 .. (Len(wire[c]) - 1) : j + 1 \in DOMAIN wire[c] /\ wire'[c][j] = wire[c][j + 1]
      BY <1>2, <1>3, TailOf
    <2>2. DOMAIN wire'[c] = 1 .. (Len(wire[c]) - 1)
      BY <1>2, <1>3, TailOf
    <2>3. QED BY <1>4, <2>1, <2>2 DEF Complete, Foreign
  <1>7. /\ NextOut' = NextOut /\ Total' = Total /\ Taking' = Taking
        /\ \A d \in Sources : Waiting(d)' = Waiting(d)
    BY <1>1 DEF NextOut, Total, Taking, Waiting
  <1>8. Taking \subseteq Sources
    BY Numbering DEF Taking, Sources
  <1>9. Complete'
    BY <1>1, <1>3, <1>4, <1>5, <1>6, <1>7, <1>8 DEF Complete
  <1>10. NoneReady'
    BY <1>4, <1>7, <1>8 DEF NoneReady
  <1>11. HandedPaired'
    BY <1>1, <1>4 DEF HandedPaired
  <1>12. QED BY <1>9, <1>10, <1>11

LEMMA PairsStep ==
    ASSUME IInv, TypeOK', [Next]_vars PROVE Pairs'
  <1> USE DEF IInv
  <1>1. CASE StartInspect
    BY <1>1, PairsStart
  <1>2. CASE StopInspect
    BY <1>2 DEF StopInspect, Pairs
  <1>3. CASE DataImage
    BY <1>3, PairsImage
  <1>4. ASSUME NEW s \in Sensors, DataSample(s) PROVE Pairs'
    BY <1>4, PairsSample
  <1>5. ASSUME NEW c \in Sources, DropFrame(c) PROVE Pairs'
    BY <1>5, PairsDrop
  <1>6. ASSUME NEW c \in Sources, LoseFrame(c) PROVE Pairs'
    BY <1>6 DEF LoseFrame, Pairs, Undisturbed
  <1> DEFINE rest == <<wire, cycle, imageQueue, sampleQueue, interval, needed, handed, trouble>>
  <1>7. ASSUME NEW w \in Workers, Works(w) PROVE UNCHANGED rest
    BY <1>7, WorksEffect
  <1>8. UNCHANGED vars => UNCHANGED rest
    BY DEF vars
  <1>9. CASE UNCHANGED rest
    BY <1>9 DEF Pairs, Undisturbed, Complete, NoneReady, HandedPaired, Taking, NextOut, Total, Waiting
  <1>10. QED BY <1>1, <1>2, <1>3, <1>4, <1>5, <1>6, <1>7, <1>8, <1>9 DEF Next, Works

LEMMA InitInvariant == Init => IInv
  <1> SUFFICES ASSUME Init PROVE IInv OBVIOUS
  <1>1. Resting /\ InInterval /\ Pairs
    BY DEF Init, Resting, InInterval, Pairs, Idle
  <1>2. QED BY <1>1, InitTypes, InitOrder DEF IInv

LEMMA AlwaysInvariant == Spec => []IInv
  <1>1. IInv /\ [Next]_vars => IInv'
    <2> SUFFICES ASSUME IInv, [Next]_vars PROVE IInv'
      OBVIOUS
    <2>1. TypeOK'
      BY TypeStep DEF IInv
    <2>2. InOrder'
      BY <2>1, OrderStep DEF IInv
    <2>3. Resting' /\ InInterval'
      BY <2>1, IntervalStep DEF IInv
    <2>4. QED BY <2>1, <2>2, <2>3, PairsStep DEF IInv
  <1>2. QED BY <1>1, InitInvariant, PTL DEF Spec

\* An image is processed with the samples of its own trigger, under its own
\* number and in the graph of its own seam interval (startProcessing and
\* changeSeamInterval), as long as no frame was lost, no image was forced
\* through and no inspection was started into a running one; however late the
\* frames of the sources are, and whatever earlier inspections left under way.
THEOREM EachImagePaired == Spec => []Paired
  <1>1. IInv => Paired
    <2> SUFFICES ASSUME IInv, Undisturbed
                 PROVE  /\ handed # NoJob =>
                             /\ handed.image = [cycle |-> cycle, n |-> handed.n]
                             /\ \A s \in needed : handed.samples[s] = handed.image
                        /\ InInterval
      BY DEF Paired, Undisturbed, InInterval
    <2>1. InInterval
      BY DEF IInv
    <2>2. handed # NoJob => interval # 0
      BY DEF IInv, Resting
    <2>3. QED BY <2>1, <2>2 DEF IInv, Pairs, HandedPaired
  <1>2. QED BY <1>1, AlwaysInvariant, PTL

-----------------------------------------------------------------------------
(* Numbers grow.                                                           *)

\* The only image that waits is handed out.
LEMMA StartGrows ==
    ASSUME TypeOK, NEW n \in Numbers, NEW images \in Seq(Queued), Len(images) = 1,
           NEW queues \in [Sensors -> Seq(Frame)], NEW noted \in NotedTypes,
           StartProcessing(n, images, queues, noted),
           Fits(images[1].mode, images[1].frame.n),
           images[1].frame.n = n, images[1].frame.cycle = cycle
    PROVE  /\ imageQueue' = <<>>
           /\ last' <= handed'.image.n /\ handed'.image.cycle = cycle
           /\ Fits(handed'.mode, handed'.n)
  <1>1. images # <<>> /\ Head(images) = images[1] /\ Tail(images) = <<>>
    <2>1. images # <<>>
      <3>1. Len(<<>>) # 1
        OBVIOUS
      <3>2. QED BY <3>1, Zenon
    <2>2. Head(images) = images[1] /\ Tail(images) \in Seq(Queued) /\ Len(Tail(images)) = 0
      BY <2>1, TailOf
    <2>3. QED BY <2>1, <2>2, EmptySeq
  <1>2. /\ imageQueue' = Tail(images) /\ handed'.n = n
        /\ handed'.image = Head(images).frame /\ handed'.mode = Head(images).mode
        /\ last' = last \/ last' = n
    BY <1>1, StartEffect
  <1>3. last \in Int /\ n \in Int /\ last < n
    BY Constants DEF Fits, TypeOK
  <1>4. last' <= n
    BY <1>2, <1>3
  <1>5. QED BY <1>1, <1>2, <1>4

\* The mode an image gets when it arrives.
LEMMA ModeFits ==
    ASSUME TypeOK, NEW n \in Numbers, n > last, NEW over \in BOOLEAN
    PROVE  Fits(ModeOf(n, over), n)
  <1>1. n \in Int /\ last \in Int /\ ~ n <= last /\ (n = last + 1 \/ n > last + 1)
        /\ ~ (n = last + 1 /\ n > last + 1)
    BY Constants DEF TypeOK
  <1>2. CASE over
    <2>1. ModeOf(n, over) = "Overtriggered"
      BY <1>1, <1>2 DEF ModeOf
    <2>2. QED BY <2>1 DEF Fits
  <1>3. CASE ~ over /\ n = last + 1
    <2>1. ModeOf(n, over) = "Normal"
      BY <1>1, <1>3 DEF ModeOf
    <2>2. QED BY <2>1, <1>3 DEF Fits
  <1>4. CASE ~ over /\ n > last + 1
    <2>1. ModeOf(n, over) = "MissingImage"
      BY <1>1, <1>4 DEF ModeOf
    <2>2. QED BY <2>1, <1>4 DEF Fits
  <1>5. QED BY <1>1, <1>2, <1>3, <1>4

LEMMA GrowingImage ==
    ASSUME TypeOK, TypeOK', InOrder, Growing, DataImage
    PROVE  Growing' /\ (Orderly' => Fits(handed'.mode, handed'.n) \/ slot' = slot)
  <1> DEFINE f == Arriving(Image)
  <1>1. /\ Image \in Sources /\ Arrives(Image) /\ Current(f) /\ Receive(Image)
        /\ ChangeSeamInterval(IntervalOf(f.n)) /\ UNCHANGED <<cycle, needed>>
        /\ trouble \subseteq trouble'
    BY DataImageEffect, Constants
  <1>2. f \in Frame /\ f.n \in Numbers /\ f = Head(wire[Image]) /\ wire[Image] # <<>>
    BY <1>1, ArrivalType DEF Arriving, Arrives
  <1>3. interval # 0 /\ f.cycle = cycle
    BY <1>1 DEF Current
  <1>4. interval' # 0
    <2>1. IntervalOf(f.n) \in 0 .. Len(Ends) /\ IntervalOf(f.n) # 0
      BY <1>3, IntervalOfType DEF TypeOK
    <2>2. QED BY <1>1, <2>1, ChangeType
  <1>5. PICK over \in BOOLEAN :
          LET e == [frame |-> f, mode |-> ModeOf(f.n, over)]
              images == Append(imageQueue, e) IN
          /\ imageQueue # <<>> => "late" \in trouble'
          /\ \/ /\ AllSamplesQueued(sampleQueue) \/ "forced" \in trouble'
                /\ StartProcessing(f.n, images, sampleQueue, Noted(f.n, over))
             \/ /\ ~ AllSamplesQueued(sampleQueue)
                /\ Enqueue(images, sampleQueue, Noted(f.n, over))
    BY DEF DataImage
  <1> HIDE DEF f
  <1> SUFFICES ASSUME Orderly'
               PROVE  /\ last' <= handed'.image.n
                      /\ handed' # NoJob => handed'.image.cycle = cycle'
                      /\ imageQueue' # <<>> =>
                            /\ needed' # {}
                            /\ Len(imageQueue') = 1
                            /\ Fits(imageQueue[1].mode, imageQueue[1].frame.n)'
                      /\ Fits(handed'.mode, handed'.n) \/ slot' = slot
    BY <1>4 DEF Growing
  <1>6. Orderly
    BY <1>1 DEF Orderly
  <1>7. imageQueue = <<>>
    <2>1. CASE needed = {}
      BY <1>3, <1>6, <2>1 DEF Growing
    <2>2. CASE needed # {}
      BY <1>1, <1>5, <2>2 DEF Orderly
    <2>3. QED BY <2>1, <2>2
  <1> DEFINE e == [frame |-> f, mode |-> ModeOf(f.n, over)]
             images == <<e>>
  <1>8. /\ Noted(f.n, over) \in NotedTypes /\ e \in Queued /\ e.frame = f
        /\ e.mode = ModeOf(f.n, over)
    BY <1>2, NotedType, ModeType DEF Queued
  <1>9. \/ /\ AllSamplesQueued(sampleQueue) \/ "forced" \in trouble'
           /\ StartProcessing(f.n, images, sampleQueue, Noted(f.n, over))
        \/ /\ ~ AllSamplesQueued(sampleQueue)
           /\ Enqueue(images, sampleQueue, Noted(f.n, over))
    <2>1. Append(imageQueue, e) = images
      BY <1>7
    <2>2. QED BY <1>5, <2>1
  <1> HIDE DEF e
  <1>10. images \in Seq(Queued) /\ Len(images) = 1 /\ images[1] = e /\ images # <<>>
    BY <1>8
  <1>11. last <= handed.image.n /\ (handed # NoJob => handed.image.cycle = cycle)
    BY <1>3, <1>6 DEF Growing
  <1>12. f.n > last
    <2>1. /\ Ordered(handed.image, FramesOf(imageQueue), wire[Image], cycle)
          /\ handed.image \in Frame \cup {NoFrame} /\ wire[Image] \in Seq(Frame)
      BY <1>1, Types, InOrderWith DEF OrderedWith
    <2>2. 1 \in DOMAIN wire[Image] /\ f = wire[Image][1]
      BY <1>2, <2>1, TailOf
    <2>3. Before(handed.image, f)
      BY <2>1, <2>2 DEF Ordered
    <2>4. f.n \in Int /\ f.n >= 0 /\ last \in Int /\ handed.image.n \in Int /\ cycle \in Int
      <3>1. last \in Int
        BY Constants DEF TypeOK
      <3>2. handed.image.n \in Int
        BY <2>1, Constants
      <3>3. QED BY <1>2, <3>1, <3>2, Types, Constants
    <2>5. handed.image.n < f.n
      <3>1. CASE handed = NoJob
        <4>1. handed.image.n = -1
          BY <3>1, NoJobType, Constants
        <4>2. QED BY <2>4, <4>1
      <3>2. CASE handed # NoJob
        BY <1>3, <1>11, <2>3, <2>4, <3>2 DEF Before
      <3>3. QED BY <3>1, <3>2
    <2>6. QED BY <1>11, <2>4, <2>5
  <1>13. Fits(e.mode, f.n)
    BY <1>2, <1>8, <1>12, ModeFits
  <1> HIDE DEF images
  <1>14. CASE StartProcessing(f.n, images, sampleQueue, Noted(f.n, over))
    <2>1. sampleQueue \in [Sensors -> Seq(Frame)]
      BY DEF TypeOK
    <2>2. /\ imageQueue' = <<>>
          /\ last' <= handed'.image.n /\ handed'.image.cycle = cycle
          /\ Fits(handed'.mode, handed'.n)
      BY <1>2, <1>3, <1>8, <1>10, <1>13, <1>14, <2>1, StartGrows
    <2>3. QED BY <1>1, <2>2
  <1>15. CASE /\ ~ AllSamplesQueued(sampleQueue)
              /\ Enqueue(images, sampleQueue, Noted(f.n, over))
    <2>1. imageQueue' = images /\ UNCHANGED <<handed, slot, last>>
      BY <1>15 DEF Enqueue
    <2>2. needed # {}
      BY <1>15 DEF AllSamplesQueued
    <2>3. Fits(imageQueue[1].mode, imageQueue[1].frame.n)'
      BY <1>8, <1>10, <1>13, <2>1 DEF Fits
    <2>4. QED BY <1>1, <1>10, <1>11, <2>1, <2>2, <2>3
  <1>16. QED BY <1>9, <1>14, <1>15

LEMMA GrowingSample ==
    ASSUME IInv, IInv', Growing, NEW s \in Sensors, DataSample(s)
    PROVE  Growing' /\ (Orderly' => Fits(handed'.mode, handed'.n) \/ slot' = slot)
  <1> USE DEF IInv
  <1> DEFINE f == Arriving(s)
  <1>1. /\ s \in Sources /\ Arrives(s) /\ Current(f)
        /\ ChangeSeamInterval(IntervalOf(f.n)) /\ UNCHANGED <<cycle, needed>>
        /\ trouble \subseteq trouble'
    BY DataSampleEffect DEF Sources
  <1>2. PICK queues \in [Sensors -> Seq(Frame)], noted \in NotedTypes :
             \/ imageQueue # <<>> /\ StartProcessing(f.n, imageQueue, queues, noted)
             \/ Enqueue(imageQueue, queues, noted)
    BY DataSampleEffect
  <1>3. f.n \in Numbers /\ interval # 0 /\ f.cycle = cycle
    BY <1>1, ArrivalType DEF Current
  <1>4. interval' # 0
    <2>1. IntervalOf(f.n) \in 0 .. Len(Ends) /\ IntervalOf(f.n) # 0
      BY <1>3, IntervalOfType DEF TypeOK
    <2>2. QED BY <1>1, <2>1, ChangeType
  <1> HIDE DEF f
  <1> SUFFICES ASSUME Orderly'
               PROVE  /\ last' <= handed'.image.n
                      /\ handed' # NoJob => handed'.image.cycle = cycle'
                      /\ imageQueue' # <<>> =>
                            /\ needed' # {}
                            /\ Len(imageQueue') = 1
                            /\ Fits(imageQueue[1].mode, imageQueue[1].frame.n)'
                      /\ Fits(handed'.mode, handed'.n) \/ slot' = slot
    BY <1>4 DEF Growing
  <1>5. Orderly
    BY <1>1 DEF Orderly
  <1>6. /\ last <= handed.image.n
        /\ handed # NoJob => handed.image.cycle = cycle
        /\ imageQueue # <<>> => /\ needed # {} /\ Len(imageQueue) = 1
                                /\ Fits(imageQueue[1].mode, imageQueue[1].frame.n)
    BY <1>3, <1>5 DEF Growing
  <1>7. CASE imageQueue # <<>> /\ StartProcessing(f.n, imageQueue, queues, noted)
    <2>1. imageQueue \in Seq(Queued) /\ Head(imageQueue) = imageQueue[1]
      BY <1>7, TailOf DEF TypeOK
    <2>2. /\ handed' # NoJob /\ handed'.n = f.n
          /\ handed'.image = imageQueue[1].frame
      BY <1>2, <1>3, <1>7, <2>1, StartEffect
    <2>3. Undisturbed'
      BY <1>1, <1>6, <1>7 DEF Orderly, Undisturbed
    <2>4. handed'.image = [cycle |-> cycle', n |-> handed'.n]
      BY <1>4, <2>2, <2>3 DEF Pairs, HandedPaired
    <2>5. imageQueue[1].frame.n = f.n /\ imageQueue[1].frame.cycle = cycle
      BY <1>1, <2>2, <2>4
    <2>6. /\ imageQueue' = <<>>
          /\ last' <= handed'.image.n /\ handed'.image.cycle = cycle
          /\ Fits(handed'.mode, handed'.n)
      BY <1>2, <1>3, <1>6, <1>7, <2>1, <2>5, StartGrows
    <2>7. QED BY <1>1, <2>6
  <1>8. CASE Enqueue(imageQueue, queues, noted)
    <2>1. imageQueue' = imageQueue /\ UNCHANGED <<handed, slot, last>>
      BY <1>8 DEF Enqueue
    <2>2. QED BY <1>1, <1>6, <2>1 DEF Fits
  <1>9. QED BY <1>2, <1>7, <1>8

\* No step breaks it, and what a worker gets fits.
LEMMA GrowingStep ==
    ASSUME IInv, IInv', Growing, [Next]_vars
    PROVE  Growing' /\ (HandsOut /\ Orderly' => Fits(handed'.mode, handed'.n))
  <1>1. slot' = slot => ~ HandsOut
    BY DEF HandsOut
  <1>2. CASE StartInspect
    <2>1. /\ interval = 0 \/ "restarted" \in trouble'
          /\ UNCHANGED <<imageQueue, last, handed, slot>>
          /\ interval' = 1
      BY <1>2 DEF StartInspect, ChangeSeamInterval
    <2>2. ASSUME Orderly'
          PROVE  last = -1 /\ handed = NoJob /\ imageQueue = <<>>
      BY <2>1, <2>2 DEF Orderly, Growing, IInv, Resting, TypeOK
    <2>3. Growing'
      BY <2>1, <2>2, NoJobType, Constants DEF Growing
    <2>4. QED BY <1>1, <2>1, <2>3
  <1>3. CASE StopInspect
    <2>1. interval' = 0 /\ last' = -1 /\ slot' = slot
      BY <1>3 DEF StopInspect
    <2>2. QED BY <1>1, <2>1 DEF Growing
  <1>4. CASE DataImage
    BY <1>1, <1>4, GrowingImage DEF IInv
  <1>5. ASSUME NEW s \in Sensors, DataSample(s)
        PROVE  Growing' /\ (HandsOut /\ Orderly' => Fits(handed'.mode, handed'.n))
    BY <1>1, <1>5, GrowingSample
  <1> DEFINE rest == <<cycle, imageQueue, interval, needed, last, handed>>
  <1>6. ASSUME UNCHANGED rest, trouble \subseteq trouble' PROVE Growing'
    <2>1. Orderly' => Orderly
      BY <1>6 DEF Orderly
    <2>2. QED BY <1>6, <2>1 DEF Growing, Fits
  <1>7. ASSUME NEW c \in Sources, DropFrame(c) \/ LoseFrame(c)
        PROVE  UNCHANGED rest /\ trouble \subseteq trouble' /\ slot' = slot
    BY <1>7 DEF DropFrame, LoseFrame, workerVars, runVars
  <1>8. ASSUME NEW w \in Workers, Works(w)
        PROVE  UNCHANGED rest /\ trouble \subseteq trouble' /\ ~ HandsOut
    <2>1. \A v \in Workers : slot'[v] = slot[v] \/ slot'[v] = NoJob
      BY <1>8
      DEF Works, TakeWork, Wait, GoOn, SkipImage, EnsureNumber, ProcessImage, FinishWork, IInv, TypeOK
    <2>2. QED BY <1>8, <2>1, WorksEffect DEF HandsOut
  <1>9. UNCHANGED vars => UNCHANGED rest /\ trouble \subseteq trouble' /\ slot' = slot
    BY DEF vars, workerVars, runVars
  <1>10. QED BY <1>1, <1>2, <1>3, <1>4, <1>5, <1>6, <1>7, <1>8, <1>9 DEF Next, Works

\* What the filter pipeline relies on: the numbers the workers get only grow, a
\* normal image follows the last one processed and a missing image leaves a gap
\* (the choice of the processing mode in data(image)), as long as no inspection
\* was started into a running one and, with sample sensors, no frame was lost,
\* no image was forced through and none arrived while another waited.
THEOREM NumbersGrow == Spec => KeepsOrder
  <1>1. Init => Growing
    BY DEF Init, Growing
  <1>2. IInv /\ IInv' /\ Growing /\ [Next]_vars => Growing'
    BY GrowingStep
  <1> DEFINE Follows == HandsOut /\ Orderly' =>
          /\ handed'.n > last
          /\ handed'.mode = "Normal" => handed'.n = last + 1
          /\ handed'.mode = "MissingImage" => handed'.n > last + 1
  <1>3. IInv /\ IInv' /\ Growing /\ [Next]_vars => [Follows]_vars
    BY GrowingStep DEF Fits
  <1>4. QED BY <1>1, <1>2, <1>3, AlwaysInvariant, PTL DEF Spec, KeepsOrder
=============================================================================
