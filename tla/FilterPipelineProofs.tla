------------------------ MODULE FilterPipelineProofs ------------------------
(***************************************************************************)
(* Proofs about the pipelined inspection: types always, and for an         *)
(* undisturbed pipeline (clean) that filters take images in order, each    *)
(* with its own data, that results leave in the order of the images, and   *)
(* that the workers never all wait for each other, for any number of       *)
(* workers, sensors and images and any gaps.                               *)
(***************************************************************************)
EXTENDS FilterPipeline, TLAPS, WellFoundedInduction

-----------------------------------------------------------------------------
(* The constants.                                                          *)

AllFilters == Filters \cup {Handler}

LEMMA Names ==
    /\ Image # Filter /\ Image # Handler /\ Image # None
    /\ Filter # Handler /\ Filter # None /\ Handler # None
    /\ Image \in Sources
    /\ Filter \notin Sources /\ Handler \notin Sources /\ None \notin Sources
    /\ Handler \notin Filters /\ None \notin Filters
    /\ Range(Sensors) \subseteq Sources
    /\ \A s \in Sources : s = Image \/ s \in Range(Sensors)
    /\ Image \notin Range(Sensors)
  BY PipelineAssumption DEF Image, Filter, Handler, None, Sources, Filters

LEMMA WorkerSlots ==
    /\ Workers \subseteq Nat /\ 0 \in Workers
    /\ \A n \in Nat : Slot(n) \in Workers
  BY PipelineAssumption DEF Workers, Slot

LEMMA MapType ==
    /\ Len(FilterMap) \in Nat
    /\ DOMAIN FilterMap = 1 .. Len(FilterMap)
    /\ \A i \in 1 .. Len(FilterMap) : FilterMap[i] \in Filters
    /\ Len(FilterMap) >= 1
  <1>1. FilterMap \in Seq(Filters) /\ Range(FilterMap) = Filters BY PipelineAssumption
  <1>2. Image \in Range(FilterMap) BY <1>1, Names DEF Filters
  <1>3. PICK i \in DOMAIN FilterMap : FilterMap[i] = Image BY <1>2 DEF Range
  <1>4. QED BY <1>1, <1>3

LEMMA VisitedType ==
    /\ Len(Visited) = Len(FilterMap) + 1
    /\ DOMAIN Visited = 1 .. Len(Visited)
    /\ \A i \in 1 .. Len(FilterMap) : Visited[i] = FilterMap[i]
    /\ Visited[Len(Visited)] = Handler
    /\ \A i \in 1 .. Len(Visited) : Visited[i] \in AllFilters
  <1>1. FilterMap \in Seq(AllFilters) /\ Handler \in AllFilters
    <2>1. FilterMap \in Seq(Filters) BY PipelineAssumption
    <2>2. Filters \subseteq AllFilters BY DEF AllFilters
    <2>3. QED BY <2>1, <2>2 DEF AllFilters
  <1>2. QED BY <1>1, MapType DEF Visited

LEMMA Indices ==
    /\ 1 .. Len(FilterMap) \subseteq 1 .. Len(Visited)
    /\ 1 \in 1 .. Len(Visited)
  BY MapType, VisitedType

-----------------------------------------------------------------------------
(* Types.                                                                  *)

\* Whoever is not idle has a job, and a call is a call of some filter.
TShape == \A w \in Workers :
    /\ pc[w] # "idle" <=> job[w] # NoJob
    /\ pc[w] \in {"call", "inside", "emit"} => at[w] # None

TInv == TypeOK /\ TShape

LEMMA JobType ==
    ASSUME NEW j \in Job
    PROVE  j # NoJob /\ j.n \in Images /\ j.n \in Nat /\ j.last \in Images \cup {-1}
           /\ j.last \in Int /\ j.last + 1 \in Nat /\ j.samples \subseteq Range(Sensors)
           /\ j.mode \in {"Normal", "Overtriggered", "MissingImage", "OutOfOrderImage"}
  <1>1. j.n \in Images /\ j.last \in Images \cup {-1} /\ j.samples \subseteq Range(Sensors)
        /\ j.mode \in {"Normal", "Overtriggered", "MissingImage", "OutOfOrderImage"}
    BY DEF Job
  <1>2. Images \subseteq Nat BY DEF Images
  <1>3. NoJob.n = -1 BY DEF NoJob
  <1>4. j.n \in Nat BY <1>1, <1>2
  <1>5. j.n # NoJob.n BY <1>3, <1>4
  <1>6. j.last \in Int /\ j.last + 1 \in Nat
    <2>1. CASE j.last \in Images
      <3>1. j.last \in Nat BY <2>1, <1>2
      <3>2. QED BY <3>1
    <2>2. CASE j.last = -1 BY <2>2
    <2>3. QED BY <1>1, <2>1, <2>2
  <1>7. j # NoJob BY <1>5
  <1>8. QED BY <1>1, <1>4, <1>6, <1>7

LEMMA InitTInv == Init => TInv
  <1> SUFFICES ASSUME Init PROVE TInv OBVIOUS
  <1>1. 0 \in Images /\ -1 \in Images \cup {-1} /\ 0 \in 0 .. MaxFaults
    BY PipelineAssumption DEF Images
  <1>2. <<>> \in Seq(Images) /\ <<>> \in Seq(Sources) OBVIOUS
  <1>3. None \in Filters \cup {Handler, None} OBVIOUS
  <1>4. TypeOK BY <1>1, <1>2, <1>3, Indices, WorkerSlots DEF TypeOK, Init
  <1>5. TShape BY DEF TShape, Init
  <1>6. QED BY <1>4, <1>5 DEF TInv

\* The places of a worker, in groups the steps use.
Places == {"idle", "skip", "ensure", "sync", "signal", "call", "inside", "emit", "handler",
           "ensureNext", "done"}

LEMMA AdvanceType ==
    ASSUME TypeOK, NEW w \in Workers, NEW list, NEW step \in Places,
           Len(list) \in Nat, Len(list) <= Len(Visited), Advance(w, list, step)
    PROVE  idx' \in [Workers -> 1 .. Len(Visited)] /\ pc' \in [Workers -> Places]
  <1>1. idx \in [Workers -> 1 .. Len(Visited)] /\ pc \in [Workers -> Places]
    BY DEF TypeOK, Places
  <1>2. CASE idx[w] < Len(list)
    <2>1. idx[w] \in Nat /\ idx[w] >= 1 /\ Len(Visited) \in Nat BY <1>1, VisitedType, MapType
    <2>2. idx[w] + 1 \in 1 .. Len(Visited) BY <1>2, <2>1
    <2>3. QED BY <1>1, <1>2, <2>2 DEF Advance
  <1>3. CASE ~ (idx[w] < Len(list)) BY <1>1, <1>3, Indices DEF Advance
  <1>4. QED BY <1>2, <1>3

LEMMA ProceedType ==
    ASSUME TypeOK, NEW w \in Workers, Proceed(w)
    PROVE  waiting' \in [Workers -> BOOLEAN]
  BY DEF TypeOK, Proceed

LEMMA CounterType ==
    ASSUME TypeOK, NEW f, NEW n \in Nat, PreSignalAction(f) \/ EnsureImageNumber(f, n)
    PROVE  counter' \in [Filters \cup {Handler} -> Nat]
  <1>1. counter \in [Filters \cup {Handler} -> Nat] BY DEF TypeOK
  <1>2. CASE PreSignalAction(f)
    <2>1. counter' = [counter EXCEPT ![f] = counter[f] + 1] BY <1>2 DEF PreSignalAction
    <2>2. CASE f \in Filters \cup {Handler} BY <1>1, <2>1, <2>2
    <2>3. CASE f \notin Filters \cup {Handler} BY <1>1, <2>1, <2>3
    <2>4. QED BY <2>2, <2>3
  <1>3. CASE EnsureImageNumber(f, n)
    <2>1. counter' = [counter EXCEPT ![f] = n] \/ counter' = [counter EXCEPT ![f] = @]
      BY <1>3 DEF EnsureImageNumber
    <2>2. QED BY <1>1, <2>1
  <1>4. QED BY <1>2, <1>3

LEMMA SendType ==
    ASSUME TypeOK, SendResults
    PROVE  avail' \in [Workers -> BOOLEAN] /\ delivered' \in Seq(Images)
  <1>1. Slot(counter[Handler]) \in Workers
    <2>1. counter[Handler] \in Nat BY DEF TypeOK
    <2>2. QED BY <2>1, WorkerSlots
  <1>2. slot[Filter][Slot(counter[Handler])] \in Images BY <1>1 DEF TypeOK, Filters
  <1>3. avail \in [Workers -> BOOLEAN] /\ delivered \in Seq(Images) BY DEF TypeOK
  <1>4. avail' \in [Workers -> BOOLEAN] BY <1>3 DEF SendResults
  <1>5. delivered' = delivered \/ delivered' = Append(delivered, slot[Filter][Slot(counter[Handler])])
    BY DEF SendResults
  <1>6. QED BY <1>2, <1>3, <1>4, <1>5

LEMMA JobOf ==
    ASSUME TInv, NEW w \in Workers, pc[w] # "idle"
    PROVE  job[w] \in Job /\ job[w].n \in Images /\ job[w].n \in Nat /\ Slot(job[w].n) \in Workers
           /\ job[w].samples \subseteq Range(Sensors)
  <1>1. job[w] \in Job BY DEF TInv, TShape, TypeOK
  <1>2. QED BY <1>1, JobType, WorkerSlots

LEMMA InputType ==
    ASSUME TypeOK, NEW f \in Filters \cup {Handler}
    PROVE  InputNumber(f) \in Images
  <1>1. Slot(counter[f]) \in Workers
    <2>1. counter[f] \in Nat BY DEF TypeOK
    <2>2. QED BY <2>1, WorkerSlots
  <1>2. CASE f = Image BY <1>1, <1>2, Names DEF TypeOK, InputNumber
  <1>3. CASE f = Filter BY <1>1, <1>3, Names DEF TypeOK, InputNumber, Filters
  <1>4. CASE f = Handler BY <1>1, <1>4, Names DEF TypeOK, InputNumber, Filters
  <1>5. CASE f \in Range(Sensors)
    <2>1. f # Image /\ f # Filter /\ f # Handler BY <1>5, Names
    <2>2. samplePipe[subscriber[f]][Slot(counter[f])] \in Images BY <1>1, <1>5 DEF TypeOK
    <2>3. QED BY <2>1, <2>2 DEF InputNumber
  <1>6. QED BY <1>2, <1>3, <1>4, <1>5, Names DEF Filters

LEMMA FlagType ==
    ASSUME TypeOK, NEW flags \in [Sources -> [Workers -> BOOLEAN]], NEW n
    PROVE  ResetSignals(flags, n) \in [Sources -> [Workers -> BOOLEAN]]
  BY DEF ResetSignals

LEMMA SignaledType ==
    ASSUME TypeOK, NEW s, NEW n
    PROVE  Signaled(s, n) \in [Sources -> [Workers -> BOOLEAN]]
  BY DEF Signaled, TypeOK

LEMMA InputsType ==
    ASSUME NEW q \in Seq(Sources), q # <<>>
    PROVE  Head(q) \in Sources /\ Tail(q) \in Seq(Sources)
  OBVIOUS

LEMMA AllInputs == <<Image>> \o Sensors \in Seq(Sources)
  <1>1. <<Image>> \in Seq(Sources) BY Names
  <1>2. Sensors \in Seq(Range(Sensors)) BY PipelineAssumption
  <1>3. Sensors \in Seq(Sources) BY <1>2, Names
  <1>4. QED BY <1>1, <1>3

LEMMA TypeStep ==
    ASSUME TInv, [Next]_vars PROVE TypeOK'
  <1> USE DEF workerVars, pipeVars
  <1>0. TypeOK /\ TShape BY DEF TInv
  <1>1. ASSUME NEW w \in Workers, TakeWork(w) PROVE TypeOK'
    <2>1. work[w] \in Job BY <1>0, <1>1 DEF TakeWork, TypeOK
    <2>2. FirstStep(work[w]) \in Places BY DEF FirstStep, Places
    <2>3. QED BY <1>0, <1>1, <2>1, <2>2, Indices DEF TakeWork, TypeOK, Places
  <1>2. ASSUME NEW w \in Workers, FinishWork(w) PROVE TypeOK'
    <2>1. 0 \in Images BY PipelineAssumption DEF Images
    <2>2. QED BY <1>0, <1>2, <2>1 DEF FinishWork, TypeOK
  <1>3. ASSUME NEW w \in Workers, Wait(w) PROVE TypeOK'
    BY <1>0, <1>3 DEF Wait, TypeOK
  <1>4. ASSUME NEW w \in Workers, SkipImageProcessing(w) PROVE TypeOK'
    <2>1. /\ Proceed(w) /\ PreSignalAction(Visited[idx[w]]) /\ Advance(w, Visited, "ensure")
      BY <1>4 DEF SkipImageProcessing
    <2>2. idx' \in [Workers -> 1 .. Len(Visited)] /\ pc' \in [Workers -> Places]
      BY <1>0, <2>1, AdvanceType, VisitedType, MapType DEF Places
    <2>3. waiting' \in [Workers -> BOOLEAN] BY <1>0, <2>1, ProceedType
    <2>4. counter' \in [Filters \cup {Handler} -> Nat] BY <1>0, <2>1, CounterType
    <2>5. QED BY <1>0, <1>4, <2>2, <2>3, <2>4 DEF SkipImageProcessing, TypeOK, Places
  <1>5. ASSUME NEW w \in Workers, EnsureAll(w) PROVE TypeOK'
    <2>1. /\ EnsureImageNumber(Visited[idx[w]], job[w].n) /\ Advance(w, Visited, "sync")
          /\ pc[w] # "idle"
      BY <1>5 DEF EnsureAll
    <2>2. idx' \in [Workers -> 1 .. Len(Visited)] /\ pc' \in [Workers -> Places]
      BY <1>0, <2>1, AdvanceType, VisitedType, MapType DEF Places
    <2>3. job[w].n \in Nat BY <2>1, JobOf
    <2>4. counter' \in [Filters \cup {Handler} -> Nat] BY <1>0, <2>1, <2>3, CounterType
    <2>5. QED BY <1>0, <1>5, <2>2, <2>4 DEF EnsureAll, TypeOK, Places
  <1>6. ASSUME NEW w \in Workers, SynchronizeSource(w) PROVE TypeOK'
    <2>1. Advance(w, FilterMap, "signal") BY <1>6 DEF SynchronizeSource
    <2>2. idx' \in [Workers -> 1 .. Len(Visited)] /\ pc' \in [Workers -> Places]
      BY <1>0, <2>1, AdvanceType, VisitedType, MapType DEF Places
    <2>3. waiting' \in [Workers -> BOOLEAN]
      <3>1. waiting' = waiting \/ Proceed(w) BY <1>6 DEF SynchronizeSource
      <3>2. QED BY <1>0, <3>1, ProceedType DEF TypeOK
    <2>4. inputs' \in [Workers -> Seq(Sources)]
      <3>1. inputs' = inputs \/ inputs' = [inputs EXCEPT ![w] = <<Image>> \o Sensors]
        BY <1>6 DEF SynchronizeSource
      <3>2. inputs \in [Workers -> Seq(Sources)] BY <1>0 DEF TypeOK
      <3>3. QED BY <3>1, <3>2, AllInputs
    <2>5. processing' \in [Workers -> BOOLEAN]
      BY <1>0, <1>6 DEF SynchronizeSource, TypeOK
    <2>6. QED BY <1>0, <1>6, <2>2, <2>3, <2>4, <2>5 DEF SynchronizeSource, TypeOK, Places
  <1>7. ASSUME NEW w \in Workers, NoSample(w) PROVE TypeOK'
    <2>1. Tail(inputs[w]) \in Seq(Sources) BY <1>0, <1>7, InputsType DEF NoSample, TypeOK
    <2>2. inputs' \in [Workers -> Seq(Sources)] BY <1>0, <1>7, <2>1 DEF NoSample, TypeOK
    <2>3. QED BY <1>0, <1>7, <2>2 DEF NoSample, TypeOK
  <1>8. ASSUME NEW w \in Workers, SignalSource(w) PROVE TypeOK'
    <2>1. pc[w] = "signal" /\ inputs[w] # <<>> BY <1>8 DEF SignalSource
    <2>2. job[w].n \in Images BY <2>1, JobOf
    <2>3. Tail(inputs[w]) \in Seq(Sources) /\ Head(inputs[w]) \in Sources
      BY <1>0, <2>1, InputsType DEF TypeOK
    <2>4. imagePipe' \in [Workers -> Images]
      BY <1>0, <1>8, <2>2 DEF SignalSource, TypeOK
    <2>5. subscriber' \in [Range(Sensors) -> Workers]
      BY <1>0, <1>8 DEF SignalSource, TypeOK
    <2>6. samplePipe' \in [Workers -> [Workers -> Images]]
      <3>1. samplePipe' = samplePipe \/ samplePipe' = [samplePipe EXCEPT ![w][Slot(job[w].n)] = job[w].n]
        BY <1>8 DEF SignalSource
      <3>2. samplePipe \in [Workers -> [Workers -> Images]] BY <1>0 DEF TypeOK
      <3>3. QED BY <2>2, <3>1, <3>2
    <2>7. /\ at' \in [Workers -> Filters \cup {Handler, None}]
          /\ img' \in [Workers -> Images]
          /\ inputs' \in [Workers -> Seq(Sources)]
          /\ pc' \in [Workers -> Places]
      BY <1>0, <1>8, <2>2, <2>3 DEF SignalSource, TypeOK, Filters, Places
    <2>8. QED BY <1>0, <1>8, <2>4, <2>5, <2>6, <2>7 DEF SignalSource, TypeOK, Places
  <1>9. ASSUME NEW w \in Workers, EnterFilter(w) PROVE TypeOK'
    <2>1. pc[w] = "call" /\ Proceed(w) BY <1>9 DEF EnterFilter
    <2>2. waiting' \in [Workers -> BOOLEAN] BY <1>0, <2>1, ProceedType
    <2>3. at[w] \in Filters \cup {Handler} BY <1>0, <2>1 DEF TypeOK, TShape
    <2>4. InputNumber(at[w]) \in Images BY <1>0, <2>3, InputType
    <2>5. avail' \in [Workers -> BOOLEAN] /\ delivered' \in Seq(Images)
      <3>1. SendResults \/ UNCHANGED <<avail, delivered>> BY <1>9 DEF EnterFilter
      <3>2. QED BY <1>0, <3>1, SendType DEF TypeOK
    <2>6. QED BY <1>0, <1>9, <2>2, <2>4, <2>5 DEF EnterFilter, TypeOK
  <1>10. ASSUME NEW w \in Workers, LeaveFilter(w) PROVE TypeOK'
    <2>1. counter' \in [Filters \cup {Handler} -> Nat]
      BY <1>0, <1>10, CounterType DEF LeaveFilter
    <2>2. QED BY <1>0, <1>10, <2>1 DEF LeaveFilter, TypeOK
  <1>11. ASSUME NEW w \in Workers, FilterFails(w) PROVE TypeOK'
    <2>1. counter' \in [Filters \cup {Handler} -> Nat]
      BY <1>0, <1>11, CounterType DEF FilterFails
    <2>2. faults' \in 0 .. MaxFaults BY <1>0, <1>11, PipelineAssumption DEF FilterFails, TypeOK
    <2>3. QED BY <1>0, <1>11, <2>1, <2>2 DEF FilterFails, TypeOK
  <1>12. ASSUME NEW w \in Workers, LeaveHandler(w) PROVE TypeOK'
    <2>1. counter' \in [Filters \cup {Handler} -> Nat]
      BY <1>0, <1>12, CounterType DEF LeaveHandler
    <2>2. QED BY <1>0, <1>12, <2>1 DEF LeaveHandler, TypeOK
  <1>13. ASSUME NEW w \in Workers, EmitSource(w) PROVE TypeOK'
    <2>1. /\ pc[w] = "emit" /\ at[w] \in Sources
          /\ slot' = [slot EXCEPT ![at[w]][Slot(carry[w])] = carry[w]]
          /\ \/ /\ flag' = ResetSignals(Signaled(at[w], carry[w]), carry[w])
                /\ at' = [at EXCEPT ![w] = Filter]
                /\ img' = [img EXCEPT ![w] = carry[w]]
                /\ pc' = [pc EXCEPT ![w] = "call"]
             \/ /\ flag' = Signaled(at[w], carry[w])
                /\ pc' = [pc EXCEPT ![w] = "signal"]
                /\ UNCHANGED <<at, img>>
      BY <1>13 DEF EmitSource
    <2>2. slot' \in [Filters -> [Workers -> Images]] BY <1>0, <2>1 DEF TypeOK
    <2>3. flag' \in [Sources -> [Workers -> BOOLEAN]]
      BY <1>0, <2>1, SignaledType, FlagType
    <2>4. /\ at' \in [Workers -> Filters \cup {Handler, None}]
          /\ img' \in [Workers -> Images]
          /\ pc' \in [Workers -> Places]
      <3>1. /\ at \in [Workers -> Filters \cup {Handler, None}]
            /\ img \in [Workers -> Images] /\ carry[w] \in Images
            /\ pc \in [Workers -> Places]
        BY <1>0 DEF TypeOK, Places
      <3>2. Filter \in Filters /\ "call" \in Places /\ "signal" \in Places BY DEF Filters, Places
      <3>3. QED BY <2>1, <3>1, <3>2
    <2>5. QED BY <1>0, <1>13, <2>2, <2>3, <2>4 DEF EmitSource, TypeOK, Places
  <1>14. ASSUME NEW w \in Workers, EmitResult(w) PROVE TypeOK'
    <2>1. slot' \in [Filters -> [Workers -> Images]] BY <1>0, <1>14 DEF TypeOK, EmitResult
    <2>2. QED BY <1>0, <1>14, <2>1 DEF EmitResult, TypeOK
  <1>15. ASSUME NEW w \in Workers, ImageDone(w) PROVE TypeOK'
    BY <1>0, <1>15 DEF ImageDone, TypeOK
  <1>16. ASSUME NEW w \in Workers, CallHandler(w) PROVE TypeOK'
    <2>1. flag' \in [Sources -> [Workers -> BOOLEAN]]
      <3>1. flag \in [Sources -> [Workers -> BOOLEAN]] BY <1>0 DEF TypeOK
      <3>2. QED BY <1>0, <1>16, <3>1, FlagType DEF CallHandler
    <2>2. avail' \in [Workers -> BOOLEAN] /\ delivered' \in Seq(Images)
      BY <1>0, <1>16, SendType DEF CallHandler
    <2>3. QED BY <1>0, <1>16, <2>1, <2>2 DEF CallHandler, TypeOK
  <1>17. ASSUME NEW w \in Workers, HandlerCalled(w) PROVE TypeOK'
    <2>1. counter' \in [Filters \cup {Handler} -> Nat]
      BY <1>0, <1>17, CounterType DEF HandlerCalled
    <2>2. QED BY <1>0, <1>17, <2>1 DEF HandlerCalled, TypeOK
  <1>23. ASSUME NEW w \in Workers, HandlerFails(w) PROVE TypeOK'
    BY <1>0, <1>23 DEF HandlerFails, TypeOK
  <1>18. ASSUME NEW w \in Workers, EnsureNext(w) PROVE TypeOK'
    <2>1. /\ EnsureImageNumber(FilterMap[idx[w]], job[w].n + 1) /\ Advance(w, FilterMap, "done")
          /\ pc[w] # "idle"
      BY <1>18 DEF EnsureNext
    <2>2. idx' \in [Workers -> 1 .. Len(Visited)] /\ pc' \in [Workers -> Places]
      BY <1>0, <2>1, AdvanceType, VisitedType, MapType DEF Places
    <2>3. job[w].n + 1 \in Nat BY <2>1, JobOf
    <2>4. counter' \in [Filters \cup {Handler} -> Nat] BY <1>0, <2>1, <2>3, CounterType
    <2>5. QED BY <1>0, <1>18, <2>2, <2>4 DEF EnsureNext, TypeOK, Places
  <1>19. CASE ScheduleImage
    <2>1. PICK n \in Images, mode \in Modes, samples \in SUBSET Range(Sensors) :
             /\ Disturbed(mode, samples) => faults < MaxFaults
             /\ Schedule(n, mode, samples)
      BY <1>19 DEF ScheduleImage
    <2>2. [n |-> n, mode |-> mode, last |-> last, samples |-> samples] \in Job
      BY <1>0, PipelineAssumption DEF Job, TypeOK
    <2>3. faults' \in 0 .. MaxFaults
      BY <1>0, <2>1, PipelineAssumption DEF Schedule, TypeOK
    <2>4. work' \in [Workers -> Job \cup {NoJob}] BY <1>0, <2>1, <2>2 DEF Schedule, TypeOK
    <2>5. accepted' \in Seq(Images) BY <1>0, <2>1 DEF Schedule, TypeOK
    <2>6. QED BY <1>0, <2>1, <2>3, <2>4, <2>5 DEF Schedule, TypeOK
  <1>20. CASE NextSeam
    <2>1. counter' \in [Filters \cup {Handler} -> Nat] BY <1>20 DEF NextSeam
    <2>2. flag' \in [Sources -> [Workers -> BOOLEAN]] BY <1>20 DEF NextSeam
    <2>3. QED BY <1>0, <1>20, <2>1, <2>2 DEF NextSeam, TypeOK
  <1>21. CASE UNCHANGED vars BY <1>0, <1>21 DEF vars, TypeOK
  <1>22. QED BY <1>1, <1>2, <1>3, <1>4, <1>5, <1>6, <1>7, <1>8, <1>9, <1>10, <1>11, <1>12, <1>13,
               <1>14, <1>15, <1>16, <1>17, <1>18, <1>19, <1>20, <1>21, <1>23 DEF Next, Step

LEMMA AdvancePlace ==
    ASSUME NEW w, NEW list, NEW step, Advance(w, list, step)
    PROVE  pc' = pc \/ pc' = [pc EXCEPT ![w] = step]
  BY DEF Advance

LEMMA ShapeStep ==
    ASSUME TInv, [Next]_vars PROVE TShape'
  <1> USE DEF workerVars, pipeVars
  <1>0. /\ TShape
        /\ pc \in [Workers -> Places] /\ job \in [Workers -> Job \cup {NoJob}]
        /\ at \in [Workers -> Filters \cup {Handler, None}]
    BY DEF TInv, TypeOK, Places
  <1>1. ASSUME NEW w \in Workers, TakeWork(w) PROVE TShape'
    <2>1. FirstStep(work[w]) \in {"done", "skip", "sync"} BY DEF FirstStep
    <2>2. QED BY <1>0, <1>1, <2>1 DEF TakeWork, TShape
  <1>2. ASSUME NEW w \in Workers, FinishWork(w) PROVE TShape'
    BY <1>0, <1>2 DEF FinishWork, TShape
  <1>3. ASSUME NEW w \in Workers, Wait(w) PROVE TShape'
    BY <1>0, <1>3 DEF Wait, TShape
  <1>4. ASSUME NEW w \in Workers, SkipImageProcessing(w) PROVE TShape'
    <2>1. Advance(w, Visited, "ensure") /\ pc[w] = "skip" BY <1>4 DEF SkipImageProcessing
    <2>2. QED BY <1>0, <1>4, <2>1, AdvancePlace DEF SkipImageProcessing, TShape
  <1>5. ASSUME NEW w \in Workers, EnsureAll(w) PROVE TShape'
    <2>1. Advance(w, Visited, "sync") /\ pc[w] = "ensure" BY <1>5 DEF EnsureAll
    <2>2. QED BY <1>0, <1>5, <2>1, AdvancePlace DEF EnsureAll, TShape
  <1>6. ASSUME NEW w \in Workers, SynchronizeSource(w) PROVE TShape'
    <2>1. Advance(w, FilterMap, "signal") /\ pc[w] = "sync" BY <1>6 DEF SynchronizeSource
    <2>2. QED BY <1>0, <1>6, <2>1, AdvancePlace DEF SynchronizeSource, TShape
  <1>7. ASSUME NEW w \in Workers, NoSample(w) PROVE TShape'
    BY <1>0, <1>7 DEF NoSample, TShape
  <1>8. ASSUME NEW w \in Workers, SignalSource(w) PROVE TShape'
    <2>1. inputs[w] # <<>> /\ inputs[w] \in Seq(Sources) BY <1>8 DEF SignalSource, TInv, TypeOK
    <2>2. Head(inputs[w]) # None BY <2>1, InputsType, Names
    <2>3. QED BY <1>0, <1>8, <2>2 DEF SignalSource, TShape
  <1>9. ASSUME NEW w \in Workers, EnterFilter(w) PROVE TShape'
    BY <1>0, <1>9 DEF EnterFilter, TShape
  <1>10. ASSUME NEW w \in Workers, LeaveFilter(w) PROVE TShape'
    BY <1>0, <1>10 DEF LeaveFilter, TShape
  <1>11. ASSUME NEW w \in Workers, FilterFails(w) PROVE TShape'
    BY <1>0, <1>11 DEF FilterFails, TShape
  <1>12. ASSUME NEW w \in Workers, LeaveHandler(w) PROVE TShape'
    BY <1>0, <1>12 DEF LeaveHandler, TShape
  <1>13. ASSUME NEW w \in Workers, EmitSource(w) PROVE TShape'
    <2>1. /\ pc[w] = "emit" /\ UNCHANGED job
          /\ \/ at' = [at EXCEPT ![w] = Filter] /\ pc' = [pc EXCEPT ![w] = "call"]
             \/ pc' = [pc EXCEPT ![w] = "signal"] /\ UNCHANGED at
      BY <1>13 DEF EmitSource
    <2>2. QED BY <1>0, <2>1, Names DEF TShape
  <1>14. ASSUME NEW w \in Workers, EmitResult(w) PROVE TShape'
    BY <1>0, <1>14, Names DEF EmitResult, TShape
  <1>15. ASSUME NEW w \in Workers, ImageDone(w) PROVE TShape'
    BY <1>0, <1>15 DEF ImageDone, TShape
  <1>16. ASSUME NEW w \in Workers, CallHandler(w) PROVE TShape'
    BY <1>0, <1>16 DEF CallHandler, TShape
  <1>17. ASSUME NEW w \in Workers, HandlerCalled(w) PROVE TShape'
    BY <1>0, <1>17 DEF HandlerCalled, TShape
  <1>23. ASSUME NEW w \in Workers, HandlerFails(w) PROVE TShape'
    BY <1>0, <1>23 DEF HandlerFails, TShape
  <1>18. ASSUME NEW w \in Workers, EnsureNext(w) PROVE TShape'
    <2>1. Advance(w, FilterMap, "done") /\ pc[w] = "ensureNext" BY <1>18 DEF EnsureNext
    <2>2. QED BY <1>0, <1>18, <2>1, AdvancePlace DEF EnsureNext, TShape
  <1>19. CASE ScheduleImage BY <1>0, <1>19 DEF ScheduleImage, Schedule, TShape
  <1>20. CASE NextSeam BY <1>0, <1>20 DEF NextSeam, TShape
  <1>21. CASE UNCHANGED vars BY <1>0, <1>21 DEF vars, TShape
  <1>22. QED BY <1>1, <1>2, <1>3, <1>4, <1>5, <1>6, <1>7, <1>8, <1>9, <1>10, <1>11, <1>12, <1>13,
               <1>14, <1>15, <1>16, <1>17, <1>18, <1>19, <1>20, <1>21, <1>23 DEF Next, Step

LEMMA AlwaysTInv == Spec => []TInv
  <1>1. TInv /\ [Next]_vars => TInv' BY TypeStep, ShapeStep DEF TInv
  <1>2. QED BY <1>1, InitTInv, PTL DEF Spec

\* Every variable keeps its type, whatever is lost, overtriggered or fails
\* (counters, slots and flags shared by the workers of processingThread.cpp).
THEOREM TypeCorrect == Spec => []TypeOK
  <1>1. TInv => TypeOK BY DEF TInv
  <1>2. QED BY <1>1, AlwaysTInv, PTL

-----------------------------------------------------------------------------
(* The invariant of a clean pipeline.                                      *)

Steps == {"signal", "call", "inside", "emit", "done"}

\* The work in the workers' hands, waiting or running.
Jobs == ({work[w] : w \in Workers} \cup {job[w] : w \in Workers}) \ {NoJob}

InOrder(j) ==
    /\ j.last < j.n /\ j.n <= last
    /\ j.mode \in {"Normal", "MissingImage"}
    /\ j.mode = "Normal" => j.n = j.last + 1
    /\ j.mode = "MissingImage" => j.n > j.last + 1
    /\ j.samples = Range(Sensors)

\* Of two jobs one is behind the other: its last image is not before it.
Chain ==
    /\ \A a, b \in Jobs : a = b \/ a.n <= b.last \/ b.n <= a.last
    /\ \A w \in Workers : job[w] # NoJob /\ work[w] # NoJob => job[w].n <= work[w].last

OwnSlot ==
    \A w \in Workers :
        /\ work[w] # NoJob => Slot(work[w].n) = w
        /\ job[w] # NoJob => Slot(job[w].n) = w

JInv == (\A j \in Jobs : InOrder(j)) /\ Chain /\ OwnSlot

\* A worker in place p, at filter a and with inputs q, is done with filter f.
Passed(p, a, q, f) ==
    /\ p \in Steps
    /\ IF f = Handler THEN a = Handler /\ p \in {"signal", "done"}
       ELSE IF f = Filter THEN a = Handler \/ (a = Filter /\ p = "emit")
       ELSE f \notin Range(q) /\ ~ (a = f /\ p \in {"call", "inside"})

Upto(list, i, f) == \E k \in DOMAIN list : k < i /\ list[k] = f

\* What the counter c of filter f is for a worker with job j, in place p at
\* position i of its loop.
Fits(j, p, i, a, q, f, c) ==
    /\ p = "skip" => IF Upto(Visited, i, f) THEN c = j.last + 2 ELSE c <= j.last + 1
    /\ p = "ensure" => IF Upto(Visited, i, f) THEN c = j.n ELSE c = j.last + 2
    /\ p = "sync" => /\ c <= j.n
                     /\ j.mode = "MissingImage" => c = j.n
                     /\ f \in Sources /\ Upto(FilterMap, i, f) => c = j.n
    /\ p \in Steps =>
          IF Passed(p, a, q, f) THEN c > j.n
          ELSE /\ c <= j.n
               /\ j.mode = "MissingImage" => c = j.n
               /\ f \in Sources => c = j.n
               /\ p = "inside" /\ a = f => c = j.n

CounterFits(w) ==
    \A f \in AllFilters :
        /\ work[w] # NoJob => counter[f] <= work[w].last + 1
        /\ job[w] # NoJob => Fits(job[w], pc[w], idx[w], at[w], inputs[w], f, counter[f])

\* With a single worker nobody waits, and the counters are where they were
\* left by the image before.
Alone ==
    NbPar = 1 => \A w \in Workers :
        /\ work[w] # NoJob => work[w].n = last
        /\ job[w] # NoJob => IF work[w] = NoJob THEN last = job[w].n ELSE work[w].last = job[w].n
        /\ \A f \in AllFilters :
            /\ job[w] = NoJob =>
                   counter[f] >= IF work[w] = NoJob THEN last + 1 ELSE work[w].last + 1
            /\ job[w] # NoJob /\ pc[w] = "skip" => counter[f] >= job[w].last + 1
            /\ job[w] # NoJob /\ pc[w] \notin {"skip", "ensure"} => counter[f] >= job[w].n

Counters ==
    /\ \A f \in AllFilters : counter[f] <= last + 1
    /\ \A w \in Workers : CounterFits(w)
    /\ Alone

\* Where a worker can be, and what it has there.
Shape(w) ==
    /\ pc[w] \notin {"handler", "ensureNext"}
    /\ pc[w] \in {"skip", "ensure"} => job[w].mode = "MissingImage"
    /\ pc[w] = "sync" => idx[w] <= Len(FilterMap)
    /\ pc[w] \notin {"skip", "ensure", "sync"} => idx[w] = 1
    /\ pc[w] \notin Steps => at[w] = None /\ ~processing[w]
    /\ IsInjective(inputs[w])
    /\ pc[w] = "signal" =>
          /\ at[w] # Filter
          /\ at[w] = None => Range(inputs[w]) = Sources
          /\ at[w] \in Sources => at[w] \notin Range(inputs[w]) /\ inputs[w] # <<>>
    /\ pc[w] \in {"call", "inside"} => img[w] = job[w].n
    /\ pc[w] \in {"inside", "emit"} => carry[w] = job[w].n
    /\ pc[w] \in {"call", "inside", "emit"} => at[w] # None /\ at[w] \notin Range(inputs[w])
    /\ at[w] \in {Filter, Handler} => inputs[w] = <<>>
    /\ pc[w] = "emit" => at[w] # Handler
    /\ pc[w] = "done" => at[w] = Handler
    /\ pc[w] \in Steps => (processing[w] <=> ~ (at[w] = Handler /\ pc[w] \in {"signal", "done"}))

\* The source has written its pipe for the job of w.
Emitted(w, s) ==
    /\ pc[w] \in Steps
    /\ s \notin Range(inputs[w])
    /\ ~ (at[w] = s /\ pc[w] \in {"call", "inside", "emit"})

\* What is in the slots of w, and which signals are pending there.
Data(w) ==
    /\ at[w] = Image /\ pc[w] = "call" => imagePipe[w] = job[w].n
    /\ at[w] \in Range(Sensors) /\ pc[w] = "call" =>
           subscriber[at[w]] = w /\ samplePipe[w][w] = job[w].n
    /\ \A s \in Sources : Emitted(w, s) => slot[s][w] = job[w].n
    /\ at[w] = Handler /\ pc[w] = "call" => slot[Filter][w] = job[w].n /\ avail[w]
    /\ \A s \in Sources : flag[s][w] <=> Emitted(w, s) /\ at[w] \notin {Filter, Handler}

\* The result of its job has been sent; image x still waits for that.
Sent(w) == at[w] = Handler /\ pc[w] \in {"inside", "signal", "done"}

OpenAt(w, x) ==
    \/ work[w] # NoJob /\ work[w].n = x
    \/ job[w] # NoJob /\ ~Sent(w) /\ job[w].n = x

IsOpen(x) == \E w \in Workers : OpenAt(w, x)

Results ==
    /\ \A i \in DOMAIN accepted : accepted[i] <= last
    /\ \A i, k \in DOMAIN accepted : k < i => accepted[k] < accepted[i]
    /\ Len(delivered) <= Len(accepted)
    /\ \A i \in 1 .. Len(delivered) : delivered[i] = accepted[i]
    /\ \A x \in Images : IsOpen(x) => \E i \in DOMAIN accepted : accepted[i] = x
    /\ \A i \in DOMAIN accepted, x \in Images :
            accepted[i] = x => (i > Len(delivered) <=> IsOpen(x))

LInv == \A w \in Workers : Shape(w) /\ Data(w)

CInv == clean => JInv /\ Counters /\ LInv /\ Results

IInv == TInv /\ CInv

-----------------------------------------------------------------------------
(* What a step leaves alone.                                               *)

SameWorker(w) ==
    /\ work'[w] = work[w] /\ job'[w] = job[w] /\ pc'[w] = pc[w] /\ idx'[w] = idx[w]
    /\ inputs'[w] = inputs[w] /\ at'[w] = at[w] /\ img'[w] = img[w] /\ carry'[w] = carry[w]
    /\ processing'[w] = processing[w]

LEMMA AdvanceFrame ==
    ASSUME TypeOK, NEW v, NEW list, NEW step, Advance(v, list, step), NEW w \in Workers \ {v}
    PROVE  pc'[w] = pc[w] /\ idx'[w] = idx[w]
  BY DEF Advance, TypeOK

LEMMA Frame ==
    ASSUME TypeOK, NEW v \in Workers, Step(v), NEW w \in Workers \ {v}
    PROVE  SameWorker(w)
  <1> USE DEF workerVars, pipeVars
  <1>1. CASE TakeWork(v)
    BY <1>1 DEF TakeWork, SameWorker, TypeOK
  <1>2. CASE FinishWork(v)
    BY <1>2 DEF FinishWork, SameWorker, TypeOK
  <1>3. CASE Wait(v)
    BY <1>3 DEF Wait, SameWorker, TypeOK
  <1>4. CASE SkipImageProcessing(v)
    <2>1. Advance(v, Visited, "ensure") BY <1>4 DEF SkipImageProcessing
    <2>2. pc'[w] = pc[w] /\ idx'[w] = idx[w] BY <2>1, AdvanceFrame
    <2>3. QED BY <1>4, <2>2 DEF SkipImageProcessing, SameWorker, TypeOK
  <1>5. CASE EnsureAll(v)
    <2>1. Advance(v, Visited, "sync") BY <1>5 DEF EnsureAll
    <2>2. pc'[w] = pc[w] /\ idx'[w] = idx[w] BY <2>1, AdvanceFrame
    <2>3. QED BY <1>5, <2>2 DEF EnsureAll, SameWorker, TypeOK
  <1>6. CASE SynchronizeSource(v)
    <2>1. Advance(v, FilterMap, "signal") BY <1>6 DEF SynchronizeSource
    <2>2. pc'[w] = pc[w] /\ idx'[w] = idx[w] BY <2>1, AdvanceFrame
    <2>3. QED BY <1>6, <2>2 DEF SynchronizeSource, SameWorker, TypeOK
  <1>7. CASE NoSample(v)
    BY <1>7 DEF NoSample, SameWorker, TypeOK
  <1>8. CASE SignalSource(v)
    BY <1>8 DEF SignalSource, SameWorker, TypeOK
  <1>9. CASE EnterFilter(v)
    BY <1>9 DEF EnterFilter, SameWorker, TypeOK
  <1>10. CASE LeaveFilter(v)
    BY <1>10 DEF LeaveFilter, SameWorker, TypeOK
  <1>11. CASE FilterFails(v)
    BY <1>11 DEF FilterFails, SameWorker, TypeOK
  <1>12. CASE LeaveHandler(v)
    BY <1>12 DEF LeaveHandler, SameWorker, TypeOK
  <1>13. CASE EmitSource(v)
    BY <1>13 DEF EmitSource, SameWorker, TypeOK
  <1>14. CASE EmitResult(v)
    BY <1>14 DEF EmitResult, SameWorker, TypeOK
  <1>15. CASE ImageDone(v)
    BY <1>15 DEF ImageDone, SameWorker, TypeOK
  <1>16. CASE CallHandler(v)
    BY <1>16 DEF CallHandler, SameWorker, TypeOK
  <1>17. CASE HandlerCalled(v)
    BY <1>17 DEF HandlerCalled, SameWorker, TypeOK
  <1>23. CASE HandlerFails(v)
    BY <1>23 DEF HandlerFails, SameWorker, TypeOK
  <1>18. CASE EnsureNext(v)
    <2>1. Advance(v, FilterMap, "done") BY <1>18 DEF EnsureNext
    <2>2. pc'[w] = pc[w] /\ idx'[w] = idx[w] BY <2>1, AdvanceFrame
    <2>3. QED BY <1>18, <2>2 DEF EnsureNext, SameWorker, TypeOK
  <1>19. QED BY <1>1, <1>2, <1>3, <1>4, <1>5, <1>6, <1>7, <1>8, <1>9, <1>10, <1>11, <1>12, <1>13,
               <1>14, <1>15, <1>16, <1>17, <1>18, <1>23 DEF Step

LEMMA StepKeeps ==
    ASSUME NEW v \in Workers, Step(v)
    PROVE  UNCHANGED <<last, accepted>>
  BY DEF Step, TakeWork, FinishWork, Wait, SkipImageProcessing, EnsureAll, SynchronizeSource, NoSample,
         SignalSource, EnterFilter, LeaveFilter, FilterFails, LeaveHandler, EmitSource, EmitResult,
         ImageDone, CallHandler, HandlerCalled, HandlerFails, EnsureNext, pipeVars, workerVars

\* The steps of a worker in a clean pipeline.
CleanStep(w) ==
    \/ TakeWork(w) \/ FinishWork(w) \/ Wait(w)
    \/ SkipImageProcessing(w) \/ EnsureAll(w) \/ SynchronizeSource(w)
    \/ SignalSource(w) \/ EnterFilter(w) \/ LeaveFilter(w)
    \/ LeaveHandler(w) \/ EmitSource(w) \/ EmitResult(w) \/ ImageDone(w)

LEMMA StaysClean ==
    ASSUME TypeOK, [Next]_vars, clean'
    PROVE  clean
  <1>1. faults \in Nat BY PipelineAssumption DEF TypeOK
  <1>2. ASSUME NEW w \in Workers, Step(w) PROVE faults' = faults \/ faults' = faults + 1
    BY <1>2 DEF Step, TakeWork, FinishWork, Wait, SkipImageProcessing, EnsureAll, SynchronizeSource,
         NoSample, SignalSource, EnterFilter, LeaveFilter, FilterFails, LeaveHandler, EmitSource,
         EmitResult, ImageDone, CallHandler, HandlerCalled, HandlerFails, EnsureNext, pipeVars, workerVars
  <1>3. ASSUME ScheduleImage PROVE faults' = faults \/ faults' = faults + 1
    BY <1>3 DEF ScheduleImage, Schedule
  <1>4. faults' = faults \/ faults' = faults + 1
    BY <1>2, <1>3 DEF Next, NextSeam, vars
  <1>5. QED BY <1>1, <1>4 DEF clean

\* The job of a worker that is not idle, and what it is in a clean pipeline.
LEMMA CleanJob ==
    ASSUME TInv, JInv, NEW w \in Workers, job[w] # NoJob
    PROVE  /\ job[w] \in Jobs /\ job[w] \in Job /\ InOrder(job[w])
           /\ job[w].n \in Images /\ job[w].n \in Nat /\ job[w].last \in Int
           /\ job[w].last + 1 \in Nat /\ Slot(job[w].n) = w
           /\ pc[w] # "idle"
  <1>1. job[w] \in Jobs BY DEF Jobs
  <1>2. job[w] \in Job BY DEF TInv, TypeOK
  <1>3. QED BY <1>1, <1>2, JobType DEF JInv, OwnSlot, TInv, TShape

LEMMA CleanWork ==
    ASSUME TInv, JInv, NEW w \in Workers, work[w] # NoJob
    PROVE  /\ work[w] \in Jobs /\ work[w] \in Job /\ InOrder(work[w])
           /\ work[w].n \in Images /\ work[w].n \in Nat /\ work[w].last \in Int
           /\ work[w].last + 1 \in Nat /\ Slot(work[w].n) = w
  <1>1. work[w] \in Jobs BY DEF Jobs
  <1>2. work[w] \in Job BY DEF TInv, TypeOK
  <1>3. QED BY <1>1, <1>2, JobType DEF JInv, OwnSlot

LEMMA CleanSteps ==
    ASSUME TInv, JInv, LInv, NEW w \in Workers, Step(w), clean, clean'
    PROVE  CleanStep(w)
  <1>1. Shape(w) BY DEF LInv
  <1>2. ASSUME NoSample(w) PROVE FALSE
    <2>1. pc[w] = "signal" /\ inputs[w] # <<>> /\ Head(inputs[w]) \notin {Image} \cup job[w].samples
      BY <1>2 DEF NoSample
    <2>2. job[w] # NoJob BY <2>1 DEF TInv, TShape
    <2>3. job[w].samples = Range(Sensors) BY <2>2, CleanJob DEF InOrder
    <2>4. Head(inputs[w]) \in Sources BY <2>1, InputsType DEF TInv, TypeOK
    <2>5. QED BY <2>1, <2>3, <2>4, Names
  <1>3. ~ FilterFails(w) BY DEF FilterFails, clean
  <1>4. ASSUME CallHandler(w) PROVE FALSE
    <2>1. pc[w] = "signal" /\ inputs[w] = <<>> /\ processing[w] BY <1>4 DEF CallHandler
    <2>2. at[w] # Handler /\ at[w] # Filter /\ at[w] \notin Sources BY <1>1, <2>1 DEF Shape, Steps
    <2>3. at[w] = None BY <2>2 DEF TInv, TypeOK, Filters
    <2>4. Range(<<>>) = {} BY DEF Range
    <2>5. Sources = {} BY <1>1, <2>1, <2>3, <2>4 DEF Shape
    <2>6. QED BY <2>5, Names
  <1>5. ~ HandlerCalled(w) /\ ~ HandlerFails(w) /\ ~ EnsureNext(w)
    BY <1>1 DEF HandlerCalled, HandlerFails, EnsureNext, Shape
  <1>6. QED BY <1>2, <1>3, <1>4, <1>5 DEF Step, CleanStep

-----------------------------------------------------------------------------
(* The jobs.                                                               *)

LEMMA SameJobs ==
    ASSUME NEW v \in Workers, CleanStep(v)
    PROVE  TakeWork(v) \/ FinishWork(v) \/ UNCHANGED <<work, job>>
  BY DEF CleanStep, Wait, SkipImageProcessing, EnsureAll, SynchronizeSource,
         SignalSource, EnterFilter, LeaveFilter, LeaveHandler, EmitSource, EmitResult,
         ImageDone, pipeVars, workerVars

LEMMA JobsShrink ==
    ASSUME TypeOK, NEW v \in Workers, CleanStep(v)
    PROVE  Jobs' \subseteq Jobs
  <1>1. CASE TakeWork(v) BY <1>1 DEF TakeWork, Jobs, TypeOK
  <1>2. CASE FinishWork(v) BY <1>2 DEF FinishWork, Jobs, TypeOK
  <1>3. CASE UNCHANGED <<work, job>> BY <1>3 DEF Jobs
  <1>4. QED BY <1>1, <1>2, <1>3, SameJobs

LEMMA JobsStep ==
    ASSUME TInv, JInv, NEW v \in Workers, CleanStep(v)
    PROVE  JInv'
  <1>0. TypeOK BY DEF TInv
  <1>1. Jobs' \subseteq Jobs BY <1>0, JobsShrink
  <1>2. Step(v) BY DEF CleanStep, Step
  <1>3. last' = last BY <1>2, StepKeeps
  <1>4. \A j \in Jobs' : InOrder(j)' BY <1>1, <1>3 DEF JInv, InOrder
  <1>5. \A a, b \in Jobs' : a = b \/ a.n <= b.last \/ b.n <= a.last BY <1>1 DEF JInv, Chain
  <1>6. ASSUME NEW w \in Workers
        PROVE  /\ job'[w] # NoJob /\ work'[w] # NoJob => job'[w].n <= work'[w].last
               /\ work'[w] # NoJob => Slot(work'[w].n) = w
               /\ job'[w] # NoJob => Slot(job'[w].n) = w
    <2>1. CASE w # v
      <3>1. SameWorker(w) BY <1>0, <1>2, <2>1, Frame
      <3>2. QED BY <3>1 DEF SameWorker, JInv, Chain, OwnSlot
    <2>2. CASE w = v /\ TakeWork(v)
      <3>1. job'[v] = work[v] /\ work'[v] = NoJob BY <1>0, <2>2 DEF TakeWork, TypeOK
      <3>2. QED BY <2>2, <3>1 DEF JInv, OwnSlot
    <2>3. CASE w = v /\ FinishWork(v)
      <3>1. job'[v] = NoJob /\ work'[v] = work[v] BY <1>0, <2>3 DEF FinishWork, TypeOK
      <3>2. QED BY <2>3, <3>1 DEF JInv, OwnSlot
    <2>4. CASE UNCHANGED <<work, job>> BY <2>4 DEF JInv, Chain, OwnSlot
    <2>5. QED BY <2>1, <2>2, <2>3, <2>4, SameJobs
  <1>7. QED BY <1>4, <1>5, <1>6 DEF JInv, Chain, OwnSlot

\* A new image in a clean pipeline.
NewJob(n, mode) == [n |-> n, mode |-> mode, last |-> last, samples |-> Range(Sensors)]

LEMMA CleanSchedule ==
    ASSUME TInv, ScheduleImage, clean, clean'
    PROVE  \E n \in Images, mode \in Modes :
              /\ n > last
              /\ mode \in {"Normal", "MissingImage"}
              /\ mode = "Normal" => n = last + 1
              /\ mode = "MissingImage" => n > last + 1
              /\ work[Slot(n)] = NoJob
              /\ work' = [work EXCEPT ![Slot(n)] = NewJob(n, mode)]
              /\ last' = n
              /\ accepted' = Append(accepted, n)
              /\ UNCHANGED <<job, workerVars, counter, pipeVars, delivered>>
  <1>1. PICK n \in Images, mode \in Modes, samples \in SUBSET Range(Sensors) :
             /\ n > last
             /\ mode = "Normal" => n = last + 1
             /\ mode = "MissingImage" => n > last + 1
             /\ Schedule(n, mode, samples)
    BY DEF ScheduleImage
  <1>2. ~ Disturbed(mode, samples) BY <1>1 DEF Schedule, clean
  <1>3. mode \in {"Normal", "MissingImage"} /\ samples = Range(Sensors)
    BY <1>2, PipelineAssumption DEF Disturbed
  <1>4. /\ work[Slot(n)] = NoJob
        /\ work' = [work EXCEPT ![Slot(n)] = NewJob(n, mode)]
        /\ last' = n
        /\ accepted' = Append(accepted, n)
        /\ UNCHANGED <<job, workerVars, counter, pipeVars, delivered>>
    BY <1>1, <1>3 DEF Schedule, NewJob
  <1>5. QED BY <1>1, <1>3, <1>4

LEMMA NewJobType ==
    ASSUME TypeOK, NEW n \in Images, NEW mode \in Modes
    PROVE  NewJob(n, mode) \in Job
  BY PipelineAssumption DEF NewJob, Job, TypeOK

LEMMA JobsSchedule ==
    ASSUME TInv, JInv, ScheduleImage, clean, clean'
    PROVE  JInv'
  <1>0. TypeOK BY DEF TInv
  <1>1. PICK n \in Images, mode \in Modes :
              /\ n > last
              /\ mode \in {"Normal", "MissingImage"}
              /\ mode = "Normal" => n = last + 1
              /\ mode = "MissingImage" => n > last + 1
              /\ work[Slot(n)] = NoJob
              /\ work' = [work EXCEPT ![Slot(n)] = NewJob(n, mode)]
              /\ last' = n
              /\ UNCHANGED job
    BY CleanSchedule
  <1> DEFINE new == NewJob(n, mode)
  <1>2. /\ new.n = n /\ new.last = last /\ new.mode = mode /\ new.samples = Range(Sensors)
    BY DEF NewJob
  <1>3. Jobs' \subseteq Jobs \cup {new} BY <1>0, <1>1 DEF Jobs, TypeOK
  <1>4. last \in Int /\ n \in Int
    <2>1. Images \subseteq Int /\ -1 \in Int BY DEF Images
    <2>2. last \in Images \cup {-1} BY <1>0 DEF TypeOK
    <2>3. last \in Int BY <2>1, <2>2
    <2>4. n \in Int BY <2>1
    <2>5. QED BY <2>3, <2>4
  <1>5. \A j \in Jobs : j \in Job /\ j.n \in Int /\ j.n <= last /\ j.last \in Int
    <2>1. ASSUME NEW j \in Jobs PROVE j \in Job /\ j.n \in Int /\ j.n <= last /\ j.last \in Int
      <3>1. j \in Job BY <1>0 DEF Jobs, TypeOK
      <3>2. j.n \in Nat /\ j.last \in Int BY <3>1, JobType
      <3>3. j.n <= last BY DEF JInv, InOrder
      <3>4. QED BY <3>1, <3>2, <3>3
    <2>2. QED BY <2>1
  <1> HIDE DEF new
  <1>6. \A j \in Jobs' : InOrder(j)'
    <2>1. ASSUME NEW j \in Jobs
          PROVE  /\ j.last < j.n /\ j.n <= last'
                 /\ j.mode \in {"Normal", "MissingImage"}
                 /\ j.mode = "Normal" => j.n = j.last + 1
                 /\ j.mode = "MissingImage" => j.n > j.last + 1
                 /\ j.samples = Range(Sensors)
      <3>1. InOrder(j) BY DEF JInv
      <3>2. j.n <= last' BY <1>1, <1>4, <1>5
      <3>3. QED BY <3>1, <3>2 DEF InOrder
    <2>2. /\ new.last < new.n /\ new.n <= last'
          /\ new.mode \in {"Normal", "MissingImage"}
          /\ new.mode = "Normal" => new.n = new.last + 1
          /\ new.mode = "MissingImage" => new.n > new.last + 1
          /\ new.samples = Range(Sensors)
      BY <1>1, <1>2, <1>4
    <2>3. QED BY <1>3, <2>1, <2>2 DEF InOrder
  <1>7. \A a, b \in Jobs' : a = b \/ a.n <= b.last \/ b.n <= a.last
    BY <1>2, <1>3, <1>5 DEF JInv, Chain
  <1>8. ASSUME NEW w \in Workers
        PROVE  /\ job'[w] # NoJob /\ work'[w] # NoJob => job'[w].n <= work'[w].last
               /\ work'[w] # NoJob => Slot(work'[w].n) = w
               /\ job'[w] # NoJob => Slot(job'[w].n) = w
    <2>1. CASE w # Slot(n)
      <3>1. work'[w] = work[w] BY <1>0, <1>1, <2>1 DEF TypeOK
      <3>2. QED BY <1>1, <3>1 DEF JInv, Chain, OwnSlot
    <2>2. CASE w = Slot(n)
      <3>1. work'[w] = new BY <1>0, <1>1, <2>2 DEF TypeOK, new
      <3>2. job[w] # NoJob => job[w] \in Jobs BY DEF Jobs
      <3>3. QED BY <1>1, <1>2, <1>5, <2>2, <3>1, <3>2 DEF JInv, OwnSlot
    <2>3. QED BY <2>1, <2>2
  <1>9. QED BY <1>6, <1>7, <1>8 DEF JInv, Chain, OwnSlot

LEMMA JobsNextSeam ==
    ASSUME JInv, NextSeam
    PROVE  JInv'
  <1>1. Jobs = {} /\ Jobs' = {} BY DEF NextSeam, Idle, Jobs
  <1>2. QED BY <1>1 DEF JInv, Chain, OwnSlot, NextSeam, Idle

-----------------------------------------------------------------------------
(* The counters.  A worker moves a counter only between the last image of  *)
(* its job and its job, which no other worker can tell.                    *)

LEMMA NotPassedBound ==
    ASSUME NEW j \in Job, InOrder(j), NEW p, NEW i, NEW a, NEW q, NEW f, NEW c \in Nat,
           p \in {"skip", "ensure", "sync"} \cup Steps,
           p \in {"skip", "ensure"} => j.mode = "MissingImage",
           Fits(j, p, i, a, q, f, c), ~ Passed(p, a, q, f)
    PROVE  c <= j.n
  <1>1. j.n \in Int /\ j.last \in Int BY JobType
  <1>2. j.last < j.n /\ (j.mode = "MissingImage" => j.n > j.last + 1) BY DEF InOrder
  <1>3. CASE p = "skip"
    <2>1. c = j.last + 2 \/ c <= j.last + 1 BY <1>3 DEF Fits
    <2>2. QED BY <1>1, <1>2, <1>3, <2>1
  <1>4. CASE p = "ensure"
    <2>1. c = j.last + 2 \/ c = j.n BY <1>4 DEF Fits
    <2>2. QED BY <1>1, <1>2, <1>4, <2>1
  <1>5. CASE p = "sync" BY <1>5 DEF Fits
  <1>6. CASE p \in Steps BY <1>6 DEF Fits
  <1>7. QED BY <1>3, <1>4, <1>5, <1>6

LEMMA FitsStable ==
    ASSUME NEW j \in Job, NEW k \in Job, InOrder(j), InOrder(k),
           j.n <= k.last \/ k.n <= j.last,
           NEW p, NEW i, NEW a, NEW q, NEW f, NEW c \in Nat, NEW d \in Nat,
           p \in {"skip", "ensure", "sync"} \cup Steps,
           p \in {"skip", "ensure"} => j.mode = "MissingImage",
           k.last + 1 <= c, c <= k.n, c <= d, d <= k.n + 1,
           Fits(j, p, i, a, q, f, c)
    PROVE  Fits(j, p, i, a, q, f, d)
  <1>1. j.n \in Int /\ j.last \in Int /\ k.n \in Int /\ k.last \in Int BY JobType
  <1>2. j.last < j.n /\ k.last < k.n /\ (j.mode = "MissingImage" => j.n > j.last + 1)
    BY DEF InOrder
  <1>3. CASE j.n <= k.last
    <2>1. c > j.n /\ d > j.n BY <1>1, <1>3
    <2>2. Passed(p, a, q, f) BY <2>1, NotPassedBound, <1>1
    <2>3. p \in Steps BY <2>2 DEF Passed
    <2>4. p \notin {"skip", "ensure", "sync"} BY <2>3 DEF Steps
    <2>5. QED BY <2>1, <2>2, <2>4 DEF Fits
  <1>4. CASE k.n <= j.last
    <2>1. c <= j.last /\ d <= j.last + 1 /\ c < j.n /\ d <= j.n BY <1>1, <1>2, <1>4
    <2>2. c # j.n /\ c # j.last + 2 /\ ~ (c > j.n) BY <1>1, <2>1
    <2>3. p # "ensure" BY <2>2 DEF Fits
    <2>4. p = "skip" => ~ Upto(Visited, i, f) BY <2>2 DEF Fits
    <2>5. p = "sync" => j.mode # "MissingImage" /\ ~ (f \in Sources /\ Upto(FilterMap, i, f))
      BY <2>2 DEF Fits
    <2>6. p \in Steps => /\ ~ Passed(p, a, q, f) /\ j.mode # "MissingImage" /\ f \notin Sources
                         /\ ~ (p = "inside" /\ a = f)
      BY <2>2 DEF Fits
    <2>7. QED BY <2>1, <2>3, <2>4, <2>5, <2>6 DEF Fits
  <1>5. QED BY <1>3, <1>4

LEMMA VisitedOnce ==
    /\ \A i, k \in 1 .. Len(FilterMap) : FilterMap[i] = FilterMap[k] => i = k
    /\ \A f \in Filters : \E i \in 1 .. Len(FilterMap) : FilterMap[i] = f
    /\ \A i, k \in 1 .. Len(Visited) : Visited[i] = Visited[k] => i = k
    /\ \A f \in AllFilters : \E i \in 1 .. Len(Visited) : Visited[i] = f
  <1>1. \A i, k \in 1 .. Len(FilterMap) : FilterMap[i] = FilterMap[k] => i = k
    BY PipelineAssumption, MapType DEF IsInjective
  <1>2. \A f \in Filters : \E i \in 1 .. Len(FilterMap) : FilterMap[i] = f
    BY PipelineAssumption, MapType DEF Range
  <1>3. ASSUME NEW i \in 1 .. Len(Visited), NEW k \in 1 .. Len(Visited), Visited[i] = Visited[k]
        PROVE  i = k
    <2>1. \A m \in 1 .. Len(FilterMap) : Visited[m] # Handler BY MapType, VisitedType, Names
    <2>2. \A m \in 1 .. Len(Visited) : m \in 1 .. Len(FilterMap) \/ m = Len(Visited)
      BY MapType, VisitedType
    <2>3. CASE i \in 1 .. Len(FilterMap) /\ k \in 1 .. Len(FilterMap)
      BY <1>1, <1>3, <2>3, VisitedType
    <2>4. QED BY <1>3, <2>1, <2>2, <2>3, VisitedType
  <1>4. ASSUME NEW f \in AllFilters
        PROVE  \E i \in 1 .. Len(Visited) : Visited[i] = f
    <2>1. CASE f = Handler
      <3>1. Len(Visited) \in 1 .. Len(Visited) BY MapType, VisitedType
      <3>2. QED BY <2>1, <3>1, VisitedType
    <2>2. CASE f \in Filters
      <3>1. PICK i \in 1 .. Len(FilterMap) : FilterMap[i] = f BY <1>2, <2>2
      <3>2. i \in 1 .. Len(Visited) /\ Visited[i] = f BY <3>1, Indices, VisitedType
      <3>3. QED BY <3>2
    <2>3. QED BY <2>1, <2>2 DEF AllFilters
  <1>5. QED BY <1>1, <1>2, <1>3, <1>4

\* One step along a list visits one more filter.
LEMMA UptoStep ==
    ASSUME NEW list, NEW len \in Nat, DOMAIN list = 1 .. len, NEW i \in 1 .. len,
           \A k, m \in 1 .. len : list[k] = list[m] => k = m
    PROVE  /\ ~ Upto(list, i, list[i])
           /\ \A f : ~ Upto(list, 1, f)
           /\ \A f : Upto(list, i + 1, f) <=> Upto(list, i, f) \/ f = list[i]
           /\ \A f : i = len /\ (\E k \in 1 .. len : list[k] = f) => Upto(list, i, f) \/ f = list[i]
  BY DEF Upto

\* Where a worker with a job is in a clean pipeline.
LEMMA Place ==
    ASSUME TInv, LInv, NEW w \in Workers, job[w] # NoJob
    PROVE  /\ pc[w] \in {"skip", "ensure", "sync"} \cup Steps
           /\ pc[w] \in {"skip", "ensure"} => job[w].mode = "MissingImage"
  <1>1. pc[w] \in Places /\ pc[w] # "idle" BY DEF TInv, TypeOK, TShape, Places
  <1>2. Shape(w) BY DEF LInv
  <1>3. QED BY <1>1, <1>2 DEF Places, Steps, Shape

LEMMA CounterOf ==
    ASSUME TypeOK, NEW f \in AllFilters
    PROVE  counter[f] \in Nat
  BY DEF TypeOK, AllFilters

LEMMA OneWorker ==
    ASSUME NbPar = 1
    PROVE  Workers = {0}
  BY DEF Workers

\* A worker that is let through is let through at its number.
LEMMA SynchronizedAt ==
    ASSUME NEW w, Synchronized(w), NEW c \in Int, NEW n \in Int,
           c = counter[SyncFilter(w)], n = SyncNumber(w), c <= n, NbPar = 1 => c >= n
    PROVE  c = n
  BY DEF Synchronized

LEMMA SkipMoves ==
    ASSUME TInv, JInv, Counters, LInv, NEW v \in Workers, SkipImageProcessing(v)
    PROVE  /\ Visited[idx[v]] \in AllFilters
           /\ counter[Visited[idx[v]]] = job[v].last + 1
           /\ counter' = [counter EXCEPT ![Visited[idx[v]]] = job[v].last + 2]
           /\ job[v].last + 2 <= job[v].n
  <1> DEFINE f == Visited[idx[v]]
  <1>1. pc[v] = "skip" /\ Proceed(v) /\ PreSignalAction(f) BY DEF SkipImageProcessing
  <1>2. job[v] # NoJob BY <1>1 DEF TInv, TShape
  <1>3. idx[v] \in 1 .. Len(Visited) /\ f \in AllFilters BY VisitedType DEF TInv, TypeOK
  <1>4. counter[f] \in Nat BY <1>3, CounterOf DEF TInv
  <1>5. job[v].last \in Int /\ job[v].n \in Nat BY <1>2, CleanJob
  <1>6. ~ Upto(Visited, idx[v], f)
    <2>1. Len(Visited) \in Nat BY MapType, VisitedType
    <2>2. QED BY <1>3, <2>1, VisitedType, VisitedOnce, UptoStep
  <1>7. Fits(job[v], pc[v], idx[v], at[v], inputs[v], f, counter[f])
    BY <1>2, <1>3 DEF Counters, CounterFits
  <1>8. counter[f] <= job[v].last + 1 BY <1>1, <1>6, <1>7 DEF Fits
  <1>9. NbPar = 1 => counter[f] >= job[v].last + 1 BY <1>1, <1>2, <1>3 DEF Counters, Alone
  <1>10. SyncFilter(v) = f /\ SyncNumber(v) = job[v].last + 1
    BY <1>1 DEF SyncFilter, SyncNumber
  <1>11. counter[f] = job[v].last + 1
    <2>1. Synchronized(v) BY <1>1 DEF Proceed
    <2>2. QED BY <1>4, <1>5, <1>8, <1>9, <1>10, <2>1, SynchronizedAt
  <1>12. counter[f] + 1 = job[v].last + 2 BY <1>5, <1>11
  <1>13. job[v].last + 2 <= job[v].n
    <2>1. InOrder(job[v]) BY <1>2, CleanJob
    <2>2. Shape(v) BY DEF LInv
    <2>3. QED BY <1>1, <1>5, <2>1, <2>2 DEF InOrder, Shape
  <1>14. QED BY <1>1, <1>3, <1>11, <1>12, <1>13 DEF PreSignalAction

LEMMA EnsureMoves ==
    ASSUME TInv, JInv, Counters, LInv, NEW v \in Workers, EnsureAll(v)
    PROVE  /\ Visited[idx[v]] \in AllFilters
           /\ counter[Visited[idx[v]]] = job[v].last + 2
           /\ counter' = [counter EXCEPT ![Visited[idx[v]]] = job[v].n]
           /\ job[v].last + 2 <= job[v].n
  <1> DEFINE f == Visited[idx[v]]
  <1>1. pc[v] = "ensure" /\ EnsureImageNumber(f, job[v].n) BY DEF EnsureAll
  <1>2. job[v] # NoJob BY <1>1 DEF TInv, TShape
  <1>3. idx[v] \in 1 .. Len(Visited) /\ f \in AllFilters BY VisitedType DEF TInv, TypeOK
  <1>4. counter[f] \in Nat BY <1>3, CounterOf DEF TInv
  <1>5. job[v].last \in Int /\ job[v].n \in Nat BY <1>2, CleanJob
  <1>6. ~ Upto(Visited, idx[v], f)
    <2>1. Len(Visited) \in Nat BY MapType, VisitedType
    <2>2. QED BY <1>3, <2>1, VisitedType, VisitedOnce, UptoStep
  <1>7. Fits(job[v], pc[v], idx[v], at[v], inputs[v], f, counter[f])
    BY <1>2, <1>3 DEF Counters, CounterFits
  <1>8. counter[f] = job[v].last + 2 BY <1>1, <1>6, <1>7 DEF Fits
  <1>9. job[v].last + 2 <= job[v].n
    <2>1. InOrder(job[v]) BY <1>2, CleanJob
    <2>2. Shape(v) BY DEF LInv
    <2>3. QED BY <1>1, <1>5, <2>1, <2>2 DEF InOrder, Shape
  <1>10. (IF counter[f] < job[v].n THEN job[v].n ELSE counter[f]) = job[v].n
    BY <1>4, <1>5, <1>8, <1>9
  <1>11. counter' = [counter EXCEPT ![f] = job[v].n] BY <1>1, <1>10 DEF EnsureImageNumber
  <1>12. QED BY <1>3, <1>8, <1>9, <1>11

\* The filter a worker is called at has not passed its image.
LEMMA AtNotPassed ==
    ASSUME NEW p \in {"call", "inside"}, NEW a, NEW q
    PROVE  ~ Passed(p, a, q, a)
  BY Names DEF Passed

LEMMA AtFilter ==
    ASSUME TInv, JInv, LInv, NEW v \in Workers, pc[v] \in {"call", "inside", "emit"}
    PROVE  /\ job[v] # NoJob /\ at[v] \in AllFilters /\ pc[v] \in Steps
           /\ pc[v] \in {"call", "inside"} => img[v] = job[v].n
           /\ pc[v] \in {"inside", "emit"} => carry[v] = job[v].n
  <1>1. job[v] # NoJob /\ at[v] # None BY DEF TInv, TShape
  <1>2. at[v] \in AllFilters BY <1>1 DEF TInv, TypeOK, AllFilters
  <1>3. Shape(v) BY DEF LInv
  <1>4. QED BY <1>1, <1>2, <1>3 DEF Shape, Steps

LEMMA EnterAt ==
    ASSUME TInv, JInv, Counters, LInv, NEW v \in Workers, EnterFilter(v)
    PROVE  counter[at[v]] = job[v].n
  <1>1. pc[v] = "call" /\ Proceed(v) BY DEF EnterFilter
  <1>2. job[v] # NoJob /\ at[v] \in AllFilters /\ img[v] = job[v].n /\ pc[v] \in Steps
    BY <1>1, AtFilter
  <1>3. counter[at[v]] \in Nat BY <1>2, CounterOf DEF TInv
  <1>4. job[v].n \in Nat BY <1>2, CleanJob
  <1>5. Fits(job[v], pc[v], idx[v], at[v], inputs[v], at[v], counter[at[v]])
    BY <1>2 DEF Counters, CounterFits
  <1>6. ~ Passed(pc[v], at[v], inputs[v], at[v]) BY <1>1, AtNotPassed
  <1>7. counter[at[v]] <= job[v].n BY <1>2, <1>5, <1>6 DEF Fits
  <1>8. NbPar = 1 => counter[at[v]] >= job[v].n BY <1>1, <1>2 DEF Counters, Alone
  <1>9. SyncFilter(v) = at[v] /\ SyncNumber(v) = job[v].n
    BY <1>1, <1>2 DEF SyncFilter, SyncNumber
  <1>10. Synchronized(v) BY <1>1 DEF Proceed
  <1>11. QED BY <1>3, <1>4, <1>7, <1>8, <1>9, <1>10, SynchronizedAt

\* A worker inside a filter has its image at the filter's counter.
LEMMA InsideAt ==
    ASSUME TInv, JInv, Counters, LInv, NEW v \in Workers, pc[v] = "inside"
    PROVE  counter[at[v]] = job[v].n /\ job[v] # NoJob /\ at[v] \in AllFilters
  <1>1. job[v] # NoJob /\ at[v] \in AllFilters /\ pc[v] \in Steps BY AtFilter
  <1>2. Fits(job[v], pc[v], idx[v], at[v], inputs[v], at[v], counter[at[v]])
    BY <1>1 DEF Counters, CounterFits
  <1>3. ~ Passed(pc[v], at[v], inputs[v], at[v]) BY AtNotPassed
  <1>4. QED BY <1>1, <1>2, <1>3 DEF Fits

LEMMA LeaveMoves ==
    ASSUME TInv, JInv, Counters, LInv, NEW v \in Workers, LeaveFilter(v) \/ LeaveHandler(v)
    PROVE  /\ counter[at[v]] = job[v].n
           /\ counter' = [counter EXCEPT ![at[v]] = job[v].n + 1]
           /\ job[v] # NoJob /\ at[v] \in AllFilters
  <1>1. pc[v] = "inside" /\ PreSignalAction(at[v]) BY DEF LeaveFilter, LeaveHandler
  <1>2. counter[at[v]] = job[v].n /\ job[v] # NoJob /\ at[v] \in AllFilters BY <1>1, InsideAt
  <1>3. QED BY <1>1, <1>2 DEF PreSignalAction

\* The window in which a step of v moves a counter.
Moved(v, f, d) ==
    /\ counter' = [counter EXCEPT ![f] = d]
    /\ job[v].last + 1 <= counter[f] /\ counter[f] <= job[v].n
    /\ counter[f] <= d /\ d <= job[v].n + 1

LEMMA MoveWindow ==
    ASSUME TInv, JInv, Counters, LInv, NEW v \in Workers, CleanStep(v)
    PROVE  \/ UNCHANGED counter
           \/ job[v] # NoJob /\ \E f \in AllFilters, d \in Nat : Moved(v, f, d)
  <1> USE DEF workerVars, pipeVars
  <1>1. CASE SkipImageProcessing(v)
    <2>1. job[v] # NoJob BY <1>1 DEF SkipImageProcessing, TInv, TShape
    <2>2. job[v].last \in Int /\ job[v].last + 1 \in Nat /\ job[v].n \in Nat BY <2>1, CleanJob
    <2>3. job[v].last + 2 \in Nat BY <2>2
    <2>4. Moved(v, Visited[idx[v]], job[v].last + 2) BY <1>1, <2>2, SkipMoves DEF Moved
    <2>5. QED BY <1>1, <2>1, <2>3, <2>4, SkipMoves
  <1>2. CASE EnsureAll(v)
    <2>1. job[v] # NoJob BY <1>2 DEF EnsureAll, TInv, TShape
    <2>2. job[v].last \in Int /\ job[v].n \in Nat BY <2>1, CleanJob
    <2>3. Moved(v, Visited[idx[v]], job[v].n) BY <1>2, <2>2, EnsureMoves DEF Moved
    <2>4. QED BY <1>2, <2>1, <2>2, <2>3, EnsureMoves
  <1>3. CASE LeaveFilter(v) \/ LeaveHandler(v)
    <2>1. job[v] # NoJob /\ at[v] \in AllFilters BY <1>3, LeaveMoves
    <2>2. job[v].last \in Int /\ job[v].n \in Nat /\ InOrder(job[v]) BY <2>1, CleanJob
    <2>3. job[v].last < job[v].n BY <2>2 DEF InOrder
    <2>4. Moved(v, at[v], job[v].n + 1) BY <1>3, <2>2, <2>3, LeaveMoves DEF Moved
    <2>5. job[v].n + 1 \in Nat BY <2>2
    <2>6. QED BY <2>1, <2>4, <2>5
  <1>4. CASE UNCHANGED counter BY <1>4
  <1>5. QED
    BY <1>1, <1>2, <1>3, <1>4 DEF CleanStep, TakeWork, FinishWork, Wait, SynchronizeSource,
       SignalSource, EnterFilter, EmitSource, EmitResult, ImageDone

LEMMA CounterGrows ==
    ASSUME TInv, JInv, Counters, LInv, NEW v \in Workers, CleanStep(v), NEW g \in AllFilters
    PROVE  counter'[g] >= counter[g]
  <1>1. counter \in [AllFilters -> Nat] BY DEF TInv, TypeOK, AllFilters
  <1>2. CASE UNCHANGED counter BY <1>1, <1>2
  <1>3. ASSUME NEW f \in AllFilters, NEW d \in Nat, Moved(v, f, d) PROVE counter'[g] >= counter[g]
    BY <1>1, <1>3 DEF Moved
  <1>4. QED BY <1>2, <1>3, MoveWindow

\* Two jobs in the hands of workers, of which one is that of v: the other has
\* another worker, or waits behind it.
LEMMA OtherJob ==
    ASSUME TInv, JInv, NEW v \in Workers, job[v] # NoJob, NEW w \in Workers
    PROVE  /\ w # v /\ job[w] # NoJob => job[w].n <= job[v].last \/ job[v].n <= job[w].last
           /\ work[w] # NoJob => work[w].n <= job[v].last \/ job[v].n <= work[w].last
  <1>1. job[v] \in Jobs /\ Slot(job[v].n) = v BY CleanJob
  <1>2. ASSUME w # v, job[w] # NoJob
        PROVE  job[w].n <= job[v].last \/ job[v].n <= job[w].last
    <2>1. job[w] \in Jobs /\ Slot(job[w].n) = w BY <1>2, CleanJob
    <2>2. job[w] # job[v] BY <1>1, <1>2, <2>1
    <2>3. QED BY <1>1, <2>1, <2>2 DEF JInv, Chain
  <1>3. ASSUME work[w] # NoJob
        PROVE  work[w].n <= job[v].last \/ job[v].n <= work[w].last
    <2>1. work[w] \in Jobs /\ Slot(work[w].n) = w BY <1>3, CleanWork
    <2>2. CASE w = v BY <1>3, <2>2 DEF JInv, Chain
    <2>3. CASE w # v
      <3>1. work[w] # job[v] BY <1>1, <2>1, <2>3
      <3>2. QED BY <1>1, <2>1, <3>1 DEF JInv, Chain
    <2>4. QED BY <2>2, <2>3
  <1>4. QED BY <1>2, <1>3

\* No step takes a counter past the images that wait.
LEMMA WaitingStep ==
    ASSUME TInv, JInv, Counters, LInv, NEW v \in Workers, CleanStep(v), NEW f \in AllFilters
    PROVE  /\ counter'[f] <= last + 1
           /\ \A w \in Workers : work[w] # NoJob => counter'[f] <= work[w].last + 1
  <1>1. counter \in [AllFilters -> Nat] /\ counter[f] <= last + 1 /\ last \in Int
    <2>1. counter \in [AllFilters -> Nat] /\ last \in Images \cup {-1}
      BY DEF TInv, TypeOK, AllFilters
    <2>2. Images \subseteq Int /\ -1 \in Int BY DEF Images
    <2>3. QED BY <2>1, <2>2 DEF Counters
  <1>2. \A w \in Workers : work[w] # NoJob => counter[f] <= work[w].last + 1
    BY DEF Counters, CounterFits
  <1>3. CASE UNCHANGED counter BY <1>1, <1>2, <1>3
  <1>4. ASSUME job[v] # NoJob, NEW g \in AllFilters, NEW d \in Nat, Moved(v, g, d), g = f
        PROVE  /\ counter'[f] <= last + 1
               /\ \A w \in Workers : work[w] # NoJob => counter'[f] <= work[w].last + 1
    <2>1. job[v].n \in Nat /\ job[v].last \in Int /\ job[v].n <= last
      BY <1>4, CleanJob DEF InOrder
    <2>2. /\ counter'[f] = d
          /\ job[v].last + 1 <= counter[f] /\ counter[f] <= job[v].n /\ d <= job[v].n + 1
      BY <1>1, <1>4 DEF Moved
    <2>3. counter'[f] <= last + 1 BY <1>1, <2>1, <2>2
    <2>4. ASSUME NEW w \in Workers, work[w] # NoJob PROVE counter'[f] <= work[w].last + 1
      <3>1. work[w].n \in Nat /\ work[w].last \in Int /\ InOrder(work[w]) BY <2>4, CleanWork
      <3>2. work[w].last < work[w].n BY <3>1 DEF InOrder
      <3>3. work[w].n <= job[v].last \/ job[v].n <= work[w].last BY <1>4, <2>4, OtherJob
      <3>4. counter[f] <= work[w].last + 1 /\ counter[f] \in Nat BY <1>1, <1>2, <2>4
      <3>5. QED BY <2>1, <2>2, <3>1, <3>2, <3>3, <3>4
    <2>5. QED BY <2>3, <2>4
  <1>5. ASSUME NEW g \in AllFilters, NEW d \in Nat, Moved(v, g, d), g # f
        PROVE  counter'[f] = counter[f]
    BY <1>1, <1>5 DEF Moved
  <1>6. QED BY <1>1, <1>2, <1>3, <1>4, <1>5, MoveWindow

\* No step tells another worker anything about the counters.
LEMMA OthersFit ==
    ASSUME TInv, JInv, Counters, LInv, NEW v \in Workers, CleanStep(v),
           NEW w \in Workers, w # v, job[w] # NoJob, NEW f \in AllFilters
    PROVE  Fits(job[w], pc[w], idx[w], at[w], inputs[w], f, counter'[f])
  <1>1. counter \in [AllFilters -> Nat] BY DEF TInv, TypeOK, AllFilters
  <1>2. Fits(job[w], pc[w], idx[w], at[w], inputs[w], f, counter[f])
    BY DEF Counters, CounterFits
  <1>3. ASSUME job[v] # NoJob, NEW d \in Nat, Moved(v, f, d)
        PROVE  Fits(job[w], pc[w], idx[w], at[w], inputs[w], f, d)
    <2>1. job[w] \in Job /\ job[v] \in Job /\ InOrder(job[w]) /\ InOrder(job[v])
      BY <1>3, CleanJob
    <2>2. job[w].n <= job[v].last \/ job[v].n <= job[w].last BY <1>3, OtherJob
    <2>3. /\ pc[w] \in {"skip", "ensure", "sync"} \cup Steps
          /\ pc[w] \in {"skip", "ensure"} => job[w].mode = "MissingImage"
      BY Place
    <2>4. /\ job[v].last + 1 <= counter[f] /\ counter[f] <= job[v].n
          /\ counter[f] <= d /\ d <= job[v].n + 1
          /\ counter[f] \in Nat
      BY <1>1, <1>3 DEF Moved
    <2>5. QED BY <1>2, <2>1, <2>2, <2>3, <2>4, FitsStable
  <1>4. \/ UNCHANGED counter
        \/ job[v] # NoJob /\ \E g \in AllFilters, d \in Nat : Moved(v, g, d)
    BY MoveWindow
  <1>5. CASE UNCHANGED counter BY <1>2, <1>5
  <1>6. ASSUME job[v] # NoJob, NEW g \in AllFilters, NEW d \in Nat, Moved(v, g, d)
        PROVE  Fits(job[w], pc[w], idx[w], at[w], inputs[w], f, counter'[f])
    <2>1. CASE g = f
      <3>1. counter'[f] = d BY <1>1, <1>6, <2>1 DEF Moved
      <3>2. QED BY <1>3, <1>6, <2>1, <3>1
    <2>2. CASE g # f
      <3>1. counter'[f] = counter[f] BY <1>1, <1>6, <2>2 DEF Moved
      <3>2. QED BY <1>2, <3>1
    <2>3. QED BY <2>1, <2>2
  <1>7. QED BY <1>4, <1>5, <1>6

-----------------------------------------------------------------------------
(* The signals of a group event.                                           *)

LEMMA EmptyInputs ==
    ASSUME NEW q \in Seq(Sources)
    PROVE  /\ Range(q) \subseteq Sources
           /\ Range(q) = {} <=> q = <<>>
  <1>1. Range(q) \subseteq Sources BY DEF Range
  <1>2. ASSUME q # <<>> PROVE q[1] \in Range(q)
    <2>1. 1 \in DOMAIN q BY <1>2
    <2>2. QED BY <2>1 DEF Range
  <1>3. Range(<<>>) = {} BY DEF Range
  <1>4. QED BY <1>1, <1>2, <1>3

\* A source that emits completes its event when it is the last one.
LEMMA SignaledBy ==
    ASSUME TInv, JInv, LInv, NEW v \in Workers, pc[v] = "emit", at[v] \in Sources
    PROVE  LET signaled == Signaled(at[v], carry[v]) IN
           /\ carry[v] = job[v].n /\ Slot(carry[v]) = v /\ at[v] \notin Range(inputs[v])
           /\ \A t \in Sources : signaled[t][v] = (t \notin Range(inputs[v]))
           /\ \A t \in Sources, k \in Workers \ {v} : signaled[t][k] = flag[t][k]
           /\ (\A t \in Sources : signaled[t][v]) <=> inputs[v] = <<>>
           /\ \A t \in Sources \ {at[v]} : t \notin Range(inputs[v]) => slot[t][v] = job[v].n
  <1> DEFINE s == at[v]
             n == carry[v]
             signaled == Signaled(s, n)
  <1>1. job[v] # NoJob /\ n = job[v].n BY AtFilter
  <1>2. n \in Nat /\ Slot(n) = v BY <1>1, CleanJob
  <1>3. Shape(v) /\ Data(v) BY DEF LInv
  <1>4. s \notin Range(inputs[v]) BY <1>3 DEF Shape
  <1>5. s # Filter /\ s # Handler BY Names
  <1>6. flag \in [Sources -> [Workers -> BOOLEAN]] /\ slot \in [Filters -> [Workers -> Images]]
    BY DEF TInv, TypeOK
  <1>7. \A t \in Sources : Emitted(v, t) <=> t \notin Range(inputs[v]) /\ t # s
    BY DEF Emitted, Steps
  <1>8. \A t \in Sources : flag[t][v] <=> t \notin Range(inputs[v]) /\ t # s
    BY <1>3, <1>5, <1>7 DEF Data
  <1>9. \A t \in Sources : t \notin Range(inputs[v]) /\ t # s => slot[t][v] = n
    BY <1>1, <1>3, <1>7 DEF Data
  <1>10. signaled = [t \in Sources |->
                       IF t = s THEN [flag[t] EXCEPT ![v] = TRUE]
                       ELSE IF slot[t][v] < n THEN [flag[t] EXCEPT ![v] = FALSE]
                       ELSE flag[t]]
    BY <1>2 DEF Signaled
  <1>11. ASSUME NEW t \in Sources PROVE signaled[t][v] = (t \notin Range(inputs[v]))
    <2>1. CASE t = s
      <3>1. signaled[t] = [flag[t] EXCEPT ![v] = TRUE] BY <1>10, <2>1
      <3>2. signaled[t][v] = TRUE BY <1>6, <3>1
      <3>3. QED BY <1>4, <2>1, <3>2
    <2>2. CASE t # s /\ t \notin Range(inputs[v])
      <3>1. ~ (slot[t][v] < n) BY <1>2, <1>9, <2>2
      <3>2. signaled[t] = flag[t] BY <1>10, <2>2, <3>1
      <3>3. flag[t][v] = TRUE BY <1>6, <1>8, <2>2
      <3>4. QED BY <2>2, <3>2, <3>3
    <2>3. CASE t # s /\ t \in Range(inputs[v])
      <3>1. signaled[t] = flag[t] \/ signaled[t] = [flag[t] EXCEPT ![v] = FALSE]
        BY <1>10, <2>3
      <3>2. flag[t][v] = FALSE BY <1>6, <1>8, <2>3
      <3>3. signaled[t][v] = FALSE BY <1>6, <3>1, <3>2
      <3>4. QED BY <2>3, <3>3
    <2>4. QED BY <2>1, <2>2, <2>3
  <1>12. ASSUME NEW t \in Sources, NEW k \in Workers \ {v} PROVE signaled[t][k] = flag[t][k]
    <2>1. \/ signaled[t] = [flag[t] EXCEPT ![v] = TRUE]
          \/ signaled[t] = [flag[t] EXCEPT ![v] = FALSE]
          \/ signaled[t] = flag[t]
      BY <1>10
    <2>2. QED BY <1>6, <2>1
  <1> HIDE DEF signaled
  <1>13. (\A t \in Sources : signaled[t][v]) <=> inputs[v] = <<>>
    <2>1. inputs[v] \in Seq(Sources) BY DEF TInv, TypeOK
    <2>2. (\A t \in Sources : signaled[t][v]) <=> (\A t \in Sources : t \notin Range(inputs[v]))
      BY <1>11
    <2>3. (\A t \in Sources : t \notin Range(inputs[v])) <=> Range(inputs[v]) = {}
      BY <2>1, EmptyInputs
    <2>4. QED BY <2>1, <2>2, <2>3, EmptyInputs
  <1>14. QED BY <1>1, <1>2, <1>4, <1>9, <1>11, <1>12, <1>13 DEF signaled

LEMMA EmitCases ==
    ASSUME TInv, JInv, LInv, NEW v \in Workers, EmitSource(v)
    PROVE  \/ /\ inputs[v] = <<>>
              /\ flag' = ResetSignals(Signaled(at[v], carry[v]), carry[v])
              /\ at' = [at EXCEPT ![v] = Filter]
              /\ img' = [img EXCEPT ![v] = carry[v]]
              /\ pc' = [pc EXCEPT ![v] = "call"]
           \/ /\ inputs[v] # <<>>
              /\ flag' = Signaled(at[v], carry[v])
              /\ pc' = [pc EXCEPT ![v] = "signal"]
              /\ UNCHANGED <<at, img>>
  <1>1. pc[v] = "emit" /\ at[v] \in Sources BY DEF EmitSource
  <1>2. LET signaled == Signaled(at[v], carry[v]) IN
        Slot(carry[v]) = v /\ ((\A t \in Sources : signaled[t][v]) <=> inputs[v] = <<>>)
    BY <1>1, SignaledBy
  <1>3. QED BY <1>2 DEF EmitSource

-----------------------------------------------------------------------------
(* The counters, as the worker that steps knows them.                      *)

OwnFit(v) ==
    job'[v] # NoJob =>
        \A f \in AllFilters :
            Fits(job'[v], pc'[v], idx'[v], at'[v], inputs'[v], f, counter'[f])

LEMMA AdvanceTo ==
    ASSUME TypeOK, NEW v \in Workers, NEW list, NEW step, Advance(v, list, step)
    PROVE  \/ idx[v] < Len(list) /\ idx'[v] = idx[v] + 1 /\ pc'[v] = pc[v]
           \/ ~ (idx[v] < Len(list)) /\ idx'[v] = 1 /\ pc'[v] = step
  BY DEF Advance, TypeOK

LEMMA TakeWorkFits ==
    ASSUME TInv, JInv, Counters, LInv, NEW v \in Workers, TakeWork(v)
    PROVE  OwnFit(v)
  <1>1. /\ work[v] # NoJob /\ job'[v] = work[v] /\ pc'[v] = FirstStep(work[v]) /\ idx'[v] = 1
        /\ UNCHANGED counter
    BY DEF TakeWork, TInv, TypeOK
  <1>2. InOrder(work[v]) /\ work[v].last \in Int /\ work[v].n \in Nat BY <1>1, CleanWork
  <1>3. \A f \in AllFilters : counter[f] <= work[v].last + 1
    BY <1>1 DEF Counters, CounterFits
  <1>4. \A f : ~ Upto(Visited, 1, f) /\ ~ Upto(FilterMap, 1, f)
    BY MapType, VisitedType DEF Upto
  <1>5. CASE work[v].mode = "Normal"
    <2>1. pc'[v] = "sync" /\ work[v].n = work[v].last + 1 BY <1>1, <1>2, <1>5 DEF FirstStep, InOrder
    <2>2. QED BY <1>1, <1>3, <1>4, <1>5, <2>1 DEF OwnFit, Fits, Steps
  <1>6. CASE work[v].mode = "MissingImage"
    <2>1. pc'[v] = "skip" BY <1>1, <1>6 DEF FirstStep
    <2>2. QED BY <1>1, <1>3, <1>4, <2>1 DEF OwnFit, Fits, Steps
  <1>7. QED BY <1>2, <1>5, <1>6 DEF InOrder

LEMMA SkipFits ==
    ASSUME TInv, JInv, Counters, LInv, NEW v \in Workers, SkipImageProcessing(v)
    PROVE  OwnFit(v)
  <1> DEFINE i == idx[v]
             l == job[v].last
  <1>0. TypeOK BY DEF TInv
  <1>1. pc[v] = "skip" /\ Advance(v, Visited, "ensure") /\ UNCHANGED job
    BY DEF SkipImageProcessing
  <1>2. job[v] # NoJob BY <1>1 DEF TInv, TShape
  <1>3. i \in 1 .. Len(Visited) /\ Len(Visited) \in Nat BY <1>0, MapType, VisitedType DEF TypeOK
  <1>4. counter \in [AllFilters -> Nat] BY <1>0 DEF TypeOK, AllFilters
  <1>5. Visited[i] \in AllFilters /\ counter' = [counter EXCEPT ![Visited[i]] = l + 2]
    BY SkipMoves
  <1>6. \A f \in AllFilters : IF Upto(Visited, i, f) THEN counter[f] = l + 2 ELSE counter[f] <= l + 1
    BY <1>1, <1>2 DEF Counters, CounterFits, Fits
  <1>7. \A f \in AllFilters :
            IF Upto(Visited, i + 1, f) THEN counter'[f] = l + 2 ELSE counter'[f] <= l + 1
    <2>1. \A f : Upto(Visited, i + 1, f) <=> Upto(Visited, i, f) \/ f = Visited[i]
      BY <1>3, VisitedType, VisitedOnce, UptoStep
    <2>2. QED BY <1>4, <1>5, <1>6, <2>1
  <1>8. CASE i < Len(Visited)
    <2>1. idx'[v] = i + 1 /\ pc'[v] = "skip" BY <1>0, <1>1, <1>8, AdvanceTo
    <2>2. QED BY <1>1, <1>7, <2>1 DEF OwnFit, Fits, Steps
  <1>9. CASE ~ (i < Len(Visited))
    <2>1. idx'[v] = 1 /\ pc'[v] = "ensure" BY <1>0, <1>1, <1>9, AdvanceTo
    <2>2. \A f \in AllFilters : Upto(Visited, i + 1, f)
      <3>1. i = Len(Visited) BY <1>3, <1>9
      <3>2. QED BY <1>3, <3>1, VisitedType, VisitedOnce, UptoStep
    <2>3. \A f \in AllFilters : counter'[f] = l + 2 BY <1>7, <2>2
    <2>4. \A f : ~ Upto(Visited, 1, f) BY VisitedType, <1>3 DEF Upto
    <2>5. QED BY <1>1, <2>1, <2>3, <2>4 DEF OwnFit, Fits, Steps
  <1>10. QED BY <1>8, <1>9

\* All sources, once each; and what is left of a list without its head.
LEMMA WholeRange ==
    /\ Sources \subseteq Range(<<Image>> \o Sensors)
    /\ Range(<<Image>> \o Sensors) = Sources
    /\ IsInjective(<<Image>> \o Sensors)
  <1> DEFINE q == <<Image>> \o Sensors
             len == Len(Sensors)
  <1>1. Sensors \in Seq(Range(Sensors)) BY PipelineAssumption
  <1>2. len \in Nat /\ DOMAIN Sensors = 1 .. len BY <1>1
  <1>3. /\ DOMAIN q = 1 .. len + 1 /\ q[1] = Image
        /\ \A i \in 2 .. len + 1 : q[i] = Sensors[i - 1]
    BY <1>1, <1>2
  <1>4. \A i \in 1 .. len : i + 1 \in 2 .. len + 1 /\ i + 1 \in DOMAIN q /\ q[i + 1] = Sensors[i]
    BY <1>2, <1>3
  <1>5. \A s \in Range(Sensors) : \E i \in 1 .. len : Sensors[i] = s BY <1>2 DEF Range
  <1> HIDE DEF q
  <1>6. Sources \subseteq Range(q)
    <2>1. Image \in Range(q)
      <3>1. 1 \in DOMAIN q BY <1>2, <1>3
      <3>2. QED BY <1>3, <3>1 DEF Range
    <2>2. ASSUME NEW s \in Range(Sensors) PROVE s \in Range(q)
      <3>1. PICK i \in 1 .. len : Sensors[i] = s BY <1>5
      <3>2. i + 1 \in DOMAIN q /\ q[i + 1] = s BY <1>4, <3>1
      <3>3. QED BY <3>2 DEF Range
    <2>3. QED BY <2>1, <2>2 DEF Sources
  <1>7. \A i \in 2 .. len + 1 : i - 1 \in 1 .. len /\ q[i] \in Range(Sensors) /\ q[i] # Image
    <2>1. ASSUME NEW i \in 2 .. len + 1
          PROVE  i - 1 \in 1 .. len /\ q[i] \in Range(Sensors)
      <3>1. i - 1 \in 1 .. len BY <1>2
      <3>2. q[i] = Sensors[i - 1] BY <1>3
      <3>3. Sensors[i - 1] \in Range(Sensors) BY <1>2, <3>1 DEF Range
      <3>4. QED BY <3>1, <3>2, <3>3
    <2>2. QED BY <2>1, Names
  <1>8. \A i \in DOMAIN q : i = 1 \/ i \in 2 .. len + 1 BY <1>2, <1>3
  <1>9. Range(q) = Sources
    <2>1. \A i \in DOMAIN q : q[i] \in Sources BY <1>3, <1>7, <1>8, Names
    <2>2. QED BY <1>6, <2>1 DEF Range
  <1>10. ASSUME NEW i \in DOMAIN q, NEW k \in DOMAIN q, q[i] = q[k] PROVE i = k
    <2>1. CASE i = 1 \/ k = 1 BY <1>3, <1>7, <1>8, <1>10, <2>1
    <2>2. CASE i \in 2 .. len + 1 /\ k \in 2 .. len + 1
      <3>1. Sensors[i - 1] = Sensors[k - 1] BY <1>3, <1>10, <2>2
      <3>2. i - 1 \in DOMAIN Sensors /\ k - 1 \in DOMAIN Sensors BY <1>2, <1>7, <2>2
      <3>3. i - 1 = k - 1 BY <3>1, <3>2, PipelineAssumption DEF IsInjective
      <3>4. QED BY <1>2, <2>2, <3>3
    <2>3. QED BY <1>8, <2>1, <2>2
  <1>11. QED BY <1>6, <1>9, <1>10 DEF q, IsInjective

LEMMA TailRange ==
    ASSUME NEW q \in Seq(Sources), q # <<>>, IsInjective(q)
    PROVE  /\ IsInjective(Tail(q)) /\ Head(q) \in Range(q) /\ Head(q) \notin Range(Tail(q))
           /\ \A t : t \in Range(Tail(q)) <=> t \in Range(q) /\ t # Head(q)
  <1> DEFINE r == Tail(q)
  <1>1. /\ Len(q) \in Nat /\ DOMAIN q = 1 .. Len(q) /\ Len(q) >= 1
        /\ DOMAIN r = 1 .. Len(q) - 1
        /\ \A i \in DOMAIN r : r[i] = q[i + 1] /\ i + 1 \in DOMAIN q
        /\ Head(q) = q[1] /\ 1 \in DOMAIN q
    OBVIOUS
  <1> HIDE DEF r
  <1>2. \A i, k \in DOMAIN q : q[i] = q[k] => i = k BY DEF IsInjective
  <1>3. \A i, k \in DOMAIN r : r[i] = r[k] => i = k BY <1>1, <1>2
  <1>4. ASSUME NEW t, t \in Range(r) PROVE t \in Range(q) /\ t # Head(q)
    <2>1. PICK i \in DOMAIN r : r[i] = t BY <1>4 DEF Range
    <2>2. i + 1 \in DOMAIN q /\ q[i + 1] = t /\ i + 1 # 1 BY <1>1, <2>1
    <2>3. QED BY <1>1, <1>2, <2>2 DEF Range
  <1>5. ASSUME NEW t, t \in Range(q), t # Head(q) PROVE t \in Range(r)
    <2>1. PICK i \in DOMAIN q : q[i] = t BY <1>5 DEF Range
    <2>2. i # 1 BY <1>1, <1>5, <2>1
    <2>3. i - 1 \in DOMAIN r /\ (i - 1) + 1 = i BY <1>1, <2>2
    <2>4. r[i - 1] = t BY <1>1, <2>1, <2>3
    <2>5. QED BY <2>3, <2>4 DEF Range
  <1>6. Head(q) \in Range(q) BY <1>1 DEF Range
  <1>7. QED BY <1>3, <1>4, <1>5, <1>6 DEF r, IsInjective

LEMMA EnsureFits ==
    ASSUME TInv, JInv, Counters, LInv, NEW v \in Workers, EnsureAll(v)
    PROVE  OwnFit(v) /\ (pc'[v] = "sync" => \A f \in AllFilters : counter'[f] = job[v].n)
  <1> DEFINE i == idx[v]
             l == job[v].last
             n == job[v].n
  <1>0. TypeOK BY DEF TInv
  <1>1. pc[v] = "ensure" /\ Advance(v, Visited, "sync") /\ UNCHANGED job
    BY DEF EnsureAll
  <1>2. job[v] # NoJob BY <1>1 DEF TInv, TShape
  <1>3. i \in 1 .. Len(Visited) /\ Len(Visited) \in Nat BY <1>0, MapType, VisitedType DEF TypeOK
  <1>4. counter \in [AllFilters -> Nat] /\ n \in Nat
    BY <1>0, <1>2, CleanJob DEF TypeOK, AllFilters
  <1>5. Visited[i] \in AllFilters /\ counter' = [counter EXCEPT ![Visited[i]] = n]
    BY EnsureMoves
  <1>6. \A f \in AllFilters : IF Upto(Visited, i, f) THEN counter[f] = n ELSE counter[f] = l + 2
    BY <1>1, <1>2 DEF Counters, CounterFits, Fits
  <1>7. \A f \in AllFilters :
            IF Upto(Visited, i + 1, f) THEN counter'[f] = n ELSE counter'[f] = l + 2
    <2>1. \A f : Upto(Visited, i + 1, f) <=> Upto(Visited, i, f) \/ f = Visited[i]
      BY <1>3, VisitedType, VisitedOnce, UptoStep
    <2>2. QED BY <1>4, <1>5, <1>6, <2>1
  <1>8. CASE i < Len(Visited)
    <2>1. idx'[v] = i + 1 /\ pc'[v] = "ensure" BY <1>0, <1>1, <1>8, AdvanceTo
    <2>2. QED BY <1>1, <1>7, <2>1 DEF OwnFit, Fits, Steps
  <1>9. CASE ~ (i < Len(Visited))
    <2>1. idx'[v] = 1 /\ pc'[v] = "sync" BY <1>0, <1>1, <1>9, AdvanceTo
    <2>2. \A f \in AllFilters : Upto(Visited, i + 1, f)
      <3>1. i = Len(Visited) BY <1>3, <1>9
      <3>2. QED BY <1>3, <3>1, VisitedType, VisitedOnce, UptoStep
    <2>3. \A f \in AllFilters : counter'[f] = n BY <1>7, <2>2
    <2>4. n <= n BY <1>4
    <2>5. QED BY <1>1, <2>1, <2>3, <2>4 DEF OwnFit, Fits, Steps
  <1>10. QED BY <1>8, <1>9

LEMMA SynchronizeFits ==
    ASSUME TInv, JInv, Counters, LInv, NEW v \in Workers, SynchronizeSource(v)
    PROVE  OwnFit(v)
  <1> DEFINE i == idx[v]
             n == job[v].n
             g == FilterMap[i]
  <1>0. TypeOK /\ Shape(v) BY DEF TInv, LInv
  <1>1. /\ pc[v] = "sync" /\ Advance(v, FilterMap, "signal")
        /\ UNCHANGED <<job, counter, at>>
        /\ g \in Sources => Proceed(v)
        /\ i = Len(FilterMap) => inputs' = [inputs EXCEPT ![v] = <<Image>> \o Sensors]
    BY DEF SynchronizeSource
  <1>2. job[v] # NoJob BY <1>1 DEF TInv, TShape
  <1>3. i \in 1 .. Len(FilterMap) /\ Len(FilterMap) \in Nat
    BY <1>0, <1>1, MapType, VisitedType DEF TypeOK, Shape
  <1>4. counter \in [AllFilters -> Nat] /\ n \in Nat
    BY <1>0, <1>2, CleanJob DEF TypeOK, AllFilters
  <1>5. \A f \in AllFilters : /\ counter[f] <= n
                              /\ job[v].mode = "MissingImage" => counter[f] = n
                              /\ f \in Sources /\ Upto(FilterMap, i, f) => counter[f] = n
    BY <1>1, <1>2 DEF Counters, CounterFits, Fits
  <1>6. g \in AllFilters BY <1>3, MapType DEF AllFilters
  <1>7. g \in Sources => counter[g] = n
    <2>1. SyncFilter(v) = g /\ SyncNumber(v) = n BY <1>1 DEF SyncFilter, SyncNumber
    <2>2. NbPar = 1 => counter[g] >= n BY <1>1, <1>2, <1>6 DEF Counters, Alone
    <2>3. counter[g] \in Nat /\ counter[g] <= n BY <1>4, <1>5, <1>6
    <2>4. g \in Sources => Synchronized(v) BY <1>1 DEF Proceed
    <2>5. QED BY <1>4, <2>1, <2>2, <2>3, <2>4, SynchronizedAt
  <1>8. \A f \in AllFilters : f \in Sources /\ Upto(FilterMap, i + 1, f) => counter[f] = n
    <2>1. \A f : Upto(FilterMap, i + 1, f) <=> Upto(FilterMap, i, f) \/ f = FilterMap[i]
      <3>1. /\ DOMAIN FilterMap = 1 .. Len(FilterMap)
            /\ \A k, m \in 1 .. Len(FilterMap) : FilterMap[k] = FilterMap[m] => k = m
        BY MapType, VisitedOnce
      <3>2. QED BY <1>3, <3>1, UptoStep
    <2>2. QED BY <1>5, <1>7, <2>1
  <1>9. CASE i < Len(FilterMap)
    <2>1. idx'[v] = i + 1 /\ pc'[v] = "sync" BY <1>0, <1>1, <1>9, AdvanceTo
    <2>2. QED BY <1>1, <1>5, <1>8, <2>1 DEF OwnFit, Fits, Steps
  <1>10. CASE ~ (i < Len(FilterMap))
    <2>1. idx'[v] = 1 /\ pc'[v] = "signal" /\ i = Len(FilterMap) BY <1>0, <1>1, <1>3, <1>10, AdvanceTo
    <2>2. \A f \in Sources : Upto(FilterMap, i + 1, f)
      <3>1. \A f \in Sources : \E k \in 1 .. Len(FilterMap) : FilterMap[k] = f
        BY VisitedOnce DEF Filters
      <3>2. QED BY <1>3, <2>1, <3>1, MapType, VisitedOnce, UptoStep
    <2>3. inputs'[v] = <<Image>> \o Sensors BY <1>0, <1>1, <2>1 DEF TypeOK
    <2>4. Sources \subseteq Range(<<Image>> \o Sensors) BY WholeRange
    <2>5. at'[v] = None BY <1>0, <1>1 DEF Shape, Steps
    <2>6. \A f \in AllFilters : ~ Passed("signal", None, inputs'[v], f)
      BY <2>3, <2>4, Names DEF Passed, AllFilters, Filters
    <2>7. QED BY <1>1, <1>5, <1>8, <2>1, <2>2, <2>5, <2>6 DEF OwnFit, Fits, Steps
  <1>11. QED BY <1>9, <1>10

\* From one place inside the graph to another, with no filter passed.
LEMMA SamePassed ==
    ASSUME NEW j, NEW p \in Steps, NEW p2 \in Steps, NEW i, NEW i2, NEW a, NEW a2, NEW q, NEW q2,
           NEW f, NEW c, Fits(j, p, i, a, q, f, c),
           Passed(p2, a2, q2, f) <=> Passed(p, a, q, f),
           p2 = "inside" /\ a2 = f => c = j.n
    PROVE  Fits(j, p2, i2, a2, q2, f, c)
  <1>1. p2 \notin {"skip", "ensure", "sync"} BY DEF Steps
  <1>2. QED BY <1>1 DEF Fits

\* The same for a filter that is passed.
LEMMA NowPassed ==
    ASSUME NEW j, NEW p2 \in Steps, NEW i2, NEW a2, NEW q2, NEW f, NEW c,
           Passed(p2, a2, q2, f), c > j.n
    PROVE  Fits(j, p2, i2, a2, q2, f, c)
  <1>1. p2 \notin {"skip", "ensure", "sync"} BY DEF Steps
  <1>2. QED BY <1>1 DEF Fits

\* What a worker inside the graph knows before its step.
LEMMA InGraph ==
    ASSUME TInv, JInv, Counters, LInv, NEW v \in Workers, pc[v] \in Steps
    PROVE  /\ job[v] # NoJob /\ job[v].n \in Nat /\ Slot(job[v].n) = v
           /\ Shape(v) /\ Data(v)
           /\ counter \in [AllFilters -> Nat]
           /\ \A f \in AllFilters : Fits(job[v], pc[v], idx[v], at[v], inputs[v], f, counter[f])
  <1>1. job[v] # NoJob BY DEF TInv, TShape, Steps
  <1>2. counter \in [AllFilters -> Nat] BY DEF TInv, TypeOK, AllFilters
  <1>3. QED BY <1>1, <1>2, CleanJob DEF LInv, Counters, CounterFits

LEMMA FilterKinds ==
    ASSUME NEW f \in AllFilters
    PROVE  f = Handler \/ f = Filter \/ (f \in Sources /\ f # Handler /\ f # Filter)
  BY Names DEF AllFilters, Filters

LEMMA SignalFits ==
    ASSUME TInv, JInv, Counters, LInv, NEW v \in Workers, SignalSource(v)
    PROVE  OwnFit(v)
  <1>1. pc[v] = "signal" /\ inputs[v] # <<>> /\ UNCHANGED <<job, idx, counter>>
    BY DEF SignalSource
  <1>2. pc[v] \in Steps BY <1>1 DEF Steps
  <1>3. /\ pc'[v] = "call" /\ at'[v] = Head(inputs[v]) /\ inputs'[v] = Tail(inputs[v])
    BY DEF SignalSource, TInv, TypeOK
  <1>4. inputs[v] \in Seq(Sources) /\ IsInjective(inputs[v])
    BY <1>2, InGraph DEF TInv, TypeOK, Shape
  <1>5. /\ Head(inputs[v]) \in Sources /\ Head(inputs[v]) \in Range(inputs[v])
        /\ \A t : t \in Range(inputs'[v]) <=> t \in Range(inputs[v]) /\ t # Head(inputs[v])
    BY <1>1, <1>3, <1>4, TailRange, InputsType
  <1>6. at[v] # Filter /\ at[v] # Handler BY <1>1, <1>2, InGraph DEF Shape
  <1>7. at'[v] # Filter /\ at'[v] # Handler BY <1>3, <1>5, Names
  <1>8. ASSUME NEW f \in AllFilters
        PROVE  Fits(job[v], "call", idx[v], at'[v], inputs'[v], f, counter[f])
    <2>1. Fits(job[v], pc[v], idx[v], at[v], inputs[v], f, counter[f]) BY <1>2, InGraph
    <2>2. Passed("call", at'[v], inputs'[v], f) <=> Passed(pc[v], at[v], inputs[v], f)
      BY <1>1, <1>3, <1>5, <1>6, <1>7, FilterKinds DEF Passed, Steps
    <2>3. "call" \in Steps BY DEF Steps
    <2>4. QED BY <1>2, <2>1, <2>2, <2>3, SamePassed
  <1>9. QED BY <1>1, <1>3, <1>8 DEF OwnFit

LEMMA EnterFits ==
    ASSUME TInv, JInv, Counters, LInv, NEW v \in Workers, EnterFilter(v)
    PROVE  OwnFit(v)
  <1>1. pc[v] = "call" /\ UNCHANGED <<job, idx, counter, at, inputs>> BY DEF EnterFilter
  <1>2. pc[v] \in Steps /\ "inside" \in Steps BY <1>1 DEF Steps
  <1>3. pc'[v] = "inside" BY DEF EnterFilter, TInv, TypeOK
  <1>4. counter[at[v]] = job[v].n BY EnterAt
  <1>5. ASSUME NEW f \in AllFilters
        PROVE  Fits(job[v], "inside", idx[v], at[v], inputs[v], f, counter[f])
    <2>1. Fits(job[v], pc[v], idx[v], at[v], inputs[v], f, counter[f]) BY <1>2, InGraph
    <2>2. Passed("inside", at[v], inputs[v], f) <=> Passed(pc[v], at[v], inputs[v], f)
      BY <1>1, <1>2 DEF Passed
    <2>3. QED BY <1>2, <1>4, <2>1, <2>2, SamePassed
  <1>6. QED BY <1>1, <1>3, <1>5 DEF OwnFit

LEMMA LeaveFits ==
    ASSUME TInv, JInv, Counters, LInv, NEW v \in Workers, LeaveFilter(v)
    PROVE  OwnFit(v)
  <1>1. pc[v] = "inside" /\ at[v] # Handler /\ UNCHANGED <<job, idx, at, inputs>> BY DEF LeaveFilter
  <1>2. pc[v] \in Steps /\ "emit" \in Steps BY <1>1 DEF Steps
  <1>3. pc'[v] = "emit" BY DEF LeaveFilter, TInv, TypeOK
  <1>4. counter' = [counter EXCEPT ![at[v]] = job[v].n + 1] /\ at[v] \in AllFilters BY LeaveMoves
  <1>5. counter \in [AllFilters -> Nat] /\ job[v].n \in Nat BY <1>2, InGraph
  <1>6. at[v] \notin Range(inputs[v]) BY <1>1, <1>2, InGraph DEF Shape
  <1>7. ASSUME NEW f \in AllFilters
        PROVE  Fits(job[v], "emit", idx[v], at[v], inputs[v], f, counter'[f])
    <2>1. CASE f = at[v]
      <3>1. counter'[f] > job[v].n BY <1>4, <1>5, <2>1
      <3>2. Passed("emit", at[v], inputs[v], f)
        BY <1>1, <1>2, <1>6, <2>1 DEF Passed
      <3>3. QED BY <1>2, <3>1, <3>2, NowPassed
    <2>2. CASE f # at[v]
      <3>1. counter'[f] = counter[f] BY <1>4, <1>5, <2>2
      <3>2. Fits(job[v], pc[v], idx[v], at[v], inputs[v], f, counter[f]) BY <1>2, InGraph
      <3>3. Passed("emit", at[v], inputs[v], f) <=> Passed(pc[v], at[v], inputs[v], f)
        BY <1>1, <1>2, <2>2 DEF Passed
      <3>4. QED BY <1>2, <3>1, <3>2, <3>3, SamePassed
    <2>3. QED BY <2>1, <2>2
  <1>8. QED BY <1>1, <1>3, <1>7 DEF OwnFit

LEMMA HandlerFits ==
    ASSUME TInv, JInv, Counters, LInv, NEW v \in Workers, LeaveHandler(v)
    PROVE  OwnFit(v)
  <1>1. pc[v] = "inside" /\ at[v] = Handler /\ UNCHANGED <<job, idx, at, inputs>>
    BY DEF LeaveHandler
  <1>2. pc[v] \in Steps /\ "signal" \in Steps BY <1>1 DEF Steps
  <1>3. pc'[v] = "signal" BY DEF LeaveHandler, TInv, TypeOK
  <1>4. counter' = [counter EXCEPT ![at[v]] = job[v].n + 1] BY LeaveMoves
  <1>5. counter \in [AllFilters -> Nat] /\ job[v].n \in Nat BY <1>2, InGraph
  <1>6. ASSUME NEW f \in AllFilters
        PROVE  Fits(job[v], "signal", idx[v], at[v], inputs[v], f, counter'[f])
    <2>1. CASE f = Handler
      <3>1. counter'[f] > job[v].n BY <1>1, <1>4, <1>5, <2>1
      <3>2. Passed("signal", at[v], inputs[v], f)
        BY <1>1, <1>2, <2>1 DEF Passed
      <3>3. QED BY <1>2, <3>1, <3>2, NowPassed
    <2>2. CASE f # Handler
      <3>1. counter'[f] = counter[f] BY <1>1, <1>4, <1>5, <2>2
      <3>2. Fits(job[v], pc[v], idx[v], at[v], inputs[v], f, counter[f]) BY <1>2, InGraph
      <3>3. Passed("signal", at[v], inputs[v], f) <=> Passed(pc[v], at[v], inputs[v], f)
        BY <1>1, <1>2, <2>2 DEF Passed
      <3>4. QED BY <1>2, <3>1, <3>2, <3>3, SamePassed
    <2>3. QED BY <2>1, <2>2
  <1>7. QED BY <1>1, <1>3, <1>6 DEF OwnFit

LEMMA EmitFits ==
    ASSUME TInv, JInv, Counters, LInv, NEW v \in Workers, EmitSource(v)
    PROVE  OwnFit(v)
  <1>1. /\ pc[v] = "emit" /\ at[v] \in Sources /\ UNCHANGED <<job, idx, counter, inputs>>
    BY DEF EmitSource
  <1>2. pc[v] \in Steps /\ "call" \in Steps /\ "signal" \in Steps BY <1>1 DEF Steps
  <1>3. at[v] # Filter /\ at[v] # Handler BY <1>1, Names
  <1>4. /\ pc'[v] \in {"call", "signal"}
        /\ \/ pc'[v] = "call" /\ at'[v] = Filter
           \/ pc'[v] = "signal" /\ at'[v] = at[v]
    <2>1. pc \in [Workers -> Places] /\ at \in [Workers -> Filters \cup {Handler, None}]
      BY DEF TInv, TypeOK, Places
    <2>2. \/ at' = [at EXCEPT ![v] = Filter] /\ pc' = [pc EXCEPT ![v] = "call"]
          \/ pc' = [pc EXCEPT ![v] = "signal"] /\ UNCHANGED at
      BY EmitCases
    <2>3. QED BY <2>1, <2>2
  <1>5. ASSUME NEW f \in AllFilters
        PROVE  Fits(job[v], pc'[v], idx[v], at'[v], inputs[v], f, counter[f])
    <2>1. Fits(job[v], pc[v], idx[v], at[v], inputs[v], f, counter[f]) BY <1>2, InGraph
    <2>2. Passed(pc'[v], at'[v], inputs[v], f) <=> Passed(pc[v], at[v], inputs[v], f)
      BY <1>1, <1>2, <1>3, <1>4, FilterKinds, Names DEF Passed
    <2>3. pc'[v] \in Steps /\ pc'[v] # "inside" BY <1>2, <1>4
    <2>4. QED BY <1>2, <2>1, <2>2, <2>3, SamePassed
  <1>6. QED BY <1>1, <1>5 DEF OwnFit

LEMMA ResultFits ==
    ASSUME TInv, JInv, Counters, LInv, NEW v \in Workers, EmitResult(v)
    PROVE  OwnFit(v)
  <1>1. /\ pc[v] = "emit" /\ at[v] = Filter /\ UNCHANGED <<job, idx, counter, inputs>>
    BY DEF EmitResult
  <1>2. pc[v] \in Steps /\ "call" \in Steps BY <1>1 DEF Steps
  <1>3. pc'[v] = "call" /\ at'[v] = Handler BY DEF EmitResult, TInv, TypeOK
  <1>4. ASSUME NEW f \in AllFilters
        PROVE  Fits(job[v], "call", idx[v], Handler, inputs[v], f, counter[f])
    <2>1. Fits(job[v], pc[v], idx[v], at[v], inputs[v], f, counter[f]) BY <1>2, InGraph
    <2>2. Passed("call", Handler, inputs[v], f) <=> Passed(pc[v], at[v], inputs[v], f)
      BY <1>1, <1>2, FilterKinds, Names DEF Passed
    <2>3. QED BY <1>2, <2>1, <2>2, SamePassed
  <1>5. QED BY <1>1, <1>3, <1>4 DEF OwnFit

LEMMA DoneFits ==
    ASSUME TInv, JInv, Counters, LInv, NEW v \in Workers, ImageDone(v)
    PROVE  OwnFit(v) /\ at[v] = Handler
  <1>1. /\ pc[v] = "signal" /\ ~processing[v] /\ UNCHANGED <<job, idx, counter, at, inputs>>
    BY DEF ImageDone, pipeVars
  <1>2. pc[v] \in Steps /\ "done" \in Steps BY <1>1 DEF Steps
  <1>3. pc'[v] = "done" BY DEF ImageDone, TInv, TypeOK
  <1>4. at[v] = Handler BY <1>1, <1>2, InGraph DEF Shape
  <1>5. ASSUME NEW f \in AllFilters
        PROVE  Fits(job[v], "done", idx[v], at[v], inputs[v], f, counter[f])
    <2>1. Fits(job[v], pc[v], idx[v], at[v], inputs[v], f, counter[f]) BY <1>2, InGraph
    <2>2. Passed("done", at[v], inputs[v], f) <=> Passed(pc[v], at[v], inputs[v], f)
      BY <1>1, <1>2, <1>4 DEF Passed
    <2>3. QED BY <1>2, <2>1, <2>2, SamePassed
  <1>6. QED BY <1>1, <1>3, <1>4, <1>5 DEF OwnFit

LEMMA OwnFits ==
    ASSUME TInv, JInv, Counters, LInv, NEW v \in Workers, CleanStep(v)
    PROVE  OwnFit(v)
  <1>1. CASE FinishWork(v)
    <2>1. job'[v] = NoJob BY <1>1 DEF FinishWork, TInv, TypeOK
    <2>2. QED BY <2>1 DEF OwnFit
  <1>2. CASE Wait(v)
    <2>1. UNCHANGED <<job, pc, idx, at, inputs, counter>> BY <1>2 DEF Wait
    <2>2. QED BY <2>1 DEF OwnFit, Counters, CounterFits
  <1>3. QED BY <1>1, <1>2, TakeWorkFits, SkipFits, EnsureFits, SynchronizeFits, SignalFits,
               EnterFits, LeaveFits, HandlerFits, EmitFits, ResultFits, DoneFits DEF CleanStep

\* Where a worker comes from.
LEMMA PlaceBack ==
    ASSUME TInv, NEW v \in Workers, CleanStep(v), ~ TakeWork(v)
    PROVE  /\ pc'[v] = "skip" => pc[v] = "skip"
           /\ pc'[v] \notin {"skip", "ensure"} =>
                  \/ pc[v] \notin {"skip", "ensure"}
                  \/ EnsureAll(v) /\ pc'[v] = "sync"
  <1>0. TypeOK /\ pc \in [Workers -> Places] BY DEF TInv, TypeOK, Places
  <1>1. CASE SkipImageProcessing(v)
    <2>1. pc[v] = "skip" /\ Advance(v, Visited, "ensure") BY <1>1 DEF SkipImageProcessing
    <2>2. QED BY <1>0, <2>1, AdvanceTo
  <1>2. CASE EnsureAll(v)
    <2>1. pc[v] = "ensure" /\ Advance(v, Visited, "sync") BY <1>2 DEF EnsureAll
    <2>2. QED BY <1>0, <1>2, <2>1, AdvanceTo
  <1>3. CASE SynchronizeSource(v)
    <2>1. pc[v] = "sync" /\ Advance(v, FilterMap, "signal") BY <1>3 DEF SynchronizeSource
    <2>2. QED BY <1>0, <2>1, AdvanceTo
  <1>4. CASE FinishWork(v) BY <1>0, <1>4 DEF FinishWork
  <1>5. CASE Wait(v) BY <1>0, <1>5 DEF Wait
  <1>6. CASE SignalSource(v) BY <1>0, <1>6 DEF SignalSource
  <1>7. CASE EnterFilter(v) BY <1>0, <1>7 DEF EnterFilter
  <1>8. CASE LeaveFilter(v) \/ LeaveHandler(v) BY <1>0, <1>8 DEF LeaveFilter, LeaveHandler
  <1>9. CASE EmitSource(v) \/ EmitResult(v) BY <1>0, <1>9 DEF EmitSource, EmitResult
  <1>10. CASE ImageDone(v) BY <1>0, <1>10 DEF ImageDone
  <1>11. QED BY <1>1, <1>2, <1>3, <1>4, <1>5, <1>6, <1>7, <1>8, <1>9, <1>10 DEF CleanStep

\* A worker that is done has passed every filter.
LEMMA DonePassed ==
    ASSUME TInv, JInv, Counters, LInv, NEW v \in Workers, pc[v] = "done", NEW f \in AllFilters
    PROVE  counter[f] > job[v].n /\ at[v] = Handler
  <1>1. pc[v] \in Steps BY DEF Steps
  <1>2. at[v] = Handler /\ inputs[v] = <<>> BY <1>1, InGraph DEF Shape
  <1>3. Range(inputs[v]) = {} BY <1>2 DEF Range
  <1>4. Passed(pc[v], at[v], inputs[v], f) BY <1>1, <1>2, <1>3 DEF Passed
  <1>5. Fits(job[v], pc[v], idx[v], at[v], inputs[v], f, counter[f]) BY <1>1, InGraph
  <1>6. QED BY <1>1, <1>2, <1>4, <1>5 DEF Fits

LEMMA AloneStep ==
    ASSUME TInv, JInv, Counters, LInv, NEW v \in Workers, CleanStep(v)
    PROVE  Alone'
  <1> SUFFICES ASSUME NbPar = 1
               PROVE  \A w \in Workers :
                 /\ work'[w] # NoJob => work'[w].n = last'
                 /\ job'[w] # NoJob => IF work'[w] = NoJob THEN last' = job'[w].n
                                       ELSE work'[w].last = job'[w].n
                 /\ \A f \in AllFilters :
                     /\ job'[w] = NoJob =>
                            counter'[f] >= IF work'[w] = NoJob THEN last' + 1 ELSE work'[w].last + 1
                     /\ job'[w] # NoJob /\ pc'[w] = "skip" => counter'[f] >= job'[w].last + 1
                     /\ job'[w] # NoJob /\ pc'[w] \notin {"skip", "ensure"} =>
                            counter'[f] >= job'[w].n
    BY DEF Alone
  <1>1. \A w \in Workers : w = v BY OneWorker
  <1>2. Step(v) BY DEF CleanStep, Step
  <1>3. last' = last BY <1>2, StepKeeps
  <1>4. /\ work[v] # NoJob => work[v].n = last
        /\ job[v] # NoJob => IF work[v] = NoJob THEN last = job[v].n ELSE work[v].last = job[v].n
        /\ \A f \in AllFilters :
            /\ job[v] = NoJob =>
                   counter[f] >= IF work[v] = NoJob THEN last + 1 ELSE work[v].last + 1
            /\ job[v] # NoJob /\ pc[v] = "skip" => counter[f] >= job[v].last + 1
            /\ job[v] # NoJob /\ pc[v] \notin {"skip", "ensure"} => counter[f] >= job[v].n
    BY DEF Counters, Alone
  <1>5. counter \in [AllFilters -> Nat] BY DEF TInv, TypeOK, AllFilters
  <1>6. CASE TakeWork(v)
    <2>1. /\ job[v] = NoJob /\ work[v] # NoJob
          /\ job'[v] = work[v] /\ work'[v] = NoJob /\ UNCHANGED counter
      BY <1>6 DEF TakeWork, TInv, TypeOK, TShape
    <2>2. \A f \in AllFilters : counter[f] >= work[v].last + 1 BY <1>4, <2>1
    <2>3. InOrder(work[v]) BY <2>1, CleanWork
    <2>4. pc'[v] \notin {"skip", "ensure"} => work[v].n = work[v].last + 1
      <3>1. pc'[v] = FirstStep(work[v]) BY <1>6 DEF TakeWork, TInv, TypeOK
      <3>2. QED BY <2>3, <3>1 DEF InOrder, FirstStep
    <2>5. QED BY <1>1, <1>3, <1>4, <2>1, <2>2, <2>4
  <1>7. CASE FinishWork(v)
    <2>1. /\ job'[v] = NoJob /\ work'[v] = work[v] /\ UNCHANGED counter /\ pc[v] = "done"
      BY <1>7 DEF FinishWork, TInv, TypeOK
    <2>2. job[v] # NoJob BY <2>1 DEF TInv, TShape
    <2>3. job[v].n \in Nat BY <2>2, CleanJob
    <2>4. \A f \in AllFilters : counter[f] >= job[v].n + 1 BY <1>5, <2>1, <2>3, DonePassed
    <2>5. QED BY <1>1, <1>3, <1>4, <2>1, <2>2, <2>4
  <1>8. CASE UNCHANGED <<work, job>> /\ ~ TakeWork(v)
    <2>1. work'[v] = work[v] /\ job'[v] = job[v] BY <1>8
    <2>2. counter' \in [AllFilters -> Nat] BY <1>2, TypeStep DEF Next, TypeOK, AllFilters
    <2>3. \A f \in AllFilters : counter'[f] >= counter[f] BY CounterGrows
    <2>4. ASSUME NEW f \in AllFilters, job[v] # NoJob, pc'[v] \notin {"skip", "ensure"}
          PROVE  counter'[f] >= job[v].n
      <3>1. job[v].n \in Nat BY <2>4, CleanJob
      <3>2. CASE pc[v] \notin {"skip", "ensure"} BY <1>4, <1>5, <2>2, <2>3, <2>4, <3>1, <3>2
      <3>3. CASE EnsureAll(v) /\ pc'[v] = "sync"
        <4>1. counter'[f] = job[v].n BY <3>3, EnsureFits
        <4>2. QED BY <3>1, <4>1
      <3>4. QED BY <1>8, <2>4, <3>2, <3>3, PlaceBack
    <2>5. ASSUME NEW f \in AllFilters, job[v] # NoJob, pc'[v] = "skip"
          PROVE  counter'[f] >= job[v].last + 1
      <3>1. job[v].last + 1 \in Nat BY <2>5, CleanJob
      <3>2. pc[v] = "skip" BY <1>8, <2>5, PlaceBack
      <3>3. QED BY <1>4, <1>5, <2>2, <2>3, <2>5, <3>1, <3>2
    <2>6. ASSUME NEW f \in AllFilters, job[v] = NoJob
          PROVE  counter'[f] >= IF work[v] = NoJob THEN last + 1 ELSE work[v].last + 1
      <3>1. last \in Int
        <4>1. last \in Images \cup {-1} BY DEF TInv, TypeOK
        <4>2. Images \subseteq Int /\ -1 \in Int BY DEF Images
        <4>3. QED BY <4>1, <4>2
      <3>2. work[v] # NoJob => work[v].last \in Int BY CleanWork
      <3>3. counter'[f] >= counter[f] /\ counter'[f] \in Nat /\ counter[f] \in Nat
        BY <1>5, <2>2, <2>3
      <3>4. QED BY <1>4, <2>6, <3>1, <3>2, <3>3
    <2>7. QED BY <1>1, <1>3, <1>4, <2>1, <2>4, <2>5, <2>6
  <1>9. QED BY <1>6, <1>7, <1>8, SameJobs

LEMMA CountersStep ==
    ASSUME TInv, JInv, Counters, LInv, NEW v \in Workers, CleanStep(v)
    PROVE  Counters'
  <1>0. Step(v) /\ TypeOK BY DEF CleanStep, Step, TInv
  <1>1. last' = last BY <1>0, StepKeeps
  <1>2. ASSUME NEW w \in Workers, NEW f \in AllFilters, work'[w] # NoJob
        PROVE  counter'[f] <= work'[w].last + 1
    <2>1. work'[w] = work[w]
      <3>1. CASE w # v BY <1>0, <3>1, Frame DEF SameWorker
      <3>2. CASE w = v BY <1>0, <1>2, <3>2, SameJobs DEF TakeWork, FinishWork, TypeOK
      <3>3. QED BY <3>1, <3>2
    <2>2. QED BY <1>2, <2>1, WaitingStep
  <1>3. ASSUME NEW w \in Workers, NEW f \in AllFilters, job'[w] # NoJob
        PROVE  Fits(job'[w], pc'[w], idx'[w], at'[w], inputs'[w], f, counter'[f])
    <2>1. CASE w = v BY <1>3, <2>1, OwnFits DEF OwnFit
    <2>2. CASE w # v
      <3>1. SameWorker(w) BY <1>0, <2>2, Frame
      <3>2. QED BY <1>3, <2>2, <3>1, OthersFit DEF SameWorker
    <2>3. QED BY <2>1, <2>2
  <1>4. \A f \in AllFilters : counter'[f] <= last' + 1 BY <1>1, WaitingStep
  <1>5. Alone' BY AloneStep
  <1>6. QED BY <1>2, <1>3, <1>4, <1>5 DEF Counters, CounterFits

LEMMA LastType ==
    ASSUME TypeOK
    PROVE  last \in Int
  <1>1. last \in Images \cup {-1} BY DEF TypeOK
  <1>2. Images \subseteq Int /\ -1 \in Int BY DEF Images
  <1>3. QED BY <1>1, <1>2

LEMMA CountersSchedule ==
    ASSUME TInv, JInv, Counters, ScheduleImage, clean, clean'
    PROVE  Counters'
  <1>0. TypeOK /\ last \in Int BY LastType DEF TInv
  <1>1. PICK n \in Images, mode \in Modes :
              /\ n > last
              /\ work[Slot(n)] = NoJob
              /\ work' = [work EXCEPT ![Slot(n)] = NewJob(n, mode)]
              /\ last' = n
              /\ UNCHANGED <<job, workerVars, counter>>
    BY CleanSchedule
  <1> DEFINE new == NewJob(n, mode)
  <1>2. new.last = last /\ new.n = n BY DEF NewJob
  <1>3. n \in Nat /\ new \in Job /\ new # NoJob
    <2>1. new \in Job BY <1>0, NewJobType
    <2>2. QED BY <1>2, <2>1, JobType
  <1>4. counter \in [AllFilters -> Nat] BY <1>0 DEF TypeOK, AllFilters
  <1> HIDE DEF new
  <1>5. \A w \in Workers : work'[w] = IF w = Slot(n) THEN new ELSE work[w]
    BY <1>0, <1>1 DEF TypeOK, new
  <1>6. \A f \in AllFilters : counter'[f] <= last' + 1
    BY <1>0, <1>1, <1>3, <1>4 DEF Counters
  <1>7. ASSUME NEW w \in Workers, NEW f \in AllFilters, work'[w] # NoJob
        PROVE  counter'[f] <= work'[w].last + 1
    BY <1>0, <1>1, <1>2, <1>5, <1>7 DEF Counters, CounterFits
  <1>8. ASSUME NEW w \in Workers, NEW f \in AllFilters, job'[w] # NoJob
        PROVE  Fits(job'[w], pc'[w], idx'[w], at'[w], inputs'[w], f, counter'[f])
    BY <1>1, <1>8 DEF Counters, CounterFits, workerVars
  <1>9. ASSUME NbPar = 1, NEW w \in Workers
        PROVE  /\ work'[w] # NoJob => work'[w].n = last'
               /\ job'[w] # NoJob => IF work'[w] = NoJob THEN last' = job'[w].n
                                     ELSE work'[w].last = job'[w].n
               /\ \A f \in AllFilters :
                   /\ job'[w] = NoJob =>
                          counter'[f] >= IF work'[w] = NoJob THEN last' + 1 ELSE work'[w].last + 1
                   /\ job'[w] # NoJob /\ pc'[w] = "skip" => counter'[f] >= job'[w].last + 1
                   /\ job'[w] # NoJob /\ pc'[w] \notin {"skip", "ensure"} =>
                          counter'[f] >= job'[w].n
    <2>1. w = Slot(n) BY <1>3, <1>9, OneWorker, WorkerSlots
    <2>2. work'[w] = new /\ work[w] = NoJob BY <1>1, <1>5, <2>1
    <2>3. /\ job[w] # NoJob => last = job[w].n
          /\ \A f \in AllFilters :
              /\ job[w] = NoJob => counter[f] >= last + 1
              /\ job[w] # NoJob /\ pc[w] = "skip" => counter[f] >= job[w].last + 1
              /\ job[w] # NoJob /\ pc[w] \notin {"skip", "ensure"} => counter[f] >= job[w].n
      BY <1>9, <2>2 DEF Counters, Alone
    <2>4. job'[w] = job[w] /\ pc'[w] = pc[w] /\ UNCHANGED counter BY <1>1 DEF workerVars
    <2>5. QED BY <1>1, <1>2, <1>3, <2>2, <2>3, <2>4
  <1>10. Alone' BY <1>9 DEF Alone
  <1>11. QED BY <1>6, <1>7, <1>8, <1>10 DEF Counters, CounterFits

LEMMA CountersNextSeam ==
    ASSUME NextSeam
    PROVE  Counters'
  <1>1. /\ \A w \in Workers : work'[w] = NoJob /\ job'[w] = NoJob
        /\ \A f \in AllFilters : counter'[f] = 0
        /\ last' = -1
    BY DEF NextSeam, Idle, AllFilters
  <1>2. Alone' BY <1>1 DEF Alone
  <1>3. QED BY <1>1, <1>2 DEF Counters, CounterFits

-----------------------------------------------------------------------------
(* Places, slots and signals.                                              *)

LEMMA ShapeOthers ==
    ASSUME LInv, NEW w \in Workers, SameWorker(w)
    PROVE  Shape(w)'
  <1>1. Shape(w) BY DEF LInv
  <1>2. QED BY <1>1 DEF Shape, SameWorker

\* The shape of a worker that is not in the graph: nothing but its place.
LEMMA OutsideShape ==
    ASSUME NEW w, pc'[w] \in {"idle", "skip", "ensure", "sync"},
           pc'[w] \in {"skip", "ensure"} => job'[w].mode = "MissingImage",
           pc'[w] = "sync" => idx'[w] <= Len(FilterMap),
           pc'[w] = "idle" => idx'[w] = 1,
           at'[w] = None, ~ processing'[w], IsInjective(inputs'[w])
    PROVE  Shape(w)'
  BY Names DEF Shape, Steps

\* What a filter reads is the image it was called for.
LEMMA ReadsOwn ==
    ASSUME TInv, JInv, Counters, LInv, NEW v \in Workers, EnterFilter(v)
    PROVE  /\ Slot(counter[at[v]]) = v /\ InputNumber(at[v]) = job[v].n
           /\ at[v] = Handler => avail[v] /\ slot[Filter][v] = job[v].n
  <1>1. pc[v] = "call" BY DEF EnterFilter
  <1>2. pc[v] \in Steps BY <1>1 DEF Steps
  <1>3. Data(v) /\ Shape(v) /\ Slot(job[v].n) = v BY <1>2, InGraph
  <1>4. counter[at[v]] = job[v].n BY EnterAt
  <1>5. Slot(counter[at[v]]) = v BY <1>3, <1>4
  <1>6. at[v] \in AllFilters BY <1>1, AtFilter
  <1>7. CASE at[v] = Image BY <1>1, <1>3, <1>5, <1>7, Names DEF Data, InputNumber
  <1>8. CASE at[v] = Filter
    <2>1. inputs[v] = <<>> BY <1>3, <1>8 DEF Shape
    <2>2. Range(inputs[v]) = {} BY <2>1 DEF Range
    <2>3. Emitted(v, Image) BY <1>2, <1>8, <2>2, Names DEF Emitted
    <2>4. slot[Image][v] = job[v].n BY <1>3, <2>3, Names DEF Data
    <2>5. QED BY <1>5, <1>8, <2>4, Names DEF InputNumber
  <1>9. CASE at[v] = Handler BY <1>1, <1>3, <1>5, <1>9, Names DEF Data, InputNumber
  <1>10. CASE at[v] \in Range(Sensors)
    <2>1. at[v] # Image /\ at[v] # Filter /\ at[v] # Handler BY <1>10, Names
    <2>2. subscriber[at[v]] = v /\ samplePipe[v][v] = job[v].n BY <1>1, <1>3, <1>10 DEF Data
    <2>3. QED BY <1>5, <2>1, <2>2 DEF InputNumber
  <1>11. at[v] \in {Image, Filter, Handler} \cup Range(Sensors)
    BY <1>6 DEF AllFilters, Filters, Sources
  <1>12. at[v] = Handler => avail[v] /\ slot[Filter][v] = job[v].n BY <1>1, <1>3 DEF Data
  <1>14. QED BY <1>5, <1>7, <1>8, <1>9, <1>10, <1>11, <1>12

LEMMA ShapeOwn ==
    ASSUME TInv, JInv, Counters, LInv, NEW v \in Workers, CleanStep(v)
    PROVE  Shape(v)'
  <1> USE DEF workerVars, pipeVars
  <1>0. /\ TypeOK /\ Shape(v)
        /\ pc \in [Workers -> Places] /\ job \in [Workers -> Job \cup {NoJob}]
        /\ at \in [Workers -> Filters \cup {Handler, None}]
        /\ idx \in [Workers -> 1 .. Len(Visited)] /\ inputs \in [Workers -> Seq(Sources)]
        /\ img \in [Workers -> Images] /\ carry \in [Workers -> Images]
        /\ processing \in [Workers -> BOOLEAN]
    BY DEF TInv, TypeOK, LInv, Places
  <1>1. CASE TakeWork(v)
    <2>1. /\ work[v] # NoJob /\ job'[v] = work[v] /\ pc'[v] = FirstStep(work[v]) /\ idx'[v] = 1
          /\ at'[v] = at[v] /\ processing'[v] = processing[v] /\ inputs'[v] = inputs[v]
          /\ pc[v] = "idle"
      BY <1>0, <1>1 DEF TakeWork
    <2>2. work[v].mode \in {"Normal", "MissingImage"} BY <2>1, CleanWork DEF InOrder
    <2>3. at[v] = None /\ ~processing[v] /\ IsInjective(inputs[v]) BY <1>0, <2>1 DEF Shape, Steps
    <2>4. pc'[v] = "sync" \/ (pc'[v] = "skip" /\ work[v].mode = "MissingImage")
      BY <2>1, <2>2 DEF FirstStep
    <2>5. 1 <= Len(FilterMap) BY MapType
    <2>6. QED BY <2>1, <2>3, <2>4, <2>5, OutsideShape
  <1>2. CASE FinishWork(v)
    <2>1. /\ pc[v] = "done" /\ pc'[v] = "idle" /\ at'[v] = None /\ idx'[v] = idx[v]
          /\ processing'[v] = processing[v] /\ inputs'[v] = inputs[v]
      BY <1>0, <1>2 DEF FinishWork
    <2>2. idx[v] = 1 /\ ~processing[v] /\ IsInjective(inputs[v])
      BY <1>0, <2>1 DEF Shape, Steps
    <2>3. QED BY <2>1, <2>2, OutsideShape
  <1>3. CASE Wait(v)
    BY <1>0, <1>3 DEF Wait, Shape
  <1>4. CASE SkipImageProcessing(v)
    <2>1. /\ pc[v] = "skip" /\ Advance(v, Visited, "ensure")
          /\ UNCHANGED <<job, at, processing, inputs>>
      BY <1>4 DEF SkipImageProcessing
    <2>2. pc'[v] \in {"skip", "ensure"} BY <1>0, <2>1, AdvanceTo
    <2>3. job[v].mode = "MissingImage" /\ at[v] = None /\ ~processing[v] /\ IsInjective(inputs[v])
      BY <1>0, <2>1 DEF Shape, Steps
    <2>4. QED BY <2>1, <2>2, <2>3, OutsideShape
  <1>5. CASE EnsureAll(v)
    <2>1. /\ pc[v] = "ensure" /\ Advance(v, Visited, "sync")
          /\ UNCHANGED <<job, at, processing, inputs>>
      BY <1>5 DEF EnsureAll
    <2>2. pc'[v] = "ensure" \/ (pc'[v] = "sync" /\ idx'[v] = 1) BY <1>0, <2>1, AdvanceTo
    <2>3. job[v].mode = "MissingImage" /\ at[v] = None /\ ~processing[v] /\ IsInjective(inputs[v])
      BY <1>0, <2>1 DEF Shape, Steps
    <2>4. 1 <= Len(FilterMap) BY MapType
    <2>5. QED BY <2>1, <2>2, <2>3, <2>4, OutsideShape
  <1>6. CASE SynchronizeSource(v)
    <2>1. /\ pc[v] = "sync" /\ Advance(v, FilterMap, "signal") /\ UNCHANGED <<job, at, img, carry>>
          /\ processing' = [processing EXCEPT ![v] = @ \/ idx[v] = Len(FilterMap)]
          /\ inputs' = IF idx[v] = Len(FilterMap) THEN [inputs EXCEPT ![v] = <<Image>> \o Sensors]
                       ELSE inputs
      BY <1>6 DEF SynchronizeSource
    <2>2. at[v] = None /\ ~processing[v] /\ IsInjective(inputs[v]) /\ idx[v] <= Len(FilterMap)
      BY <1>0, <2>1 DEF Shape, Steps
    <2>3. idx[v] \in Nat /\ Len(FilterMap) \in Nat BY <1>0, MapType
    <2>4. CASE idx[v] < Len(FilterMap)
      <3>1. idx'[v] = idx[v] + 1 /\ pc'[v] = "sync" BY <1>0, <2>1, <2>4, AdvanceTo
      <3>2. ~processing'[v] /\ inputs'[v] = inputs[v] BY <1>0, <2>1, <2>2, <2>3, <2>4
      <3>3. idx'[v] <= Len(FilterMap) BY <2>3, <2>4, <3>1
      <3>4. QED BY <2>1, <2>2, <3>1, <3>2, <3>3, OutsideShape
    <2>5. CASE ~ (idx[v] < Len(FilterMap))
      <3>1. idx[v] = Len(FilterMap) BY <2>2, <2>3, <2>5
      <3>2. idx'[v] = 1 /\ pc'[v] = "signal" BY <1>0, <2>1, <2>5, AdvanceTo
      <3>3. processing'[v] /\ inputs'[v] = <<Image>> \o Sensors BY <1>0, <2>1, <3>1
      <3>4. at'[v] = None BY <2>1, <2>2
      <3>5. IsInjective(inputs'[v]) /\ Range(inputs'[v]) = Sources BY <3>3, WholeRange
      <3>6. QED BY <3>2, <3>3, <3>4, <3>5, Names DEF Shape, Steps
    <2>6. QED BY <2>4, <2>5
  <1>7. CASE SignalSource(v)
    <2>1. /\ pc[v] = "signal" /\ inputs[v] # <<>> /\ pc'[v] = "call" /\ idx'[v] = idx[v]
          /\ job'[v] = job[v] /\ img'[v] = job[v].n /\ processing'[v] = processing[v]
          /\ at'[v] = Head(inputs[v]) /\ inputs'[v] = Tail(inputs[v])
      BY <1>0, <1>7 DEF SignalSource
    <2>2. /\ idx[v] = 1 /\ IsInjective(inputs[v]) /\ at[v] # Handler
          /\ processing[v] <=> ~ (at[v] = Handler /\ pc[v] \in {"signal", "done"})
      BY <1>0, <2>1 DEF Shape, Steps
    <2>3. processing[v] BY <2>2
    <2>4. /\ Head(inputs[v]) \in Sources /\ IsInjective(Tail(inputs[v]))
          /\ Head(inputs[v]) \notin Range(Tail(inputs[v]))
      BY <1>0, <2>1, <2>2, InputsType, TailRange
    <2>5. at'[v] # None /\ at'[v] # Filter /\ at'[v] # Handler BY <2>1, <2>4, Names
    <2>6. QED BY <2>1, <2>2, <2>3, <2>4, <2>5 DEF Shape, Steps
  <1>8. CASE EnterFilter(v)
    <2>1. /\ pc[v] = "call" /\ pc'[v] = "inside" /\ carry'[v] = InputNumber(at[v])
          /\ UNCHANGED <<idx, job, img, processing, at, inputs>>
      BY <1>0, <1>8 DEF EnterFilter
    <2>2. InputNumber(at[v]) = job[v].n BY <1>8, ReadsOwn
    <2>3. QED BY <1>0, <2>1, <2>2 DEF Shape, Steps
  <1>9. CASE LeaveFilter(v)
    <2>1. /\ pc[v] = "inside" /\ pc'[v] = "emit" /\ at[v] # Handler
          /\ UNCHANGED <<idx, job, img, carry, processing, at, inputs>>
      BY <1>0, <1>9 DEF LeaveFilter
    <2>2. QED BY <1>0, <2>1 DEF Shape, Steps
  <1>10. CASE LeaveHandler(v)
    <2>1. /\ pc[v] = "inside" /\ pc'[v] = "signal" /\ at[v] = Handler /\ ~processing'[v]
          /\ UNCHANGED <<idx, job, img, carry, at, inputs>>
      BY <1>0, <1>10 DEF LeaveHandler
    <2>2. QED BY <1>0, <2>1, Names DEF Shape, Steps
  <1>11. CASE EmitSource(v)
    <2>1. /\ pc[v] = "emit" /\ at[v] \in Sources
          /\ UNCHANGED <<idx, job, carry, processing, inputs>>
      BY <1>11 DEF EmitSource
    <2>2. carry[v] = job[v].n BY <2>1, AtFilter
    <2>3. /\ idx[v] = 1 /\ IsInjective(inputs[v]) /\ at[v] \notin Range(inputs[v])
          /\ processing[v] <=> ~ (at[v] = Handler /\ pc[v] \in {"signal", "done"})
      BY <1>0, <2>1 DEF Shape, Steps
    <2>4. processing[v] BY <2>1, <2>3
    <2>5. CASE /\ inputs[v] = <<>> /\ at' = [at EXCEPT ![v] = Filter]
               /\ img' = [img EXCEPT ![v] = carry[v]] /\ pc' = [pc EXCEPT ![v] = "call"]
      <3>1. at'[v] = Filter /\ img'[v] = job[v].n /\ pc'[v] = "call" BY <1>0, <2>2, <2>5
      <3>2. Range(inputs[v]) = {} BY <2>5 DEF Range
      <3>3. QED BY <2>1, <2>3, <2>4, <2>5, <3>1, <3>2, Names DEF Shape, Steps
    <2>6. CASE inputs[v] # <<>> /\ pc' = [pc EXCEPT ![v] = "signal"] /\ UNCHANGED <<at, img>>
      <3>1. pc'[v] = "signal" BY <1>0, <2>6
      <3>2. at[v] # None /\ at[v] # Filter /\ at[v] # Handler BY <2>1, Names
      <3>3. QED BY <2>1, <2>3, <2>4, <2>6, <3>1, <3>2 DEF Shape, Steps
    <2>7. QED BY <1>11, <2>5, <2>6, EmitCases
  <1>12. CASE EmitResult(v)
    <2>1. /\ pc[v] = "emit" /\ at[v] = Filter /\ pc'[v] = "call" /\ at'[v] = Handler
          /\ img'[v] = carry[v]
          /\ UNCHANGED <<idx, job, carry, processing, inputs>>
      BY <1>0, <1>12 DEF EmitResult
    <2>2. carry[v] = job[v].n BY <2>1, AtFilter
    <2>3. Range(<<>>) = {} BY DEF Range
    <2>4. QED BY <1>0, <2>1, <2>2, <2>3, Names DEF Shape, Steps
  <1>13. CASE ImageDone(v)
    <2>1. /\ pc[v] = "signal" /\ pc'[v] = "done" /\ ~processing[v]
          /\ UNCHANGED <<idx, job, img, carry, processing, at, inputs>>
      BY <1>0, <1>13 DEF ImageDone
    <2>2. at[v] = Handler BY <1>13, DoneFits
    <2>3. QED BY <1>0, <2>1, <2>2, Names DEF Shape, Steps
  <1>14. QED BY <1>1, <1>2, <1>3, <1>4, <1>5, <1>6, <1>7, <1>8, <1>9, <1>10, <1>11, <1>12, <1>13
           DEF CleanStep

\* What is in the slots of worker w stays there.
SameSlots(w) ==
    /\ imagePipe'[w] = imagePipe[w]
    /\ samplePipe'[w][w] = samplePipe[w][w]
    /\ at[w] \in Range(Sensors) /\ pc[w] = "call" => subscriber'[at[w]] = subscriber[at[w]]
    /\ \A s \in Filters : slot'[s][w] = slot[s][w]
    /\ avail'[w] = avail[w]
    /\ \A s \in Sources : flag'[s][w] = flag[s][w]

LEMMA PipesUnchanged ==
    ASSUME NEW w, UNCHANGED pipeVars
    PROVE  SameSlots(w)
  BY DEF SameSlots, pipeVars

\* Two workers cannot be about to signal, or called at, the same source: both
\* images would be the one its counter stands at.
LEMMA OneCaller ==
    ASSUME TInv, JInv, Counters, LInv, NEW v \in Workers, NEW w \in Workers, NEW s \in Sources,
           pc[v] = "signal", s \in Range(inputs[v]), pc[w] = "call", at[w] = s
    PROVE  v = w
  <1>1. pc[v] \in Steps /\ pc[w] \in Steps BY DEF Steps
  <1>2. s \in AllFilters /\ s # Handler /\ s # Filter BY Names DEF AllFilters, Filters
  <1>3. counter[s] = job[v].n
    <2>1. Fits(job[v], pc[v], idx[v], at[v], inputs[v], s, counter[s]) BY <1>1, <1>2, InGraph
    <2>2. ~ Passed(pc[v], at[v], inputs[v], s) BY <1>2 DEF Passed
    <2>3. QED BY <1>1, <2>1, <2>2 DEF Fits
  <1>4. counter[s] = job[w].n
    <2>1. Fits(job[w], pc[w], idx[w], at[w], inputs[w], s, counter[s]) BY <1>1, <1>2, InGraph
    <2>2. ~ Passed(pc[w], at[w], inputs[w], s) BY AtNotPassed
    <2>3. QED BY <1>1, <2>1, <2>2 DEF Fits
  <1>5. Slot(job[v].n) = v /\ Slot(job[w].n) = w BY <1>1, InGraph
  <1>6. QED BY <1>3, <1>4, <1>5

\* The flags after a source has signaled.
LEMMA EmitFlags ==
    ASSUME TInv, JInv, LInv, NEW v \in Workers, EmitSource(v), NEW t \in Sources
    PROVE  /\ flag'[t][v] = (inputs[v] # <<>> /\ t \notin Range(inputs[v]))
           /\ \A k \in Workers \ {v} : flag'[t][k] = flag[t][k]
  <1> DEFINE signaled == Signaled(at[v], carry[v])
  <1>1. pc[v] = "emit" /\ at[v] \in Sources BY DEF EmitSource
  <1>2. /\ Slot(carry[v]) = v
        /\ signaled[t][v] = (t \notin Range(inputs[v]))
        /\ \A k \in Workers \ {v} : signaled[t][k] = flag[t][k]
    BY <1>1, SignaledBy
  <1>3. signaled \in [Sources -> [Workers -> BOOLEAN]] BY SignaledType DEF TInv
  <1> HIDE DEF signaled
  <1>4. CASE inputs[v] = <<>> /\ flag' = ResetSignals(signaled, carry[v])
    <2>1. flag'[t] = [signaled[t] EXCEPT ![v] = FALSE] BY <1>2, <1>4 DEF ResetSignals
    <2>2. flag'[t][v] = FALSE BY <1>3, <2>1
    <2>3. \A k \in Workers \ {v} : flag'[t][k] = signaled[t][k] BY <1>3, <2>1
    <2>4. QED BY <1>2, <1>4, <2>2, <2>3
  <1>5. CASE inputs[v] # <<>> /\ flag' = signaled BY <1>2, <1>5
  <1>6. QED BY <1>4, <1>5, EmitCases DEF signaled

LEMMA SlotsFrame ==
    ASSUME TInv, JInv, Counters, LInv, NEW v \in Workers, CleanStep(v), NEW w \in Workers \ {v}
    PROVE  SameSlots(w)
  <1>0. /\ imagePipe \in [Workers -> Images] /\ samplePipe \in [Workers -> [Workers -> Images]]
        /\ subscriber \in [Range(Sensors) -> Workers]
        /\ slot \in [Filters -> [Workers -> Images]] /\ avail \in [Workers -> BOOLEAN]
        /\ flag \in [Sources -> [Workers -> BOOLEAN]]
    BY DEF TInv, TypeOK
  <1>1. CASE SignalSource(v)
    <2>1. pc[v] = "signal" /\ inputs[v] # <<>> /\ UNCHANGED <<slot, avail, flag>>
      BY <1>1 DEF SignalSource
    <2>2. pc[v] \in Steps BY <2>1 DEF Steps
    <2>3. Slot(job[v].n) = v BY <2>2, InGraph
    <2>4. Head(inputs[v]) \in Sources /\ Head(inputs[v]) \in Range(inputs[v])
      <3>1. inputs[v] \in Seq(Sources) /\ IsInjective(inputs[v])
        BY <2>2, InGraph DEF TInv, TypeOK, Shape
      <3>2. QED BY <2>1, <3>1, InputsType, TailRange
    <2>5. imagePipe' = imagePipe \/ imagePipe' = [imagePipe EXCEPT ![v] = job[v].n]
      BY <1>1, <2>3 DEF SignalSource
    <2>6. imagePipe'[w] = imagePipe[w] BY <1>0, <2>5
    <2>7. samplePipe' = samplePipe \/ samplePipe' = [samplePipe EXCEPT ![v][v] = job[v].n]
      BY <1>1, <2>3 DEF SignalSource
    <2>8. samplePipe'[w] = samplePipe[w] BY <1>0, <2>7
    <2>9. \/ subscriber' = subscriber
          \/ subscriber' = [subscriber EXCEPT ![Head(inputs[v])] = v]
      BY <1>1 DEF SignalSource
    <2>10. ASSUME at[w] \in Range(Sensors), pc[w] = "call"
           PROVE  subscriber'[at[w]] = subscriber[at[w]]
      <3>1. at[w] # Head(inputs[v]) BY <2>1, <2>4, <2>10, OneCaller
      <3>2. QED BY <1>0, <2>9, <2>10, <3>1
    <2>11. QED BY <2>1, <2>6, <2>8, <2>10 DEF SameSlots
  <1>2. CASE EnterFilter(v)
    <2>1. UNCHANGED <<subscriber, imagePipe, samplePipe, slot, flag>> BY <1>2 DEF EnterFilter
    <2>2. avail'[w] = avail[w]
      <3>1. CASE at[v] = Handler
        <4>1. Slot(counter[Handler]) = v BY <1>2, <3>1, ReadsOwn
        <4>2. avail' = [avail EXCEPT ![v] = FALSE] BY <1>2, <3>1, <4>1 DEF EnterFilter, SendResults
        <4>3. QED BY <1>0, <4>2
      <3>2. CASE at[v] # Handler BY <1>2, <3>2 DEF EnterFilter
      <3>3. QED BY <3>1, <3>2
    <2>3. QED BY <2>1, <2>2 DEF SameSlots
  <1>3. CASE EmitSource(v)
    <2>1. /\ pc[v] = "emit" /\ at[v] \in Sources
          /\ UNCHANGED <<subscriber, imagePipe, samplePipe, avail>>
          /\ slot' = [slot EXCEPT ![at[v]][Slot(carry[v])] = carry[v]]
      BY <1>3 DEF EmitSource
    <2>2. Slot(carry[v]) = v BY <2>1, SignaledBy
    <2>3. slot' = [slot EXCEPT ![at[v]][v] = carry[v]] BY <2>1, <2>2
    <2>4. \A s \in Filters : slot'[s][w] = slot[s][w] BY <1>0, <2>3
    <2>5. \A s \in Sources : flag'[s][w] = flag[s][w] BY <1>3, EmitFlags
    <2>6. QED BY <2>1, <2>4, <2>5 DEF SameSlots
  <1>4. CASE EmitResult(v)
    <2>1. /\ pc[v] = "emit"
          /\ UNCHANGED <<subscriber, imagePipe, samplePipe, flag>>
          /\ slot' = [slot EXCEPT ![Filter][Slot(carry[v])] = carry[v]]
          /\ avail' = [avail EXCEPT ![Slot(carry[v])] = TRUE]
      BY <1>4 DEF EmitResult
    <2>2. Slot(carry[v]) = v
      <3>1. pc[v] \in Steps BY <2>1 DEF Steps
      <3>2. QED BY <2>1, <3>1, InGraph, AtFilter
    <2>3. slot' = [slot EXCEPT ![Filter][v] = carry[v]] /\ avail' = [avail EXCEPT ![v] = TRUE]
      BY <2>1, <2>2
    <2>4. \A s \in Filters : slot'[s][w] = slot[s][w] BY <1>0, <2>3
    <2>5. avail'[w] = avail[w] BY <1>0, <2>3
    <2>6. QED BY <2>1, <2>4, <2>5 DEF SameSlots
  <1>5. CASE UNCHANGED pipeVars BY <1>5, PipesUnchanged
  <1>6. QED
    BY <1>1, <1>2, <1>3, <1>4, <1>5 DEF CleanStep, TakeWork, FinishWork, Wait, SkipImageProcessing,
       EnsureAll, SynchronizeSource, LeaveFilter, LeaveHandler, ImageDone

LEMMA DataOthers ==
    ASSUME LInv, NEW w \in Workers, SameWorker(w), SameSlots(w)
    PROVE  Data(w)'
  <1>1. Data(w) BY DEF LInv
  <1>2. ASSUME NEW s \in Sources PROVE Emitted(w, s)' <=> Emitted(w, s)
    BY DEF Emitted, SameWorker
  <1>3. /\ at'[w] = Image /\ pc'[w] = "call" => imagePipe'[w] = job'[w].n
        /\ at'[w] \in Range(Sensors) /\ pc'[w] = "call" =>
               subscriber'[at'[w]] = w /\ samplePipe'[w][w] = job'[w].n
        /\ at'[w] = Handler /\ pc'[w] = "call" => slot'[Filter][w] = job'[w].n /\ avail'[w]
    BY <1>1 DEF Data, SameWorker, SameSlots, Filters
  <1>4. ASSUME NEW s \in Sources, Emitted(w, s)' PROVE slot'[s][w] = job'[w].n
    <2>1. slot[s][w] = job[w].n BY <1>1, <1>2, <1>4 DEF Data
    <2>2. QED BY <2>1 DEF SameWorker, SameSlots, Filters
  <1>5. ASSUME NEW s \in Sources
        PROVE  flag'[s][w] <=> Emitted(w, s)' /\ at'[w] \notin {Filter, Handler}
    <2>1. flag[s][w] <=> Emitted(w, s) /\ at[w] \notin {Filter, Handler} BY <1>1 DEF Data
    <2>2. flag'[s][w] = flag[s][w] /\ at'[w] = at[w] BY DEF SameSlots, SameWorker
    <2>3. QED BY <1>2, <2>1, <2>2
  <1>6. QED BY <1>3, <1>4, <1>5 DEF Data

\* A step that calls no filter and writes no pipe.
LEMMA DataQuiet ==
    ASSUME NEW v \in Workers, Data(v), UNCHANGED <<slot, flag>>, pc'[v] # "call",
           \A s \in Sources : Emitted(v, s)' => Emitted(v, s) /\ job'[v].n = job[v].n,
           \A s \in Sources : (Emitted(v, s)' /\ at'[v] \notin {Filter, Handler})
                                  <=> (Emitted(v, s) /\ at[v] \notin {Filter, Handler})
    PROVE  Data(v)'
  BY DEF Data

LEMMA DataOwn ==
    ASSUME TInv, JInv, Counters, LInv, NEW v \in Workers, CleanStep(v)
    PROVE  Data(v)'
  <1> USE DEF workerVars, pipeVars
  <1>0. /\ TypeOK /\ Shape(v) /\ Data(v)
        /\ pc \in [Workers -> Places] /\ job \in [Workers -> Job \cup {NoJob}]
        /\ at \in [Workers -> Filters \cup {Handler, None}]
        /\ inputs \in [Workers -> Seq(Sources)]
        /\ imagePipe \in [Workers -> Images] /\ samplePipe \in [Workers -> [Workers -> Images]]
        /\ subscriber \in [Range(Sensors) -> Workers]
        /\ slot \in [Filters -> [Workers -> Images]] /\ avail \in [Workers -> BOOLEAN]
    BY DEF TInv, TypeOK, LInv, Places
  <1>1. CASE TakeWork(v)
    <2>1. pc[v] = "idle" /\ pc'[v] = FirstStep(work[v]) /\ work[v] # NoJob /\ UNCHANGED <<slot, flag>>
      BY <1>0, <1>1 DEF TakeWork
    <2>2. work[v].mode \in {"Normal", "MissingImage"} BY <2>1, CleanWork DEF InOrder
    <2>3. pc'[v] \in {"sync", "skip"} BY <2>1, <2>2 DEF FirstStep
    <2>4. \A s \in Sources : ~ Emitted(v, s) /\ ~ Emitted(v, s)' BY <2>1, <2>3 DEF Emitted, Steps
    <2>5. QED BY <1>0, <2>1, <2>3, <2>4, DataQuiet
  <1>2. CASE FinishWork(v)
    <2>1. pc[v] = "done" /\ pc'[v] = "idle" /\ UNCHANGED <<slot, flag>>
      BY <1>0, <1>2 DEF FinishWork
    <2>2. at[v] = Handler BY <1>0, <2>1 DEF Shape
    <2>3. \A s \in Sources : ~ Emitted(v, s)' BY <2>1 DEF Emitted, Steps
    <2>4. QED BY <1>0, <2>1, <2>2, <2>3, DataQuiet
  <1>3. CASE Wait(v)
    BY <1>0, <1>3 DEF Wait, Data, Emitted
  <1>4. CASE SkipImageProcessing(v)
    <2>1. /\ pc[v] = "skip" /\ Advance(v, Visited, "ensure") /\ UNCHANGED <<slot, flag>>
      BY <1>4 DEF SkipImageProcessing
    <2>2. pc'[v] \in {"skip", "ensure"} BY <1>0, <2>1, AdvanceTo
    <2>3. \A s \in Sources : ~ Emitted(v, s) /\ ~ Emitted(v, s)' BY <2>1, <2>2 DEF Emitted, Steps
    <2>4. QED BY <1>0, <2>1, <2>2, <2>3, DataQuiet
  <1>5. CASE EnsureAll(v)
    <2>1. /\ pc[v] = "ensure" /\ Advance(v, Visited, "sync") /\ UNCHANGED <<slot, flag>>
      BY <1>5 DEF EnsureAll
    <2>2. pc'[v] \in {"ensure", "sync"} BY <1>0, <2>1, AdvanceTo
    <2>3. \A s \in Sources : ~ Emitted(v, s) /\ ~ Emitted(v, s)' BY <2>1, <2>2 DEF Emitted, Steps
    <2>4. QED BY <1>0, <2>1, <2>2, <2>3, DataQuiet
  <1>6. CASE SynchronizeSource(v)
    <2>1. /\ pc[v] = "sync" /\ Advance(v, FilterMap, "signal") /\ UNCHANGED <<slot, flag>>
          /\ inputs' = IF idx[v] = Len(FilterMap) THEN [inputs EXCEPT ![v] = <<Image>> \o Sensors]
                       ELSE inputs
      BY <1>6 DEF SynchronizeSource
    <2>2. \A s \in Sources : ~ Emitted(v, s) BY <2>1 DEF Emitted, Steps
    <2>3. idx[v] <= Len(FilterMap) /\ idx[v] \in Nat /\ Len(FilterMap) \in Nat
      BY <1>0, <2>1, MapType DEF Shape, TypeOK
    <2>4. CASE idx[v] < Len(FilterMap)
      <3>1. pc'[v] = "sync" BY <1>0, <2>1, <2>4, AdvanceTo
      <3>2. \A s \in Sources : ~ Emitted(v, s)' BY <3>1 DEF Emitted, Steps
      <3>3. QED BY <1>0, <2>1, <2>2, <3>1, <3>2, DataQuiet
    <2>5. CASE ~ (idx[v] < Len(FilterMap))
      <3>1. pc'[v] = "signal" BY <1>0, <2>1, <2>5, AdvanceTo
      <3>2. inputs'[v] = <<Image>> \o Sensors BY <1>0, <2>1, <2>3, <2>5
      <3>3. \A s \in Sources : s \in Range(inputs'[v]) BY <3>2, WholeRange
      <3>4. \A s \in Sources : ~ Emitted(v, s)' BY <3>3 DEF Emitted
      <3>5. QED BY <1>0, <2>1, <2>2, <3>1, <3>4, DataQuiet
    <2>6. QED BY <2>4, <2>5
  <1>7. CASE SignalSource(v)
    <2>1. /\ pc[v] = "signal" /\ inputs[v] # <<>> /\ pc'[v] = "call"
          /\ job'[v] = job[v] /\ UNCHANGED <<slot, flag>>
          /\ at'[v] = Head(inputs[v]) /\ inputs'[v] = Tail(inputs[v])
      BY <1>0, <1>7 DEF SignalSource
    <2>2. pc[v] \in Steps BY <2>1 DEF Steps
    <2>3. Slot(job[v].n) = v BY <2>2, InGraph
    <2>4. IsInjective(inputs[v]) /\ at[v] # Filter /\ at[v] # Handler BY <1>0, <2>1, <2>2 DEF Shape
    <2>5. /\ Head(inputs[v]) \in Sources
          /\ \A t : t \in Range(inputs'[v]) <=> t \in Range(inputs[v]) /\ t # Head(inputs[v])
          /\ Head(inputs[v]) \in Range(inputs[v])
      BY <1>0, <2>1, <2>4, InputsType, TailRange
    <2>6. at'[v] # Filter /\ at'[v] # Handler BY <2>1, <2>5, Names
    <2>7. \A s \in Sources : Emitted(v, s)' <=> Emitted(v, s)
      BY <2>1, <2>2, <2>5 DEF Emitted, Steps
    <2>8. at'[v] = Image => imagePipe'[v] = job'[v].n
      <3>1. Head(inputs[v]) = Image => imagePipe' = [imagePipe EXCEPT ![v] = job[v].n]
        BY <1>7, <2>3 DEF SignalSource
      <3>2. QED BY <1>0, <2>1, <3>1
    <2>9. at'[v] \in Range(Sensors) => subscriber'[at'[v]] = v /\ samplePipe'[v][v] = job'[v].n
      <3>1. Head(inputs[v]) # Image =>
                /\ subscriber' = [subscriber EXCEPT ![Head(inputs[v])] = v]
                /\ samplePipe' = [samplePipe EXCEPT ![v][v] = job[v].n]
        BY <1>7, <2>3 DEF SignalSource
      <3>2. Image \notin Range(Sensors) BY Names
      <3>3. QED BY <1>0, <2>1, <3>1, <3>2
    <2>10. \A s \in Sources : Emitted(v, s)' => slot'[s][v] = job'[v].n
      BY <1>0, <2>1, <2>7 DEF Data
    <2>11. \A s \in Sources : flag'[s][v] <=> Emitted(v, s)' /\ at'[v] \notin {Filter, Handler}
      BY <1>0, <2>1, <2>4, <2>6, <2>7 DEF Data
    <2>12. QED BY <2>6, <2>8, <2>9, <2>10, <2>11 DEF Data
  <1>8. CASE EnterFilter(v)
    <2>1. /\ pc[v] = "call" /\ pc'[v] = "inside" /\ UNCHANGED <<slot, flag, at, inputs, job>>
      BY <1>0, <1>8 DEF EnterFilter
    <2>2. \A s \in Sources : Emitted(v, s)' <=> Emitted(v, s) BY <2>1 DEF Emitted, Steps
    <2>3. QED BY <1>0, <2>1, <2>2, DataQuiet
  <1>9. CASE LeaveFilter(v)
    <2>1. /\ pc[v] = "inside" /\ pc'[v] = "emit" /\ UNCHANGED <<slot, flag, at, inputs, job>>
      BY <1>0, <1>9 DEF LeaveFilter
    <2>2. \A s \in Sources : Emitted(v, s)' <=> Emitted(v, s) BY <2>1 DEF Emitted, Steps
    <2>3. QED BY <1>0, <2>1, <2>2, DataQuiet
  <1>10. CASE LeaveHandler(v)
    <2>1. /\ pc[v] = "inside" /\ pc'[v] = "signal" /\ at[v] = Handler
          /\ UNCHANGED <<slot, flag, at, inputs, job>>
      BY <1>0, <1>10 DEF LeaveHandler
    <2>2. \A s \in Sources : Emitted(v, s)' <=> Emitted(v, s) BY <2>1, Names DEF Emitted, Steps
    <2>3. QED BY <1>0, <2>1, <2>2, DataQuiet
  <1>11. CASE EmitSource(v)
    <2>1. /\ pc[v] = "emit" /\ at[v] \in Sources
          /\ UNCHANGED <<job, inputs>>
          /\ slot' = [slot EXCEPT ![at[v]][Slot(carry[v])] = carry[v]]
      BY <1>11 DEF EmitSource
    <2>2. /\ carry[v] = job[v].n /\ Slot(carry[v]) = v /\ at[v] \notin Range(inputs[v])
          /\ \A t \in Sources \ {at[v]} : t \notin Range(inputs[v]) => slot[t][v] = job[v].n
      BY <2>1, SignaledBy
    <2>3. \A t \in Sources : t \notin Range(inputs[v]) => slot'[t][v] = job'[v].n
      <3>1. slot' = [slot EXCEPT ![at[v]][v] = job[v].n] BY <2>1, <2>2
      <3>2. Sources \subseteq Filters BY DEF Filters
      <3>3. QED BY <1>0, <2>1, <2>2, <3>1, <3>2
    <2>4. \A t \in Sources : flag'[t][v] = (inputs[v] # <<>> /\ t \notin Range(inputs[v]))
      BY <1>11, EmitFlags
    <2>5. CASE inputs[v] = <<>> /\ pc' = [pc EXCEPT ![v] = "call"] /\ at' = [at EXCEPT ![v] = Filter]
      <3>1. pc'[v] = "call" /\ at'[v] = Filter BY <1>0, <2>5
      <3>2. \A t \in Sources : flag'[t][v] = FALSE BY <2>4, <2>5
      <3>3. Filter # Image /\ Filter \notin Range(Sensors) /\ Filter # Handler BY Names
      <3>4. \A t \in Sources : Emitted(v, t)' => slot'[t][v] = job'[v].n
        BY <2>1, <2>3 DEF Emitted
      <3>5. QED BY <3>1, <3>2, <3>3, <3>4 DEF Data
    <2>6. CASE inputs[v] # <<>> /\ pc' = [pc EXCEPT ![v] = "signal"] /\ UNCHANGED at
      <3>1. pc'[v] = "signal" /\ at'[v] = at[v] BY <1>0, <2>6
      <3>2. at[v] # Filter /\ at[v] # Handler BY <2>1, Names
      <3>3. \A t \in Sources : Emitted(v, t)' <=> t \notin Range(inputs[v])
        BY <2>1, <3>1 DEF Emitted, Steps
      <3>4. \A t \in Sources : flag'[t][v] <=> Emitted(v, t)' /\ at'[v] \notin {Filter, Handler}
        BY <2>4, <2>6, <3>1, <3>2, <3>3
      <3>5. \A t \in Sources : Emitted(v, t)' => slot'[t][v] = job'[v].n BY <2>3, <3>3
      <3>6. QED BY <3>1, <3>4, <3>5 DEF Data
    <2>7. QED BY <1>11, <2>5, <2>6, EmitCases
  <1>12. CASE EmitResult(v)
    <2>1. /\ pc[v] = "emit" /\ at[v] = Filter /\ pc'[v] = "call" /\ at'[v] = Handler
          /\ UNCHANGED <<job, inputs, flag>>
          /\ slot' = [slot EXCEPT ![Filter][Slot(carry[v])] = carry[v]]
          /\ avail' = [avail EXCEPT ![Slot(carry[v])] = TRUE]
      BY <1>0, <1>12 DEF EmitResult
    <2>2. pc[v] \in Steps BY <2>1 DEF Steps
    <2>3. carry[v] = job[v].n /\ Slot(carry[v]) = v BY <2>1, <2>2, AtFilter, InGraph
    <2>4. /\ slot'[Filter][v] = job'[v].n /\ avail'[v]
          /\ \A s \in Sources : slot'[s][v] = slot[s][v]
      <3>1. slot' = [slot EXCEPT ![Filter][v] = job[v].n] /\ avail' = [avail EXCEPT ![v] = TRUE]
        BY <2>1, <2>3
      <3>2. Sources \subseteq Filters /\ Filter \in Filters /\ Filter \notin Sources
        BY Names DEF Filters
      <3>3. QED BY <1>0, <2>1, <3>1, <3>2
    <2>5. \A s \in Sources : Emitted(v, s)' <=> Emitted(v, s)
      BY <2>1, <2>2, Names DEF Emitted, Steps
    <2>6. Handler # Image /\ Handler \notin Range(Sensors) BY Names
    <2>7. \A s \in Sources : Emitted(v, s)' => slot'[s][v] = job'[v].n
      BY <1>0, <2>1, <2>4, <2>5 DEF Data
    <2>8. \A s \in Sources : flag'[s][v] <=> Emitted(v, s)' /\ at'[v] \notin {Filter, Handler}
      BY <1>0, <2>1 DEF Data
    <2>9. QED BY <2>1, <2>4, <2>6, <2>7, <2>8 DEF Data
  <1>13. CASE ImageDone(v)
    <2>1. /\ pc[v] = "signal" /\ pc'[v] = "done" /\ UNCHANGED <<slot, flag, at, inputs, job>>
      BY <1>0, <1>13 DEF ImageDone
    <2>2. \A s \in Sources : Emitted(v, s)' <=> Emitted(v, s) BY <2>1 DEF Emitted, Steps
    <2>3. QED BY <1>0, <2>1, <2>2, DataQuiet
  <1>14. QED BY <1>1, <1>2, <1>3, <1>4, <1>5, <1>6, <1>7, <1>8, <1>9, <1>10, <1>11, <1>12, <1>13
           DEF CleanStep

LEMMA LInvStep ==
    ASSUME TInv, JInv, Counters, LInv, NEW v \in Workers, CleanStep(v)
    PROVE  LInv'
  <1>1. Step(v) /\ TypeOK BY DEF CleanStep, Step, TInv
  <1>2. ASSUME NEW w \in Workers PROVE Shape(w)' /\ Data(w)'
    <2>1. CASE w = v BY <2>1, ShapeOwn, DataOwn
    <2>2. CASE w # v
      <3>1. SameWorker(w) BY <1>1, <2>2, Frame
      <3>2. SameSlots(w) BY <2>2, SlotsFrame
      <3>3. QED BY <3>1, <3>2, ShapeOthers, DataOthers
    <2>3. QED BY <2>1, <2>2
  <1>3. QED BY <1>2 DEF LInv

LEMMA LInvSchedule ==
    ASSUME LInv, ScheduleImage
    PROVE  LInv'
  <1>1. UNCHANGED <<job, workerVars, pipeVars>> BY DEF ScheduleImage, Schedule
  <1>2. ASSUME NEW w \in Workers PROVE Shape(w)' /\ Data(w)'
    <2>1. Shape(w) /\ Data(w) BY DEF LInv
    <2>2. QED BY <1>1, <2>1 DEF Shape, Data, Emitted, workerVars, pipeVars
  <1>3. QED BY <1>2 DEF LInv

LEMMA LInvNextSeam ==
    ASSUME TInv, LInv, NextSeam
    PROVE  LInv'
  <1>1. /\ UNCHANGED <<job, workerVars, subscriber, imagePipe, samplePipe, slot, avail>>
        /\ flag' = [s \in Sources |-> [k \in Workers |-> FALSE]]
        /\ \A w \in Workers : pc[w] = "idle"
    BY DEF NextSeam, Idle, TInv, TShape
  <1>2. ASSUME NEW w \in Workers PROVE Shape(w)' /\ Data(w)'
    <2>1. Shape(w) /\ Data(w) BY DEF LInv
    <2>2. Shape(w)' BY <1>1, <2>1 DEF Shape, workerVars
    <2>3. \A s \in Sources : ~ Emitted(w, s)' /\ flag'[s][w] = FALSE
      BY <1>1 DEF Emitted, Steps, workerVars
    <2>4. pc'[w] = "idle" BY <1>1 DEF workerVars
    <2>5. QED BY <2>2, <2>3, <2>4 DEF Data
  <1>3. QED BY <1>2 DEF LInv

-----------------------------------------------------------------------------
(* The results.                                                            *)

LEMMA OpenOthers ==
    ASSUME NEW w, SameWorker(w), NEW x
    PROVE  OpenAt(w, x)' <=> OpenAt(w, x)
  BY DEF OpenAt, Sent, SameWorker

\* A step that does not send a result opens and closes no image.
LEMMA OpenOwn ==
    ASSUME TInv, JInv, LInv, Counters, NEW v \in Workers, CleanStep(v),
           ~ (EnterFilter(v) /\ at[v] = Handler), NEW x
    PROVE  (OpenAt(v, x)' <=> OpenAt(v, x)) /\ UNCHANGED delivered
  <1> USE DEF workerVars, pipeVars
  <1>0. /\ Shape(v)
        /\ pc \in [Workers -> Places] /\ job \in [Workers -> Job \cup {NoJob}]
        /\ at \in [Workers -> Filters \cup {Handler, None}]
        /\ inputs \in [Workers -> Seq(Sources)]
        /\ work \in [Workers -> Job \cup {NoJob}]
    BY DEF TInv, TypeOK, LInv, Places
  <1>1. CASE TakeWork(v)
    <2>1. /\ pc[v] = "idle" /\ pc'[v] = FirstStep(work[v]) /\ work[v] # NoJob /\ UNCHANGED delivered
          /\ work'[v] = NoJob /\ job'[v] = work[v]
      BY <1>0, <1>1 DEF TakeWork
    <2>2. job[v] = NoJob BY <2>1 DEF TInv, TShape
    <2>3. work[v].mode \in {"Normal", "MissingImage"} BY <2>1, CleanWork DEF InOrder
    <2>4. pc'[v] \in {"sync", "skip"} BY <2>1, <2>3 DEF FirstStep
    <2>5. QED BY <2>1, <2>2, <2>4 DEF OpenAt, Sent
  <1>2. CASE FinishWork(v)
    <2>1. /\ pc[v] = "done" /\ job'[v] = NoJob /\ UNCHANGED <<work, delivered>>
      BY <1>0, <1>2 DEF FinishWork
    <2>2. at[v] = Handler BY <1>0, <2>1 DEF Shape
    <2>3. QED BY <2>1, <2>2 DEF OpenAt, Sent
  <1>3. CASE Wait(v)
    BY <1>3 DEF Wait, OpenAt, Sent
  <1>4. CASE SkipImageProcessing(v) \/ EnsureAll(v) \/ SynchronizeSource(v)
    <2>1. /\ pc[v] \in {"skip", "ensure", "sync"} /\ UNCHANGED <<work, job, at, delivered>>
      BY <1>4 DEF SkipImageProcessing, EnsureAll, SynchronizeSource
    <2>2. at[v] = None BY <1>0, <2>1 DEF Shape, Steps
    <2>3. QED BY <2>1, <2>2, Names DEF OpenAt, Sent
  <1>5. CASE SignalSource(v)
    <2>1. /\ pc[v] = "signal" /\ inputs[v] # <<>> /\ at'[v] = Head(inputs[v])
          /\ UNCHANGED <<work, job, delivered>>
      BY <1>0, <1>5 DEF SignalSource
    <2>2. at[v] # Handler BY <1>0, <2>1 DEF Shape
    <2>3. at'[v] # Handler BY <1>0, <2>1, InputsType, Names
    <2>4. QED BY <2>1, <2>2, <2>3 DEF OpenAt, Sent
  <1>6. CASE EnterFilter(v)
    <2>1. /\ at[v] # Handler /\ UNCHANGED <<work, job, at, delivered>> BY <1>6 DEF EnterFilter
    <2>2. QED BY <2>1 DEF OpenAt, Sent
  <1>7. CASE LeaveFilter(v)
    <2>1. at[v] # Handler /\ UNCHANGED <<work, job, at, delivered>> BY <1>7 DEF LeaveFilter
    <2>2. QED BY <2>1 DEF OpenAt, Sent
  <1>8. CASE LeaveHandler(v)
    <2>1. /\ pc[v] = "inside" /\ pc'[v] = "signal" /\ UNCHANGED <<work, job, at, delivered>>
      BY <1>0, <1>8 DEF LeaveHandler
    <2>2. QED BY <2>1 DEF OpenAt, Sent
  <1>9. CASE EmitSource(v)
    <2>1. at[v] # Handler /\ UNCHANGED <<work, job, delivered>> BY <1>9, Names DEF EmitSource
    <2>2. at' = [at EXCEPT ![v] = Filter] \/ UNCHANGED at BY <1>9, EmitCases
    <2>3. at'[v] # Handler BY <1>0, <2>1, <2>2, Names
    <2>4. QED BY <2>1, <2>3 DEF OpenAt, Sent
  <1>10. CASE EmitResult(v)
    <2>1. /\ at[v] = Filter /\ pc'[v] = "call" /\ UNCHANGED <<work, job, delivered>>
      BY <1>0, <1>10 DEF EmitResult
    <2>2. QED BY <2>1, Names DEF OpenAt, Sent
  <1>11. CASE ImageDone(v)
    <2>1. /\ pc[v] = "signal" /\ pc'[v] = "done" /\ UNCHANGED <<work, job, at, delivered>>
      BY <1>0, <1>11 DEF ImageDone
    <2>2. QED BY <2>1 DEF OpenAt, Sent
  <1>12. QED BY <1>1, <1>2, <1>3, <1>4, <1>5, <1>6, <1>7, <1>8, <1>9, <1>10, <1>11 DEF CleanStep

\* An image before the one the handler stands at is not open any more.
LEMMA OpenBehind ==
    ASSUME TInv, JInv, LInv, Counters, NEW w \in Workers, NEW x, OpenAt(w, x)
    PROVE  x \in Nat /\ counter[Handler] <= x /\ Slot(x) = w
  <1>1. counter[Handler] \in Nat /\ Handler \in AllFilters
    <2>1. Handler \in AllFilters BY DEF AllFilters
    <2>2. QED BY <2>1, CounterOf DEF TInv
  <1>2. CASE work[w] # NoJob /\ work[w].n = x
    <2>1. x \in Nat /\ work[w].last \in Int /\ work[w].last < x /\ Slot(x) = w
      BY <1>2, CleanWork DEF InOrder
    <2>2. counter[Handler] <= work[w].last + 1 BY <1>1, <1>2 DEF Counters, CounterFits
    <2>3. QED BY <1>1, <2>1, <2>2
  <1>3. CASE job[w] # NoJob /\ ~ Sent(w) /\ job[w].n = x
    <2>1. /\ x \in Nat /\ Slot(x) = w /\ job[w] \in Job /\ InOrder(job[w])
      BY <1>3, CleanJob
    <2>2. Fits(job[w], pc[w], idx[w], at[w], inputs[w], Handler, counter[Handler])
      BY <1>1, <1>3 DEF Counters, CounterFits
    <2>3. ~ Passed(pc[w], at[w], inputs[w], Handler) BY <1>3 DEF Sent, Passed
    <2>4. QED BY <1>1, <1>3, <2>1, <2>2, <2>3, Place, NotPassedBound
  <1>4. QED BY <1>2, <1>3 DEF OpenAt

LEMMA SendOpen ==
    ASSUME TInv, JInv, LInv, Counters, NEW v \in Workers, EnterFilter(v), at[v] = Handler
    PROVE  /\ job[v].n \in Images /\ IsOpen(job[v].n)
           /\ delivered' = Append(delivered, job[v].n)
           /\ counter[Handler] = job[v].n
           /\ \A x : IsOpen(x)' <=> IsOpen(x) /\ x # job[v].n
  <1> DEFINE n == job[v].n
  <1>0. Step(v) /\ TypeOK BY DEF Step, TInv
  <1>1. /\ pc[v] = "call" /\ UNCHANGED <<work, job, at>>
        /\ pc'[v] = "inside"
    BY DEF EnterFilter, TInv, TypeOK
  <1>2. job[v] # NoJob BY <1>1 DEF TInv, TShape
  <1>3. n \in Images /\ n \in Nat /\ Slot(n) = v /\ InOrder(job[v]) BY <1>2, CleanJob
  <1>4. OpenAt(v, n) BY <1>1, <1>2 DEF OpenAt, Sent
  <1>5. counter[Handler] = n BY EnterAt
  <1>6. delivered' = Append(delivered, n)
    <2>1. Slot(counter[Handler]) = v /\ avail[v] /\ slot[Filter][v] = n BY ReadsOwn
    <2>2. QED BY <2>1 DEF EnterFilter, SendResults
  <1>7. \A w \in Workers \ {v} : \A x : OpenAt(w, x)' <=> OpenAt(w, x)
    BY <1>0, Frame, OpenOthers
  <1>8. \A x : OpenAt(v, x)' <=> work[v] # NoJob /\ work[v].n = x
    BY <1>1 DEF OpenAt, Sent
  <1>9. \A w \in Workers : \A x : OpenAt(w, x)' => OpenAt(w, x) /\ x # n
    <2>1. ASSUME NEW w \in Workers \ {v}, NEW x, OpenAt(w, x)' PROVE OpenAt(w, x) /\ x # n
      <3>1. OpenAt(w, x) BY <1>7, <2>1
      <3>2. Slot(x) = w BY <3>1, OpenBehind
      <3>3. QED BY <1>3, <3>1, <3>2
    <2>2. ASSUME NEW x, OpenAt(v, x)' PROVE OpenAt(v, x) /\ x # n
      <3>1. work[v] # NoJob /\ work[v].n = x BY <1>8, <2>2
      <3>2. n <= work[v].last BY <1>2, <3>1 DEF JInv, Chain
      <3>3. work[v].last < x /\ x \in Nat /\ work[v].last \in Int
        BY <3>1, CleanWork DEF InOrder
      <3>4. x # n BY <1>3, <3>2, <3>3
      <3>5. QED BY <3>1, <3>4 DEF OpenAt
    <2>3. QED BY <2>1, <2>2
  <1>10. \A w \in Workers : \A x : OpenAt(w, x) /\ x # n => OpenAt(w, x)'
    <2>1. ASSUME NEW x, OpenAt(v, x), x # n PROVE OpenAt(v, x)'
      BY <1>8, <2>1 DEF OpenAt
    <2>2. QED BY <1>7, <2>1
  <1>11. ASSUME NEW x PROVE IsOpen(x)' <=> IsOpen(x) /\ x # n
    BY <1>9, <1>10 DEF IsOpen
  <1>12. IsOpen(n) BY <1>4 DEF IsOpen
  <1>13. QED BY <1>3, <1>5, <1>6, <1>11, <1>12

LEMMA SequenceFacts ==
    ASSUME TypeOK
    PROVE  /\ accepted \in Seq(Images) /\ Len(accepted) \in Nat
           /\ DOMAIN accepted = 1 .. Len(accepted)
           /\ \A i \in DOMAIN accepted : accepted[i] \in Images /\ accepted[i] \in Nat
           /\ delivered \in Seq(Images) /\ Len(delivered) \in Nat
           /\ DOMAIN delivered = 1 .. Len(delivered)
  <1>1. accepted \in Seq(Images) /\ delivered \in Seq(Images) BY DEF TypeOK
  <1>2. Images \subseteq Nat BY DEF Images
  <1>3. /\ Len(accepted) \in Nat /\ DOMAIN accepted = 1 .. Len(accepted)
        /\ Len(delivered) \in Nat /\ DOMAIN delivered = 1 .. Len(delivered)
    BY <1>1
  <1>4. ASSUME NEW i \in DOMAIN accepted PROVE accepted[i] \in Images /\ accepted[i] \in Nat
    <2>1. accepted[i] \in Images BY <1>1, <1>3
    <2>2. QED BY <1>2, <2>1
  <1>5. QED BY <1>1, <1>3, <1>4

LEMMA ResultsSame ==
    ASSUME Results, UNCHANGED <<last, accepted, delivered>>, \A x : IsOpen(x)' <=> IsOpen(x)
    PROVE  Results'
  BY DEF Results

\* The image whose result is sent is the first that waits for it.
LEMMA ResultsSend ==
    ASSUME TInv, JInv, LInv, Counters, Results, NEW v \in Workers, EnterFilter(v), at[v] = Handler
    PROVE  Results'
  <1> DEFINE n == job[v].n
             d == Len(delivered)
  <1>0. Step(v) /\ TypeOK BY DEF Step, TInv
  <1>1. UNCHANGED <<last, accepted>> BY <1>0, StepKeeps
  <1>2. /\ n \in Images /\ IsOpen(n) /\ delivered' = Append(delivered, n) /\ counter[Handler] = n
        /\ \A x : IsOpen(x)' <=> IsOpen(x) /\ x # n
    BY SendOpen
  <1>3. n \in Nat
    <2>1. Images \subseteq Nat BY DEF Images
    <2>2. QED BY <1>2, <2>1
  <1>4. PICK k \in DOMAIN accepted : accepted[k] = n BY <1>2 DEF Results
  <1>5. k \in Nat /\ k > d /\ k <= Len(accepted) /\ d \in Nat /\ Len(accepted) \in Nat
    <2>1. k > d BY <1>2, <1>4 DEF Results
    <2>2. QED BY <1>0, <1>4, <2>1, SequenceFacts
  <1>6. k = d + 1
    <2>1. SUFFICES ASSUME k # d + 1 PROVE FALSE OBVIOUS
    <2>2. d + 1 \in DOMAIN accepted /\ d + 1 < k /\ d + 1 > d BY <1>0, <1>5, <2>1, SequenceFacts
    <2>3. accepted[d + 1] < n BY <1>4, <2>2 DEF Results
    <2>4. IsOpen(accepted[d + 1]) BY <1>0, <2>2, SequenceFacts DEF Results
    <2>5. PICK w \in Workers : OpenAt(w, accepted[d + 1]) BY <2>4 DEF IsOpen
    <2>6. accepted[d + 1] \in Nat /\ n <= accepted[d + 1] BY <1>2, <2>5, OpenBehind
    <2>7. QED BY <1>3, <2>3, <2>6
  <1>7. /\ Len(delivered') = d + 1
        /\ \A i \in 1 .. d : delivered'[i] = delivered[i]
        /\ delivered'[d + 1] = n
    BY <1>0, <1>2, SequenceFacts
  <1>8. Len(delivered') <= Len(accepted') BY <1>1, <1>5, <1>6, <1>7
  <1>9. \A i \in 1 .. Len(delivered') : delivered'[i] = accepted'[i]
    <2>1. ASSUME NEW i \in 1 .. d + 1 PROVE delivered'[i] = accepted[i]
      <3>1. CASE i = d + 1 BY <1>4, <1>6, <1>7, <3>1
      <3>2. CASE i \in 1 .. d BY <1>7, <3>2 DEF Results
      <3>3. QED BY <1>5, <3>1, <3>2
    <2>2. QED BY <1>1, <1>7, <2>1
  <1>10. ASSUME NEW i \in DOMAIN accepted
         PROVE  i > d + 1 <=> IsOpen(accepted[i]) /\ accepted[i] # n
    <2>1. i \in Nat BY <1>0, SequenceFacts
    <2>2. i > d <=> IsOpen(accepted[i]) BY <1>0, SequenceFacts DEF Results
    <2>3. accepted[i] = n <=> i = k
      <3>1. i < k => accepted[i] < accepted[k] BY <1>4 DEF Results
      <3>2. k < i => accepted[k] < accepted[i] BY <1>4 DEF Results
      <3>3. accepted[i] \in Nat BY <1>0, SequenceFacts
      <3>4. QED BY <1>3, <1>4, <1>5, <2>1, <3>1, <3>2, <3>3
    <2>4. QED BY <1>5, <1>6, <2>1, <2>2, <2>3
  <1>11. ASSUME NEW i \in DOMAIN accepted', NEW x \in Images, accepted'[i] = x
         PROVE  i > Len(delivered') <=> IsOpen(x)'
    <2>1. i \in DOMAIN accepted /\ accepted[i] = x BY <1>1, <1>11
    <2>2. i > d + 1 <=> IsOpen(x) /\ x # n BY <1>10, <2>1
    <2>3. QED BY <1>2, <1>7, <2>2
  <1>12. /\ \A i \in DOMAIN accepted : accepted[i] <= last
         /\ \A i, m \in DOMAIN accepted : m < i => accepted[m] < accepted[i]
         /\ \A x \in Images : IsOpen(x) => \E i \in DOMAIN accepted : accepted[i] = x
    BY DEF Results
  <1>13. \A x \in Images : IsOpen(x)' => \E i \in DOMAIN accepted' : accepted'[i] = x
    BY <1>1, <1>2, <1>12
  <1>14. QED BY <1>1, <1>8, <1>9, <1>11, <1>12, <1>13 DEF Results

LEMMA ResultsStep ==
    ASSUME TInv, JInv, LInv, Counters, Results, NEW v \in Workers, CleanStep(v)
    PROVE  Results'
  <1>1. Step(v) /\ TypeOK BY DEF CleanStep, Step, TInv
  <1>2. CASE EnterFilter(v) /\ at[v] = Handler BY <1>2, ResultsSend
  <1>3. CASE ~ (EnterFilter(v) /\ at[v] = Handler)
    <2>1. UNCHANGED <<last, accepted, delivered>> BY <1>1, <1>3, StepKeeps, OpenOwn
    <2>2. \A w \in Workers : \A x : OpenAt(w, x)' <=> OpenAt(w, x)
      <3>1. ASSUME NEW w \in Workers \ {v}, NEW x PROVE OpenAt(w, x)' <=> OpenAt(w, x)
        <4>1. SameWorker(w) BY <1>1, Frame
        <4>2. QED BY <4>1, OpenOthers
      <3>2. \A x : OpenAt(v, x)' <=> OpenAt(v, x) BY <1>3, OpenOwn
      <3>3. QED BY <3>1, <3>2
    <2>3. \A x : IsOpen(x)' <=> IsOpen(x) BY <2>2 DEF IsOpen
    <2>4. QED BY <2>1, <2>3, ResultsSame
  <1>4. QED BY <1>2, <1>3

LEMMA ResultsSchedule ==
    ASSUME TInv, Results, ScheduleImage, clean, clean'
    PROVE  Results'
  <1>0. TypeOK /\ last \in Int BY LastType DEF TInv
  <1>1. PICK n \in Images, mode \in Modes :
              /\ n > last
              /\ work[Slot(n)] = NoJob
              /\ work' = [work EXCEPT ![Slot(n)] = NewJob(n, mode)]
              /\ last' = n
              /\ accepted' = Append(accepted, n)
              /\ UNCHANGED <<job, workerVars, delivered>>
    BY CleanSchedule
  <1> DEFINE new == NewJob(n, mode)
             a == Len(accepted)
  <1>2. new.n = n /\ new \in Job BY <1>0, NewJobType DEF NewJob
  <1>3. new # NoJob /\ n \in Nat /\ Slot(n) \in Workers BY <1>2, JobType, WorkerSlots
  <1> HIDE DEF new
  <1>4. \A w \in Workers : work'[w] = IF w = Slot(n) THEN new ELSE work[w]
    BY <1>0, <1>1 DEF TypeOK, new
  <1>5. \A w \in Workers : Sent(w)' <=> Sent(w) BY <1>1 DEF Sent, workerVars
  <1>6. \A x : IsOpen(x)' <=> IsOpen(x) \/ x = n
    <2>1. \A w \in Workers : \A x : OpenAt(w, x)' <=> OpenAt(w, x) \/ (w = Slot(n) /\ x = n)
      BY <1>1, <1>2, <1>3, <1>4, <1>5 DEF OpenAt
    <2>2. QED BY <1>3, <2>1 DEF IsOpen
  <1>7. /\ a \in Nat /\ Len(accepted') = a + 1 /\ DOMAIN accepted' = 1 .. a + 1
        /\ \A i \in DOMAIN accepted : i \in DOMAIN accepted' /\ accepted'[i] = accepted[i]
        /\ accepted'[a + 1] = n
        /\ \A i \in DOMAIN accepted' : i \in DOMAIN accepted \/ i = a + 1
        /\ \A i \in DOMAIN accepted : i \in Nat /\ i <= a /\ accepted[i] \in Nat
        /\ Len(delivered) \in Nat
    <2>1. accepted \in Seq(Images) BY <1>0, SequenceFacts
    <2>2. accepted' = Append(accepted, n) BY <1>1
    <2>3. QED BY <1>0, <2>1, <2>2, SequenceFacts
  <1>8. /\ \A i \in DOMAIN accepted : accepted[i] <= last
        /\ \A i, k \in DOMAIN accepted : k < i => accepted[k] < accepted[i]
        /\ Len(delivered) <= a
        /\ \A i \in 1 .. Len(delivered) : delivered[i] = accepted[i]
        /\ \A x \in Images : IsOpen(x) => \E i \in DOMAIN accepted : accepted[i] = x
        /\ \A i \in DOMAIN accepted, x \in Images :
                accepted[i] = x => (i > Len(delivered) <=> IsOpen(x))
    BY DEF Results
  <1>9. \A i \in DOMAIN accepted : accepted[i] < n BY <1>0, <1>1, <1>3, <1>7, <1>8
  <1>10. \A i \in DOMAIN accepted' : accepted'[i] <= last' BY <1>1, <1>3, <1>7, <1>9
  <1>11. ASSUME NEW i \in DOMAIN accepted', NEW k \in DOMAIN accepted', k < i
         PROVE  accepted'[k] < accepted'[i]
    <2>1. k \in DOMAIN accepted BY <1>7, <1>11
    <2>2. CASE i \in DOMAIN accepted BY <1>7, <1>8, <1>11, <2>1, <2>2
    <2>3. CASE i = a + 1 BY <1>7, <1>9, <2>1, <2>3
    <2>4. QED BY <1>7, <2>2, <2>3
  <1>12. Len(delivered') <= Len(accepted') BY <1>1, <1>7, <1>8
  <1>13. \A i \in 1 .. Len(delivered') : delivered'[i] = accepted'[i]
    <2>1. ASSUME NEW i \in 1 .. Len(delivered) PROVE delivered[i] = accepted'[i]
      <3>1. i \in DOMAIN accepted BY <1>0, <1>7, <1>8, SequenceFacts
      <3>2. QED BY <1>7, <1>8, <3>1
    <2>2. QED BY <1>1, <2>1
  <1>14. ASSUME NEW x \in Images, IsOpen(x)' PROVE \E i \in DOMAIN accepted' : accepted'[i] = x
    <2>1. CASE x = n
      <3>1. a + 1 \in DOMAIN accepted' BY <1>7
      <3>2. QED BY <1>7, <2>1, <3>1
    <2>2. CASE IsOpen(x)
      <3>1. PICK i \in DOMAIN accepted : accepted[i] = x BY <1>8, <2>2
      <3>2. QED BY <1>7, <3>1
    <2>3. QED BY <1>6, <1>14, <2>1, <2>2
  <1>15. ASSUME NEW i \in DOMAIN accepted', NEW x \in Images, accepted'[i] = x
         PROVE  i > Len(delivered) <=> IsOpen(x)'
    <2>1. CASE i \in DOMAIN accepted
      <3>1. accepted[i] = x BY <1>7, <1>15, <2>1
      <3>2. x # n BY <1>3, <1>7, <1>9, <2>1, <3>1
      <3>3. i > Len(delivered) <=> IsOpen(x) BY <1>8, <2>1, <3>1
      <3>4. QED BY <1>6, <3>2, <3>3
    <2>2. CASE i = a + 1
      <3>1. x = n BY <1>7, <1>15, <2>2
      <3>2. i > Len(delivered) BY <1>7, <1>8, <2>2
      <3>3. QED BY <1>6, <3>1, <3>2
    <2>3. QED BY <1>7, <2>1, <2>2
  <1>16. delivered' = delivered BY <1>1
  <1>17. QED BY <1>10, <1>11, <1>12, <1>13, <1>14, <1>15, <1>16 DEF Results

LEMMA ResultsNextSeam ==
    ASSUME NextSeam
    PROVE  Results'
  <1>1. /\ \A w \in Workers : work'[w] = NoJob /\ job'[w] = NoJob
        /\ accepted' = <<>> /\ delivered' = <<>>
    BY DEF NextSeam, Idle
  <1>2. \A x : ~ IsOpen(x)' BY <1>1 DEF IsOpen, OpenAt
  <1>3. DOMAIN accepted' = {} /\ Len(delivered') = 0 /\ Len(accepted') = 0 BY <1>1
  <1>4. QED BY <1>2, <1>3 DEF Results

-----------------------------------------------------------------------------
(* The invariant.                                                          *)

LEMMA InitCInv == Init => JInv /\ Counters /\ LInv /\ Results
  <1> SUFFICES ASSUME Init PROVE JInv /\ Counters /\ LInv /\ Results OBVIOUS
  <1>1. /\ \A w \in Workers : work[w] = NoJob /\ job[w] = NoJob
        /\ \A f \in AllFilters : counter[f] = 0
        /\ last = -1 /\ accepted = <<>> /\ delivered = <<>>
    BY DEF Init, AllFilters
  <1>2. JInv
    <2>1. Jobs = {} BY <1>1 DEF Jobs
    <2>2. QED BY <1>1, <2>1 DEF JInv, Chain, OwnSlot
  <1>3. Counters
    <2>1. Alone BY <1>1 DEF Alone
    <2>2. QED BY <1>1, <2>1 DEF Counters, CounterFits
  <1>4. ASSUME NEW w \in Workers PROVE Shape(w) /\ Data(w)
    <2>1. /\ pc[w] = "idle" /\ idx[w] = 1 /\ at[w] = None /\ ~ processing[w] /\ inputs[w] = <<>>
          /\ \A s \in Sources : flag[s][w] = FALSE
      BY DEF Init
    <2>2. IsInjective(<<>>) BY DEF IsInjective
    <2>3. Shape(w) BY <2>1, <2>2, Names DEF Shape, Steps
    <2>4. \A s \in Sources : ~ Emitted(w, s) BY <2>1 DEF Emitted, Steps
    <2>5. Data(w) BY <2>1, <2>4 DEF Data
    <2>6. QED BY <2>3, <2>5
  <1>5. Results
    <2>1. \A x : ~ IsOpen(x) BY <1>1 DEF IsOpen, OpenAt
    <2>2. DOMAIN accepted = {} /\ Len(delivered) = 0 /\ Len(accepted) = 0 BY <1>1
    <2>3. QED BY <2>1, <2>2 DEF Results
  <1>6. QED BY <1>2, <1>3, <1>4, <1>5 DEF LInv

LEMMA CInvStep ==
    ASSUME IInv, [Next]_vars
    PROVE  CInv'
  <1> SUFFICES ASSUME clean' PROVE JInv' /\ Counters' /\ LInv' /\ Results' BY DEF CInv
  <1>1. TInv /\ TypeOK BY DEF IInv, TInv
  <1>2. clean BY <1>1, StaysClean
  <1>3. JInv /\ Counters /\ LInv /\ Results BY <1>2 DEF IInv, CInv
  <1>4. ASSUME NEW v \in Workers, Step(v) PROVE JInv' /\ Counters' /\ LInv' /\ Results'
    <2>1. CleanStep(v) BY <1>1, <1>2, <1>3, <1>4, CleanSteps
    <2>2. QED BY <1>1, <1>3, <2>1, JobsStep, CountersStep, LInvStep, ResultsStep
  <1>5. CASE ScheduleImage
    BY <1>1, <1>2, <1>3, <1>5, JobsSchedule, CountersSchedule, LInvSchedule, ResultsSchedule
  <1>6. CASE NextSeam
    BY <1>1, <1>3, <1>6, JobsNextSeam, CountersNextSeam, LInvNextSeam, ResultsNextSeam
  <1>7. CASE UNCHANGED vars
    BY <1>3, <1>7 DEF vars, workerVars, pipeVars, JInv, Jobs, Chain, InOrder, OwnSlot, Counters,
       CounterFits, Alone, LInv, Shape, Data, Emitted, Results, IsOpen, OpenAt, Sent
  <1>8. QED BY <1>4, <1>5, <1>6, <1>7 DEF Next

LEMMA AlwaysIInv == Spec => []IInv
  <1>1. Init => IInv BY InitTInv, InitCInv DEF IInv, CInv
  <1>2. IInv /\ [Next]_vars => IInv'
    <2>1. ASSUME IInv, [Next]_vars PROVE IInv'
      <3>1. TInv' BY <2>1, TypeStep, ShapeStep DEF IInv, TInv
      <3>2. CInv' BY <2>1, CInvStep
      <3>3. QED BY <3>1, <3>2 DEF IInv
    <2>2. QED BY <2>1
  <1>3. QED BY <1>1, <1>2, PTL DEF Spec

\* A filter works on one image at a time, the one its counter stands at,
\* however the workers interleave in timedProceed (BaseFilter.cpp), for any
\* number of workers and any gaps in the image numbers.
THEOREM FiltersInImageOrder == Spec => []InImageOrder
  <1>1. IInv => InImageOrder
    <2> SUFFICES ASSUME IInv, clean, NEW v \in Workers, NEW w \in Workers, pc[w] = "inside"
                 PROVE  /\ counter[at[w]] = job[w].n
                        /\ v # w /\ pc[v] = "inside" => at[v] # at[w]
      BY DEF InImageOrder
    <2>1. TInv /\ JInv /\ Counters /\ LInv BY DEF IInv, CInv
    <2>2. counter[at[w]] = job[w].n /\ job[w] # NoJob BY <2>1, InsideAt
    <2>3. ASSUME pc[v] = "inside", at[v] = at[w] PROVE v = w
      <3>1. counter[at[v]] = job[v].n /\ job[v] # NoJob BY <2>1, <2>3, InsideAt
      <3>2. Slot(job[v].n) = v /\ Slot(job[w].n) = w BY <2>1, <2>2, <3>1, CleanJob
      <3>3. QED BY <2>2, <2>3, <3>1, <3>2
    <2>4. QED BY <2>2, <2>3
  <1>2. QED BY <1>1, AlwaysIInv, PTL

\* What a filter reads is its own image: no slot of a pipe and no connection of
\* a sample pipe has been taken over (SynchronePipe::read, SignalAdapter::run).
THEOREM EachItsOwnData == Spec => []OwnData
  <1>1. IInv => OwnData
    <2> SUFFICES ASSUME IInv, clean, NEW w \in Workers, pc[w] = "inside"
                 PROVE  /\ carry[w] = job[w].n
                        /\ at[w] = Filter =>
                             \A s \in Sources : slot[s][Slot(counter[Filter])] = job[w].n
      BY DEF OwnData
    <2>1. TInv /\ JInv /\ Counters /\ LInv BY DEF IInv, CInv
    <2>2. pc[w] \in Steps BY DEF Steps
    <2>3. carry[w] = job[w].n BY <2>1, AtFilter
    <2>4. Shape(w) /\ Data(w) /\ Slot(job[w].n) = w BY <2>1, <2>2, InGraph
    <2>5. ASSUME at[w] = Filter, NEW s \in Sources
          PROVE  slot[s][Slot(counter[Filter])] = job[w].n
      <3>1. counter[Filter] = job[w].n BY <2>1, <2>5, InsideAt
      <3>2. inputs[w] = <<>> BY <2>4, <2>5 DEF Shape
      <3>3. Range(inputs[w]) = {} BY <3>2 DEF Range
      <3>4. Emitted(w, s) BY <2>2, <2>5, <3>3, Names DEF Emitted
      <3>5. QED BY <2>4, <3>1, <3>4 DEF Data
    <2>6. QED BY <2>3, <2>5
  <1>2. QED BY <1>1, AlwaysIInv, PTL

\* The assertion of PipeGroupEvent::signalhandler holds: a pipe that signals
\* has no signal pending in its slot (PipeGroupEvent.cpp).
THEOREM NoSignalTwice == Spec => []SignalsOnce
  <1>1. IInv => SignalsOnce
    <2> SUFFICES ASSUME IInv, clean, NEW w \in Workers, pc[w] = "emit", at[w] \in Sources
                 PROVE  ~ flag[at[w]][Slot(carry[w])]
      BY DEF SignalsOnce
    <2>1. TInv /\ JInv /\ Counters /\ LInv BY DEF IInv, CInv
    <2>2. pc[w] \in Steps BY DEF Steps
    <2>3. carry[w] = job[w].n BY <2>1, AtFilter
    <2>4. Data(w) /\ Slot(carry[w]) = w BY <2>1, <2>2, <2>3, InGraph
    <2>5. ~ Emitted(w, at[w]) BY DEF Emitted
    <2>6. ~ flag[at[w]][w] BY <2>4, <2>5 DEF Data
    <2>7. QED BY <2>4, <2>6
  <1>2. QED BY <1>1, AlwaysIInv, PTL

\* Results leave the station in the order of the images, and an idle pipeline
\* has sent the result of every image it took (ResultHandler::proceedGroup).
THEOREM ResultsLeaveInOrder == Spec => []ResultsInOrder
  <1>1. IInv => ResultsInOrder
    <2> SUFFICES ASSUME IInv, clean
                 PROVE  IsPrefix(delivered, accepted) /\ (Idle => delivered = accepted)
      BY DEF ResultsInOrder
    <2>1. TypeOK /\ Results BY DEF IInv, CInv, TInv
    <2>2. /\ Len(delivered) <= Len(accepted)
          /\ \A i \in 1 .. Len(delivered) : delivered[i] = accepted[i]
      BY <2>1 DEF Results
    <2>3. IsPrefix(delivered, accepted)
      <3>1. SubSeq(delivered, 1, Len(delivered)) = SubSeq(accepted, 1, Len(delivered))
        BY <2>1, <2>2, SequenceFacts
      <3>2. QED BY <2>2, <3>1 DEF IsPrefix
    <2>4. ASSUME Idle PROVE delivered = accepted
      <3>1. \A x : ~ IsOpen(x) BY <2>4 DEF Idle, IsOpen, OpenAt
      <3>2. \A i \in DOMAIN accepted : ~ (i > Len(delivered))
        BY <2>1, <3>1, SequenceFacts DEF Results
      <3>3. Len(accepted) = Len(delivered)
        <4>0. Len(accepted) \in Nat /\ Len(delivered) \in Nat BY <2>1, SequenceFacts
        <4>1. SUFFICES ASSUME Len(delivered) < Len(accepted) PROVE FALSE
          BY <2>2, <4>0
        <4>2. Len(accepted) \in DOMAIN accepted BY <2>1, <4>1, SequenceFacts
        <4>3. QED BY <3>2, <4>1, <4>2
      <3>4. QED BY <2>1, <2>2, <3>3, SequenceFacts
    <2>5. QED BY <2>3, <2>4
  <1>2. QED BY <1>1, AlwaysIInv, PTL

-----------------------------------------------------------------------------
(* The workers never all wait for each other.                              *)

\* Image n is in the hands of a worker, or every filter is done with it.
Preceded(n) ==
    \/ \E k \in Jobs : k.n = n
    \/ \A f \in AllFilters : counter[f] >= n + 1

\* The images in the hands of the workers follow each other without a gap.
Connected == Preceded(last) /\ \A j \in Jobs : Preceded(j.last)

ConnectedInv == clean => Connected

LEMMA JobNumbers ==
    ASSUME TInv, NEW j \in Jobs
    PROVE  j \in Job /\ j # NoJob /\ j.n \in Nat /\ j.last \in Int /\ j.last + 1 \in Nat
  <1>1. j \in Job BY DEF Jobs, TInv, TypeOK
  <1>2. QED BY <1>1, JobType

\* A worker lays an image down when every filter is done with it.
LEMMA StaysPreceded ==
    ASSUME TInv, JInv, Counters, LInv, NEW v \in Workers, CleanStep(v), NEW n \in Int,
           Preceded(n)
    PROVE  Preceded(n)'
  <1>0. TypeOK BY DEF TInv
  <1>1. \A f \in AllFilters : counter[f] \in Nat /\ counter'[f] \in Nat /\ counter'[f] >= counter[f]
    <2>1. Step(v) BY DEF CleanStep, Step
    <2>2. TypeOK' BY <2>1, TypeStep DEF Next
    <2>3. QED BY <1>0, <2>2, CounterGrows DEF TypeOK, AllFilters
  <1>2. CASE \A f \in AllFilters : counter[f] >= n + 1
    <2>1. ASSUME NEW f \in AllFilters PROVE counter'[f] >= n + 1
      BY <1>1, <1>2
    <2>2. QED BY <2>1 DEF Preceded
  <1>3. ASSUME NEW k \in Jobs, k.n = n PROVE Preceded(n)'
    <2>1. CASE k \in Jobs'
      BY <1>3, <2>1 DEF Preceded
    <2>2. CASE k \notin Jobs'
      <3>1. FinishWork(v) /\ k = job[v]
        <4>1. CASE TakeWork(v) BY <1>0, <2>2, <4>1 DEF TakeWork, Jobs, TypeOK, TInv, TShape
        <4>2. CASE FinishWork(v) BY <1>0, <2>2, <4>2 DEF FinishWork, Jobs, TypeOK
        <4>3. CASE UNCHANGED <<work, job>> BY <2>2, <4>3 DEF Jobs
        <4>4. QED BY <4>1, <4>2, <4>3, SameJobs
      <3>2. pc[v] = "done" BY <3>1 DEF FinishWork
      <3>3. ASSUME NEW f \in AllFilters PROVE counter'[f] >= n + 1
        <4>1. counter[f] > n BY <1>3, <3>1, <3>2, DonePassed
        <4>2. QED BY <1>1, <4>1
      <3>4. QED BY <3>3 DEF Preceded
    <2>3. QED BY <2>1, <2>2
  <1>4. QED BY <1>2, <1>3 DEF Preceded

LEMMA ConnectedSchedule ==
    ASSUME TInv, JInv, Connected, ScheduleImage, clean, clean'
    PROVE  Connected'
  <1>0. TypeOK BY DEF TInv
  <1>1. PICK n \in Images, mode \in Modes :
              /\ work[Slot(n)] = NoJob
              /\ work' = [work EXCEPT ![Slot(n)] = NewJob(n, mode)]
              /\ last' = n
              /\ UNCHANGED job /\ UNCHANGED counter
    BY CleanSchedule
  <1> DEFINE new == NewJob(n, mode)
  <1>2. new.n = n /\ new.last = last /\ new # NoJob
    <2>1. new \in Job BY <1>0, NewJobType
    <2>2. QED BY <2>1, JobType DEF NewJob
  <1>3. n \in Nat /\ Slot(n) \in Workers
    BY WorkerSlots DEF Images
  <1>4. Jobs' = Jobs \cup {new}
    <2>1. work'[Slot(n)] = new /\ \A w \in Workers : w # Slot(n) => work'[w] = work[w]
      BY <1>0, <1>1, <1>3 DEF TypeOK
    <2>2. job' = job BY <1>1
    <2> HIDE DEF new
    <2>3. QED BY <1>1, <1>2, <1>3, <2>1, <2>2 DEF Jobs
  <1>5. ASSUME NEW x, Preceded(x) PROVE Preceded(x)'
    BY <1>1, <1>4, <1>5 DEF Preceded
  <1>6. Preceded(last)'
    BY <1>1, <1>2, <1>4 DEF Preceded
  <1>7. ASSUME NEW j \in Jobs' PROVE Preceded(j.last)'
    <2>1. CASE j \in Jobs BY <1>5, <2>1 DEF Connected
    <2>2. CASE j = new BY <1>2, <1>5, <2>2 DEF Connected
    <2>3. QED BY <1>4, <2>1, <2>2
  <1>8. QED BY <1>6, <1>7 DEF Connected

LEMMA ConnectedStep ==
    ASSUME IInv, ConnectedInv, [Next]_vars
    PROVE  ConnectedInv'
  <1> SUFFICES ASSUME clean' PROVE Connected' BY DEF ConnectedInv
  <1>1. TInv /\ TypeOK BY DEF IInv, TInv
  <1>2. clean BY <1>1, StaysClean
  <1>3. JInv /\ Counters /\ LInv /\ Connected BY <1>2 DEF IInv, CInv, ConnectedInv
  <1>4. ASSUME NEW v \in Workers, Step(v) PROVE Connected'
    <2>1. CleanStep(v) BY <1>1, <1>2, <1>3, <1>4, CleanSteps
    <2>2. Jobs' \subseteq Jobs /\ last' = last BY <1>1, <1>4, <2>1, JobsShrink, StepKeeps
    <2>3. \A n \in Int : Preceded(n) => Preceded(n)' BY <1>1, <1>3, <2>1, StaysPreceded
    <2>4. last \in Int BY <1>1, LastType
    <2>5. \A j \in Jobs : j.last \in Int BY <1>1, JobNumbers
    <2>6. QED BY <1>3, <2>2, <2>3, <2>4, <2>5 DEF Connected
  <1>5. CASE ScheduleImage BY <1>1, <1>2, <1>3, <1>5, ConnectedSchedule
  <1>6. CASE NextSeam
    <2>1. Jobs' = {} BY <1>6 DEF NextSeam, Idle, Jobs
    <2>2. \A f \in AllFilters : counter'[f] >= last' + 1 BY <1>6 DEF NextSeam, AllFilters
    <2>3. QED BY <2>1, <2>2 DEF Connected, Preceded
  <1>7. CASE UNCHANGED vars
    BY <1>3, <1>7 DEF vars, Connected, Preceded, Jobs
  <1>8. QED BY <1>4, <1>5, <1>6, <1>7 DEF Next

LEMMA AlwaysConnected == Spec => []ConnectedInv
  <1>1. Init => ConnectedInv
    BY DEF Init, ConnectedInv, Connected, Preceded, Jobs, AllFilters
  <1>2. IInv /\ ConnectedInv /\ [Next]_vars => ConnectedInv' BY ConnectedStep
  <1>3. QED BY <1>1, <1>2, AlwaysIInv, PTL DEF Spec

\* One of the images in the hands of the workers is the oldest.
LEMMA OldestJob ==
    ASSUME TInv, Jobs # {}
    PROVE  \E j \in Jobs : \A k \in Jobs : j.n <= k.n
  <1> DEFINE T == {k.n : k \in Jobs}
             R == OpToRel(<, Nat)
  <1>1. T \subseteq Nat /\ T # {} BY JobNumbers
  <1>2. IsWellFoundedOn(R, Nat) BY NatLessThanWellFounded
  <1> HIDE DEF R
  <1>3. PICK x \in T : \A y \in T : ~ (<<y, x>> \in R) BY <1>1, <1>2, WFMin
  <1>4. PICK j \in Jobs : x = j.n BY <1>3
  <1>5. ASSUME NEW k \in Jobs PROVE j.n <= k.n
    <2>1. k.n \in T /\ k.n \in Nat /\ j.n \in Nat BY JobNumbers
    <2>2. ~ (k.n < j.n) BY <1>3, <1>4, <2>1 DEF R, OpToRel
    <2>3. QED BY <2>1, <2>2
  <1>6. QED BY <1>5

\* The filter the worker of the oldest image calls has been left by the image
\* before it, and no image passed it: it is at the number the worker waits for.
LEMMA OldestSynchronized ==
    ASSUME TInv, JInv, Counters, LInv, Connected, NEW w \in Workers, job[w] # NoJob,
           \A k \in Jobs : job[w].n <= k.n,
           pc[w] = "skip" \/ pc[w] = "call" \/ (pc[w] = "sync" /\ SyncFilter(w) \in Sources)
    PROVE  Synchronized(w)
  <1> DEFINE f == SyncFilter(w)
             j == job[w]
  <1>1. /\ j \in Jobs /\ InOrder(j) /\ j.n \in Nat /\ j.last \in Int /\ pc[w] # "idle"
    BY CleanJob
  <1>2. \A g \in AllFilters : counter[g] \in Nat /\ counter[g] >= j.last + 1
    <2>1. Preceded(j.last) BY <1>1 DEF Connected
    <2>2. \A k \in Jobs : k.n # j.last
      <3>1. \A k \in Jobs : k.n \in Nat BY JobNumbers
      <3>2. j.last < j.n BY <1>1 DEF InOrder
      <3>3. QED BY <1>1, <3>1, <3>2
    <2>3. QED BY <2>1, <2>2, CounterOf DEF Preceded, TInv
  <1>3. Shape(w) /\ idx[w] \in 1 .. Len(Visited) BY DEF LInv, TInv, TypeOK
  <1>4. \A g \in AllFilters : Fits(j, pc[w], idx[w], at[w], inputs[w], g, counter[g])
    BY DEF Counters, CounterFits
  <1>5. /\ j.mode = "Normal" => j.n = j.last + 1
        /\ j.mode \in {"Normal", "MissingImage"}
    BY <1>1 DEF InOrder
  <1>6. CASE pc[w] = "skip"
    <2>1. f = Visited[idx[w]] /\ SyncNumber(w) = j.last + 1 /\ f \in AllFilters
      BY <1>3, <1>6, VisitedType DEF SyncFilter, SyncNumber
    <2>2. ~ Upto(Visited, idx[w], Visited[idx[w]])
      <3>1. Len(Visited) \in Nat BY VisitedType, MapType
      <3>2. QED BY <1>3, <3>1, VisitedOnce, VisitedType DEF Upto
    <2>3. counter[f] <= j.last + 1 BY <1>4, <1>6, <2>1, <2>2 DEF Fits
    <2>4. counter[f] = SyncNumber(w) BY <1>1, <1>2, <2>1, <2>3
    <2>5. QED BY <2>4 DEF Synchronized
  <1>7. CASE pc[w] = "sync" /\ f \in Sources
    <2>1. SyncNumber(w) = j.n /\ f \in AllFilters
      BY <1>7 DEF SyncNumber, AllFilters, Filters
    <2>2. counter[f] <= j.n /\ (j.mode = "MissingImage" => counter[f] = j.n)
      BY <1>4, <1>7, <2>1 DEF Fits
    <2>3. counter[f] = SyncNumber(w) BY <1>1, <1>2, <1>5, <2>1, <2>2
    <2>4. QED BY <2>3 DEF Synchronized
  <1>8. CASE pc[w] = "call"
    <2>1. at[w] \in AllFilters /\ img[w] = j.n /\ pc[w] \in Steps BY <1>8, AtFilter
    <2>2. f = at[w] /\ SyncNumber(w) = j.n BY <1>8, <2>1 DEF SyncFilter, SyncNumber
    <2>3. ~ Passed(pc[w], at[w], inputs[w], at[w]) BY <1>8, AtNotPassed
    <2>4. counter[f] <= j.n /\ (j.mode = "MissingImage" => counter[f] = j.n)
      BY <1>4, <2>1, <2>2, <2>3 DEF Fits
    <2>5. counter[f] = SyncNumber(w) BY <1>1, <1>2, <1>5, <2>1, <2>2, <2>4
    <2>6. QED BY <2>5 DEF Synchronized
  <1>9. QED BY <1>6, <1>7, <1>8

\* The workers never all wait for each other: whoever has the oldest image can go
\* on, for any number of workers, filters and images and any gaps
\* (BaseFilter::synchronizeOnImgNb).
THEOREM OldestNeverWaits == Spec => []OldestGoesOn
  <1>1. IInv /\ ConnectedInv => OldestGoesOn
    <2> SUFFICES ASSUME IInv, ConnectedInv, clean, ~ Idle
                 PROVE  \E w \in Workers :
                          /\ CanGoOn(w)
                          /\ \A v \in Workers : \A k \in {work[v], job[v]} \ {NoJob} :
                                Current(w).n <= k.n
      BY DEF OldestGoesOn
    <2>1. TInv /\ JInv /\ Counters /\ LInv /\ Connected BY DEF IInv, CInv, ConnectedInv
    <2>2. Jobs # {} BY DEF Idle, Jobs
    <2>3. PICK j \in Jobs : \A k \in Jobs : j.n <= k.n BY <2>1, <2>2, OldestJob
    <2>4. PICK w \in Workers : j = job[w] \/ j = work[w] BY DEF Jobs
    <2>5. j # NoJob BY DEF Jobs
    <2>6. Current(w) = j
      <3>1. CASE job[w] = NoJob BY <2>4, <2>5, <3>1 DEF Current
      <3>2. CASE j = job[w] BY <2>5, <3>2 DEF Current
      <3>3. CASE job[w] # NoJob /\ j = work[w]
        <4>1. job[w] \in Jobs /\ job[w].n \in Nat BY <2>1, <3>3, CleanJob
        <4>2. j.n \in Nat /\ j.last \in Int /\ j.last < j.n
          BY <2>1, JobNumbers DEF JInv, InOrder
        <4>3. job[w].n <= j.last BY <2>1, <2>5, <3>3 DEF JInv, Chain
        <4>4. j.n <= job[w].n BY <2>3, <4>1
        <4>5. QED BY <4>1, <4>2, <4>3, <4>4
      <3>4. QED BY <2>4, <3>1, <3>2, <3>3
    <2>7. CanGoOn(w)
      <3>1. CASE job[w] = NoJob
        <4>1. pc[w] = "idle" BY <2>1, <3>1 DEF TInv, TShape
        <4>2. QED BY <2>5, <2>6, <4>1 DEF CanGoOn
      <3>2. CASE job[w] # NoJob
        <4>1. j = job[w] BY <2>6, <3>2 DEF Current
        <4>2. QED BY <2>1, <2>3, <2>5, <2>6, <3>2, <4>1, OldestSynchronized DEF CanGoOn
      <3>3. QED BY <3>1, <3>2
    <2>8. \A v \in Workers : \A k \in {work[v], job[v]} \ {NoJob} : k \in Jobs BY DEF Jobs
    <2>9. QED BY <2>3, <2>6, <2>7, <2>8
  <1>2. QED BY <1>1, AlwaysIInv, AlwaysConnected, PTL
=============================================================================
