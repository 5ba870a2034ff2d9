------------------------ MODULE ModuleManagerProofs ------------------------
(***************************************************************************)
(* Proofs about ModuleManager, for every set of modules and interfaces and *)
(* every program of requests.                                              *)
(***************************************************************************)
EXTENDS ModuleManager, FiniteSetTheorems, TLAPS

(***************************************************************************)
(* The constants: the request a handler works on, and what its entry is.   *)
(***************************************************************************)
LEMMA ProgramType ==
    /\ Program \in [Modules -> Seq(Requests)]
    /\ Messages \cap Events = {}
    /\ NoModule \notin Modules
  BY RegistryAssumption

LEMMA RequestType ==
    ASSUME NEW m \in Modules, next[m] \in Nat \ {0}, Running(m)
    PROVE  /\ Request(m) \in Requests
           /\ Request(m).op = "publish" => Request(m).entry \in Publications
           /\ Request(m).op = "subscribe" => Request(m).entry \in Subscriptions
           /\ Request(m).op \in {"publish", "subscribe"}
           /\ Request(m).entry.module = m
  <1>1. /\ Program[m] \in Seq(Requests)
        /\ next[m] \in DOMAIN Program[m]
    BY ProgramType DEF Running
  <1>2. Request(m) \in Requests
    BY <1>1 DEF Request
  <1>3. Request(m).op \in {"publish", "subscribe"}
    BY <1>2 DEF Requests
  <1>4. \A op : Request(m).op = op => Request(m).entry \in Entries(op)
    BY <1>1 DEF Request, Entries
  <1>5. Request(m).entry.module = m
    BY <1>1, RegistryAssumption DEF Request
  <1> QED BY <1>2, <1>3, <1>4, <1>5 DEF Publications, Subscriptions

LEMMA EntryTypes ==
    /\ Publications \subseteq [module : Modules, iface : Interfaces, to : Modules \cup {AnyModule}]
    /\ Subscriptions \subseteq [module : Modules, iface : Interfaces]
  <1>1. ASSUME NEW m \in Modules, NEW i \in DOMAIN Program[m]
        PROVE  Program[m][i] \in Requests
    BY ProgramType
  <1>2. ASSUME NEW r \in Requests, r.op = "publish"
        PROVE  r.entry \in [module : Modules, iface : Interfaces, to : Modules \cup {AnyModule}]
    BY <1>2 DEF Requests
  <1>3. ASSUME NEW r \in Requests, r.op = "subscribe"
        PROVE  r.entry \in [module : Modules, iface : Interfaces]
    BY <1>3 DEF Requests
  <1> QED BY <1>1, <1>2, <1>3 DEF Publications, Subscriptions, Entries

LEMMA EntriesDiffer == Publications \cap Subscriptions = {}
  <1> SUFFICES ASSUME NEW e \in Publications, e \in Subscriptions
               PROVE  FALSE
    OBVIOUS
  <1>1. DOMAIN e = {"module", "iface", "to"}
    BY EntryTypes
  <1>2. DOMAIN e = {"module", "iface"}
    BY EntryTypes
  <1> QED BY <1>1, <1>2

(***************************************************************************)
(* The inductive invariant.  A walk holds the lock, so that the lists do   *)
(* not change under it; the pairs it found are active or still to do.  A   *)
(* set semaphore belongs to a publication that has a pair.                 *)
(***************************************************************************)
WalkInv ==
    \A m \in Modules :
       IF stage[m] = "walk"
       THEN lock = m /\ todo[m] \subseteq Matches(m) /\ Matches(m) \subseteq paired \cup todo[m]
       ELSE todo[m] = {}

HandlerInv ==
    \A m \in Modules :
       /\ stage[m] # "add" => Running(m)
       /\ stage[m] \in {"unmatched", "blocked"} =>
             Request(m).op = "publish" /\ Request(m).entry.iface \in Messages

ReleasedInv == \A p \in released : \E q \in paired : q[1] = p

IInv ==
    /\ TypeOK
    /\ HandlerInv
    /\ WalkInv
    /\ ReleasedInv
    /\ MatchesActivated
    /\ PublishedIsPaired

LEMMA MatchesType ==
    ASSUME NEW m \in Modules, TypeOK, Running(m)
    PROVE  Matches(m) \subseteq catalogue \X subscriptions \cup Publications \X Subscriptions
  <1>1. CASE Request(m).op = "publish"
    BY <1>1, RequestType DEF Matches, TypeOK
  <1>2. CASE Request(m).op = "subscribe"
    BY <1>2, RequestType DEF Matches, TypeOK
  <1> QED BY <1>1, <1>2, RequestType DEF TypeOK

LEMMA MatchesPairs ==
    ASSUME NEW m \in Modules, TypeOK, Running(m)
    PROVE  Matches(m) \subseteq Publications \X Subscriptions
  BY MatchesType DEF TypeOK

LEMMA InitInv == Init => IInv
  <1> SUFFICES ASSUME Init PROVE IInv
    OBVIOUS
  <1>1. TypeOK
    BY DEF Init, TypeOK, Stages
  <1>2. HandlerInv /\ WalkInv /\ ReleasedInv
    BY DEF Init, HandlerInv, WalkInv, ReleasedInv
  <1>3. MatchesActivated /\ PublishedIsPaired
    BY DEF Init, MatchesActivated, PublishedIsPaired
  <1> QED BY <1>1, <1>2, <1>3 DEF IInv

(***************************************************************************)
(* Each step keeps the types.                                              *)
(***************************************************************************)
LEMMA ActivateType ==
    ASSUME IInv, NEW m \in Modules, Activate(m)
    PROVE  TypeOK'
  <1>1. PICK q \in todo[m] :
          /\ \E mem \in MemoryOf(q[1], q[2]) :
                /\ protocol' = [protocol EXCEPT ![q[2]] = mem]
                /\ sendMemory' = IF q[1].iface \in Events /\ sendMemory[q[1]] = NoMemory
                                 THEN [sendMemory EXCEPT ![q[1]] = mem] ELSE sendMemory
          /\ paired' = paired \cup {q}
          /\ multiUse' = CountReader(q[1], q[2])
          /\ released' = released \cup (IF Request(m).op = "subscribe" THEN FreedBy(q[1]) ELSE {})
          /\ waitingPublishers' = waitingPublishers \
                (IF Request(m).op = "subscribe" THEN FreedBy(q[1]) ELSE {})
          /\ todo' = [todo EXCEPT ![m] = @ \ {q}]
    BY DEF Activate
  <1>2. UNCHANGED <<next, stage, lock, catalogue, subscriptions, overlap>>
    BY DEF Activate, listVars
  <1>3. q \in Publications \X Subscriptions
    BY <1>1 DEF IInv, TypeOK
  <1>4. MemoryOf(q[1], q[2]) \subseteq Subscriptions \cup {NoMemory}
    BY <1>3 DEF MemoryOf, IInv, TypeOK
  <1>5. PICK mem \in Subscriptions \cup {NoMemory} :
          /\ protocol' = [protocol EXCEPT ![q[2]] = mem]
          /\ sendMemory' = IF q[1].iface \in Events /\ sendMemory[q[1]] = NoMemory
                           THEN [sendMemory EXCEPT ![q[1]] = mem] ELSE sendMemory
    BY <1>1, <1>4
  <1>6. multiUse' \in [Publications -> Nat]
    BY <1>1, <1>3 DEF CountReader, IInv, TypeOK
  <1>7. protocol' \in [Subscriptions -> Subscriptions \cup {NoMemory}]
    BY <1>5 DEF IInv, TypeOK
  <1>8. sendMemory' \in [Publications -> Subscriptions \cup {NoMemory}]
    BY <1>5 DEF IInv, TypeOK
  <1>9. /\ released' \subseteq Publications
        /\ waitingPublishers' \subseteq waitingPublishers
        /\ paired' \subseteq Publications \X Subscriptions
        /\ todo' \in [Modules -> SUBSET (Publications \X Subscriptions)]
    BY <1>1, <1>3 DEF FreedBy, IInv, TypeOK
  <1>10. missed' \subseteq Publications
    <2>1. PICK r \in todo[m] : missed' \subseteq missed \cup {r[1]}
      BY DEF Activate
    <2> QED BY <2>1 DEF IInv, TypeOK
  <1> QED BY <1>2, <1>6, <1>7, <1>8, <1>9, <1>10 DEF IInv, TypeOK

LEMMA StepType ==
    ASSUME IInv, [Next]_vars
    PROVE  TypeOK'
  <1> USE DEF IInv
  <1>0. CASE UNCHANGED vars
    BY <1>0 DEF vars, handlerVars, listVars, pairVars, waitVars, TypeOK
  <1> SUFFICES ASSUME NEW m \in Modules, Step(m) PROVE TypeOK'
    BY <1>0 DEF Next
  <1>1. CASE AddPublication(m)
    <2>1. Request(m).entry \in Publications
      BY <1>1, RequestType DEF AddPublication, TypeOK
    <2>2. catalogue' \subseteq Publications /\ overlap' \subseteq Publications \X Subscriptions
      BY <1>1, <2>1 DEF AddPublication, TypeOK
    <2> QED BY <1>1, <2>2 DEF AddPublication, GoTo, pairVars, waitVars, Stages, TypeOK
  <1>2. CASE AddSubscription(m)
    <2>1. Request(m).entry \in Subscriptions
      BY <1>2, RequestType DEF AddSubscription, TypeOK
    <2>2. subscriptions' \subseteq Subscriptions /\ overlap' \subseteq Publications \X Subscriptions
      BY <1>2, <2>1 DEF AddSubscription, TypeOK
    <2> QED BY <1>2, <2>2 DEF AddSubscription, GoTo, pairVars, waitVars, Stages, TypeOK
  <1>3. CASE StartWalk(m)
    BY <1>3, MatchesPairs DEF StartWalk, GoTo, listVars, pairVars, waitVars, Stages, TypeOK
  <1>4. CASE Activate(m)
    BY <1>4, ActivateType
  <1>5. CASE EndWalk(m)
    BY <1>5 DEF EndWalk, Finish, GoTo, listVars, pairVars, waitVars, Stages, TypeOK
  <1>6. CASE StartWaiting(m)
    <2>1. Request(m).entry \in {p \in Publications : p.iface \in Messages}
      BY <1>6, RequestType DEF StartWaiting, HandlerInv, TypeOK
    <2> QED BY <1>6, <2>1 DEF StartWaiting, GoTo, listVars, pairVars, Stages, TypeOK
  <1>7. CASE WakeUp(m)
    <2>1. Len(Program[m]) + 1 \in Nat \ {0}
      BY ProgramType
    <2>2. stage' = [stage EXCEPT ![m] = "add"]
      BY <1>7 DEF WakeUp, Finish, GoTo
    <2>3. next' = [next EXCEPT ![m] = @ + 1] \/ next' = [next EXCEPT ![m] = Len(Program[m]) + 1]
      BY <1>7 DEF WakeUp, Finish
    <2>4. \E k \in Nat \ {0} : next' = [next EXCEPT ![m] = k]
      <3>1. next[m] + 1 \in Nat \ {0} /\ [next EXCEPT ![m] = @ + 1] = [next EXCEPT ![m] = next[m] + 1]
        BY DEF TypeOK
      <3> QED BY <2>1, <2>3, <3>1
    <2>5. next' \in [Modules -> Nat \ {0}]
      BY <2>4 DEF TypeOK
    <2>6. stage' \in [Modules -> Stages]
      BY <2>2 DEF Stages, TypeOK
    <2>7. UNCHANGED <<lock, todo, listVars, pairVars, waitingPublishers, missed>>
      BY <1>7 DEF WakeUp
    <2>8. released' \subseteq released
      BY <1>7 DEF WakeUp
    <2> QED BY <2>5, <2>6, <2>7, <2>8 DEF listVars, pairVars, TypeOK
  <1> QED BY <1>1, <1>2, <1>3, <1>4, <1>5, <1>6, <1>7 DEF Step

(***************************************************************************)
(* Each step keeps the rest of the invariant.  A step of another module    *)
(* leaves the place of this one alone.                                     *)
(***************************************************************************)
LEMMA OthersKeepPlace ==
    ASSUME IInv, NEW m \in Modules, Step(m), NEW n \in Modules, n # m
    PROVE  /\ next'[n] = next[n]
           /\ stage'[n] = stage[n]
           /\ todo'[n] = todo[n]
           /\ Running(n)' <=> Running(n)
           /\ Request(n)' = Request(n)
  <1>1. next'[n] = next[n] /\ stage'[n] = stage[n] /\ todo'[n] = todo[n]
    BY DEF IInv, TypeOK, Step, AddPublication, AddSubscription, StartWalk, Activate, EndWalk,
           StartWaiting, WakeUp, Finish, GoTo
  <1> QED BY <1>1 DEF Running, Request

LEMMA StepHandler ==
    ASSUME IInv, NEW m \in Modules, Step(m)
    PROVE  HandlerInv'
  <1> SUFFICES ASSUME NEW n \in Modules
               PROVE  /\ stage'[n] # "add" => Running(n)'
                      /\ stage'[n] \in {"unmatched", "blocked"} =>
                            Request(n)'.op = "publish" /\ Request(n)'.entry.iface \in Messages
    BY DEF HandlerInv
  <1>1. CASE n # m
    BY <1>1, OthersKeepPlace DEF IInv, HandlerInv
  <1>2. CASE n = m
    <2>1. CASE AddPublication(m) \/ AddSubscription(m) \/ StartWalk(m)
      BY <1>2, <2>1 DEF AddPublication, AddSubscription, StartWalk, GoTo, Running, IInv, TypeOK
    <2>2. CASE Activate(m)
      BY <1>2, <2>2 DEF Activate, Running, Request, IInv, HandlerInv
    <2>3. CASE EndWalk(m)
      BY <1>2, <2>3 DEF EndWalk, MustWait, Finish, GoTo, Running, Request, IInv, HandlerInv, TypeOK
    <2>4. CASE StartWaiting(m)
      BY <1>2, <2>4 DEF StartWaiting, GoTo, Running, Request, IInv, HandlerInv, TypeOK
    <2>5. CASE WakeUp(m)
      BY <1>2, <2>5 DEF WakeUp, Finish, GoTo, IInv, TypeOK
    <2> QED BY <2>1, <2>2, <2>3, <2>4, <2>5 DEF Step
  <1> QED BY <1>1, <1>2

\* The request and the lists stay, so the pairs a walk finds stay.
LEMMA MatchesStay ==
    ASSUME NEW m, Request(m)' = Request(m), UNCHANGED <<catalogue, subscriptions>>
    PROVE  Matches(m)' = Matches(m)
  BY DEF Matches, Match

LEMMA StepWalk ==
    ASSUME IInv, NEW m \in Modules, Step(m)
    PROVE  WalkInv'
  <1> DEFINE Inv(n) == IF stage[n] = "walk"
                       THEN /\ lock = n
                            /\ todo[n] \subseteq Matches(n)
                            /\ Matches(n) \subseteq paired \cup todo[n]
                       ELSE todo[n] = {}
  <1> SUFFICES ASSUME NEW n \in Modules PROVE Inv(n)'
    BY DEF WalkInv
  <1>1. Inv(n) /\ Inv(m) /\ (lock = NoModule => stage[n] # "walk")
    BY ProgramType DEF IInv, WalkInv
  <1>2. paired \subseteq paired'
    BY DEF Step, AddPublication, AddSubscription, StartWalk, Activate, EndWalk, StartWaiting, WakeUp,
           pairVars
  <1>3. CASE n # m
    <2>1. stage'[n] = stage[n] /\ todo'[n] = todo[n] /\ Request(n)' = Request(n)
      BY <1>3, OthersKeepPlace
    <2>2. CASE stage[n] = "walk"
      <3>1. lock = n /\ lock # NoModule /\ stage[m] # "walk"
        BY <1>1, <1>3, <2>2, ProgramType
      <3>2. StartWaiting(m) \/ WakeUp(m)
        BY <3>1 DEF Step, AddPublication, AddSubscription, StartWalk, Activate, EndWalk
      <3>3. UNCHANGED <<catalogue, subscriptions, lock>>
        BY <3>2 DEF StartWaiting, WakeUp, listVars
      <3> QED BY <1>1, <1>2, <2>1, <2>2, <3>1, <3>3, MatchesStay
    <2>3. CASE stage[n] # "walk"
      BY <1>1, <2>1, <2>3
    <2> QED BY <2>2, <2>3
  <1>4. CASE n = m
    <2>1. CASE AddPublication(m) \/ AddSubscription(m)
      BY <1>1, <1>4, <2>1 DEF AddPublication, AddSubscription, GoTo, IInv, TypeOK
    <2>2. CASE StartWalk(m)
      <3>1. UNCHANGED <<catalogue, subscriptions, paired>> /\ Request(m)' = Request(m)
        BY <2>2 DEF StartWalk, listVars, pairVars, Request
      <3>2. stage'[m] = "walk" /\ lock' = m /\ todo'[m] = Matches(m)
        BY <2>2 DEF StartWalk, GoTo, IInv, TypeOK
      <3> QED BY <1>4, <3>1, <3>2, MatchesStay
    <2>3. CASE Activate(m)
      <3>1. UNCHANGED <<catalogue, subscriptions, lock>> /\ Request(m)' = Request(m)
        BY <2>3 DEF Activate, listVars, Request
      <3>2. stage[m] = "walk" /\ stage'[m] = "walk"
        BY <2>3 DEF Activate
      <3>3. PICK q \in todo[m] : paired' = paired \cup {q} /\ todo'[m] = todo[m] \ {q}
        BY <2>3 DEF Activate, IInv, TypeOK
      <3> QED BY <1>1, <1>4, <3>1, <3>2, <3>3, MatchesStay
    <2>4. CASE EndWalk(m)
      BY <1>4, <2>4 DEF EndWalk, Finish, GoTo, IInv, TypeOK
    <2>5. CASE StartWaiting(m)
      BY <1>1, <1>4, <2>5 DEF StartWaiting, GoTo, IInv, TypeOK
    <2>6. CASE WakeUp(m)
      BY <1>1, <1>4, <2>6 DEF WakeUp, Finish, GoTo, IInv, TypeOK
    <2> QED BY <2>1, <2>2, <2>3, <2>4, <2>5, <2>6 DEF Step
  <1> QED BY <1>3, <1>4

LEMMA StepReleased ==
    ASSUME IInv, NEW m \in Modules, Step(m)
    PROVE  ReleasedInv'
  <1> USE DEF IInv, ReleasedInv
  <1>1. CASE AddPublication(m) \/ AddSubscription(m) \/ StartWalk(m) \/ EndWalk(m)
    BY <1>1 DEF AddPublication, AddSubscription, StartWalk, EndWalk, pairVars, waitVars
  <1>2. CASE Activate(m)
    <2>1. PICK q \in todo[m] : /\ paired' = paired \cup {q}
                               /\ released' \subseteq released \cup FreedBy(q[1])
      BY <1>2 DEF Activate
    <2> QED BY <2>1 DEF FreedBy
  <1>3. CASE StartWaiting(m) \/ WakeUp(m)
    BY <1>3 DEF StartWaiting, WakeUp, pairVars
  <1> QED BY <1>1, <1>2, <1>3 DEF Step

(***************************************************************************)
(* A step of m does not touch the entries of other modules, nor those m    *)
(* does not work on.                                                       *)
(***************************************************************************)
LEMMA OthersWork ==
    ASSUME IInv, NEW m \in Modules, Step(m), NEW e, e.module \in Modules, e.module # m, NEW ss
    PROVE  WorksOn(e.module, e, ss)' <=> WorksOn(e.module, e, ss)
  BY OthersKeepPlace DEF WorksOn

LEMMA PairsStay ==
    ASSUME NEW m, Step(m)
    PROVE  paired \subseteq paired'
  BY DEF Step, AddPublication, AddSubscription, StartWalk, Activate, EndWalk, StartWaiting, WakeUp,
         pairVars

\* An entry whose walk is done in the next state: it was done before, or this
\* step ends the walk, which has activated all it found.
LEMMA WalkedBefore ==
    ASSUME IInv, NEW m \in Modules, Step(m), NEW e, e.module \in Modules, Walked(e)'
    PROVE  \/ Walked(e)
           \/ EndWalk(m) /\ e = Request(m).entry /\ Matches(m) \subseteq paired
  <1>1. CASE e.module # m
    BY <1>1, OthersWork DEF Walked
  <1> SUFFICES ASSUME e.module = m, ~ Walked(e)
               PROVE  EndWalk(m) /\ e = Request(m).entry /\ Matches(m) \subseteq paired
    BY <1>1
  <1>2. Running(m) /\ Request(m).entry = e /\ stage[m] \in {"activate", "walk"}
    BY DEF Walked, WorksOn
  <1>3. StartWalk(m) \/ Activate(m) \/ EndWalk(m)
    BY <1>2 DEF Step, AddPublication, AddSubscription, StartWaiting, WakeUp
  <1>4. ~ StartWalk(m)
    <2> SUFFICES ASSUME StartWalk(m) PROVE WorksOn(m, e, {"activate", "walk"})'
      BY DEF Walked
    <2>1. stage'[m] = "walk" /\ next' = next
      BY DEF StartWalk, GoTo, IInv, TypeOK
    <2> QED BY <1>2, <2>1 DEF WorksOn, Running, Request
  <1>5. ~ Activate(m)
    <2> SUFFICES ASSUME Activate(m) PROVE WorksOn(m, e, {"activate", "walk"})'
      BY DEF Walked
    <2> QED BY <1>2 DEF Activate, WorksOn, Running, Request
  <1> QED BY <1>2, <1>3, <1>4, <1>5 DEF EndWalk, IInv, WalkInv

LEMMA StepMatches ==
    ASSUME IInv, NEW m \in Modules, Step(m)
    PROVE  MatchesActivated'
  <1> SUFFICES ASSUME NEW p \in catalogue', NEW s \in subscriptions',
                      Match(p, s), Walked(p)', Walked(s)'
               PROVE  <<p, s>> \in paired'
    BY DEF MatchesActivated, Match
  <1>1. p \in Publications /\ s \in Subscriptions
    BY StepType DEF IInv, TypeOK, Next
  <1>2. p.module \in Modules /\ s.module \in Modules
    BY <1>1, EntryTypes
  <1>3. CASE p \notin catalogue \/ s \notin subscriptions
    <2>1. \/ AddPublication(m) /\ p = Request(m).entry
          \/ AddSubscription(m) /\ s = Request(m).entry
      BY <1>3 DEF Step, AddPublication, AddSubscription, StartWalk, Activate, EndWalk, StartWaiting,
                  WakeUp, listVars
    <2>2. PICK e \in {p, s} : e = Request(m).entry
      BY <2>1
    <2>3. Running(m) /\ e.module = m
      BY <2>1, <2>2, RequestType DEF AddPublication, AddSubscription, IInv, TypeOK
    <2>4. stage'[m] = "activate" /\ next' = next
      BY <2>1 DEF AddPublication, AddSubscription, GoTo, IInv, TypeOK
    <2>5. WorksOn(m, e, {"activate", "walk"})'
      BY <2>2, <2>3, <2>4 DEF WorksOn, Running, Request
    <2> QED BY <2>2, <2>3, <2>5 DEF Walked
  <1>4. CASE p \in catalogue /\ s \in subscriptions
    <2>1. CASE Walked(p) /\ Walked(s)
      BY <1>4, <2>1, PairsStay DEF IInv, MatchesActivated
    <2>2. CASE EndWalk(m) /\ Matches(m) \subseteq paired /\ Request(m).entry \in {p, s}
      <3>1. Running(m)
        BY <2>2 DEF EndWalk, IInv, HandlerInv
      <3>2. <<p, s>> \in Matches(m)
        BY <1>1, <1>4, <2>2, <3>1, RequestType, EntriesDiffer DEF Matches, IInv, TypeOK
      <3> QED BY <2>2, <3>2, PairsStay
    <2> QED BY <1>2, <2>1, <2>2, WalkedBefore
  <1> QED BY <1>3, <1>4

LEMMA StepPublished ==
    ASSUME IInv, NEW m \in Modules, Step(m)
    PROVE  PublishedIsPaired'
  <1> SUFFICES ASSUME NEW p \in catalogue', p.iface \in Messages, ~ WorksOn(p.module, p, Stages)'
               PROVE  \E q \in paired' : q[1] = p
    BY DEF PublishedIsPaired
  <1>1. p \in Publications /\ p.module \in Modules
    BY StepType, EntryTypes DEF IInv, TypeOK, Next
  <1>2. CASE p \in catalogue /\ ~ WorksOn(p.module, p, Stages)
    BY <1>2, PairsStay DEF IInv, PublishedIsPaired
  <1>3. CASE p \in catalogue /\ WorksOn(p.module, p, Stages)
    <2>1. p.module = m /\ Running(m) /\ Request(m).entry = p
      BY <1>1, <1>3, OthersWork DEF WorksOn
    <2>2. CASE next' = next
      <3>1. stage'[m] \in Stages
        BY StepType DEF IInv, TypeOK, Next
      <3> QED BY <2>1, <2>2, <3>1 DEF WorksOn, Running, Request
    <2>3. CASE EndWalk(m) /\ ~ MustWait(m)
      <3>1. Request(m).op = "publish"
        BY <1>1, <2>1, RequestType, EntriesDiffer DEF IInv, TypeOK
      <3>2. Matches(m) # {} /\ Matches(m) \subseteq paired
        BY <2>1, <2>3, <3>1 DEF EndWalk, MustWait, IInv, WalkInv
      <3>3. \A q \in Matches(m) : q[1] = p
        BY <2>1, <3>1 DEF Matches
      <3> QED BY <3>2, <3>3, PairsStay
    <2>4. CASE WakeUp(m)
      BY <2>1, <2>4, PairsStay DEF WakeUp, IInv, ReleasedInv
    <2>5. CASE AddPublication(m) \/ AddSubscription(m) \/ StartWalk(m)
      BY <2>2, <2>5 DEF AddPublication, AddSubscription, StartWalk
    <2>6. CASE Activate(m) \/ StartWaiting(m)
      BY <2>2, <2>6 DEF Activate, StartWaiting
    <2>7. CASE EndWalk(m)
      BY <2>2, <2>3, <2>7 DEF EndWalk
    <2> QED BY <2>4, <2>5, <2>6, <2>7 DEF Step
  <1>4. CASE p \notin catalogue
    <2>1. AddPublication(m) /\ p = Request(m).entry
      BY <1>4 DEF Step, AddPublication, AddSubscription, StartWalk, Activate, EndWalk, StartWaiting,
                  WakeUp, listVars
    <2>2. Running(m) /\ p.module = m
      BY <2>1, RequestType DEF AddPublication, IInv, TypeOK
    <2>3. stage'[m] \in Stages /\ next' = next
      BY <2>1, StepType DEF AddPublication, IInv, TypeOK, Next
    <2> QED BY <2>1, <2>2, <2>3 DEF WorksOn, Running, Request
  <1> QED BY <1>2, <1>3, <1>4

(***************************************************************************)
(* The theorems.                                                           *)
(***************************************************************************)
\* The inductive invariant IInv of the requests holds in every reachable state.
THEOREM InvTheorem == Spec => []IInv
  <1>1. IInv /\ [Next]_vars => IInv'
    <2> SUFFICES ASSUME IInv, [Next]_vars PROVE IInv'
      OBVIOUS
    <2>1. CASE UNCHANGED vars
      <3>1. UNCHANGED <<next, stage, lock, todo, catalogue, subscriptions, paired, released>>
        BY <2>1 DEF vars, handlerVars, listVars, pairVars, waitVars
      <3>2. HandlerInv' /\ WalkInv' /\ ReleasedInv'
        BY <3>1 DEF IInv, HandlerInv, WalkInv, ReleasedInv, Running, Request, Matches, Match
      <3>3. MatchesActivated' /\ PublishedIsPaired'
        BY <3>1 DEF IInv, MatchesActivated, PublishedIsPaired, Match, Walked, WorksOn, Running, Request
      <3> QED BY <3>2, <3>3, StepType DEF IInv
    <2>2. ASSUME NEW m \in Modules, Step(m) PROVE IInv'
      BY <2>2, StepType, StepHandler, StepWalk, StepReleased, StepMatches, StepPublished DEF IInv
    <2> QED BY <2>1, <2>2 DEF Next
  <1> QED BY InitInv, <1>1, PTL DEF Spec

\* Type correctness of the registry, for every set of modules and interfaces.
THEOREM TypeCorrect == Spec => []TypeOK
  BY InvTheorem, PTL DEF IInv

\* Whatever the order of the requests, a publication and a subscription that
\* match are paired once both are walked.
THEOREM NobodyLeftOut == Spec => []MatchesActivated
  BY InvTheorem, PTL DEF IInv

\* publish() of a message interface returns only with a subscriber paired.
THEOREM PublishReturnsPaired == Spec => []PublishedIsPaired
  BY InvTheorem, PTL DEF IInv

(***************************************************************************)
(* How often a publisher counts its readers.  A pair is found by the walk  *)
(* of its publication, by that of its subscription, or by both, and by     *)
(* both exactly when the requests overlapped.  HasYet says that the walk   *)
(* for entry e has still to activate the pair q.                           *)
(***************************************************************************)
HasYet(q, e) ==
    \/ WorksOn(e.module, e, {"activate"})
    \/ WorksOn(e.module, e, {"walk"}) /\ q \in todo[e.module]

Listed == {q \in catalogue \X subscriptions : Match(q[1], q[2])}

\* An entry in a list was made by a request that is under way or done.
Made(e, op) ==
    \E i \in DOMAIN Program[e.module] :
       /\ Program[e.module][i] = [op |-> op, entry |-> e]
       /\ i <= next[e.module]
       /\ i = next[e.module] => stage[e.module] # "add"

MadeInv ==
    /\ \A p \in catalogue : Made(p, "publish")
    /\ \A s \in subscriptions : Made(s, "subscribe")

OneOrTwo ==
    \A q \in Listed :
       /\ q \in overlap => (q \in paired <=> ~ (HasYet(q, q[1]) /\ HasYet(q, q[2])))
       /\ q \notin overlap =>
             /\ ~ (HasYet(q, q[1]) /\ HasYet(q, q[2]))
             /\ q \in paired <=> ~ HasYet(q, q[1]) /\ ~ HasYet(q, q[2])

Twice(p) == {s \in subscriptions : /\ <<p, s>> \in overlap
                                   /\ ~ HasYet(<<p, s>>, p)
                                   /\ ~ HasYet(<<p, s>>, s)}

CountInv ==
    \A p \in Publications :
       p.iface \in Events => multiUse[p] = Cardinality(Readers(p)) + Cardinality(Twice(p))

\* A request past its first half has its entry in the list.
EntryInv ==
    \A m \in Modules :
       stage[m] # "add" =>
          IF Request(m).op = "publish" THEN Request(m).entry \in catalogue
                                       ELSE Request(m).entry \in subscriptions

JInv ==
    /\ IInv
    /\ EntryInv
    /\ MadeInv
    /\ paired \subseteq Listed
    /\ overlap \subseteq Listed
    /\ IsFiniteSet(subscriptions)
    /\ OneOrTwo
    /\ CountInv

LEMMA ListedModules ==
    ASSUME TypeOK, NEW q \in Listed
    PROVE  /\ q \in Publications \X Subscriptions
           /\ q[1] \in Publications /\ q[1].module \in Modules
           /\ q[2] \in Subscriptions /\ q[2].module \in Modules
           /\ q = <<q[1], q[2]>>
  BY EntryTypes DEF Listed, TypeOK

LEMMA HasYetElsewhere ==
    ASSUME IInv, NEW m \in Modules, Step(m), NEW q, NEW e, e.module \in Modules, e.module # m
    PROVE  HasYet(q, e)' <=> HasYet(q, e)
  BY OthersWork, OthersKeepPlace DEF HasYet

LEMMA HasYetAdd ==
    ASSUME IInv, NEW m \in Modules, AddPublication(m) \/ AddSubscription(m),
           NEW q, NEW e, e.module = m
    PROVE  /\ ~ HasYet(q, e)
           /\ HasYet(q, e)' <=> e = Request(m).entry
  <1>1. stage[m] = "add" /\ stage'[m] = "activate" /\ next' = next /\ Running(m)
    BY DEF AddPublication, AddSubscription, GoTo, IInv, TypeOK
  <1> QED BY <1>1 DEF HasYet, WorksOn, Running, Request

LEMMA HasYetStart ==
    ASSUME IInv, NEW m \in Modules, StartWalk(m), NEW q \in Listed, NEW e \in {q[1], q[2]},
           e.module = m
    PROVE  HasYet(q, e)' <=> HasYet(q, e)
  <1>1. stage[m] = "activate" /\ stage'[m] = "walk" /\ next' = next /\ Running(m)
        /\ todo'[m] = Matches(m)
    BY DEF StartWalk, GoTo, IInv, TypeOK
  <1>2. CASE e = Request(m).entry
    <2>1. q \in Matches(m)
      BY <1>1, <1>2, ListedModules, RequestType, EntriesDiffer DEF Matches, Listed, IInv, TypeOK
    <2> QED BY <1>1, <1>2, <2>1 DEF HasYet, WorksOn, Running, Request
  <1>3. CASE e # Request(m).entry
    BY <1>1, <1>3 DEF HasYet, WorksOn, Running, Request
  <1> QED BY <1>2, <1>3

LEMMA HasYetEnd ==
    ASSUME IInv, NEW m \in Modules, EndWalk(m) \/ StartWaiting(m) \/ WakeUp(m),
           NEW q, NEW e, e.module = m
    PROVE  ~ HasYet(q, e) /\ ~ HasYet(q, e)'
  <1>1. ~ HasYet(q, e)
    BY DEF EndWalk, StartWaiting, WakeUp, HasYet, WorksOn
  <1>2. stage'[m] \in {"add", "unmatched", "blocked"}
    BY DEF EndWalk, StartWaiting, WakeUp, Finish, GoTo, IInv, TypeOK
  <1> QED BY <1>1, <1>2 DEF HasYet, WorksOn

LEMMA HasYetActivate ==
    ASSUME IInv, NEW m \in Modules, Activate(m), NEW q0 \in todo[m],
           todo' = [todo EXCEPT ![m] = @ \ {q0}], NEW q, NEW e, e.module = m
    PROVE  /\ HasYet(q, e) <=> e = Request(m).entry /\ q \in todo[m]
           /\ HasYet(q, e)' <=> e = Request(m).entry /\ q \in todo[m] /\ q # q0
  <1>1. stage[m] = "walk" /\ stage'[m] = "walk" /\ next' = next /\ Running(m)
        /\ todo'[m] = todo[m] \ {q0}
    BY DEF Activate, IInv, TypeOK, HandlerInv
  <1> QED BY <1>1 DEF HasYet, WorksOn, Running, Request

LEMMA RequestRecord ==
    ASSUME TypeOK, NEW m \in Modules, Running(m)
    PROVE  /\ next[m] \in DOMAIN Program[m]
           /\ Program[m][next[m]] = [op |-> Request(m).op, entry |-> Request(m).entry]
           /\ Request(m).entry.module = m
  <1>1. Program[m] \in Seq(Requests) /\ next[m] \in DOMAIN Program[m]
    BY ProgramType DEF Running, TypeOK
  <1>2. Request(m) \in Requests
    BY RequestType DEF TypeOK
  <1>3. Request(m) = [op |-> Request(m).op, entry |-> Request(m).entry]
    BY <1>2 DEF Requests
  <1> QED BY <1>1, <1>3, RequestType DEF Request, TypeOK

\* What a step does to the position and the stage of its module.
LEMMA PlaceMoves ==
    ASSUME IInv, NEW m \in Modules, Step(m)
    PROVE  \/ next'[m] = next[m] /\ stage'[m] # "add"
           \/ next'[m] > next[m]
  <1>1. next[m] \in Nat /\ Running(m) /\ Len(Program[m]) \in Nat
    BY ProgramType DEF IInv, TypeOK, HandlerInv, Step, AddPublication, AddSubscription, StartWalk,
           Activate, EndWalk, StartWaiting, WakeUp
  <1>2. CASE AddPublication(m) \/ AddSubscription(m) \/ StartWalk(m)
    BY <1>2 DEF AddPublication, AddSubscription, StartWalk, GoTo, IInv, TypeOK
  <1>3. CASE Activate(m) \/ StartWaiting(m)
    BY <1>3 DEF Activate, StartWaiting, GoTo, IInv, TypeOK
  <1>4. CASE EndWalk(m)
    BY <1>1, <1>4 DEF EndWalk, Finish, GoTo, IInv, TypeOK
  <1>5. CASE WakeUp(m)
    <2>1. next' = [next EXCEPT ![m] = @ + 1] \/ next' = [next EXCEPT ![m] = Len(Program[m]) + 1]
      BY <1>5 DEF WakeUp, Finish
    <2>2. next'[m] = next[m] + 1 \/ next'[m] = Len(Program[m]) + 1
      BY <2>1 DEF IInv, TypeOK
    <2> QED BY <1>1, <2>2 DEF Running
  <1> QED BY <1>2, <1>3, <1>4, <1>5 DEF Step

LEMMA MadeStays ==
    ASSUME IInv, NEW m \in Modules, Step(m), NEW e, e.module \in Modules, NEW op, Made(e, op)
    PROVE  Made(e, op)'
  <1>1. PICK i \in DOMAIN Program[e.module] :
          /\ Program[e.module][i] = [op |-> op, entry |-> e]
          /\ i <= next[e.module]
          /\ i = next[e.module] => stage[e.module] # "add"
    BY DEF Made
  <1>2. i \in Nat /\ next[e.module] \in Nat /\ next'[e.module] \in Nat
    <2>1. i \in Nat
      <3>1. Program[e.module] \in Seq(Requests)
        BY ProgramType
      <3> QED BY <3>1
    <2>2. next[e.module] \in Nat
      BY DEF IInv, TypeOK
    <2>3. Next
      BY DEF Next
    <2>4. TypeOK'
      BY <2>3, StepType
    <2>5. next'[e.module] \in Nat
      BY <2>4 DEF TypeOK
    <2> QED BY <2>1, <2>2, <2>5
  <1>3. i <= next'[e.module] /\ (i = next'[e.module] => stage'[e.module] # "add")
    BY <1>1, <1>2, PlaceMoves, OthersKeepPlace
  <1> QED BY <1>1, <1>3 DEF Made

LEMMA StepMade ==
    ASSUME JInv, NEW m \in Modules, Step(m)
    PROVE  MadeInv'
  <1>1. ASSUME NEW p \in catalogue' PROVE Made(p, "publish")'
    <2>1. CASE p \in catalogue
      BY <2>1, MadeStays, EntryTypes DEF JInv, MadeInv, IInv, TypeOK
    <2>2. CASE p \notin catalogue
      <3>1. AddPublication(m) /\ p = Request(m).entry
        BY <1>1, <2>2 DEF Step, AddPublication, AddSubscription, StartWalk, Activate, EndWalk,
                          StartWaiting, WakeUp, listVars
      <3>2. stage'[m] = "activate" /\ next' = next /\ Running(m) /\ Request(m).op = "publish"
        BY <3>1 DEF AddPublication, GoTo, JInv, IInv, TypeOK
      <3>3. next[m] \in Nat
        BY DEF JInv, IInv, TypeOK
      <3> QED BY <3>1, <3>2, <3>3, RequestRecord DEF Made, JInv, IInv
    <2> QED BY <2>1, <2>2
  <1>2. ASSUME NEW s \in subscriptions' PROVE Made(s, "subscribe")'
    <2>1. CASE s \in subscriptions
      BY <2>1, MadeStays, EntryTypes DEF JInv, MadeInv, IInv, TypeOK
    <2>2. CASE s \notin subscriptions
      <3>1. AddSubscription(m) /\ s = Request(m).entry
        BY <1>2, <2>2 DEF Step, AddPublication, AddSubscription, StartWalk, Activate, EndWalk,
                          StartWaiting, WakeUp, listVars
      <3>2. stage'[m] = "activate" /\ next' = next /\ Running(m) /\ Request(m).op = "subscribe"
        BY <3>1 DEF AddSubscription, GoTo, JInv, IInv, TypeOK
      <3>3. next[m] \in Nat
        BY DEF JInv, IInv, TypeOK
      <3> QED BY <3>1, <3>2, <3>3, RequestRecord DEF Made, JInv, IInv
    <2> QED BY <2>1, <2>2
  <1> QED BY <1>1, <1>2 DEF MadeInv

\* A module asks once for each of its interfaces: what it adds is new.
LEMMA NewEntry ==
    ASSUME JInv, NEW m \in Modules, Running(m), stage[m] = "add"
    PROVE  /\ Request(m).op = "publish" => Request(m).entry \notin catalogue
           /\ Request(m).op = "subscribe" => Request(m).entry \notin subscriptions
  <1>1. /\ next[m] \in DOMAIN Program[m]
        /\ Program[m][next[m]] = [op |-> Request(m).op, entry |-> Request(m).entry]
        /\ Request(m).entry.module = m
    BY RequestRecord DEF JInv, IInv
  <1>2. ASSUME NEW i \in DOMAIN Program[m], Program[m][i] = Program[m][next[m]]
        PROVE  i = next[m]
    BY <1>1, <1>2, RegistryAssumption
  <1>3. ~ Made(Request(m).entry, Request(m).op)
    BY <1>1, <1>2 DEF Made
  <1> QED BY <1>3 DEF JInv, MadeInv

LEMMA StepEntry ==
    ASSUME JInv, NEW m \in Modules, Step(m)
    PROVE  EntryInv'
  <1>1. catalogue \subseteq catalogue' /\ subscriptions \subseteq subscriptions'
    BY DEF Step, AddPublication, AddSubscription, StartWalk, Activate, EndWalk, StartWaiting, WakeUp,
           listVars
  <1> SUFFICES ASSUME NEW n \in Modules, stage'[n] # "add"
               PROVE  IF Request(n)'.op = "publish" THEN Request(n)'.entry \in catalogue'
                                                   ELSE Request(n)'.entry \in subscriptions'
    BY DEF EntryInv
  <1>2. CASE n # m
    BY <1>1, <1>2, OthersKeepPlace DEF JInv, EntryInv
  <1>3. CASE n = m
    <2>1. CASE AddPublication(m) \/ AddSubscription(m)
      BY <1>3, <2>1 DEF AddPublication, AddSubscription, Request
    <2>2. CASE StartWalk(m) \/ Activate(m) \/ StartWaiting(m)
      BY <1>1, <1>3, <2>2 DEF StartWalk, Activate, StartWaiting, Request, JInv, EntryInv
    <2>3. CASE EndWalk(m) \/ WakeUp(m)
      <3>1. EndWalk(m) /\ next' = next
        BY <1>3, <2>3 DEF EndWalk, WakeUp, Finish, GoTo, JInv, IInv, TypeOK
      <3> QED BY <1>1, <1>3, <3>1 DEF EndWalk, Request, JInv, EntryInv
    <2> QED BY <2>1, <2>2, <2>3 DEF Step
  <1> QED BY <1>2, <1>3

\* What the counting needs of a step, beside IInv, MadeInv and EntryInv.
Counted ==
    /\ paired \subseteq Listed
    /\ overlap \subseteq Listed
    /\ IsFiniteSet(subscriptions)
    /\ OneOrTwo
    /\ CountInv

\* The pairs, the overlaps and what walks have still to do stay the same.
LEMMA QuietCount ==
    ASSUME JInv, UNCHANGED <<catalogue, subscriptions, paired, overlap, multiUse>>,
           \A q \in Listed : /\ HasYet(q, q[1])' <=> HasYet(q, q[1])
                             /\ HasYet(q, q[2])' <=> HasYet(q, q[2])
    PROVE  Counted'
  <1>1. Listed' = Listed
    BY DEF Listed, Match
  <1>2. OneOrTwo'
    BY <1>1 DEF JInv, OneOrTwo
  <1>3. \A p : Readers(p)' = Readers(p)
    BY DEF Readers
  <1>4. \A p : Twice(p)' = Twice(p)
    BY DEF Twice, JInv
  <1>5. CountInv'
    BY <1>3, <1>4 DEF JInv, CountInv
  <1> QED BY <1>1, <1>2, <1>5 DEF Counted, JInv

LEMMA AddPublicationCount ==
    ASSUME JInv, NEW m \in Modules, AddPublication(m)
    PROVE  Counted'
  <1> USE DEF JInv
  <1>0. PICK p0 : p0 = Request(m).entry
    OBVIOUS
  <1>1. /\ stage[m] = "add" /\ Running(m) /\ lock = NoModule
        /\ UNCHANGED <<subscriptions, paired, multiUse>>
        /\ catalogue' = catalogue \cup {p0}
        /\ overlap' = overlap \cup
              {<<p0, sub>> : sub \in {s \in subscriptions :
                  Match(p0, s) /\ WorksOn(s.module, s, {"activate"})}}
    BY <1>0 DEF AddPublication, pairVars
  <1>2. p0 \in Publications /\ p0 \notin catalogue /\ p0.module = m
    BY <1>0, <1>1, NewEntry, RequestType DEF AddPublication, IInv, TypeOK
  <1>3. p0 \notin Subscriptions
    BY <1>2, EntriesDiffer
  <1>4. ASSUME NEW q, NEW e, e.module \in Modules, e # p0
        PROVE  HasYet(q, e)' <=> HasYet(q, e)
    BY <1>0, <1>4, HasYetElsewhere, HasYetAdd DEF Step
  <1>5. ASSUME NEW q PROVE HasYet(q, p0)'
    BY <1>0, <1>2, HasYetAdd
  <1>6. ASSUME NEW q \in Listed
        PROVE  /\ HasYet(q, q[1])' <=> HasYet(q, q[1])
               /\ HasYet(q, q[2])' <=> HasYet(q, q[2])
               /\ q \in overlap' <=> q \in overlap
    <2>1. q[1] # p0 /\ q[2] # p0
      BY <1>2, <1>3, ListedModules DEF Listed, IInv
    <2> QED BY <1>1, <1>4, <2>1, ListedModules DEF IInv
  <1>7. ASSUME NEW s \in subscriptions, Match(p0, s)
        PROVE  /\ <<p0, s>> \notin paired
               /\ HasYet(<<p0, s>>, s)' <=> <<p0, s>> \in overlap'
    <2>1. <<p0, s>> \notin Listed
      BY <1>2 DEF Listed
    <2>2. s \in Subscriptions /\ s.module \in Modules /\ s # p0
      BY <1>3, EntryTypes DEF IInv, TypeOK
    <2>3. ~ WorksOn(s.module, s, {"walk"})
      BY <1>1, <2>2, ProgramType DEF WorksOn, IInv, WalkInv
    <2>4. HasYet(<<p0, s>>, s) <=> WorksOn(s.module, s, {"activate"})
      BY <2>3 DEF HasYet
    <2>5. <<p0, s>> \in overlap' <=> WorksOn(s.module, s, {"activate"})
      BY <1>1, <1>7, <2>1
    <2> QED BY <1>4, <2>1, <2>2, <2>4, <2>5
  <1>8. ASSUME NEW q PROVE q \in Listed' <=> q \in Listed \/ \E s \in subscriptions :
                                                            q = <<p0, s>> /\ Match(p0, s)
    BY <1>1 DEF Listed, Match
  <1>9. OneOrTwo'
    <2> SUFFICES ASSUME NEW q \in Listed'
                 PROVE  /\ q \in overlap' => (q \in paired' <=> ~ (HasYet(q, q[1])' /\ HasYet(q, q[2])'))
                        /\ q \notin overlap' =>
                              /\ ~ (HasYet(q, q[1])' /\ HasYet(q, q[2])')
                              /\ q \in paired' <=> ~ HasYet(q, q[1])' /\ ~ HasYet(q, q[2])'
      BY DEF OneOrTwo
    <2>1. CASE q \in Listed
      BY <1>1, <1>6, <2>1 DEF OneOrTwo
    <2>2. ASSUME NEW s \in subscriptions, q = <<p0, s>>, Match(p0, s)
          PROVE  /\ q \notin paired' /\ HasYet(q, q[1])'
                 /\ HasYet(q, q[2])' <=> q \in overlap'
      BY <1>1, <1>5, <1>7, <2>2
    <2> QED BY <1>8, <2>1, <2>2
  <1>10. paired' \subseteq Listed' /\ overlap' \subseteq Listed'
    BY <1>1, <1>8
  <1>11. CountInv'
    <2> SUFFICES ASSUME NEW p \in Publications PROVE Readers(p)' = Readers(p) /\ Twice(p)' = Twice(p)
      BY <1>1 DEF CountInv
    <2>1. Readers(p)' = Readers(p)
      BY <1>1 DEF Readers
    <2>2. CASE p = p0
      <3>1. Twice(p) = {}
        BY <1>2, <2>2 DEF Twice, Listed
      <3>2. Twice(p)' = {}
        BY <1>5, <2>2 DEF Twice
      <3> QED BY <2>1, <3>1, <3>2
    <2>3. CASE p # p0
      <3>1. ASSUME NEW s \in subscriptions
            PROVE  <<p, s>> \in overlap' <=> <<p, s>> \in overlap
        BY <1>1, <2>3
      <3>2. ASSUME NEW s \in subscriptions, <<p, s>> \in overlap
            PROVE  /\ HasYet(<<p, s>>, p)' <=> HasYet(<<p, s>>, p)
                   /\ HasYet(<<p, s>>, s)' <=> HasYet(<<p, s>>, s)
        BY <1>6, <3>2
      <3> QED BY <1>1, <2>1, <3>1, <3>2 DEF Twice
    <2> QED BY <2>2, <2>3
  <1> QED BY <1>1, <1>9, <1>10, <1>11 DEF Counted

LEMMA AddSubscriptionCount ==
    ASSUME JInv, NEW m \in Modules, AddSubscription(m)
    PROVE  Counted'
  <1> USE DEF JInv
  <1>0. PICK s0 : s0 = Request(m).entry
    OBVIOUS
  <1>1. /\ stage[m] = "add" /\ Running(m) /\ lock = NoModule
        /\ UNCHANGED <<catalogue, paired, multiUse>>
        /\ subscriptions' = subscriptions \cup {s0}
        /\ overlap' = overlap \cup
              {<<pub, s0>> : pub \in {p \in catalogue :
                  Match(p, s0) /\ WorksOn(p.module, p, {"activate"})}}
    BY <1>0 DEF AddSubscription, pairVars
  <1>2. s0 \in Subscriptions /\ s0 \notin subscriptions /\ s0.module = m
    BY <1>0, <1>1, NewEntry, RequestType DEF AddSubscription, IInv, TypeOK
  <1>3. s0 \notin Publications
    BY <1>2, EntriesDiffer
  <1>4. ASSUME NEW q, NEW e, e.module \in Modules, e # s0
        PROVE  HasYet(q, e)' <=> HasYet(q, e)
    BY <1>0, <1>4, HasYetElsewhere, HasYetAdd DEF Step
  <1>5. ASSUME NEW q PROVE HasYet(q, s0)'
    BY <1>0, <1>2, HasYetAdd
  <1>6. ASSUME NEW q \in Listed
        PROVE  /\ HasYet(q, q[1])' <=> HasYet(q, q[1])
               /\ HasYet(q, q[2])' <=> HasYet(q, q[2])
               /\ q \in overlap' <=> q \in overlap
    <2>1. q[1] # s0 /\ q[2] # s0
      BY <1>2, <1>3, ListedModules DEF Listed, IInv
    <2> QED BY <1>1, <1>4, <2>1, ListedModules DEF IInv
  <1>7. ASSUME NEW p \in catalogue, Match(p, s0)
        PROVE  /\ <<p, s0>> \notin paired
               /\ HasYet(<<p, s0>>, p)' <=> <<p, s0>> \in overlap'
    <2>1. <<p, s0>> \notin Listed
      BY <1>2 DEF Listed
    <2>2. p \in Publications /\ p.module \in Modules /\ p # s0
      BY <1>3, EntryTypes DEF IInv, TypeOK
    <2>3. ~ WorksOn(p.module, p, {"walk"})
      BY <1>1, <2>2, ProgramType DEF WorksOn, IInv, WalkInv
    <2>4. HasYet(<<p, s0>>, p) <=> WorksOn(p.module, p, {"activate"})
      BY <2>3 DEF HasYet
    <2>5. <<p, s0>> \in overlap' <=> WorksOn(p.module, p, {"activate"})
      BY <1>1, <1>7, <2>1
    <2> QED BY <1>4, <2>1, <2>2, <2>4, <2>5
  <1>8. ASSUME NEW q PROVE q \in Listed' <=> q \in Listed \/ \E p \in catalogue :
                                                            q = <<p, s0>> /\ Match(p, s0)
    BY <1>1 DEF Listed, Match
  <1>9. OneOrTwo'
    <2> SUFFICES ASSUME NEW q \in Listed'
                 PROVE  /\ q \in overlap' => (q \in paired' <=> ~ (HasYet(q, q[1])' /\ HasYet(q, q[2])'))
                        /\ q \notin overlap' =>
                              /\ ~ (HasYet(q, q[1])' /\ HasYet(q, q[2])')
                              /\ q \in paired' <=> ~ HasYet(q, q[1])' /\ ~ HasYet(q, q[2])'
      BY DEF OneOrTwo
    <2>1. CASE q \in Listed
      BY <1>1, <1>6, <2>1 DEF OneOrTwo
    <2>2. ASSUME NEW p \in catalogue, q = <<p, s0>>, Match(p, s0)
          PROVE  /\ q \notin paired' /\ HasYet(q, q[2])'
                 /\ HasYet(q, q[1])' <=> q \in overlap'
      BY <1>1, <1>5, <1>7, <2>2
    <2> QED BY <1>8, <2>1, <2>2
  <1>10. paired' \subseteq Listed' /\ overlap' \subseteq Listed'
    BY <1>1, <1>8
  <1>11. ASSUME NEW p \in Publications PROVE Readers(p)' = Readers(p) /\ Twice(p)' = Twice(p)
    <2>1. <<p, s0>> \notin Listed
      BY <1>2 DEF Listed
    <2>2. Readers(p)' = Readers(p)
      BY <1>1, <2>1 DEF Readers
    <2>3. ASSUME NEW s \in subscriptions
          PROVE  s \in Twice(p)' <=> s \in Twice(p)
      BY <1>1, <1>2, <1>6 DEF Twice
    <2>4. s0 \notin Twice(p)' /\ s0 \notin Twice(p)
      BY <1>5, <2>1 DEF Twice
    <2>5. Twice(p)' \subseteq subscriptions \cup {s0} /\ Twice(p) \subseteq subscriptions
      BY <1>1 DEF Twice
    <2> QED BY <2>2, <2>3, <2>4, <2>5
  <1>12. CountInv'
    BY <1>1, <1>11 DEF CountInv
  <1>13. IsFiniteSet(subscriptions')
    BY <1>1, FS_AddElement
  <1> QED BY <1>9, <1>10, <1>12, <1>13 DEF Counted

\* An activation counts its reader once: as a reader the first time, and as
\* counted twice the second time.
LEMMA ActivateCount ==
    ASSUME JInv, NEW m \in Modules, Activate(m)
    PROVE  Counted'
  <1> USE DEF JInv
  <1>1. PICK q0 \in todo[m] :
          /\ paired' = paired \cup {q0}
          /\ multiUse' = CountReader(q0[1], q0[2])
          /\ todo' = [todo EXCEPT ![m] = @ \ {q0}]
    BY DEF Activate
  <1>2. stage[m] = "walk" /\ UNCHANGED <<catalogue, subscriptions, overlap>>
    BY DEF Activate, listVars
  <1>3. q0 \in Matches(m) /\ Running(m)
    BY <1>2 DEF IInv, WalkInv, HandlerInv
  <1>4. q0 \in Listed
    BY <1>2, <1>3, RequestType DEF Matches, EntryInv, Listed, IInv, TypeOK
  <1>5. PICK e0 \in {q0[1], q0[2]} : e0 = Request(m).entry
    BY <1>3 DEF Matches
  <1>6. PICK e1 \in {q0[1], q0[2]} : e1 # e0 /\ {q0[1], q0[2]} = {e0, e1}
    BY <1>4, ListedModules, EntriesDiffer DEF IInv
  <1>7. e0.module = m /\ e1.module \in Modules
    BY <1>3, <1>4, <1>5, RequestType, ListedModules DEF IInv, TypeOK
  <1>8. HasYet(q0, e0) /\ ~ HasYet(q0, e0)'
    BY <1>1, <1>5, <1>7, HasYetActivate
  <1>9. ASSUME NEW q, NEW e, e.module \in Modules, q # q0 \/ e # e0
        PROVE  HasYet(q, e)' <=> HasYet(q, e)
    <2>1. CASE e.module # m
      BY <1>9, <2>1, HasYetElsewhere DEF Step
    <2>2. CASE e.module = m
      BY <1>1, <1>5, <1>9, <2>2, HasYetActivate
    <2> QED BY <2>1, <2>2
  <1>10. HasYet(q0, e1)' <=> HasYet(q0, e1)
    BY <1>6, <1>7, <1>9
  <1>11. /\ HasYet(q0, q0[1]) /\ HasYet(q0, q0[2]) <=> HasYet(q0, e1)
         /\ ~ HasYet(q0, q0[1])' /\ ~ HasYet(q0, q0[2])' <=> ~ HasYet(q0, e1)'
         /\ ~ (HasYet(q0, q0[1])' /\ HasYet(q0, q0[2])')
         /\ HasYet(q0, q0[1]) \/ HasYet(q0, q0[2])
    BY <1>6, <1>8
  <1>12. ASSUME NEW q \in Listed, q # q0
         PROVE  /\ HasYet(q, q[1])' <=> HasYet(q, q[1])
                /\ HasYet(q, q[2])' <=> HasYet(q, q[2])
    BY <1>9, <1>12, ListedModules DEF IInv
  <1>13. Listed' = Listed
    BY <1>2 DEF Listed, Match
  <1>14. OneOrTwo'
    <2> SUFFICES ASSUME NEW q \in Listed
                 PROVE  /\ q \in overlap => (q \in paired' <=> ~ (HasYet(q, q[1])' /\ HasYet(q, q[2])'))
                        /\ q \notin overlap =>
                              /\ ~ (HasYet(q, q[1])' /\ HasYet(q, q[2])')
                              /\ q \in paired' <=> ~ HasYet(q, q[1])' /\ ~ HasYet(q, q[2])'
      BY <1>2, <1>13 DEF OneOrTwo
    <2>1. CASE q # q0
      BY <1>1, <1>12, <2>1 DEF OneOrTwo
    <2>2. CASE q = q0
      BY <1>1, <1>4, <1>10, <1>11, <2>2 DEF OneOrTwo
    <2> QED BY <2>1, <2>2
  <1>15. paired' \subseteq Listed' /\ overlap' \subseteq Listed' /\ IsFiniteSet(subscriptions')
    BY <1>1, <1>2, <1>4, <1>13
  <1>16. ASSUME NEW p \in Publications, p.iface \in Events
         PROVE  multiUse'[p] = Cardinality(Readers(p)') + Cardinality(Twice(p)')
    <2>1. q0[1] \in Publications /\ q0[2] \in subscriptions /\ q0 = <<q0[1], q0[2]>>
      BY <1>4, ListedModules DEF Listed, IInv, TypeOK
    <2>2. ASSUME NEW s \in subscriptions, <<p, s>> # q0
          PROVE  /\ <<p, s>> \in paired' <=> <<p, s>> \in paired
                 /\ s \in Twice(p)' <=> s \in Twice(p)
      <3>1. <<p, s>> \in paired' <=> <<p, s>> \in paired
        BY <1>1, <2>2
      <3>2. CASE <<p, s>> \in overlap
        <4>1. <<p, s>> \in Listed
          BY <3>2
        <4> QED BY <1>2, <1>12, <2>2, <3>1, <4>1 DEF Twice
      <3>3. CASE <<p, s>> \notin overlap
        BY <1>2, <3>1, <3>3 DEF Twice
      <3> QED BY <3>2, <3>3
    <2>3. CASE p # q0[1]
      <3>1. Readers(p)' = Readers(p) /\ Twice(p)' = Twice(p)
        BY <1>2, <2>1, <2>2, <2>3 DEF Readers, Twice
      <3>2. multiUse'[p] = multiUse[p]
        BY <1>1, <2>1, <2>3 DEF CountReader, IInv, TypeOK
      <3> QED BY <1>16, <3>1, <3>2 DEF CountInv
    <2>4. CASE p = q0[1]
      <3> DEFINE s0 == q0[2]
      <3>1. multiUse'[p] = multiUse[p] + 1 /\ multiUse[p] \in Nat
        BY <1>1, <1>16, <2>4 DEF CountReader, IInv, TypeOK
      <3>2. /\ IsFiniteSet(Readers(p)) /\ Cardinality(Readers(p)) \in Nat
            /\ IsFiniteSet(Twice(p)) /\ Cardinality(Twice(p)) \in Nat
        <4>1. Readers(p) \subseteq subscriptions /\ Twice(p) \subseteq subscriptions
          BY DEF Readers, Twice
        <4> QED BY <4>1, FS_Subset, FS_CardinalityType
      <3>3. multiUse[p] = Cardinality(Readers(p)) + Cardinality(Twice(p))
        BY <1>16 DEF CountInv
      <3>4. CASE q0 \in paired
        <4>1. q0 \in overlap /\ ~ HasYet(q0, e1)
          BY <1>4, <1>11, <3>4 DEF OneOrTwo
        <4>2. s0 \notin Twice(p) /\ s0 \in Twice(p)'
          BY <1>2, <1>8, <1>6, <1>10, <2>1, <2>4, <4>1 DEF Twice
        <4>3. Readers(p)' = Readers(p)
          BY <1>1, <1>2, <3>4 DEF Readers
        <4>4. Twice(p)' = Twice(p) \cup {s0}
          BY <1>2, <2>1, <2>2, <2>4, <4>2 DEF Twice
        <4>5. Cardinality(Twice(p) \cup {s0}) = Cardinality(Twice(p)) + 1
          BY <3>2, <4>2, FS_AddElement
        <4> QED BY <3>1, <3>2, <3>3, <4>3, <4>4, <4>5
      <3>5. CASE q0 \notin paired
        <4>1. s0 \notin Twice(p) /\ s0 \notin Twice(p)'
          <5>1. CASE q0 \in overlap
            <6>1. HasYet(q0, e1)'
              BY <1>4, <1>10, <1>11, <3>5, <5>1 DEF OneOrTwo
            <6> QED BY <1>6, <1>8, <2>1, <2>4, <6>1 DEF Twice
          <5>2. CASE q0 \notin overlap
            BY <1>2, <2>1, <2>4, <5>2 DEF Twice
          <5> QED BY <5>1, <5>2
        <4>2. Twice(p)' = Twice(p)
          BY <1>2, <2>1, <2>2, <2>4, <4>1 DEF Twice
        <4>3. Readers(p)' = Readers(p) \cup {s0} /\ s0 \notin Readers(p)
          BY <1>1, <1>2, <2>1, <2>4, <3>5 DEF Readers
        <4>4. Cardinality(Readers(p) \cup {s0}) = Cardinality(Readers(p)) + 1
          BY <3>2, <4>3, FS_AddElement
        <4> QED BY <3>1, <3>2, <3>3, <4>2, <4>3, <4>4
      <3> QED BY <3>4, <3>5
    <2> QED BY <2>3, <2>4
  <1>17. CountInv'
    BY <1>16 DEF CountInv
  <1> QED BY <1>14, <1>15, <1>17 DEF Counted

LEMMA StepCount ==
    ASSUME JInv, NEW m \in Modules, Step(m)
    PROVE  Counted'
  <1>1. CASE StartWalk(m)
    <2>1. UNCHANGED <<catalogue, subscriptions, paired, overlap, multiUse>>
      BY <1>1 DEF StartWalk, listVars, pairVars
    <2>2. ASSUME NEW q \in Listed, NEW e \in {q[1], q[2]}
          PROVE  HasYet(q, e)' <=> HasYet(q, e)
      <3>1. e.module \in Modules
        BY ListedModules DEF JInv, IInv
      <3> QED BY <1>1, <3>1, HasYetElsewhere, HasYetStart DEF JInv
    <2> QED BY <2>1, <2>2, QuietCount
  <1>2. CASE EndWalk(m) \/ StartWaiting(m) \/ WakeUp(m)
    <2>1. UNCHANGED <<catalogue, subscriptions, paired, overlap, multiUse>>
      BY <1>2 DEF EndWalk, StartWaiting, WakeUp, listVars, pairVars
    <2>2. ASSUME NEW q \in Listed, NEW e \in {q[1], q[2]}
          PROVE  HasYet(q, e)' <=> HasYet(q, e)
      <3>1. e.module \in Modules
        BY ListedModules DEF JInv, IInv
      <3> QED BY <1>2, <3>1, HasYetElsewhere, HasYetEnd DEF JInv
    <2> QED BY <2>1, <2>2, QuietCount
  <1> QED BY <1>1, <1>2, AddPublicationCount, AddSubscriptionCount, ActivateCount DEF Step

\* The inductive invariant JInv of the reader counts holds in every reachable
\* state: each pair was counted once for every walk that found it.
THEOREM CountTheorem == Spec => []JInv
  <1>1. Init => JInv
    <2> SUFFICES ASSUME Init PROVE JInv
      OBVIOUS
    <2>1. MadeInv /\ EntryInv
      BY DEF Init, MadeInv, EntryInv
    <2>2. paired \subseteq Listed /\ overlap \subseteq Listed /\ Listed = {}
      BY DEF Init, Listed
    <2>3. IsFiniteSet(subscriptions)
      BY FS_EmptySet DEF Init
    <2>4. OneOrTwo
      BY <2>2 DEF OneOrTwo
    <2>5. \A p : Readers(p) = {} /\ Twice(p) = {}
      BY DEF Init, Readers, Twice
    <2>6. CountInv
      BY <2>5, FS_EmptySet DEF Init, CountInv
    <2> QED BY <2>1, <2>2, <2>3, <2>4, <2>6, InitInv DEF JInv
  <1>2. JInv /\ [Next]_vars /\ IInv' => JInv'
    <2> SUFFICES ASSUME JInv, [Next]_vars, IInv' PROVE JInv'
      OBVIOUS
    <2>1. CASE UNCHANGED vars
      <3>1. UNCHANGED <<next, stage, todo, catalogue, subscriptions, paired, overlap, multiUse>>
        BY <2>1 DEF vars, handlerVars, listVars, pairVars
      <3>2. ASSUME NEW q, NEW e PROVE HasYet(q, e)' <=> HasYet(q, e)
        BY <3>1 DEF HasYet, WorksOn, Running, Request
      <3>3. Counted'
        BY <3>1, <3>2, QuietCount
      <3>4. MadeInv' /\ EntryInv'
        BY <3>1 DEF JInv, MadeInv, Made, EntryInv, Request
      <3> QED BY <3>3, <3>4 DEF JInv, Counted
    <2>2. ASSUME NEW m \in Modules, Step(m) PROVE JInv'
      BY <2>2, StepMade, StepEntry, StepCount DEF JInv, Counted
    <2> QED BY <2>1, <2>2 DEF Next
  <1> QED BY <1>1, <1>2, InvTheorem, PTL DEF Spec

\* A publisher counts every one of its readers, and each one only once unless
\* their requests overlapped.
THEOREM ReadersCountedRight == Spec => []ReadersCounted
  <1>1. JInv => ReadersCounted
    <2> SUFFICES ASSUME JInv, NEW p \in catalogue, p.iface \in Events
                 PROVE  /\ multiUse[p] >= Cardinality(Readers(p))
                        /\ (\A s \in subscriptions : <<p, s>> \notin overlap)
                              => multiUse[p] = Cardinality(Readers(p))
      BY DEF ReadersCounted
    <2>1. multiUse[p] = Cardinality(Readers(p)) + Cardinality(Twice(p))
      BY DEF JInv, IInv, TypeOK, CountInv
    <2>2. /\ IsFiniteSet(Readers(p)) /\ IsFiniteSet(Twice(p))
          /\ Readers(p) \subseteq subscriptions /\ Twice(p) \subseteq subscriptions
      BY FS_Subset DEF JInv, Readers, Twice
    <2>3. Cardinality(Readers(p)) \in Nat /\ Cardinality(Twice(p)) \in Nat
      BY <2>2, FS_CardinalityType
    <2>4. (\A s \in subscriptions : <<p, s>> \notin overlap) => Cardinality(Twice(p)) = 0
      BY FS_EmptySet DEF Twice
    <2> QED BY <2>1, <2>3, <2>4
  <1> QED BY <1>1, CountTheorem, PTL

(***************************************************************************)
(* Why a publisher waits: unless it was missed or is already set free, it  *)
(* is in the list and every subscriber that fits has it still to activate. *)
(***************************************************************************)
WaitInv ==
    \A m \in Modules :
       /\ stage[m] \in {"unmatched", "blocked"}
       /\ Request(m).entry \notin released
       /\ Request(m).entry \notin missed
       => /\ stage[m] = "blocked" => Request(m).entry \in waitingPublishers
          /\ \A s \in subscriptions :
                Match(Request(m).entry, s) => HasYet(<<Request(m).entry, s>>, s)

LEMMA MissedGrows ==
    ASSUME NEW m \in Modules, Step(m)
    PROVE  missed \subseteq missed'
  BY DEF Step, AddPublication, AddSubscription, StartWalk, Activate, EndWalk, StartWaiting, WakeUp,
         waitVars

LEMMA StepWaitOther ==
    ASSUME JInv, WaitInv, NEW m \in Modules, Step(m), NEW n \in Modules, n # m,
           NEW p, p = Request(n).entry, stage'[n] \in {"unmatched", "blocked"},
           p \notin released', p \notin missed'
    PROVE  /\ stage'[n] = "blocked" => p \in waitingPublishers'
           /\ \A s \in subscriptions' : Match(p, s) => HasYet(<<p, s>>, s)'
  <1> USE DEF JInv
  <1>1. stage[n] = stage'[n] /\ Running(n) /\ Running(n)'
    BY OthersKeepPlace DEF IInv, HandlerInv
  <1>2. p \in Publications /\ p \in catalogue /\ p.module = n
    BY <1>1, RequestType DEF IInv, TypeOK, HandlerInv, EntryInv
  <1>3. p \notin released
    <2>1. CASE WakeUp(m)
      <3>1. Running(m) /\ released' = released \ {Request(m).entry}
        BY <2>1 DEF WakeUp, IInv, HandlerInv
      <3>2. Request(m).entry.module = m
        BY <3>1, RequestType DEF IInv, TypeOK
      <3> QED BY <1>2, <3>1, <3>2
    <2>2. CASE ~ WakeUp(m)
      BY <2>2 DEF Step, AddPublication, AddSubscription, StartWalk, Activate, EndWalk, StartWaiting,
                  waitVars
    <2> QED BY <2>1, <2>2
  <1>4. p \notin missed
    BY MissedGrows
  <1>5. /\ stage[n] = "blocked" => p \in waitingPublishers
        /\ \A s \in subscriptions : Match(p, s) => HasYet(<<p, s>>, s)
    BY <1>1, <1>3, <1>4 DEF WaitInv
  <1>6. stage[n] = "blocked" => p \in waitingPublishers'
    <2>1. CASE Activate(m)
      BY <1>5, <2>1 DEF Activate, FreedBy
    <2>2. CASE ~ Activate(m)
      BY <1>5, <2>2 DEF Step, AddPublication, AddSubscription, StartWalk, EndWalk, StartWaiting,
                        WakeUp, waitVars
    <2> QED BY <2>1, <2>2
  <1>7. ASSUME NEW s \in subscriptions', Match(p, s)
        PROVE  HasYet(<<p, s>>, s)'
    <2>1. s \in Subscriptions /\ s.module \in Modules
      BY StepType, EntryTypes DEF IInv, TypeOK, Next
    <2>2. CASE s \notin subscriptions
      <3>1. AddSubscription(m) /\ s = Request(m).entry
        BY <2>2 DEF Step, AddPublication, AddSubscription, StartWalk, Activate, EndWalk,
                    StartWaiting, WakeUp, listVars
      <3>2. s.module = m
        BY <3>1, RequestType DEF AddSubscription, IInv, TypeOK
      <3> QED BY <3>1, <3>2, HasYetAdd
    <2>3. CASE s \in subscriptions
      <3>1. HasYet(<<p, s>>, s) /\ <<p, s>> \in Listed
        BY <1>2, <1>5, <1>7, <2>3 DEF Listed
      <3>2. CASE s.module # m
        BY <2>1, <3>1, <3>2, HasYetElsewhere
      <3>3. CASE s.module = m
        <4>1. CASE AddPublication(m) \/ AddSubscription(m)
          BY <3>1, <3>3, <4>1, HasYetAdd
        <4>2. CASE StartWalk(m)
          BY <3>1, <3>3, <4>2, HasYetStart
        <4>3. CASE Activate(m)
          <5>1. PICK q0 \in todo[m] :
                  LET freed == IF Request(m).op = "subscribe" THEN FreedBy(q0[1]) ELSE {} IN
                  /\ released' = released \cup freed
                  /\ missed' = IF /\ Request(m).op = "subscribe"
                                  /\ WorksOn(q0[1].module, q0[1], {"unmatched"})
                               THEN missed \cup {q0[1]} ELSE missed
                  /\ todo' = [todo EXCEPT ![m] = @ \ {q0}]
            BY <4>3 DEF Activate
          <5>2. s = Request(m).entry /\ <<p, s>> \in todo[m]
            BY <3>1, <3>3, <4>3, <5>1, HasYetActivate
          <5>3. Request(m).op = "subscribe"
            BY <2>1, <4>3, <5>2, RequestType, EntriesDiffer DEF Activate, IInv, TypeOK, HandlerInv
          <5>4. q0 # <<p, s>>
            <6> SUFFICES ASSUME q0[1] = p PROVE FALSE
              OBVIOUS
            <6>1. CASE stage[n] = "unmatched"
              <7>1. WorksOn(p.module, p, {"unmatched"})
                BY <1>1, <1>2, <6>1 DEF WorksOn
              <7> QED BY <5>1, <5>3, <7>1
            <6>2. CASE stage[n] = "blocked"
              <7>1. p \in FreedBy(p)
                BY <1>5, <6>2 DEF FreedBy
              <7> QED BY <5>1, <5>3, <7>1
            <6> QED BY <1>1, <6>1, <6>2
          <5> QED BY <3>3, <4>3, <5>1, <5>2, <5>4, HasYetActivate
        <4>4. CASE EndWalk(m) \/ StartWaiting(m) \/ WakeUp(m)
          BY <3>1, <3>3, <4>4, HasYetEnd
        <4> QED BY <4>1, <4>2, <4>3, <4>4 DEF Step
      <3> QED BY <3>2, <3>3
    <2> QED BY <2>2, <2>3
  <1> QED BY <1>1, <1>6, <1>7

LEMMA StepWaitOwn ==
    ASSUME JInv, WaitInv, NEW m \in Modules, Step(m),
           NEW p, p = Request(m)'.entry, stage'[m] \in {"unmatched", "blocked"},
           p \notin released', p \notin missed'
    PROVE  /\ stage'[m] = "blocked" => p \in waitingPublishers'
           /\ \A s \in subscriptions' : Match(p, s) => HasYet(<<p, s>>, s)'
  <1> USE DEF JInv
  <1>1. \/ EndWalk(m) /\ MustWait(m) /\ stage'[m] = "unmatched"
        \/ StartWaiting(m) /\ stage'[m] = "blocked"
    BY DEF Step, AddPublication, AddSubscription, StartWalk, Activate, EndWalk, StartWaiting, WakeUp,
           Finish, GoTo, IInv, TypeOK
  <1>2. next' = next /\ subscriptions' = subscriptions /\ Request(m)' = Request(m)
    BY <1>1 DEF EndWalk, StartWaiting, GoTo, listVars, Request
  <1>5. p = Request(m).entry
    BY <1>2
  <1>3. CASE EndWalk(m) /\ MustWait(m) /\ stage'[m] = "unmatched"
    <2>1. \A s \in subscriptions : ~ Match(p, s)
      BY <1>3, <1>5 DEF MustWait, Matches
    <2> QED BY <1>2, <1>3, <2>1
  <1>4. CASE StartWaiting(m) /\ stage'[m] = "blocked"
    <2>1. p \notin released /\ p \notin missed
      BY <1>2, <1>4, MissedGrows DEF StartWaiting
    <2>2. \A s \in subscriptions :
             Match(p, s) => HasYet(<<p, s>>, s)
      BY <1>4, <1>5, <2>1 DEF StartWaiting, WaitInv
    <2>3. p \in waitingPublishers'
      BY <1>4, <1>5 DEF StartWaiting
    <2>4. ASSUME NEW s \in subscriptions, Match(p, s)
          PROVE  HasYet(<<p, s>>, s)'
      <3>1. s.module \in Modules
        BY EntryTypes DEF IInv, TypeOK
      <3> QED BY <1>4, <2>2, <2>4, <3>1, HasYetElsewhere, HasYetEnd
    <2> QED BY <1>2, <2>3, <2>4
  <1> QED BY <1>1, <1>3, <1>4

\* A publisher of a message interface waits beside a ready subscriber only
\* when the subscriber's walk missed it or its entry in the list was lost.
THEOREM WaitIsJustified == Spec => []WaitsForAReason
  <1>1. Init => WaitInv
    BY DEF Init, WaitInv
  <1>2. JInv /\ WaitInv /\ [Next]_vars => WaitInv'
    <2> SUFFICES ASSUME JInv, WaitInv, [Next]_vars PROVE WaitInv'
      OBVIOUS
    <2>1. CASE UNCHANGED vars
      <3>1. UNCHANGED <<next, stage, todo, subscriptions, released, missed, waitingPublishers>>
        BY <2>1 DEF vars, handlerVars, listVars, waitVars
      <3>2. \A q, e : HasYet(q, e)' <=> HasYet(q, e)
        BY <3>1 DEF HasYet, WorksOn, Running, Request
      <3>3. \A n : Request(n)' = Request(n)
        BY <3>1 DEF Request
      <3> QED BY <3>1, <3>2, <3>3 DEF WaitInv, Match
    <2>2. ASSUME NEW m \in Modules, Step(m) PROVE WaitInv'
      <3> SUFFICES ASSUME NEW n \in Modules,
                          NEW p, p = Request(n)'.entry,
                          stage'[n] \in {"unmatched", "blocked"},
                          p \notin released', p \notin missed'
                   PROVE  /\ stage'[n] = "blocked" => p \in waitingPublishers'
                          /\ \A s \in subscriptions' : Match(p, s) => HasYet(<<p, s>>, s)'
        BY DEF WaitInv, Match
      <3>1. CASE n = m
        BY <2>2, <3>1, StepWaitOwn
      <3>2. CASE n # m
        <4>1. Request(n)' = Request(n)
          BY <2>2, <3>2, OthersKeepPlace DEF JInv
        <4> QED BY <2>2, <3>2, <4>1, StepWaitOther
      <3> QED BY <3>1, <3>2
    <2> QED BY <2>1, <2>2 DEF Next
  <1>3. JInv /\ WaitInv => WaitsForAReason
    <2> SUFFICES ASSUME JInv, WaitInv, NEW p \in catalogue, NEW s \in subscriptions,
                        WorksOn(p.module, p, {"blocked"}), p \notin released,
                        Match(p, s), Walked(s), p \notin missed
                 PROVE  FALSE
      BY DEF WaitsForAReason
    <2>1. p.module \in Modules /\ stage[p.module] = "blocked" /\ Request(p.module).entry = p
      BY EntryTypes DEF WorksOn, JInv, IInv, TypeOK
    <2>2. HasYet(<<p, s>>, s)
      BY <2>1 DEF WaitInv
    <2> QED BY <2>2 DEF HasYet, Walked, WorksOn
  <1> QED BY <1>1, <1>2, <1>3, CountTheorem, PTL DEF Spec

(***************************************************************************)
(* Where the memory of an event interface comes from.                      *)
(***************************************************************************)
\* No two requests for the interface overlapped.
Alone(i) == \A o \in overlap : o[1].iface # i

\* A memory is given with the first pair and to every pair.
MemorySet ==
    /\ \A s \in Subscriptions : protocol[s] # NoMemory <=> \E q \in paired : q[2] = s
    /\ \A p \in Publications :
          sendMemory[p] # NoMemory <=> p.iface \in Events /\ \E q \in paired : q[1] = p

\* All pairs of an event interface use one memory at both ends.
Shared ==
    \A q, r \in paired :
       q[1].iface \in Events /\ q[1].iface = r[1].iface /\ Alone(q[1].iface)
          => protocol[q[2]] = sendMemory[r[1]]

MemoryInv == MemorySet /\ Shared

\* Events are published to whoever subscribes.
LEMMA EventMatches ==
    ASSUME TypeOK, NEW p \in catalogue, NEW s \in subscriptions, p.iface = s.iface,
           p.iface \in Events
    PROVE  <<p, s>> \in Listed
  <1>1. PICK m \in Modules : \E i \in DOMAIN Program[m] :
           Program[m][i].op = "publish" /\ p = Program[m][i].entry
    BY DEF TypeOK, Publications, Entries
  <1>2. p.to = AnyModule
    BY <1>1, RegistryAssumption
  <1> QED BY <1>2 DEF Listed, Match

\* Under the lock only the walked entry is half done: another one that has a
\* pair still to do has all of them to do.
LEMMA OtherUntouched ==
    ASSUME IInv, NEW m \in Modules, stage[m] = "walk", NEW e, e.module \in Modules,
           e # Request(m).entry, NEW q, HasYet(q, e), NEW r
    PROVE  HasYet(r, e)
  <1>1. CASE WorksOn(e.module, e, {"activate"})
    BY <1>1 DEF HasYet
  <1>2. CASE WorksOn(e.module, e, {"walk"})
    <2>1. e.module = m
      BY <1>2 DEF WorksOn, IInv, WalkInv
    <2> QED BY <1>2, <2>1 DEF WorksOn
  <1> QED BY <1>1, <1>2 DEF HasYet

\* A pair that gets a new memory is the first of its interface.
LEMMA FirstPair ==
    ASSUME JInv, NEW m \in Modules, Activate(m), NEW q \in todo[m], q[1].iface \in Events,
           Alone(q[1].iface), \A r \in paired : r[1] # q[1] /\ r[2] # q[2]
    PROVE  \A r \in paired : r[1].iface # q[1].iface
  <1> USE DEF JInv
  <1> SUFFICES ASSUME NEW r \in paired, r[1].iface = q[1].iface PROVE FALSE
    OBVIOUS
  <1>0. stage[m] = "walk" /\ Running(m) /\ q \in Matches(m)
    BY DEF Activate, IInv, HandlerInv, WalkInv
  <1>1. /\ q \in Listed /\ r \in Listed
        /\ Request(m).entry \in {q[1], q[2]} /\ HasYet(q, Request(m).entry)
    <2>1. Request(m).entry.module = m
      BY <1>0, RequestType DEF IInv, TypeOK
    <2>2. Request(m).op = "publish" => Request(m).entry \in catalogue
      BY <1>0 DEF EntryInv
    <2>3. Request(m).op = "subscribe" => Request(m).entry \in subscriptions
      BY <1>0 DEF EntryInv
    <2>4. Request(m).op \in {"publish", "subscribe"}
      BY <1>0, RequestType DEF IInv, TypeOK
    <2>5. q \in Listed /\ Request(m).entry \in {q[1], q[2]}
      BY <1>0, <2>2, <2>3, <2>4 DEF Matches, Listed
    <2> QED BY <1>0, <2>1, <2>5 DEF HasYet, WorksOn
  <1>2. /\ q = <<q[1], q[2]>> /\ r = <<r[1], r[2]>>
        /\ q[1] \in catalogue /\ r[1] \in catalogue
        /\ q[2] \in subscriptions /\ r[2] \in subscriptions
        /\ q[1].module \in Modules /\ r[1].module \in Modules
        /\ q[2].module \in Modules /\ r[2].module \in Modules
        /\ q[1].iface = q[2].iface /\ r[1].iface = r[2].iface
    BY <1>1, ListedModules DEF Listed, Match, IInv
  <1>3. ASSUME NEW x \in Listed, x[1].iface = q[1].iface
        PROVE  /\ ~ (HasYet(x, x[1]) /\ HasYet(x, x[2]))
               /\ x \in paired <=> ~ HasYet(x, x[1]) /\ ~ HasYet(x, x[2])
    BY <1>3 DEF OneOrTwo, Alone
  <1>4. r[1] # q[1] /\ r[2] # q[2]
    OBVIOUS
  <1>5. CASE Request(m).entry = q[1]
    <2> DEFINE x == <<r[1], q[2]>>
    <2>1. x \in Listed /\ x[1] = r[1] /\ x[2] = q[2] /\ x \notin paired
      BY <1>1, <1>2, EventMatches DEF IInv
    <2>2. ~ HasYet(q, q[2]) /\ q[2] # q[1]
      BY <1>1, <1>2, <1>3, <1>5, EntriesDiffer, ListedModules DEF IInv
    <2>3. ~ HasYet(x, q[2])
      BY <1>0, <1>2, <1>5, <2>2, OtherUntouched
    <2>4. HasYet(x, r[1])
      BY <1>2, <1>3, <2>1, <2>3
    <2>5. HasYet(r, r[1])
      BY <1>0, <1>2, <1>4, <1>5, <2>4, OtherUntouched
    <2> QED BY <1>1, <1>3, <2>5
  <1>6. CASE Request(m).entry = q[2]
    <2> DEFINE x == <<q[1], r[2]>>
    <2>1. x \in Listed /\ x[1] = q[1] /\ x[2] = r[2] /\ x \notin paired
      BY <1>1, <1>2, EventMatches DEF IInv
    <2>2. ~ HasYet(q, q[1]) /\ q[2] # q[1]
      BY <1>1, <1>2, <1>3, <1>6, EntriesDiffer, ListedModules DEF IInv
    <2>3. ~ HasYet(x, q[1])
      BY <1>0, <1>2, <1>6, <2>2, OtherUntouched
    <2>4. HasYet(x, r[2])
      BY <1>2, <1>3, <2>1, <2>3
    <2>5. HasYet(r, r[2])
      BY <1>0, <1>2, <1>4, <1>6, <2>4, OtherUntouched
    <2> QED BY <1>1, <1>3, <2>5
  <1> QED BY <1>1, <1>5, <1>6

LEMMA ActivateMemory ==
    ASSUME JInv, MemoryInv, NEW m \in Modules, Activate(m)
    PROVE  MemoryInv'
  <1> USE DEF JInv, IInv, TypeOK
  <1>0. PICK q \in todo[m] :
          /\ \E mem \in MemoryOf(q[1], q[2]) :
                /\ protocol' = [protocol EXCEPT ![q[2]] = mem]
                /\ sendMemory' = IF q[1].iface \in Events /\ sendMemory[q[1]] = NoMemory
                                 THEN [sendMemory EXCEPT ![q[1]] = mem] ELSE sendMemory
          /\ paired' = paired \cup {q}
    BY DEF Activate
  <1>1. PICK mem \in MemoryOf(q[1], q[2]) :
          /\ protocol' = [protocol EXCEPT ![q[2]] = mem]
          /\ sendMemory' = IF q[1].iface \in Events /\ sendMemory[q[1]] = NoMemory
                           THEN [sendMemory EXCEPT ![q[1]] = mem] ELSE sendMemory
          /\ paired' = paired \cup {q}
    BY <1>0
  <1>2. q[1] \in Publications /\ q[2] \in Subscriptions /\ overlap' = overlap
        /\ NoMemory \notin Subscriptions /\ paired \subseteq Publications \X Subscriptions
    BY <1>1, RegistryAssumption DEF Activate, listVars
  <1>3. \A r \in paired : r[1] \in Publications /\ r[2] \in Subscriptions
    BY <1>2
  <1>4. mem # NoMemory
    BY <1>1, <1>2, <1>3 DEF MemoryOf, MemoryInv, MemorySet
  <1>5. /\ protocol'[q[2]] = mem /\ protocol[q[2]] \in {NoMemory, mem}
        /\ \A s \in Subscriptions : s # q[2] => protocol'[s] = protocol[s]
    BY <1>1, <1>2 DEF MemoryOf
  <1>6. /\ sendMemory'[q[1]] = IF q[1].iface \in Events /\ sendMemory[q[1]] = NoMemory
                               THEN mem ELSE sendMemory[q[1]]
        /\ \A p \in Publications : p # q[1] => sendMemory'[p] = sendMemory[p]
    BY <1>1, <1>2
  <1>7. MemorySet'
    <2>1. ASSUME NEW s \in Subscriptions
          PROVE  protocol'[s] # NoMemory <=> \E r \in paired' : r[2] = s
      BY <1>1, <1>4, <1>5 DEF MemoryInv, MemorySet
    <2>2. ASSUME NEW p \in Publications
          PROVE  sendMemory'[p] # NoMemory <=> p.iface \in Events /\ \E r \in paired' : r[1] = p
      BY <1>1, <1>4, <1>6 DEF MemoryInv, MemorySet
    <2> QED BY <2>1, <2>2 DEF MemorySet
  <1>8. ASSUME q[1].iface \in Events, Alone(q[1].iface)
        PROVE  /\ sendMemory'[q[1]] = mem
               /\ \A r \in paired : r[1].iface = q[1].iface =>
                     protocol[r[2]] = mem /\ sendMemory[r[1]] = mem
    <2>1. CASE \E r \in paired : r[2] = q[2] \/ r[1] = q[1]
      <3>1. PICK r0 \in paired : /\ r0[1].iface = q[1].iface
                                 /\ protocol[r0[2]] = mem
        <4>1. \A r \in paired : r[1].iface = r[2].iface
          BY DEF Listed, Match
        <4>2. q[1].iface = q[2].iface
          BY <1>1 DEF WalkInv, Matches, Match, Activate
        <4>3. CASE \E r \in paired : r[2] = q[2]
          BY <1>2, <1>5, <4>1, <4>2, <4>3 DEF MemoryInv, MemorySet
        <4>4. CASE ~ \E r \in paired : r[2] = q[2]
          <5>1. protocol[q[2]] = NoMemory
            BY <1>2, <4>4 DEF MemoryInv, MemorySet
          <5>2. PICK r1 \in paired : r1[1] = q[1]
            BY <2>1, <4>4
          <5>3. mem \in {protocol[r[2]] : r \in {r \in paired : r[1] = q[1]}}
            BY <1>1, <1>8, <5>1, <5>2 DEF MemoryOf
          <5> QED BY <5>3
        <4> QED BY <4>3, <4>4
      <3>2. \A r \in paired : r[1].iface = q[1].iface => sendMemory[r[1]] = mem
        BY <1>8, <3>1 DEF MemoryInv, Shared
      <3>3. \A r \in paired : r[1].iface = q[1].iface => protocol[r[2]] = mem
        BY <1>8, <3>1, <3>2 DEF MemoryInv, Shared
      <3>4. sendMemory'[q[1]] = mem
        BY <1>2, <1>6, <1>8, <3>2 DEF MemoryInv, MemorySet
      <3> QED BY <3>2, <3>3, <3>4
    <2>2. CASE \A r \in paired : r[2] # q[2] /\ r[1] # q[1]
      <3>1. \A r \in paired : r[1].iface # q[1].iface
        BY <1>8, <2>2, FirstPair
      <3>2. sendMemory[q[1]] = NoMemory
        BY <1>2, <2>2 DEF MemoryInv, MemorySet
      <3> QED BY <1>6, <1>8, <3>1, <3>2
    <2> QED BY <2>1, <2>2
  <1>9. Shared'
    <2> SUFFICES ASSUME NEW r \in paired', NEW t \in paired', r[1].iface \in Events,
                        r[1].iface = t[1].iface, Alone(r[1].iface)
                 PROVE  protocol'[r[2]] = sendMemory'[t[1]]
      BY <1>2 DEF Shared, Alone
    <2>1. /\ r = q \/ r \in paired
          /\ t = q \/ t \in paired
      BY <1>1
    <2>2. CASE r[1].iface = q[1].iface
      <3>1. protocol'[r[2]] = mem
        BY <1>3, <1>5, <1>8, <2>1, <2>2
      <3>2. sendMemory'[t[1]] = mem
        BY <1>3, <1>6, <1>8, <2>1, <2>2
      <3> QED BY <3>1, <3>2
    <2>3. CASE r[1].iface # q[1].iface
      <3>1. r \in paired /\ t \in paired /\ t[1] # q[1]
        BY <2>1, <2>3
      <3>2. protocol[r[2]] = sendMemory[t[1]]
        BY <3>1 DEF MemoryInv, Shared
      <3>3. r[2] # q[2]
        <4>1. r[1].iface = r[2].iface
          BY <3>1 DEF Listed, Match
        <4>2. q[1].iface = q[2].iface
          BY <1>1 DEF WalkInv, Matches, Match, Activate
        <4> QED BY <2>3, <4>1, <4>2
      <3> QED BY <1>3, <1>5, <1>6, <3>1, <3>2, <3>3
    <2> QED BY <2>2, <2>3
  <1> QED BY <1>7, <1>9 DEF MemoryInv

\* Unless two requests for it overlapped, what is sent through an event
\* interface arrives in the memory its subscribers read.
THEOREM MemoryShared == Spec => []OneMemory
  <1>1. Init => MemoryInv
    BY DEF Init, MemoryInv, MemorySet, Shared
  <1>2. JInv /\ MemoryInv /\ [Next]_vars => MemoryInv'
    <2> SUFFICES ASSUME JInv, MemoryInv, [Next]_vars PROVE MemoryInv'
      OBVIOUS
    <2>1. ASSUME UNCHANGED <<paired, protocol, sendMemory>>, overlap \subseteq overlap'
          PROVE  MemoryInv'
      BY <2>1 DEF MemoryInv, MemorySet, Shared, Alone
    <2>2. CASE UNCHANGED vars
      BY <2>1, <2>2 DEF vars, pairVars, listVars
    <2>3. ASSUME NEW m \in Modules, Step(m) PROVE MemoryInv'
      <3>1. CASE Activate(m)
        BY <3>1, ActivateMemory
      <3>2. CASE ~ Activate(m)
        BY <2>1, <2>3, <3>2 DEF Step, AddPublication, AddSubscription, StartWalk, EndWalk,
                                StartWaiting, WakeUp, pairVars, listVars
      <3> QED BY <3>1, <3>2
    <2> QED BY <2>2, <2>3 DEF Next
  <1>3. MemoryInv => OneMemory
    BY DEF MemoryInv, Shared, OneMemory, Alone
  <1> QED BY <1>1, <1>2, <1>3, CountTheorem, PTL DEF Spec
=============================================================================
