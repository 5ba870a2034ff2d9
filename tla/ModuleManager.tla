--------------------------- MODULE ModuleManager ---------------------------
(***************************************************************************)
(* The registry of the station (Mod_ModuleManager).  Every module tells    *)
(* the manager what it subscribes to and what it publishes; the manager    *)
(* activates every matching pair: it starts the subscriber's server and    *)
(* then the publisher's proxy.  Each module has a handler thread of its    *)
(* own in the manager, so requests of different modules run concurrently.  *)
(*                                                                         *)
(* A request takes the accessor's lock twice: once to enter its            *)
(* publication or subscription in the list, and once to walk the other     *)
(* list and activate what matches.  A message publication that finds no    *)
(* subscriber then waits, without the lock, on a semaphore.                *)
(*                                                                         *)
(* The lists are sets here, and a walk takes its pairs in any order, which *)
(* includes the order of the code.  An interface stands for an interface   *)
(* id and a path, which match() always compares together.  kill(), the     *)
(* unregister functions and subscribe() of an event interface have no      *)
(* caller and are left out.                                                *)
(***************************************************************************)
EXTENDS Integers, Sequences, FiniteSets

CONSTANTS
    Modules,      \* the modules of the station
    Messages,     \* message interfaces
    Events,       \* event interfaces
    AnyModule,    \* a publication for whoever subscribes
    NoModule,     \* nobody has the lock
    NoMemory,     \* no protocol yet, no shared memory yet
    Program       \* the requests each module makes, in order

Interfaces == Messages \cup Events

Requests ==
    [op : {"publish"},
     entry : [module : Modules, iface : Interfaces, to : Modules \cup {AnyModule}]]
    \cup
    [op : {"subscribe"}, entry : [module : Modules, iface : Interfaces]]

Entries(op) ==
    UNION {{Program[m][i].entry : i \in {j \in DOMAIN Program[m] : Program[m][j].op = op}}
              : m \in Modules}
Publications  == Entries("publish")
Subscriptions == Entries("subscribe")

\* Messages are published to one module or to anybody, events to anybody.  A
\* module asks once for each of its interfaces.
ASSUME RegistryAssumption ==
    /\ Messages \cap Events = {}
    /\ AnyModule \notin Modules
    /\ NoModule \notin Modules
    /\ NoMemory \notin Subscriptions
    /\ Program \in [Modules -> Seq(Requests)]
    /\ \A m \in Modules : \A i \in DOMAIN Program[m] :
          LET r == Program[m][i] IN
          /\ r.entry.module = m
          /\ r.op = "publish" /\ r.entry.iface \in Events => r.entry.to = AnyModule
          /\ \A j \in DOMAIN Program[m] : Program[m][j] = r => i = j

VARIABLES
    next,               \* position of each module in its requests
    stage,              \* where its handler thread is in the request
    lock,               \* commonMutex_
    catalogue,          \* catalogue_
    subscriptions,      \* subscriptions_
    todo,               \* pairs the walk of the handler has still to activate
    paired,             \* activationPairs_
    waitingPublishers,  \* waitingPublishers_
    released,           \* publications whose semaphore is set
    missed,             \* publications a subscriber's release missed (history)
    protocol,           \* protocolInfo of a subscription: its shared memory
    sendMemory,         \* the shared memory the event publisher sends through
    multiUse,           \* how often the publisher locks a block for a reader
    overlap             \* pairs whose requests overlapped (history)

handlerVars == <<next, stage, lock, todo>>
listVars    == <<catalogue, subscriptions, overlap>>
pairVars    == <<paired, protocol, sendMemory, multiUse>>
waitVars    == <<waitingPublishers, released, missed>>
vars == <<handlerVars, listVars, pairVars, waitVars>>

Match(pub, sub) ==
    /\ pub.iface = sub.iface
    /\ pub.to \in {AnyModule, sub.module}

Running(m) == next[m] <= Len(Program[m])
Request(m) == Program[m][next[m]]

\* The handler of m works on this publication or subscription, in this stage.
WorksOn(m, entry, stages) ==
    Running(m) /\ Request(m).entry = entry /\ stage[m] \in stages

Init ==
    /\ next  = [m \in Modules |-> 1]
    /\ stage = [m \in Modules |-> "add"]
    /\ lock  = NoModule
    /\ catalogue = {}
    /\ subscriptions = {}
    /\ todo = [m \in Modules |-> {}]
    /\ paired = {}
    /\ waitingPublishers = {}
    /\ released = {}
    /\ missed = {}
    /\ protocol = [sub \in Subscriptions |-> NoMemory]
    /\ sendMemory = [pub \in Publications |-> NoMemory]
    /\ multiUse = [pub \in Publications |-> 0]
    /\ overlap = {}

GoTo(m, s) == stage' = [stage EXCEPT ![m] = s]

\* The request returns; the module makes its next one.
Finish(m) ==
    /\ next' = [next EXCEPT ![m] = @ + 1]
    /\ GoTo(m, "add")

-----------------------------------------------------------------------------
(* The first half of a request: the entry is made under the lock.          *)

AddPublication(m) ==
    /\ Running(m) /\ stage[m] = "add"
    /\ Request(m).op = "publish"
    /\ lock = NoModule
    /\ LET pub == Request(m).entry IN
       /\ catalogue' = catalogue \cup {pub}
       /\ overlap' = overlap \cup
             {<<pub, sub>> : sub \in {s \in subscriptions :
                 Match(pub, s) /\ WorksOn(s.module, s, {"activate"})}}
    /\ GoTo(m, "activate")
    /\ UNCHANGED <<next, lock, todo, subscriptions, pairVars, waitVars>>

AddSubscription(m) ==
    /\ Running(m) /\ stage[m] = "add"
    /\ Request(m).op = "subscribe"
    /\ lock = NoModule
    /\ LET sub == Request(m).entry IN
       /\ subscriptions' = subscriptions \cup {sub}
       /\ overlap' = overlap \cup
             {<<pub, sub>> : pub \in {p \in catalogue :
                 Match(p, sub) /\ WorksOn(p.module, p, {"activate"})}}
    /\ GoTo(m, "activate")
    /\ UNCHANGED <<next, lock, todo, catalogue, pairVars, waitVars>>

-----------------------------------------------------------------------------
(* The second half: a walk under the lock.                                 *)

\* mutant: the walk of a publisher ends at the first match
FirstMatches(m) ==
    LET r == Request(m)
        found == {s \in subscriptions : Match(r.entry, s)} IN
    IF r.op = "publish"
    THEN {<<r.entry, s>> : s \in {s \in found : s = CHOOSE x \in found : TRUE}}
    ELSE {<<p, r.entry>> : p \in {p \in catalogue : Match(p, r.entry)}}

\* The pairs activateMatchingPublications and activateMatchingSubscriptions
\* find.
Matches(m) ==
    LET r == Request(m) IN
    IF r.op = "publish"
    THEN {<<r.entry, s>> : s \in {s \in subscriptions : Match(r.entry, s)}}
    ELSE {<<p, r.entry>> : p \in {p \in catalogue : Match(p, r.entry)}}

StartWalk(m) ==
    /\ Running(m) /\ stage[m] = "activate"
    /\ lock = NoModule
    /\ lock' = m
    /\ todo' = [todo EXCEPT ![m] = Matches(m)]
    /\ GoTo(m, "walk")
    /\ UNCHANGED <<next, listVars, pairVars, waitVars>>

\* mutant: a new subscriber always gets a shared memory of its own
OwnMemory(pub, sub) == IF protocol[sub] # NoMemory THEN {protocol[sub]} ELSE {sub}

\* The memory of a pair: the one the subscriber already has; else, for an
\* event, that of another subscriber of this publisher (the code takes the
\* newest pair); else a new one, named here after the subscription.
MemoryOf(pub, sub) ==
    LET others == {protocol[q[2]] : q \in {q \in paired : q[1] = pub}} IN
    IF protocol[sub] # NoMemory THEN {protocol[sub]}
    ELSE IF pub.iface \in Events /\ others # {} THEN others
    ELSE {sub}

\* mutant: the use is counted only where the send buffer is made
CountFirst(pub, sub) ==
    IF pub.iface \in Events /\ sendMemory[pub] = NoMemory
    THEN [multiUse EXCEPT ![pub] = @ + 1] ELSE multiUse

\* activateClient: the publisher's event proxy counts one more use of every
\* block, also for a pair it already knows.
CountReader(pub, sub) ==
    IF pub.iface \in Events THEN [multiUse EXCEPT ![pub] = @ + 1] ELSE multiUse

\* mutant: every waiting publisher of the interface is set free
SameInterface(pub) == {p \in waitingPublishers : p.iface = pub.iface}

\* mutant: a publication for one module is overlooked
OnlyAny(pub) == {p \in waitingPublishers : p = pub /\ p.to = AnyModule}

\* Waiting publishers a subscriber's walk sets free with this publication.
FreedBy(pub) == waitingPublishers \cap {pub}

\* activate(), and in the walk of a subscriber the release of the publisher.
Activate(m) ==
    /\ stage[m] = "walk"
    /\ \E q \in todo[m] :
          LET pub == q[1]
              sub == q[2]
              freed == IF Request(m).op = "subscribe" THEN FreedBy(pub) ELSE {} IN
          /\ \E mem \in MemoryOf(pub, sub) :
                /\ protocol' = [protocol EXCEPT ![sub] = mem]
                /\ sendMemory' = IF pub.iface \in Events /\ sendMemory[pub] = NoMemory
                                 THEN [sendMemory EXCEPT ![pub] = mem] ELSE sendMemory
          /\ paired' = paired \cup {q}
          /\ multiUse' = CountReader(pub, sub)
          /\ released' = released \cup freed
          /\ waitingPublishers' = waitingPublishers \ freed
          /\ missed' = IF Request(m).op = "subscribe" /\ WorksOn(pub.module, pub, {"unmatched"})
                       THEN missed \cup {pub} ELSE missed
          /\ todo' = [todo EXCEPT ![m] = @ \ {q}]
    /\ UNCHANGED <<next, stage, lock, listVars>>

\* mutant: an event publication waits too
AnyWaits(m) == Request(m).op = "publish" /\ Matches(m) = {}

\* A message publication that matched nothing waits for a subscriber.
MustWait(m) ==
    /\ Request(m).op = "publish"
    /\ Request(m).entry.iface \in Messages
    /\ Matches(m) = {}

\* The walk is over.
EndWalk(m) ==
    /\ stage[m] = "walk"
    /\ todo[m] = {}
    /\ lock' = NoModule
    /\ IF MustWait(m)
       THEN GoTo(m, "unmatched") /\ UNCHANGED next
       ELSE Finish(m)
    /\ UNCHANGED <<todo, listVars, pairVars, waitVars>>

-----------------------------------------------------------------------------
(* Waiting for a subscriber.                                               *)

\* The list of waiting publishers is changed here without the lock.
OthersUseWaitList(m) ==
    \E n \in Modules \ {m} :
       \/ stage[n] = "unmatched"
       \/ stage[n] = "walk" /\ Request(n).op = "subscribe"

\* The entry is made and the thread waits; a race with another thread on the
\* list may lose the entry.  (That it may crash the manager is left out.)
StartWaiting(m) ==
    /\ stage[m] = "unmatched"
    /\ \/ /\ waitingPublishers' = waitingPublishers \cup {Request(m).entry}
          /\ UNCHANGED missed
       \/ /\ OthersUseWaitList(m)
          /\ missed' = missed \cup {Request(m).entry}
          /\ UNCHANGED waitingPublishers
    /\ GoTo(m, "blocked")
    /\ UNCHANGED <<next, lock, todo, listVars, pairVars, released>>

\* Woken up, publish() tells whether there is a pair; without one the module
\* publishes nothing more.
WakeUp(m) ==
    LET pub == Request(m).entry IN
    /\ stage[m] = "blocked"
    /\ pub \in released
    /\ released' = released \ {pub}
    /\ IF \E q \in paired : q[1] = pub
       THEN Finish(m)
       ELSE /\ next' = [next EXCEPT ![m] = Len(Program[m]) + 1]
            /\ GoTo(m, "add")
    /\ UNCHANGED <<lock, todo, listVars, pairVars, waitingPublishers, missed>>

Step(m) ==
    \/ AddPublication(m)
    \/ AddSubscription(m)
    \/ StartWalk(m)
    \/ Activate(m)
    \/ EndWalk(m)
    \/ StartWaiting(m)
    \/ WakeUp(m)

Next == \E m \in Modules : Step(m)

Spec == Init /\ [][Next]_vars

\* A module's handler thread runs as long as it can.  Every module makes
\* finitely many requests, so that the lock is free for it in the end.
FairSpec == Spec /\ \A m \in Modules : WF_vars(Step(m))

-----------------------------------------------------------------------------
(* Properties.                                                             *)

Stages == {"add", "activate", "walk", "unmatched", "blocked"}

\* Type correctness; only a message publication waits for a subscriber.
TypeOK ==
    /\ next \in [Modules -> Nat \ {0}]
    /\ stage \in [Modules -> Stages]
    /\ lock \in Modules \cup {NoModule}
    /\ catalogue \subseteq Publications
    /\ subscriptions \subseteq Subscriptions
    /\ todo \in [Modules -> SUBSET (Publications \X Subscriptions)]
    /\ paired \subseteq Publications \X Subscriptions
    /\ waitingPublishers \subseteq {p \in Publications : p.iface \in Messages}
    /\ released \subseteq Publications
    /\ missed \subseteq Publications
    /\ protocol \in [Subscriptions -> Subscriptions \cup {NoMemory}]
    /\ sendMemory \in [Publications -> Subscriptions \cup {NoMemory}]
    /\ multiUse \in [Publications -> Nat]
    /\ overlap \subseteq Publications \X Subscriptions

\* The walk for this entry is done.
Walked(entry) == ~ WorksOn(entry.module, entry, {"activate", "walk"})

\* Nobody is left out: a publication and a subscription that match are paired
\* once both walks are done, in whatever order the requests came.
MatchesActivated ==
    \A p \in catalogue, s \in subscriptions :
       Match(p, s) /\ Walked(p) /\ Walked(s) => <<p, s>> \in paired

\* publish() of a message interface returns only when a subscriber is there:
\* the module runs its code with every message proxy connected.
PublishedIsPaired ==
    \A p \in catalogue :
       p.iface \in Messages /\ ~ WorksOn(p.module, p, Stages)
          => \E q \in paired : q[1] = p

\* The subscribers a publisher of an event interface is paired with.
Readers(p) == {s \in subscriptions : <<p, s>> \in paired}

\* A publisher locks each block once per reader.  It never counts fewer uses
\* than it has readers (a block would be written while one still reads it), and
\* when none of its requests overlapped that of a reader, each reader counts
\* exactly once, however often the lists were walked.
ReadersCounted ==
    \A p \in catalogue : p.iface \in Events =>
       /\ multiUse[p] >= Cardinality(Readers(p))
       /\ (\A s \in subscriptions : <<p, s>> \notin overlap)
             => multiUse[p] = Cardinality(Readers(p))

\* What eventSignaler.cpp says of a reader that is reported twice: it changes
\* nothing, the publisher counts its readers, so that each one frees a block it
\* locked and the block comes back.
ReadersCountedOnce ==
    \A p \in catalogue :
       p.iface \in Events => multiUse[p] = Cardinality(Readers(p))

\* Unless two requests for it overlapped, all pairs of an event interface use
\* one shared memory, so that what is sent arrives where it is read.
OneMemory ==
    \A q \in paired :
       /\ q[1].iface \in Events
       /\ \A o \in overlap : o[1].iface # q[1].iface
       => protocol[q[2]] = sendMemory[q[1]]

\* A publisher that waits is set free by the next subscriber that matches.
\* (Every module makes all its subscriptions, whoever waits: a walk never
\* waits for a publisher.)
WaiterReleased ==
    \A p \in Publications :
       (/\ p \in waitingPublishers
        /\ \E s \in Subscriptions :
              Match(p, s) /\ WorksOn(s.module, s, {"add", "activate"}))
       ~> (p \notin waitingPublishers)

\* A message publication must not fail, so publish() waits until a fitting
\* subscriber is ready.  One whose subscriber is ready still waits only where
\* the code misses it: the subscriber came between the end of the publisher's
\* walk and its entry in the list of waiting publishers, or two threads changed
\* that list at once and the entry was lost.
WaitsForAReason ==
    \A p \in catalogue, s \in subscriptions :
       /\ WorksOn(p.module, p, {"blocked"}) /\ p \notin released
       /\ Match(p, s) /\ Walked(s)
       => p \in missed
=============================================================================
