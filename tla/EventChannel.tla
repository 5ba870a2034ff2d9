---------------------------- MODULE EventChannel ----------------------------
(***************************************************************************)
(* The event channel of one interface (System: EventSignaler,              *)
(* ProtocolHandler, ShMemRingAllocator).  All publishers and subscribers   *)
(* of an event interface share one ring of memory blocks.  A publisher     *)
(* claims a free block by a compare-and-swap on its lock count, sets the   *)
(* count to the number of its subscribers, writes the event into it and    *)
(* sends each subscriber a pulse with the block's place; a subscriber      *)
(* handles the event in place and then takes one off the count.            *)
(*                                                                         *)
(* The module manager starts the subscriber and then the publisher of a    *)
(* pair (see ModuleManager), which may be long after the other pairs have  *)
(* started to work.  Both attach to the ring through an allocator of their *)
(* own, and its constructor sets every count to zero.                      *)
(*                                                                         *)
(* A sender sends one event at a time: INIT_EVENT takes senderMutex_ and   *)
(* the signaler's lock, and addSubscriber takes that lock too.  Pulses are *)
(* those of the platform: each reader gets them in the order of the calls. *)
(* Left out: errors of Receive, the shutdown message, the second           *)
(* activation of one pair (see ModuleManager!ReadersCountedOnce).  The     *)
(* constructor's loop over the counts is one step: a claim falls before or *)
(* after it for its own block.                                             *)
(***************************************************************************)
EXTENDS Integers, Sequences, FiniteSets, Functions

CONSTANTS
    Senders, Readers,
    Pairs,        \* the pairs the manager activates, in any order
    NumBlocks,    \* blocks of the ring
    MaxEvents,    \* bound: events of each sender
    MaxFaults,    \* bound: faults
    NoBlock, NoEvent

ASSUME ChannelAssumption ==
    /\ IsFiniteSet(Senders) /\ IsFiniteSet(Readers)
    /\ Pairs \subseteq Senders \X Readers
    /\ NumBlocks \in Nat \ {0}
    /\ MaxEvents \in [Senders -> Nat]
    /\ MaxFaults \in Nat
    /\ NoBlock \notin Nat
    /\ NoEvent \notin Senders \X Nat

Blocks == 1..NumBlocks
Events == Senders \X Nat

VARIABLES
    count,     \* m_oLockCount of each block
    content,   \* the event in each block
    pulses,    \* blocks whose pulses wait at each reader
    rPc,       \* message loop of a reader: off, listening, handling, down
    current,   \* the block a reader handles
    sPc,       \* a sender: idle, scan, write, send, down
    position,  \* next block its scan looks at
    block,     \* the block it has claimed
    todo,      \* subscribers it has still to send the pulse of this block
    last,      \* number of events it has written
    multiUse,  \* multiUse_: subscribers counted by the send buffer
    listed,    \* subscriberLists_
    stage,     \* activation of each pair: new, server, counted, listed
    faults,
    lost,      \* history: locks of a block that no reader will release
    wiped,     \* history: counts were reset under an event on its way
    seen       \* history: number of the last event of each sender a reader took

ringVars    == <<count, content, lost, wiped>>
readerVars  == <<pulses, rPc, current, seen>>
senderVars  == <<sPc, position, block, todo, last>>
managerVars == <<multiUse, listed, stage>>
vars == <<ringVars, readerVars, senderVars, managerVars, faults>>

\* The readers that have still to release block b: its sender has yet to tell
\* them, or its pulse waits for them, or they handle it.
Owing(b) ==
    {r \in Readers :
        \/ \E s \in Senders : block[s] = b /\ r \in todo[s]
        \/ b \in Range(pulses[r])
        \/ current[r] = b}

Init ==
    /\ count = [b \in Blocks |-> 0]
    /\ content = [b \in Blocks |-> NoEvent]
    /\ pulses = [r \in Readers |-> <<>>]
    /\ rPc = [r \in Readers |-> "off"]
    /\ current = [r \in Readers |-> NoBlock]
    /\ sPc = [s \in Senders |-> "idle"]
    /\ position = [s \in Senders |-> 1]
    /\ block = [s \in Senders |-> NoBlock]
    /\ todo = [s \in Senders |-> {}]
    /\ last = [s \in Senders |-> 0]
    /\ multiUse = [s \in Senders |-> 0]
    /\ listed = [s \in Senders |-> {}]
    /\ stage = [p \in Pairs |-> "new"]
    /\ faults = 0
    /\ lost = [b \in Blocks |-> 0]
    /\ wiped = FALSE
    /\ seen = [r \in Readers |-> [s \in Senders |-> 0]]

-----------------------------------------------------------------------------
\* The manager activates a pair.

\* ShMemRingAllocator::init()
ResetRing ==
    /\ count' = [b \in Blocks |-> 0]
    /\ lost' = [b \in Blocks |-> 0]
    /\ wiped' = (wiped \/ \E b \in Blocks : Owing(b) # {})
    /\ UNCHANGED content

Proceeds(p, from, to) ==
    /\ stage[p] = from
    /\ \A q \in Pairs \ {p} : stage[q] \in {"new", "listed"}
    /\ stage' = [stage EXCEPT ![p] = to]

\* Start the subscriber's message loop, unless it is running.
StartServer(p) ==
    LET r == p[2] IN
    /\ Proceeds(p, "new", "server")
    /\ rPc[r] # "down"
    /\ \/ /\ rPc[r] = "off"
          /\ ResetRing
          /\ rPc' = [rPc EXCEPT ![r] = "listening"]
       \/ /\ rPc[r] # "off"
          /\ UNCHANGED <<ringVars, rPc>>
    /\ UNCHANGED <<pulses, current, seen, senderVars, multiUse, listed, faults>>

\* The publisher's first subscriber brings the send buffer with it.
AddSubscriber(p) ==
    LET s == p[1] IN
    /\ Proceeds(p, "server", "counted")
    /\ sPc[s] = "idle"
    /\ multiUse' = [multiUse EXCEPT ![s] = @ + 1]
    /\ IF multiUse[s] = 0 THEN ResetRing ELSE UNCHANGED ringVars
    /\ UNCHANGED <<readerVars, senderVars, listed, faults>>

AddToLists(p) ==
    LET s == p[1] IN
    /\ Proceeds(p, "counted", "listed")
    /\ sPc[s] = "idle"
    /\ listed' = [listed EXCEPT ![s] = @ \cup {p[2]}]
    /\ UNCHANGED <<ringVars, readerVars, senderVars, multiUse, faults>>

-----------------------------------------------------------------------------
\* A sender sends one event to its subscribers.

StartEvent(s) ==
    /\ sPc[s] = "idle"
    /\ listed[s] # {}
    /\ last[s] < MaxEvents[s]
    /\ sPc' = [sPc EXCEPT ![s] = "scan"]
    /\ position' = [position EXCEPT ![s] = 1]
    /\ UNCHANGED <<ringVars, readerVars, block, todo, last, managerVars, faults>>

\* mutant: a block its last reader still handles counts as free
NearlyFree(b) == count[b] <= 1

\* allocBlock(): one compare-and-swap
Free(b) == count[b] = 0

Claim(s) ==
    LET b == position[s] IN
    /\ sPc[s] = "scan"
    /\ b \in Blocks
    /\ Free(b)
    /\ count' = [count EXCEPT ![b] = multiUse[s]]
    /\ lost' = [lost EXCEPT ![b] = multiUse[s] - Cardinality(listed[s])]
    /\ block' = [block EXCEPT ![s] = b]
    /\ todo' = [todo EXCEPT ![s] = listed[s]]
    /\ sPc' = [sPc EXCEPT ![s] = "write"]
    /\ UNCHANGED <<content, wiped, readerVars, position, last, managerVars, faults>>

\* mutant: the scan has no end
SkipOn(s) ==
    LET b == position[s] IN
    /\ sPc[s] = "scan"
    /\ b \in Blocks => ~Free(b)
    /\ position' = [position EXCEPT ![s] = b + 1]
    /\ UNCHANGED <<ringVars, readerVars, sPc, block, todo, last, managerVars, faults>>

Skip(s) ==
    LET b == position[s] IN
    /\ sPc[s] = "scan"
    /\ b \in Blocks
    /\ ~Free(b)
    /\ position' = [position EXCEPT ![s] = b + 1]
    /\ UNCHANGED <<ringVars, readerVars, sPc, block, todo, last, managerVars, faults>>

\* AllocFailedException: INIT_EVENT drops the event.
AllocFails(s) ==
    /\ sPc[s] = "scan"
    /\ position[s] \notin Blocks
    /\ sPc' = [sPc EXCEPT ![s] = "idle"]
    /\ UNCHANGED <<ringVars, readerVars, position, block, todo, last, managerVars, faults>>

Write(s) ==
    /\ sPc[s] = "write"
    /\ last' = [last EXCEPT ![s] = @ + 1]
    /\ content' = [content EXCEPT ![block[s]] = <<s, last[s] + 1>>]
    /\ sPc' = [sPc EXCEPT ![s] = "send"]
    /\ UNCHANGED <<count, lost, wiped, readerVars, position, block, todo, managerVars, faults>>

\* One subscriber of the list is done with; the last one ends send().
Told(s, r) ==
    /\ sPc[s] = "send"
    /\ r \in todo[s]
    /\ todo' = [todo EXCEPT ![s] = @ \ {r}]
    /\ IF todo[s] = {r}
         THEN /\ sPc' = [sPc EXCEPT ![s] = "idle"]
              /\ block' = [block EXCEPT ![s] = NoBlock]
         ELSE UNCHANGED <<sPc, block>>
    /\ UNCHANGED <<position, last>>

\* sendPulse(): the pulse is queued, also at a reader that has ended.
SendPulse(s, r) ==
    /\ Told(s, r)
    /\ pulses' = [pulses EXCEPT ![r] = Append(@, block[s])]
    /\ UNCHANGED <<ringVars, rPc, current, seen, managerVars, faults>>

\* Trigger fails; send() logs it and goes on to the next subscriber.
SendFails(s, r) ==
    /\ Told(s, r)
    /\ \/ rPc[r] = "down" /\ UNCHANGED faults
       \/ faults < MaxFaults /\ faults' = faults + 1
    /\ lost' = [lost EXCEPT ![block[s]] = @ + 1]
    /\ UNCHANGED <<count, content, wiped, readerVars, managerVars>>

-----------------------------------------------------------------------------
\* A reader's message loop.

\* mutant: the newest pulse first
GetNewest(r) ==
    LET b == pulses[r][Len(pulses[r])] IN
    /\ rPc[r] = "listening"
    /\ pulses[r] # <<>>
    /\ current' = [current EXCEPT ![r] = b]
    /\ seen' = [seen EXCEPT ![r][content[b][1]] = content[b][2]]
    /\ pulses' = [pulses EXCEPT ![r] = SubSeq(@, 1, Len(@) - 1)]
    /\ rPc' = [rPc EXCEPT ![r] = "handling"]
    /\ UNCHANGED <<ringVars, senderVars, managerVars, faults>>

GetPulse(r) ==
    /\ rPc[r] = "listening"
    /\ pulses[r] # <<>>
    /\ LET b == Head(pulses[r]) IN
       /\ current' = [current EXCEPT ![r] = b]
       /\ seen' = [seen EXCEPT ![r][content[b][1]] = content[b][2]]
    /\ pulses' = [pulses EXCEPT ![r] = Tail(@)]
    /\ rPc' = [rPc EXCEPT ![r] = "handling"]
    /\ UNCHANGED <<ringVars, senderVars, managerVars, faults>>

\* mutant: the block is not freed
KeepBlock(b) == UNCHANGED count

\* freeBlock(); below zero it asserts, or throws and the loop's handler frees
\* the block once more.
FreeBlock(b) ==
    \/ count' = [count EXCEPT ![b] = @ - 1]
    \/ count[b] <= 0 /\ count' = [count EXCEPT ![b] = @ - 2]

MessageHandled(r) ==
    LET b == current[r] IN
    /\ rPc[r] = "handling"
    /\ FreeBlock(b)
    /\ rPc' = [rPc EXCEPT ![r] = IF count[b] > 0 THEN "listening" ELSE "down"]
    /\ current' = [current EXCEPT ![r] = NoBlock]
    /\ UNCHANGED <<content, lost, wiped, pulses, seen, senderVars, managerVars, faults>>

\* mutant: the block is freed by the handler and again after the exception
HandlerFreesTwice(r) ==
    /\ rPc[r] = "handling"
    /\ faults < MaxFaults
    /\ faults' = faults + 1
    /\ count' = [count EXCEPT ![current[r]] = @ - 2]
    /\ rPc' = [rPc EXCEPT ![r] = "down"]
    /\ current' = [current EXCEPT ![r] = NoBlock]
    /\ UNCHANGED <<content, lost, wiped, pulses, seen, senderVars, managerVars>>

\* The handler throws: the block is freed and the loop ends for good.
HandlerThrows(r) ==
    /\ rPc[r] = "handling"
    /\ faults < MaxFaults
    /\ faults' = faults + 1
    /\ count' = [count EXCEPT ![current[r]] = @ - 1]
    /\ rPc' = [rPc EXCEPT ![r] = "down"]
    /\ current' = [current EXCEPT ![r] = NoBlock]
    /\ UNCHANGED <<content, lost, wiped, pulses, seen, senderVars, managerVars>>

-----------------------------------------------------------------------------
\* A process dies between two steps; what it holds stays as it is.

ReaderDies(r) ==
    /\ rPc[r] \in {"listening", "handling"}
    /\ faults < MaxFaults
    /\ faults' = faults + 1
    /\ rPc' = [rPc EXCEPT ![r] = "down"]
    /\ UNCHANGED <<ringVars, pulses, current, seen, senderVars, managerVars>>

SenderDies(s) ==
    /\ sPc[s] \notin {"idle", "down"}
    /\ faults < MaxFaults
    /\ faults' = faults + 1
    /\ sPc' = [sPc EXCEPT ![s] = "down"]
    /\ UNCHANGED <<ringVars, readerVars, position, block, todo, last, managerVars>>

Manager == \E p \in Pairs : StartServer(p) \/ AddSubscriber(p) \/ AddToLists(p)

Sending(s) ==
    \/ Claim(s) \/ Skip(s) \/ AllocFails(s) \/ Write(s)
    \/ \E r \in Readers : SendPulse(s, r) \/ SendFails(s, r)

Reading(r) == GetPulse(r) \/ MessageHandled(r)

Next ==
    \/ Manager
    \/ \E s \in Senders : StartEvent(s) \/ Sending(s) \/ SenderDies(s)
    \/ \E r \in Readers : Reading(r) \/ HandlerThrows(r) \/ ReaderDies(r)

Spec == Init /\ [][Next]_vars

\* The threads of the processes that live keep running.
FairSpec ==
    /\ Spec
    /\ \A s \in Senders : WF_vars(Sending(s))
    /\ \A r \in Readers : WF_vars(Reading(r))
-----------------------------------------------------------------------------
\* Type correctness, also after a fault or a reset of the ring.
TypeOK ==
    /\ count \in [Blocks -> Int]
    /\ content \in [Blocks -> Events \cup {NoEvent}]
    /\ pulses \in [Readers -> Seq(Blocks)]
    /\ rPc \in [Readers -> {"off", "listening", "handling", "down"}]
    /\ current \in [Readers -> Blocks \cup {NoBlock}]
    /\ sPc \in [Senders -> {"idle", "scan", "write", "send", "down"}]
    /\ position \in [Senders -> 1..(NumBlocks + 1)]
    /\ block \in [Senders -> Blocks \cup {NoBlock}]
    /\ todo \in [Senders -> SUBSET Readers]
    /\ last \in [Senders -> Nat]
    /\ multiUse \in [Senders -> Nat]
    /\ listed \in [Senders -> SUBSET Readers]
    /\ stage \in [Pairs -> {"new", "server", "counted", "listed"}]
    /\ faults \in 0..MaxFaults
    /\ lost \in [Blocks -> Int]
    /\ wiped \in BOOLEAN
    /\ seen \in [Readers -> [Senders -> Nat]]

\* Until a late activation resets the ring, the lock count of a block is the
\* number of readers that have still to release it, and of those that never
\* will: freeBlock()'s count never falls below zero, and a block is free to
\* claim only when nobody needs its event any more.
LockBalance ==
    ~wiped => \A b \in Blocks : count[b] = Cardinality(Owing(b)) + lost[b]

\* The channel keeps its promise: every reader gets the events it was handed,
\* unchanged and in order, whatever blocks they were in.
Delivery == INSTANCE EventDelivery WITH
    pending <- [s \in Senders |-> IF sPc[s] = "send" THEN todo[s] ELSE {}],
    inbox   <- [r \in Readers |-> [i \in DOMAIN pulses[r] |-> content[pulses[r][i]]]],
    reading <- [r \in Readers |->
                  IF current[r] = NoBlock THEN NoEvent ELSE content[current[r]]],
    broken  <- wiped
KeepsPromise == Delivery!Spec

\* Seen from the blocks: a reader meets the events of a sender in their order,
\* none of them twice.
InOrder == Delivery!InOrder

\* A claimed block comes back to the ring, unless one of its locks was lost,
\* a process that still owes it has ended, or the ring was reset.
BlockReturns ==
    \A b \in Blocks :
       count[b] # 0 ~>
          \/ count[b] = 0
          \/ lost[b] # 0
          \/ wiped
          \/ \E r \in Readers : rPc[r] = "down" /\ r \in Owing(b)
          \/ \E s \in Senders : sPc[s] = "down" /\ block[s] = b
=============================================================================
