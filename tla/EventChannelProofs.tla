------------------------ MODULE EventChannelProofs ------------------------
(***************************************************************************)
(* Proofs about EventChannel, for any finite sets of senders and readers,  *)
(* any ring, any number of events and any number of faults.                *)
(***************************************************************************)
EXTENDS EventChannel, FiniteSetTheorems, TLAPS

(***************************************************************************)
(* What holds whether the ring was reset or not: a sender has a block as   *)
(* long as somebody is left to tell, a reader that handles has one, and    *)
(* every block on its way was written.                                     *)
(***************************************************************************)
Shape ==
    /\ \A s \in Senders :
          /\ sPc[s] \in {"write", "send"} => block[s] \in Blocks
          /\ sPc[s] \in {"idle", "scan"} => block[s] = NoBlock
          /\ block[s] = NoBlock <=> todo[s] = {}
          /\ sPc[s] = "scan" => listed[s] # {}
    /\ \A r \in Readers :
          /\ rPc[r] = "handling" => current[r] \in Blocks
          /\ rPc[r] \in {"off", "listening"} => current[r] = NoBlock

Written ==
    /\ \A s \in Senders : sPc[s] = "send" => content[block[s]] \in Events
    /\ \A r \in Readers :
          /\ \A b \in Range(pulses[r]) : content[b] \in Events
          /\ current[r] # NoBlock => content[current[r]] \in Events

LEMMA BlocksType == Blocks \subseteq Nat /\ NoBlock \notin Blocks
  BY ChannelAssumption DEF Blocks

\* The range of a queue when something is put at its end or taken from its
\* head.
LEMMA RangeAppend ==
    ASSUME NEW S, NEW q \in Seq(S), NEW e \in S
    PROVE  Range(Append(q, e)) = Range(q) \cup {e}
  <1>1. /\ DOMAIN Append(q, e) = 1..(Len(q) + 1)
        /\ DOMAIN q = 1..Len(q)
        /\ Len(q) \in Nat
        /\ \A i \in 1..Len(q) : Append(q, e)[i] = q[i]
        /\ Append(q, e)[Len(q) + 1] = e
    OBVIOUS
  <1>2. \A i \in DOMAIN Append(q, e) : i \in DOMAIN q \/ i = Len(q) + 1
    BY <1>1
  <1>3. \A i \in DOMAIN q : i \in DOMAIN Append(q, e)
    BY <1>1
  <1>4. Len(q) + 1 \in DOMAIN Append(q, e)
    BY <1>1
  <1>5. QED BY <1>1, <1>2, <1>3, <1>4 DEF Range

LEMMA RangeTail ==
    ASSUME NEW S, NEW q \in Seq(S), q # <<>>
    PROVE  /\ Head(q) \in S /\ Head(q) \in Range(q)
           /\ Tail(q) \in Seq(S)
           /\ Range(q) = Range(Tail(q)) \cup {Head(q)}
  <1>1. /\ Len(q) \in Nat /\ Len(q) >= 1
        /\ DOMAIN q = 1..Len(q)
        /\ DOMAIN Tail(q) = 1..(Len(q) - 1)
        /\ Head(q) = q[1]
        /\ Tail(q) \in Seq(S)
        /\ \A i \in 1..(Len(q) - 1) : Tail(q)[i] = q[i + 1]
    OBVIOUS
  <1>2. 1 \in DOMAIN q BY <1>1
  <1>3. \A i \in DOMAIN Tail(q) : i + 1 \in DOMAIN q /\ Tail(q)[i] = q[i + 1]
    BY <1>1
  <1>4. \A i \in DOMAIN q : i # 1 => i - 1 \in DOMAIN Tail(q) /\ Tail(q)[i - 1] = q[i]
    BY <1>1
  <1>5. QED BY <1>1, <1>2, <1>3, <1>4 DEF Range

LEMMA RangeOfPulses ==
    ASSUME TypeOK, NEW r \in Readers
    PROVE  pulses[r] \in Seq(Blocks) /\ Range(pulses[r]) \subseteq Blocks
  BY DEF TypeOK, Range

TInv == TypeOK /\ Shape /\ Written

LEMMA InitTInv == Init => TInv
  <1> SUFFICES ASSUME Init PROVE TInv OBVIOUS
  <1>1. TypeOK
    <2>1. /\ pulses \in [Readers -> Seq(Blocks)]
          /\ position \in [Senders -> 1..(NumBlocks + 1)]
          /\ faults \in 0..MaxFaults
          /\ wiped \in BOOLEAN
      <3>1. <<>> \in Seq(Blocks) OBVIOUS
      <3>2. 1 \in 1..(NumBlocks + 1) /\ 0 \in 0..MaxFaults
        BY ChannelAssumption
      <3>3. QED BY <3>1, <3>2 DEF Init
    <2>2. QED BY <2>1 DEF Init, TypeOK
  <1>2. Shape
    BY DEF Init, Shape
  <1>3. Written
    BY DEF Init, Written, Range
  <1>4. QED BY <1>1, <1>2, <1>3 DEF TInv

LEMMA ResetTypes ==
    ASSUME TypeOK, ResetRing
    PROVE  /\ count' \in [Blocks -> Int] /\ lost' \in [Blocks -> Int]
           /\ content' \in [Blocks -> Events \cup {NoEvent}]
           /\ wiped' \in BOOLEAN
  <1>1. wiped' \in BOOLEAN
    BY Zenon DEF ResetRing
  <1>2. QED BY <1>1 DEF ResetRing, TypeOK

LEMMA ManagerTInv ==
    ASSUME TInv, Manager PROVE TInv'
  <1> PICK p \in Pairs : StartServer(p) \/ AddSubscriber(p) \/ AddToLists(p)
    BY DEF Manager
  <1> p[1] \in Senders /\ p[2] \in Readers
    BY ChannelAssumption
  <1> USE DEF TInv
  <1>1. CASE StartServer(p)
    <2>9. /\ rPc' \in [Readers -> {"off", "listening", "handling", "down"}]
          /\ stage' \in [Pairs -> {"new", "server", "counted", "listed"}]
          /\ UNCHANGED <<pulses, current, seen, sPc, position, block, todo,
                         last, multiUse, listed, faults>>
      <3>1. /\ stage' = [stage EXCEPT ![p] = "server"]
            /\ rPc' = [rPc EXCEPT ![p[2]] = "listening"] \/ rPc' = rPc
            /\ UNCHANGED <<pulses, current, seen, senderVars, multiUse, listed, faults>>
        BY <1>1 DEF StartServer, Proceeds
      <3>2. rPc' \in [Readers -> {"off", "listening", "handling", "down"}]
        BY <3>1 DEF TypeOK
      <3>3. stage' \in [Pairs -> {"new", "server", "counted", "listed"}]
        BY <3>1 DEF TypeOK
      <3>4. QED BY <3>1, <3>2, <3>3 DEF senderVars
    <2>7. ASSUME ResetRing PROVE TypeOK'
      <3>1. /\ count' \in [Blocks -> Int] /\ lost' \in [Blocks -> Int]
            /\ content' \in [Blocks -> Events \cup {NoEvent}]
            /\ wiped' \in BOOLEAN
        BY <2>7, ResetTypes
      <3>2. QED BY <3>1, <2>9 DEF TypeOK
    <2>8. ASSUME UNCHANGED ringVars PROVE TypeOK'
      BY <2>8, <2>9 DEF TypeOK, ringVars
    <2>1. TypeOK'
      BY <1>1, <2>7, <2>8 DEF StartServer
    <2>2. Shape'
      BY <1>1 DEF StartServer, Shape, TypeOK, senderVars
    <2>3. Written'
      BY <1>1 DEF StartServer, ResetRing, Written, senderVars, ringVars
    <2>4. QED BY <2>1, <2>2, <2>3
  <1>2. CASE AddSubscriber(p)
    <2>9. /\ multiUse' \in [Senders -> Nat]
          /\ stage' \in [Pairs -> {"new", "server", "counted", "listed"}]
          /\ UNCHANGED <<pulses, rPc, current, seen, sPc, position, block, todo,
                         last, listed, faults>>
      BY <1>2 DEF AddSubscriber, Proceeds, TypeOK, senderVars, readerVars
    <2>7. ASSUME ResetRing PROVE TypeOK'
      <3>1. /\ count' \in [Blocks -> Int] /\ lost' \in [Blocks -> Int]
            /\ content' \in [Blocks -> Events \cup {NoEvent}]
            /\ wiped' \in BOOLEAN
        BY <2>7, ResetTypes
      <3>2. QED BY <3>1, <2>9 DEF TypeOK
    <2>8. ASSUME UNCHANGED ringVars PROVE TypeOK'
      BY <2>8, <2>9 DEF TypeOK, ringVars
    <2>1. TypeOK'
      BY <1>2, <2>7, <2>8 DEF AddSubscriber
    <2>2. Shape'
      BY <1>2 DEF AddSubscriber, Shape, senderVars, readerVars
    <2>3. Written'
      BY <1>2 DEF AddSubscriber, ResetRing, Written, senderVars, readerVars, ringVars
    <2>4. QED BY <2>1, <2>2, <2>3
  <1>3. CASE AddToLists(p)
    <2>1. TypeOK'
      BY <1>3 DEF AddToLists, Proceeds, TypeOK, ringVars, senderVars, readerVars
    <2>2. Shape'
      BY <1>3 DEF AddToLists, Shape, TypeOK, senderVars, readerVars
    <2>3. Written'
      BY <1>3 DEF AddToLists, Written, senderVars, readerVars, ringVars
    <2>4. QED BY <2>1, <2>2, <2>3
  <1>4. QED BY <1>1, <1>2, <1>3

LEMMA SenderTInv ==
    ASSUME TInv, NEW s \in Senders,
           \/ StartEvent(s) \/ Claim(s) \/ Skip(s) \/ AllocFails(s) \/ Write(s)
           \/ SenderDies(s)
    PROVE  TInv'
  <1> USE DEF TInv
  <1>1. CASE StartEvent(s)
    <2>1. TypeOK'
      BY <1>1, ChannelAssumption DEF StartEvent, TypeOK, ringVars, readerVars, managerVars
    <2>2. Shape'
      BY <1>1 DEF StartEvent, Shape, TypeOK, readerVars, managerVars
    <2>3. Written'
      BY <1>1 DEF StartEvent, Written, TypeOK, readerVars, ringVars
    <2>4. QED BY <2>1, <2>2, <2>3
  <1>2. CASE Claim(s)
    <2>1. listed[s] \subseteq Readers /\ multiUse[s] \in Nat
      BY DEF TypeOK
    <2>2. Cardinality(listed[s]) \in Nat
      BY <2>1, ChannelAssumption, FS_Subset, FS_CardinalityType
    <2>3. TypeOK'
      BY <1>2, <2>1, <2>2 DEF Claim, TypeOK, readerVars, managerVars
    <2>4. Shape'
      BY <1>2, BlocksType DEF Claim, Shape, TypeOK, readerVars, managerVars
    <2>5. Written'
      BY <1>2 DEF Claim, Written, TypeOK, readerVars
    <2>6. QED BY <2>3, <2>4, <2>5
  <1>3. CASE Skip(s)
    <2>1. position[s] + 1 \in 1..(NumBlocks + 1)
      BY <1>3, ChannelAssumption DEF Skip, Blocks
    <2>2. TypeOK'
      BY <1>3, <2>1 DEF Skip, TypeOK, ringVars, readerVars, managerVars
    <2>3. Shape'
      BY <1>3 DEF Skip, Shape, readerVars, managerVars
    <2>4. Written'
      BY <1>3 DEF Skip, Written, readerVars, ringVars
    <2>5. QED BY <2>2, <2>3, <2>4
  <1>4. CASE AllocFails(s)
    <2>1. TypeOK'
      BY <1>4 DEF AllocFails, TypeOK, ringVars, readerVars, managerVars
    <2>2. Shape'
      BY <1>4 DEF AllocFails, Shape, TypeOK, readerVars, managerVars
    <2>3. Written'
      BY <1>4 DEF AllocFails, Written, TypeOK, readerVars, ringVars
    <2>4. QED BY <2>1, <2>2, <2>3
  <1>5. CASE Write(s)
    <2>1. block[s] \in Blocks /\ <<s, last[s] + 1>> \in Events
      BY <1>5 DEF Write, Shape, TypeOK, Events
    <2>2. TypeOK'
      BY <1>5, <2>1 DEF Write, TypeOK, readerVars, managerVars
    <2>3. Shape'
      BY <1>5, <2>1 DEF Write, Shape, TypeOK, readerVars, managerVars
    <2>4. content'[block[s]] \in Events
          /\ \A b \in Blocks : content[b] \in Events => content'[b] \in Events
      BY <1>5, <2>1 DEF Write, TypeOK
    <2>5. Written'
      <3>1. \A t \in Senders : sPc'[t] = "send" =>
               block'[t] = block[t] /\ (t = s \/ sPc[t] = "send")
        BY <1>5 DEF Write, TypeOK
      <3>2. \A t \in Senders : sPc'[t] = "send" => content'[block'[t]] \in Events
        BY <2>1, <2>4, <3>1 DEF Written, Shape
      <3>3. ASSUME NEW r \in Readers
            PROVE  /\ \A b \in Range(pulses[r]) : b \in Blocks
                   /\ current[r] # NoBlock => current[r] \in Blocks
        BY RangeOfPulses DEF TypeOK
      <3>4. QED BY <1>5, <2>4, <3>2, <3>3 DEF Write, Written, readerVars
    <2>6. QED BY <2>2, <2>3, <2>5
  <1>6. CASE SenderDies(s)
    <2>1. TypeOK'
      BY <1>6, ChannelAssumption DEF SenderDies, TypeOK, ringVars, readerVars, managerVars
    <2>2. Shape'
      BY <1>6 DEF SenderDies, Shape, TypeOK, readerVars, managerVars
    <2>3. Written'
      BY <1>6 DEF SenderDies, Written, TypeOK, readerVars, ringVars
    <2>4. QED BY <2>1, <2>2, <2>3
  <1>7. QED BY <1>1, <1>2, <1>3, <1>4, <1>5, <1>6

LEMMA ToldTypes ==
    ASSUME TypeOK, NEW s \in Senders, NEW r \in Readers, Told(s, r)
    PROVE  /\ todo' \in [Senders -> SUBSET Readers]
           /\ sPc' \in [Senders -> {"idle", "scan", "write", "send", "down"}]
           /\ block' \in [Senders -> Blocks \cup {NoBlock}]
  BY DEF Told, TypeOK

LEMMA TellTInv ==
    ASSUME TInv, NEW s \in Senders, NEW r \in Readers,
           SendPulse(s, r) \/ SendFails(s, r)
    PROVE  TInv'
  <1> USE DEF TInv
  <1>1. block[s] \in Blocks /\ content[block[s]] \in Events
    BY DEF SendPulse, SendFails, Told, Shape, Written
  <1>2. Shape'
    <2>1. Told(s, r) /\ UNCHANGED <<rPc, current, listed>>
      BY DEF SendPulse, SendFails, managerVars, readerVars
    <2>2. CASE todo[s] = {r}
      BY <1>1, <2>1, <2>2, BlocksType DEF Told, Shape, TypeOK
    <2>3. CASE todo[s] # {r}
      <3>1. todo'[s] # {} /\ todo[s] # {} BY <2>1, <2>3 DEF Told, TypeOK
      <3>2. QED BY <1>1, <2>1, <2>3, <3>1, BlocksType DEF Told, Shape, TypeOK
    <2>4. QED BY <2>2, <2>3
  <1>3. CASE SendPulse(s, r)
    <2>7. todo' \in [Senders -> SUBSET Readers]
          /\ sPc' \in [Senders -> {"idle", "scan", "write", "send", "down"}]
          /\ block' \in [Senders -> Blocks \cup {NoBlock}]
      BY <1>3, ToldTypes DEF SendPulse
    <2>8. pulses' \in [Readers -> Seq(Blocks)]
      BY <1>1, <1>3 DEF SendPulse, TypeOK
    <2>1. TypeOK'
      BY <1>3, <2>7, <2>8 DEF SendPulse, Told, TypeOK, ringVars, managerVars
    <2>2. \A q \in Readers : Range(pulses'[q]) \subseteq Range(pulses[q]) \cup {block[s]}
      BY <1>3, <1>1, RangeOfPulses, RangeAppend DEF SendPulse, TypeOK
    <2>3. \A t \in Senders : sPc'[t] = "send" => sPc[t] = "send" /\ block'[t] = block[t]
      BY <1>3 DEF SendPulse, Told, TypeOK
    <2>4. Written'
      BY <1>3, <1>1, <2>2, <2>3 DEF SendPulse, Written, ringVars
    <2>5. QED BY <2>1, <2>4, <1>2
  <1>4. CASE SendFails(s, r)
    <2>7. todo' \in [Senders -> SUBSET Readers]
          /\ sPc' \in [Senders -> {"idle", "scan", "write", "send", "down"}]
          /\ block' \in [Senders -> Blocks \cup {NoBlock}]
      BY <1>4, ToldTypes DEF SendFails
    <2>8. lost' \in [Blocks -> Int] /\ faults' \in 0..MaxFaults
      BY <1>1, <1>4, ChannelAssumption DEF SendFails, TypeOK
    <2>1. TypeOK'
      BY <1>4, <2>7, <2>8 DEF SendFails, Told, TypeOK, readerVars, managerVars
    <2>2. \A t \in Senders : sPc'[t] = "send" => sPc[t] = "send" /\ block'[t] = block[t]
      BY <1>4 DEF SendFails, Told, TypeOK
    <2>3. Written'
      BY <1>4, <2>2 DEF SendFails, Written, readerVars
    <2>4. QED BY <2>1, <2>3, <1>2
  <1>5. QED BY <1>3, <1>4

LEMMA ReaderTInv ==
    ASSUME TInv, NEW r \in Readers,
           GetPulse(r) \/ MessageHandled(r) \/ HandlerThrows(r) \/ ReaderDies(r)
    PROVE  TInv'
  <1> USE DEF TInv
  <1>1. CASE GetPulse(r)
    <2>1. /\ Head(pulses[r]) \in Blocks
          /\ Tail(pulses[r]) \in Seq(Blocks)
          /\ Range(pulses[r]) = Range(Tail(pulses[r])) \cup {Head(pulses[r])}
      BY <1>1, RangeOfPulses, RangeTail DEF GetPulse
    <2>2. content[Head(pulses[r])] \in Events
      BY <2>1 DEF Written
    <2>3. TypeOK'
      BY <1>1, <2>1, <2>2 DEF GetPulse, TypeOK, ringVars, senderVars, managerVars, Events
    <2>4. Shape'
      BY <1>1, <2>1 DEF GetPulse, Shape, TypeOK, senderVars, managerVars
    <2>5. Written'
      BY <1>1, <2>1, <2>2 DEF GetPulse, Written, TypeOK, ringVars, senderVars
    <2>6. QED BY <2>3, <2>4, <2>5
  <1>2. CASE MessageHandled(r)
    <2>1. current[r] \in Blocks
      BY <1>2 DEF MessageHandled, Shape
    <2>2. count' \in [Blocks -> Int]
      BY <1>2, <2>1 DEF MessageHandled, FreeBlock, TypeOK
    <2>3. TypeOK'
      BY <1>2, <2>1, <2>2 DEF MessageHandled, TypeOK, senderVars, managerVars
    <2>4. Shape'
      BY <1>2 DEF MessageHandled, Shape, TypeOK, senderVars, managerVars
    <2>5. Written'
      BY <1>2 DEF MessageHandled, Written, TypeOK, senderVars
    <2>6. QED BY <2>3, <2>4, <2>5
  <1>3. CASE HandlerThrows(r)
    <2>1. current[r] \in Blocks
      BY <1>3 DEF HandlerThrows, Shape
    <2>2. TypeOK'
      BY <1>3, <2>1, ChannelAssumption DEF HandlerThrows, TypeOK, senderVars, managerVars
    <2>3. Shape'
      BY <1>3 DEF HandlerThrows, Shape, TypeOK, senderVars, managerVars
    <2>4. Written'
      BY <1>3 DEF HandlerThrows, Written, TypeOK, senderVars
    <2>5. QED BY <2>2, <2>3, <2>4
  <1>4. CASE ReaderDies(r)
    <2>1. TypeOK'
      BY <1>4, ChannelAssumption DEF ReaderDies, TypeOK, ringVars, senderVars, managerVars
    <2>2. Shape'
      BY <1>4 DEF ReaderDies, Shape, TypeOK, senderVars, managerVars
    <2>3. Written'
      BY <1>4 DEF ReaderDies, Written, ringVars, senderVars
    <2>4. QED BY <2>1, <2>2, <2>3
  <1>5. QED BY <1>1, <1>2, <1>3, <1>4

LEMMA StutterTInv ==
    ASSUME TInv, UNCHANGED vars PROVE TInv'
  BY DEF TInv, vars, ringVars, readerVars, senderVars, managerVars,
         TypeOK, Shape, Written

LEMMA TInvStep ==
    ASSUME TInv, [Next]_vars PROVE TInv'
  BY ManagerTInv, SenderTInv, TellTInv, ReaderTInv, StutterTInv
     DEF Next, Sending, Reading

\* Every variable keeps to its values, whatever the activations, the faults
\* and the resets of the ring.
THEOREM TInvTheorem == Spec => []TInv
  <1>1. TInv /\ [Next]_vars => TInv'
    BY TInvStep
  <1>2. QED BY <1>1, InitTInv, PTL DEF Spec

\* Every variable of the ring, the senders and the readers has its type.
THEOREM TypeCorrect == Spec => []TypeOK
  <1>1. TInv => TypeOK BY DEF TInv
  <1>2. QED BY <1>1, TInvTheorem, PTL

(***************************************************************************)
(* The send buffer counts every subscriber that is listed, and during an   *)
(* activation one that is not listed yet.                                  *)
(***************************************************************************)
Enough ==
    /\ \A s \in Senders : multiUse[s] >= Cardinality(listed[s])
    /\ \A p \in Pairs :
          stage[p] = "counted" => multiUse[p[1]] >= Cardinality(listed[p[1]]) + 1

LEMMA SubsetsFinite ==
    ASSUME NEW R \in SUBSET Readers
    PROVE  IsFiniteSet(R) /\ Cardinality(R) \in Nat
  BY ChannelAssumption, FS_Subset, FS_CardinalityType

LEMMA EnoughStep ==
    ASSUME TypeOK, Enough, [Next]_vars PROVE Enough'
  <1>1. ASSUME NEW p \in Pairs, StartServer(p) PROVE Enough'
    BY <1>1 DEF StartServer, Proceeds, Enough, TypeOK
  <1>2. ASSUME NEW p \in Pairs, AddSubscriber(p) PROVE Enough'
    <2>1. p[1] \in Senders BY ChannelAssumption
    <2>2. /\ multiUse' = [multiUse EXCEPT ![p[1]] = @ + 1]
          /\ listed' = listed
          /\ stage' = [stage EXCEPT ![p] = "counted"]
          /\ \A q \in Pairs \ {p} : stage[q] # "counted"
      BY <1>2 DEF AddSubscriber, Proceeds
    <2>3. \A s \in Senders : multiUse[s] \in Nat /\ Cardinality(listed[s]) \in Nat
      BY SubsetsFinite DEF TypeOK
    <2>4. \A s \in Senders : multiUse'[s] >= Cardinality(listed[s])
      BY <2>1, <2>2, <2>3 DEF Enough, TypeOK
    <2>5. multiUse'[p[1]] >= Cardinality(listed[p[1]]) + 1
      BY <2>1, <2>2, <2>3 DEF Enough, TypeOK
    <2>6. \A q \in Pairs : stage'[q] = "counted" => q = p
      BY <2>2 DEF TypeOK
    <2>7. QED BY <2>2, <2>4, <2>5, <2>6 DEF Enough
  <1>3. ASSUME NEW p \in Pairs, AddToLists(p) PROVE Enough'
    <2>1. p[1] \in Senders BY ChannelAssumption
    <2>2. /\ multiUse' = multiUse
          /\ listed' = [listed EXCEPT ![p[1]] = @ \cup {p[2]}]
          /\ stage[p] = "counted"
          /\ stage' = [stage EXCEPT ![p] = "listed"]
          /\ \A q \in Pairs \ {p} : stage[q] # "counted"
      BY <1>3 DEF AddToLists, Proceeds
    <2>3. \A s \in Senders : multiUse[s] \in Nat /\ Cardinality(listed[s]) \in Nat
      BY SubsetsFinite DEF TypeOK
    <2>4. multiUse[p[1]] >= Cardinality(listed[p[1]]) + 1
      BY <2>2 DEF Enough
    <2>5. IsFiniteSet(listed[p[1]]) BY <2>1, SubsetsFinite DEF TypeOK
    <2>6. Cardinality(listed[p[1]] \cup {p[2]}) <= Cardinality(listed[p[1]]) + 1
      <3>1. Cardinality(listed[p[1]] \cup {p[2]}) =
               IF p[2] \in listed[p[1]] THEN Cardinality(listed[p[1]])
                                       ELSE Cardinality(listed[p[1]]) + 1
        BY <2>5, FS_AddElement
      <3>2. QED BY <3>1, <2>1, <2>3
    <2>7. Cardinality(listed[p[1]] \cup {p[2]}) \in Nat
      BY <2>5, FS_AddElement, FS_CardinalityType
    <2>8. \A s \in Senders : listed'[s] = IF s = p[1] THEN listed[s] \cup {p[2]} ELSE listed[s]
      BY <2>2 DEF TypeOK
    <2>9. \A s \in Senders : multiUse'[s] >= Cardinality(listed'[s])
      <3>1. ASSUME NEW s \in Senders PROVE multiUse'[s] >= Cardinality(listed'[s])
        <4>1. CASE s = p[1]
          BY <4>1, <2>1, <2>2, <2>3, <2>4, <2>6, <2>7, <2>8
        <4>2. CASE s # p[1]
          BY <4>2, <2>2, <2>8 DEF Enough
        <4>3. QED BY <4>1, <4>2
      <3>2. QED BY <3>1
    <2>10. \A q \in Pairs : stage'[q] # "counted"
      BY <2>2 DEF TypeOK
    <2>11. QED BY <2>9, <2>10 DEF Enough
  <1>4. UNCHANGED managerVars => Enough'
    BY DEF managerVars, Enough
  <1>5. CASE Manager
    BY <1>1, <1>2, <1>3, <1>5 DEF Manager
  <1>6. CASE UNCHANGED managerVars
    BY <1>4, <1>6
  <1>7. [Next]_vars => Manager \/ UNCHANGED managerVars
    BY DEF Next, Sending, Reading, vars, StartEvent, Claim, Skip, AllocFails, Write,
           SendPulse, SendFails, SenderDies, GetPulse, MessageHandled, HandlerThrows,
           ReaderDies
  <1>8. QED BY <1>5, <1>6, <1>7

(***************************************************************************)
(* Until the ring is reset: two senders never hold the same block; a block *)
(* waits at a reader at most once, and not while its sender has still to   *)
(* tell that reader or the reader handles it; the block a sender writes to *)
(* is with nobody, and the block it sends holds its last event.            *)
(***************************************************************************)
OnceIn(q) == \A i, j \in DOMAIN q : q[i] = q[j] => i = j

With(b, r) == b \in Range(pulses[r]) \/ b = current[r]

Hold ==
    /\ \A s, t \in Senders : s # t /\ block[s] = block[t] => block[s] = NoBlock
    /\ \A r \in Readers : OnceIn(pulses[r]) /\ current[r] \notin Range(pulses[r])
    /\ \A s \in Senders : \A r \in todo[s] : ~With(block[s], r)
    /\ \A s \in Senders :
          sPc[s] = "write" => \A r \in Readers : ~With(block[s], r)
    /\ \A s \in Senders : sPc[s] = "send" => content[block[s]] = <<s, last[s]>>

Balance ==
    \A b \in Blocks : lost[b] >= 0 /\ count[b] = Cardinality(Owing(b)) + lost[b]

LInv == ~wiped => Hold /\ Balance

LEMMA OnceAppend ==
    ASSUME NEW S, NEW q \in Seq(S), NEW e \in S, OnceIn(q), e \notin Range(q)
    PROVE  OnceIn(Append(q, e))
  <1>1. /\ DOMAIN Append(q, e) = 1..(Len(q) + 1)
        /\ DOMAIN q = 1..Len(q)
        /\ Len(q) \in Nat
        /\ \A i \in 1..Len(q) : Append(q, e)[i] = q[i]
        /\ Append(q, e)[Len(q) + 1] = e
    OBVIOUS
  <1>2. \A i \in DOMAIN q : q[i] # e
    BY DEF Range
  <1>3. QED BY <1>1, <1>2 DEF OnceIn

LEMMA OnceTail ==
    ASSUME NEW S, NEW q \in Seq(S), q # <<>>, OnceIn(q)
    PROVE  OnceIn(Tail(q)) /\ Head(q) \notin Range(Tail(q))
  <1>1. /\ Len(q) \in Nat /\ Len(q) >= 1
        /\ DOMAIN q = 1..Len(q)
        /\ DOMAIN Tail(q) = 1..(Len(q) - 1)
        /\ Head(q) = q[1]
        /\ \A i \in 1..(Len(q) - 1) : Tail(q)[i] = q[i + 1]
    OBVIOUS
  <1>2. \A i \in DOMAIN Tail(q) : i \in Nat /\ i >= 1 /\ i + 1 \in DOMAIN q /\ Tail(q)[i] = q[i + 1]
    BY <1>1
  <1>3. OnceIn(Tail(q))
    BY <1>2 DEF OnceIn
  <1>4. \A i \in DOMAIN Tail(q) : Tail(q)[i] # Head(q)
    BY <1>1, <1>2 DEF OnceIn
  <1>5. QED BY <1>3, <1>4 DEF Range

LEMMA OwingFinite ==
    ASSUME NEW b
    PROVE  /\ Owing(b) \subseteq Readers /\ IsFiniteSet(Owing(b))
           /\ Cardinality(Owing(b)) \in Nat
  <1>1. Owing(b) \subseteq Readers BY DEF Owing
  <1>2. QED BY <1>1, SubsetsFinite

\* Nobody is with a block that is free, and no sender holds it.
LEMMA FreeIsUnused ==
    ASSUME TInv, Balance, NEW b \in Blocks, count[b] = 0
    PROVE  /\ Owing(b) = {}
           /\ \A r \in Readers : ~With(b, r)
           /\ \A s \in Senders : block[s] # b
  <1>1. lost[b] \in Int /\ lost[b] >= 0
        /\ 0 = Cardinality(Owing(b)) + lost[b]
    BY DEF Balance, TInv, TypeOK
  <1>2. Cardinality(Owing(b)) = 0 BY <1>1, OwingFinite
  <1>3. Owing(b) = {} BY <1>2, OwingFinite, FS_EmptySet
  <1>4. \A r \in Readers : ~With(b, r)
    BY <1>3 DEF Owing, With
  <1>5. ASSUME NEW s \in Senders, block[s] = b PROVE FALSE
    <2>1. todo[s] # {} /\ todo[s] \subseteq Readers
      BY <1>5, BlocksType DEF TInv, Shape, TypeOK
    <2>2. QED BY <2>1, <1>3, <1>5 DEF Owing
  <1>6. QED BY <1>3, <1>4, <1>5

LEMMA InitLInv == Init => LInv
  <1> SUFFICES ASSUME Init PROVE Hold /\ Balance BY DEF LInv
  <1>1. Hold BY BlocksType DEF Init, Hold, OnceIn, With, Range
  <1>2. \A b \in Blocks : Owing(b) = {}
    BY BlocksType DEF Init, Owing, Range
  <1>3. \A b \in Blocks : Cardinality(Owing(b)) = 0
    BY <1>2, FS_EmptySet
  <1>5. Balance BY <1>3 DEF Init, Balance
  <1>4. QED BY <1>1, <1>5

\* Steps that move no block.
LEMMA FrameLInv ==
    ASSUME LInv, UNCHANGED <<ringVars, pulses, current, block, todo, last>>,
           \A s \in Senders : sPc'[s] \in {"write", "send"} => sPc'[s] = sPc[s]
    PROVE  LInv'
  <1> SUFFICES ASSUME ~wiped' PROVE (Hold /\ Balance)'
    BY DEF LInv
  <1>1. Hold /\ Balance BY DEF LInv, ringVars
  <1>2. Hold' BY <1>1 DEF Hold, With, ringVars
  <1>3. \A b : Owing(b)' = Owing(b) BY DEF Owing
  <1>4. Balance' BY <1>1, <1>3 DEF Balance, ringVars
  <1>5. QED BY <1>2, <1>4

LEMMA ResetLInv ==
    ASSUME LInv, ResetRing, UNCHANGED <<pulses, current, block, todo, last, sPc>>
    PROVE  LInv'
  <1> SUFFICES ASSUME ~wiped' PROVE (Hold /\ Balance)'
    BY DEF LInv
  <1>1. ~wiped /\ \A b \in Blocks : Owing(b) = {}
    BY DEF ResetRing
  <1>2. Hold /\ Balance BY <1>1 DEF LInv
  <1>3. Hold' BY <1>2 DEF Hold, With, ResetRing
  <1>4. \A b \in Blocks : Cardinality(Owing(b)') = 0
    BY <1>1, FS_EmptySet DEF Owing
  <1>5. count' = [b \in Blocks |-> 0] /\ lost' = [b \in Blocks |-> 0]
    BY DEF ResetRing
  <1>6. Balance' BY <1>4, <1>5 DEF Balance
  <1>7. QED BY <1>3, <1>6

LEMMA ManagerLInv ==
    ASSUME LInv, Manager PROVE LInv'
  <1> PICK p \in Pairs : StartServer(p) \/ AddSubscriber(p) \/ AddToLists(p)
    BY DEF Manager
  <1>1. UNCHANGED <<pulses, current, block, todo, last, sPc>>
    BY DEF StartServer, AddSubscriber, AddToLists, senderVars, readerVars
  <1>2. ResetRing \/ UNCHANGED ringVars
    BY DEF StartServer, AddSubscriber, AddToLists, ringVars
  <1>3. QED BY <1>1, <1>2, ResetLInv, FrameLInv

LEMMA ClaimLInv ==
    ASSUME TInv, Enough, LInv, NEW s \in Senders, Claim(s) PROVE LInv'
  <1> SUFFICES ASSUME ~wiped' PROVE (Hold /\ Balance)'
    BY DEF LInv
  <1>1. Hold /\ Balance BY DEF LInv, Claim
  <1>2. PICK b \in Blocks : b = position[s] BY DEF Claim
  <1>3. /\ count[b] = 0
        /\ count' = [count EXCEPT ![b] = multiUse[s]]
        /\ lost' = [lost EXCEPT ![b] = multiUse[s] - Cardinality(listed[s])]
        /\ block' = [block EXCEPT ![s] = b]
        /\ todo' = [todo EXCEPT ![s] = listed[s]]
        /\ sPc' = [sPc EXCEPT ![s] = "write"]
        /\ content' = content /\ last' = last
        /\ pulses' = pulses /\ current' = current
    BY <1>2 DEF Claim, Free, readerVars
  <1>4. /\ Owing(b) = {}
        /\ \A r \in Readers : ~With(b, r)
        /\ \A t \in Senders : block[t] # b
    BY <1>1, <1>3, FreeIsUnused
  <1>5. block[s] = NoBlock /\ todo[s] = {}
    BY DEF TInv, Shape, Claim
  <1>6. listed[s] \subseteq Readers
    BY DEF TInv, TypeOK
  <1>7. \A t \in Senders : /\ block'[t] = IF t = s THEN b ELSE block[t]
                           /\ todo'[t] = IF t = s THEN listed[s] ELSE todo[t]
                           /\ sPc'[t] = IF t = s THEN "write" ELSE sPc[t]
    BY <1>3 DEF TInv, TypeOK
  <1>8. Hold'
    <2>2. \A t, u \in Senders : t # u /\ block'[t] = block'[u] => block'[t] = NoBlock
      BY <1>1, <1>4, <1>7 DEF Hold
    <2>3. \A t \in Senders : \A r \in todo'[t] : ~With(block'[t], r)
      BY <1>1, <1>4, <1>6, <1>7 DEF Hold
    <2>4. \A t \in Senders :
             sPc'[t] = "write" => \A r \in Readers : ~With(block'[t], r)
      BY <1>1, <1>4, <1>7 DEF Hold
    <2>5. \A t \in Senders : sPc'[t] = "send" => content'[block'[t]] = <<t, last'[t]>>
      <3>1. \A t \in Senders : sPc'[t] = "send" => t # s /\ sPc[t] = "send"
        BY <1>7
      <3>2. \A t \in Senders : sPc'[t] = "send" => content[block'[t]] = <<t, last[t]>>
        BY <3>1, <1>1, <1>7 DEF Hold
      <3>3. QED BY <3>2, <1>3
    <2>6. \A r \in Readers : OnceIn(pulses'[r]) /\ current'[r] \notin Range(pulses'[r])
      BY <1>1, <1>3 DEF Hold
    <2>7. /\ \A t \in Senders : \A r \in todo'[t] : ~With(block[t], r)'
          /\ \A t \in Senders :
                sPc'[t] = "write" => \A r \in Readers : ~With(block[t], r)'
      BY <2>3, <2>4, <1>3 DEF With
    <2>8. QED BY <2>2, <2>5, <2>6, <2>7 DEF Hold
  <1>9. Owing(b)' = listed[s]
    BY <1>3, <1>4, <1>6, <1>7 DEF Owing, With
  <1>10. \A c \in Blocks : c # b => Owing(c)' = Owing(c)
    BY <1>3, <1>5, <1>7 DEF Owing
  <1>11. Balance'
    <2>1. /\ Cardinality(listed[s]) \in Nat /\ multiUse[s] \in Nat
          /\ multiUse[s] >= Cardinality(listed[s])
      BY <1>6, SubsetsFinite DEF TInv, TypeOK, Enough
    <2>2. count'[b] = multiUse[s] /\ lost'[b] = multiUse[s] - Cardinality(listed[s])
      BY <1>3 DEF TInv, TypeOK
    <2>3. lost'[b] >= 0 /\ count'[b] = Cardinality(Owing(b)') + lost'[b]
      BY <2>1, <2>2, <1>9
    <2>4. \A c \in Blocks : c # b => count'[c] = count[c] /\ lost'[c] = lost[c]
      BY <1>3 DEF TInv, TypeOK
    <2>5. QED BY <2>3, <2>4, <1>1, <1>10 DEF Balance
  <1>12. QED BY <1>8, <1>11

LEMMA WriteLInv ==
    ASSUME TInv, LInv, NEW s \in Senders, Write(s) PROVE LInv'
  <1> SUFFICES ASSUME ~wiped' PROVE (Hold /\ Balance)'
    BY DEF LInv
  <1>1. Hold /\ Balance BY DEF LInv, Write
  <1>2. /\ last' = [last EXCEPT ![s] = @ + 1]
        /\ content' = [content EXCEPT ![block[s]] = <<s, last[s] + 1>>]
        /\ sPc' = [sPc EXCEPT ![s] = "send"]
        /\ count' = count /\ lost' = lost /\ pulses' = pulses
        /\ current' = current /\ block' = block /\ todo' = todo
    BY DEF Write, readerVars
  <1>3. block[s] \in Blocks /\ block[s] # NoBlock
    BY BlocksType DEF TInv, Shape, Write
  <1>4. \A t \in Senders : sPc'[t] = IF t = s THEN "send" ELSE sPc[t]
    BY <1>2 DEF TInv, TypeOK
  <1>5. \A t \in Senders : sPc'[t] = "send" => content'[block'[t]] = <<t, last'[t]>>
    <2>1. content'[block[s]] = <<s, last'[s]>>
      BY <1>2, <1>3 DEF TInv, TypeOK
    <2>2. ASSUME NEW t \in Senders, t # s, sPc[t] = "send"
          PROVE  content'[block[t]] = <<t, last'[t]>>
      <3>1. block[t] \in Blocks /\ block[t] # block[s]
        BY <1>1, <1>3, <2>2 DEF TInv, Shape, Hold
      <3>2. content'[block[t]] = content[block[t]] /\ last'[t] = last[t]
        BY <3>1, <2>2, <1>2 DEF TInv, TypeOK
      <3>3. QED BY <3>2, <2>2, <1>1 DEF Hold
    <2>3. QED BY <2>1, <2>2, <1>2, <1>4
  <1>6. Hold'
    <2>1. \A t \in Senders :
             sPc'[t] = "write" => \A r \in Readers : ~With(block[t], r)'
      BY <1>1, <1>2, <1>4 DEF Hold, With
    <2>2. /\ \A t, u \in Senders : t # u /\ block'[t] = block'[u] => block'[t] = NoBlock
          /\ \A r \in Readers : OnceIn(pulses'[r]) /\ current'[r] \notin Range(pulses'[r])
          /\ \A t \in Senders : \A r \in todo'[t] : ~With(block[t], r)'
      BY <1>1, <1>2 DEF Hold, With
    <2>3. QED BY <2>1, <2>2, <1>5 DEF Hold
  <1>7. \A b : Owing(b)' = Owing(b) BY <1>2 DEF Owing
  <1>8. Balance' BY <1>1, <1>2, <1>7 DEF Balance
  <1>9. QED BY <1>6, <1>8

\* What telling one subscriber does to its sender.
LEMMA ToldEffect ==
    ASSUME TInv, Hold, NEW s \in Senders, NEW r \in Readers, Told(s, r)
    PROVE  /\ block[s] \in Blocks /\ block[s] # NoBlock
           /\ r \in todo[s] /\ sPc[s] = "send" /\ last' = last
           /\ \A t \in Senders : todo'[t] = IF t = s THEN todo[s] \ {r} ELSE todo[t]
           /\ \A t \in Senders : t # s => block'[t] = block[t] /\ sPc'[t] = sPc[t]
           /\ \/ todo[s] = {r} /\ block'[s] = NoBlock /\ sPc'[s] = "idle"
              \/ todo[s] # {r} /\ block'[s] = block[s] /\ sPc'[s] = "send"
           /\ ~With(block[s], r)
           /\ \A t \in Senders : block[t] = block[s] => t = s
  <1>1. block[s] \in Blocks /\ block[s] # NoBlock
    BY BlocksType DEF Told, TInv, Shape
  <1>2. /\ r \in todo[s] /\ sPc[s] = "send" /\ last' = last
        /\ \A t \in Senders : todo'[t] = IF t = s THEN todo[s] \ {r} ELSE todo[t]
    BY DEF Told, TInv, TypeOK
  <1>3. /\ \A t \in Senders : t # s => block'[t] = block[t] /\ sPc'[t] = sPc[t]
        /\ \/ todo[s] = {r} /\ block'[s] = NoBlock /\ sPc'[s] = "idle"
           \/ todo[s] # {r} /\ block'[s] = block[s] /\ sPc'[s] = "send"
    BY <1>2 DEF Told, TInv, TypeOK
  <1>4. ~With(block[s], r) /\ \A t \in Senders : block[t] = block[s] => t = s
    BY <1>1, <1>2 DEF Hold
  <1>5. QED BY <1>1, <1>2, <1>3, <1>4

LEMMA SendPulseLInv ==
    ASSUME TInv, LInv, NEW s \in Senders, NEW r \in Readers, SendPulse(s, r)
    PROVE  LInv'
  <1> SUFFICES ASSUME ~wiped' PROVE (Hold /\ Balance)'
    BY DEF LInv
  <1>1. Hold /\ Balance BY DEF LInv, SendPulse, ringVars
  <1>2. PICK b : b = block[s] OBVIOUS
  <1>3. /\ b \in Blocks /\ b # NoBlock
        /\ r \in todo[s] /\ sPc[s] = "send" /\ last' = last
        /\ \A t \in Senders : todo'[t] = IF t = s THEN todo[s] \ {r} ELSE todo[t]
        /\ \A t \in Senders : t # s => block'[t] = block[t] /\ sPc'[t] = sPc[t]
        /\ \/ todo[s] = {r} /\ block'[s] = NoBlock /\ sPc'[s] = "idle"
           \/ todo[s] # {r} /\ block'[s] = b /\ sPc'[s] = "send"
        /\ ~With(b, r)
        /\ \A t \in Senders : block[t] = b => t = s
    BY <1>1, <1>2, ToldEffect DEF SendPulse
  <1>4. /\ pulses' = [pulses EXCEPT ![r] = Append(@, b)]
        /\ count' = count /\ lost' = lost /\ content' = content /\ current' = current
    BY <1>2 DEF SendPulse, ringVars
  <1>5. /\ pulses[r] \in Seq(Blocks)
        /\ pulses'[r] = Append(pulses[r], b)
        /\ \A q \in Readers : q # r => pulses'[q] = pulses[q]
    BY <1>4 DEF TInv, TypeOK
  <1>6. Range(pulses'[r]) = Range(pulses[r]) \cup {b}
    BY <1>3, <1>5, RangeAppend
  <1>7. \A c : \A q \in Readers :
           With(c, q)' <=> With(c, q) \/ (q = r /\ c = b)
    BY <1>4, <1>5, <1>6 DEF With
  <1>8. Hold'
    <2>1. \A t, u \in Senders : t # u /\ block'[t] = block'[u] => block'[t] = NoBlock
      BY <1>1, <1>2, <1>3 DEF Hold
    <2>2. OnceIn(pulses'[r]) /\ current'[r] \notin Range(pulses'[r])
      <3>1. OnceIn(pulses[r]) /\ b \notin Range(pulses[r]) /\ current[r] # b
        BY <1>1, <1>3 DEF Hold, With
      <3>2. OnceIn(pulses'[r]) BY <3>1, <1>3, <1>5, OnceAppend
      <3>3. QED BY <3>1, <3>2, <1>1, <1>4, <1>6 DEF Hold
    <2>3. \A q \in Readers : OnceIn(pulses'[q]) /\ current'[q] \notin Range(pulses'[q])
      BY <2>2, <1>1, <1>4, <1>5 DEF Hold
    <2>4. ASSUME NEW t \in Senders, NEW q \in todo'[t] PROVE ~With(block[t], q)'
      <3>1. q \in Readers BY <1>3 DEF TInv, TypeOK
      <3>2. q \in todo[t] /\ (t = s => q # r) BY <1>3
      <3>3. block'[t] = block[t]
        BY <1>2, <1>3, <3>2
      <3>4. ~With(block[t], q) BY <1>1, <3>2 DEF Hold
      <3>5. ~(q = r /\ block[t] = b) BY <1>3, <3>2
      <3>6. \A c : c = block'[t] => ~(c \in Range(pulses'[q])) /\ c # current'[q]
        BY <1>7, <3>1, <3>3, <3>4, <3>5 DEF With
      <3>7. QED BY <3>6 DEF With
    <2>5. ASSUME NEW t \in Senders, sPc'[t] = "write", NEW q \in Readers
          PROVE  ~With(block[t], q)'
      <3>1. t # s /\ sPc[t] = "write" /\ block'[t] = block[t]
        BY <1>3, <2>5
      <3>2. ~With(block[t], q) /\ block[t] # b
        BY <1>1, <1>3, <3>1 DEF Hold
      <3>3. \A c : c = block'[t] => ~(c \in Range(pulses'[q])) /\ c # current'[q]
        BY <1>7, <3>1, <3>2 DEF With
      <3>4. QED BY <3>3 DEF With
    <2>6. \A t \in Senders : sPc'[t] = "send" => content'[block'[t]] = <<t, last'[t]>>
      <3>1. \A t \in Senders : sPc'[t] = "send" => sPc[t] = "send" /\ block'[t] = block[t]
        BY <1>2, <1>3
      <3>2. QED BY <3>1, <1>1, <1>3, <1>4 DEF Hold
    <2>7. QED BY <2>1, <2>3, <2>4, <2>5, <2>6 DEF Hold
  <1>9. \A c \in Blocks : Owing(c)' = Owing(c)
    <2>1. ASSUME NEW c \in Blocks, NEW q \in Readers
          PROVE  (\E t \in Senders : block'[t] = c /\ q \in todo'[t]) <=>
                 (\E t \in Senders : block[t] = c /\ q \in todo[t]) /\ ~(q = r /\ c = b)
      <3>1. c # NoBlock BY BlocksType
      <3>2. QED BY <1>2, <1>3, <3>1
    <2>2. ASSUME NEW c \in Blocks, NEW q \in Readers
          PROVE  (c \in Range(pulses'[q]) \/ current'[q] = c) <=>
                 (c \in Range(pulses[q]) \/ current[q] = c \/ (q = r /\ c = b))
      BY <1>7 DEF With
    <2>3. \E t \in Senders : block[t] = b /\ r \in todo[t]
      BY <1>2, <1>3
    <2>4. QED BY <2>1, <2>2, <2>3 DEF Owing
  <1>10. Balance'
    BY <1>1, <1>4, <1>9 DEF Balance
  <1>11. QED BY <1>8, <1>10

LEMMA SendFailsLInv ==
    ASSUME TInv, LInv, NEW s \in Senders, NEW r \in Readers, SendFails(s, r)
    PROVE  LInv'
  <1> SUFFICES ASSUME ~wiped' PROVE (Hold /\ Balance)'
    BY DEF LInv
  <1>1. Hold /\ Balance BY DEF LInv, SendFails
  <1>2. PICK b : b = block[s] OBVIOUS
  <1>3. /\ b \in Blocks /\ b # NoBlock
        /\ r \in todo[s] /\ sPc[s] = "send" /\ last' = last
        /\ \A t \in Senders : todo'[t] = IF t = s THEN todo[s] \ {r} ELSE todo[t]
        /\ \A t \in Senders : t # s => block'[t] = block[t] /\ sPc'[t] = sPc[t]
        /\ \/ todo[s] = {r} /\ block'[s] = NoBlock /\ sPc'[s] = "idle"
           \/ todo[s] # {r} /\ block'[s] = b /\ sPc'[s] = "send"
        /\ ~With(b, r)
        /\ \A t \in Senders : block[t] = b => t = s
    BY <1>1, <1>2, ToldEffect DEF SendFails
  <1>4. /\ lost' = [lost EXCEPT ![b] = @ + 1]
        /\ count' = count /\ content' = content /\ current' = current
        /\ pulses' = pulses
    BY <1>2 DEF SendFails, readerVars
  <1>5. Hold'
    <2>1. \A t, u \in Senders : t # u /\ block'[t] = block'[u] => block'[t] = NoBlock
      BY <1>1, <1>2, <1>3 DEF Hold
    <2>2. ASSUME NEW t \in Senders, NEW q \in todo'[t] PROVE ~With(block[t], q)'
      <3>1. q \in todo[t] /\ (t = s => q # r) BY <1>3
      <3>2. block'[t] = block[t] BY <1>2, <1>3, <3>1
      <3>3. ~With(block[t], q) BY <1>1, <3>1 DEF Hold
      <3>4. QED BY <3>2, <3>3, <1>4 DEF With
    <2>3. ASSUME NEW t \in Senders, sPc'[t] = "write", NEW q \in Readers
          PROVE  ~With(block[t], q)'
      <3>1. t # s /\ sPc[t] = "write" /\ block'[t] = block[t]
        BY <1>3, <2>3
      <3>2. ~With(block[t], q) BY <1>1, <3>1 DEF Hold
      <3>3. QED BY <3>1, <3>2, <1>4 DEF With
    <2>4. \A t \in Senders : sPc'[t] = "send" => content'[block'[t]] = <<t, last'[t]>>
      <3>1. \A t \in Senders : sPc'[t] = "send" => sPc[t] = "send" /\ block'[t] = block[t]
        BY <1>2, <1>3
      <3>2. QED BY <3>1, <1>1, <1>3, <1>4 DEF Hold
    <2>5. \A q \in Readers : OnceIn(pulses'[q]) /\ current'[q] \notin Range(pulses'[q])
      BY <1>1, <1>4 DEF Hold
    <2>6. QED BY <2>1, <2>2, <2>3, <2>4, <2>5 DEF Hold
  <1>6. ASSUME NEW c \in Blocks
        PROVE  Owing(c)' = IF c = b THEN Owing(c) \ {r} ELSE Owing(c)
    <2>1. ASSUME NEW q \in Readers
          PROVE  (\E t \in Senders : block'[t] = c /\ q \in todo'[t]) <=>
                 (\E t \in Senders : block[t] = c /\ q \in todo[t]) /\ ~(q = r /\ c = b)
      <3>1. c # NoBlock BY BlocksType
      <3>2. QED BY <1>2, <1>3, <3>1
    <2>2. ~(b \in Range(pulses[r]) \/ current[r] = b)
      BY <1>3 DEF With
    <2>3. QED BY <2>1, <2>2, <1>4 DEF Owing
  <1>7. r \in Owing(b) BY <1>2, <1>3 DEF Owing
  <1>8. Cardinality(Owing(b) \ {r}) = Cardinality(Owing(b)) - 1
    BY <1>7, OwingFinite, FS_RemoveElement
  <1>9. \A c \in Blocks : lost[c] \in Int /\ lost'[c] = IF c = b THEN lost[c] + 1 ELSE lost[c]
    BY <1>4 DEF TInv, TypeOK
  <1>10. Balance'
    <2>1. ASSUME NEW c \in Blocks
          PROVE  lost'[c] >= 0 /\ count'[c] = Cardinality(Owing(c)') + lost'[c]
      <3>1. lost[c] >= 0 /\ count[c] = Cardinality(Owing(c)) + lost[c]
        BY <1>1 DEF Balance
      <3>2. Cardinality(Owing(c)) \in Nat BY OwingFinite
      <3>3. CASE c = b
        <4>1. Cardinality(Owing(c)') = Cardinality(Owing(c)) - 1
          BY <3>3, <1>6, <1>8
        <4>2. QED BY <4>1, <3>1, <3>2, <3>3, <1>4, <1>9
      <3>4. CASE c # b
        BY <3>1, <3>4, <1>4, <1>6, <1>9
      <3>5. QED BY <3>3, <3>4
    <2>2. QED BY <2>1 DEF Balance
  <1>11. QED BY <1>5, <1>10

LEMMA GetPulseLInv ==
    ASSUME TInv, LInv, NEW r \in Readers, GetPulse(r) PROVE LInv'
  <1> SUFFICES ASSUME ~wiped' PROVE (Hold /\ Balance)'
    BY DEF LInv
  <1>1. Hold /\ Balance BY DEF LInv, GetPulse, ringVars
  <1>2. PICK b : b = Head(pulses[r]) OBVIOUS
  <1>3. /\ current' = [current EXCEPT ![r] = b]
        /\ pulses' = [pulses EXCEPT ![r] = Tail(@)]
        /\ count' = count /\ lost' = lost /\ content' = content
        /\ sPc' = sPc /\ block' = block /\ todo' = todo /\ last' = last
    BY <1>2 DEF GetPulse, ringVars, senderVars
  <1>4. pulses[r] \in Seq(Blocks) /\ pulses[r] # <<>> /\ OnceIn(pulses[r])
    BY <1>1 DEF GetPulse, TInv, TypeOK, Hold
  <1>5. current[r] = NoBlock
    BY DEF GetPulse, TInv, Shape
  <1>6. /\ b \in Blocks
        /\ Range(pulses[r]) = Range(Tail(pulses[r])) \cup {b}
        /\ OnceIn(Tail(pulses[r])) /\ b \notin Range(Tail(pulses[r]))
    BY <1>2, <1>4, RangeTail, OnceTail
  <1>7. /\ current'[r] = b /\ pulses'[r] = Tail(pulses[r])
        /\ \A q \in Readers : q # r => current'[q] = current[q] /\ pulses'[q] = pulses[q]
    BY <1>3 DEF TInv, TypeOK
  <1>8. \A c \in Blocks : \A q \in Readers :
           (c \in Range(pulses'[q]) \/ current'[q] = c) <=>
           (c \in Range(pulses[q]) \/ current[q] = c)
    BY <1>5, <1>6, <1>7, BlocksType
  <1>9. Hold'
    <2>1. \A q \in Readers : OnceIn(pulses'[q]) /\ current'[q] \notin Range(pulses'[q])
      BY <1>1, <1>6, <1>7 DEF Hold
    <2>2. ASSUME NEW t \in Senders, NEW q \in Readers, block[t] \in Blocks, ~With(block[t], q)
          PROVE  ~With(block[t], q)'
      BY <2>2, <1>3, <1>8 DEF With
    <2>3. \A t \in Senders : /\ todo[t] # {} => block[t] \in Blocks
                             /\ sPc[t] = "write" => block[t] \in Blocks
                             /\ todo[t] \subseteq Readers
      BY DEF TInv, TypeOK, Shape
    <2>4. \A t \in Senders : \A q \in todo'[t] : ~With(block[t], q)'
      BY <2>2, <2>3, <1>1, <1>3 DEF Hold
    <2>5. \A t \in Senders :
             sPc'[t] = "write" => \A q \in Readers : ~With(block[t], q)'
      BY <2>2, <2>3, <1>1, <1>3 DEF Hold
    <2>6. \A t, u \in Senders : t # u /\ block'[t] = block'[u] => block'[t] = NoBlock
      BY <1>1, <1>3 DEF Hold
    <2>7. \A t \in Senders : sPc'[t] = "send" => content'[block'[t]] = <<t, last'[t]>>
      BY <1>1, <1>3 DEF Hold
    <2>8. QED BY <2>1, <2>4, <2>5, <2>6, <2>7 DEF Hold
  <1>10. \A c \in Blocks : Owing(c)' = Owing(c)
    BY <1>3, <1>8 DEF Owing
  <1>11. Balance' BY <1>1, <1>3, <1>10 DEF Balance
  <1>12. QED BY <1>9, <1>11

\* A reader that handles a block is counted, so the count is not zero yet.
LEMMA HandledIsCounted ==
    ASSUME TInv, Hold, Balance, NEW r \in Readers, NEW b \in Blocks, current[r] = b
    PROVE  /\ r \in Owing(b) /\ count[b] > 0
           /\ Cardinality(Owing(b) \ {r}) = Cardinality(Owing(b)) - 1
  <1>1. r \in Owing(b) BY DEF Owing
  <1>2. Cardinality(Owing(b)) # 0 BY <1>1, OwingFinite, FS_EmptySet
  <1>3. Cardinality(Owing(b) \ {r}) = Cardinality(Owing(b)) - 1
    BY <1>1, OwingFinite, FS_RemoveElement
  <1>4. lost[b] \in Int BY DEF TInv, TypeOK
  <1>5. QED BY <1>1, <1>2, <1>3, <1>4, OwingFinite DEF Balance

LEMMA ReleaseLInv ==
    ASSUME TInv, LInv, NEW r \in Readers, MessageHandled(r) \/ HandlerThrows(r)
    PROVE  LInv'
  <1> SUFFICES ASSUME ~wiped' PROVE (Hold /\ Balance)'
    BY DEF LInv
  <1>1. Hold /\ Balance BY DEF LInv, MessageHandled, HandlerThrows
  <1>2. PICK b \in Blocks : b = current[r]
    BY DEF MessageHandled, HandlerThrows, TInv, Shape
  <1>3. /\ r \in Owing(b) /\ count[b] > 0
        /\ Cardinality(Owing(b) \ {r}) = Cardinality(Owing(b)) - 1
    BY <1>1, <1>2, HandledIsCounted
  <1>4. /\ current' = [current EXCEPT ![r] = NoBlock]
        /\ lost' = lost /\ content' = content /\ pulses' = pulses
        /\ sPc' = sPc /\ block' = block /\ todo' = todo /\ last' = last
    BY DEF MessageHandled, HandlerThrows, senderVars
  <1>5. count[b] \in Int BY DEF TInv, TypeOK
  <1>6. count' = [count EXCEPT ![b] = @ - 1]
    BY <1>2, <1>3, <1>5 DEF MessageHandled, HandlerThrows, FreeBlock
  <1>7. \A q \in Readers : current'[q] = IF q = r THEN NoBlock ELSE current[q]
    BY <1>4 DEF TInv, TypeOK
  <1>8. NoBlock \notin Blocks BY BlocksType
  <1>9. Hold'
    <2>1. \A q \in Readers : OnceIn(pulses'[q]) /\ current'[q] \notin Range(pulses'[q])
      BY <1>1, <1>4, <1>7, <1>8, RangeOfPulses DEF Hold, TInv
    <2>2. ASSUME NEW t \in Senders, NEW q \in Readers, block[t] \in Blocks, ~With(block[t], q)
          PROVE  ~With(block[t], q)'
      BY <2>2, <1>4, <1>7, <1>8 DEF With
    <2>3. \A t \in Senders : /\ todo[t] # {} => block[t] \in Blocks
                             /\ sPc[t] = "write" => block[t] \in Blocks
                             /\ todo[t] \subseteq Readers
      BY DEF TInv, TypeOK, Shape
    <2>4. \A t \in Senders : \A q \in todo'[t] : ~With(block[t], q)'
      BY <2>2, <2>3, <1>1, <1>4 DEF Hold
    <2>5. \A t \in Senders :
             sPc'[t] = "write" => \A q \in Readers : ~With(block[t], q)'
      BY <2>2, <2>3, <1>1, <1>4 DEF Hold
    <2>6. \A t, u \in Senders : t # u /\ block'[t] = block'[u] => block'[t] = NoBlock
      BY <1>1, <1>4 DEF Hold
    <2>7. \A t \in Senders : sPc'[t] = "send" => content'[block'[t]] = <<t, last'[t]>>
      BY <1>1, <1>4 DEF Hold
    <2>8. QED BY <2>1, <2>4, <2>5, <2>6, <2>7 DEF Hold
  <1>10. ASSUME NEW c \in Blocks
         PROVE  Owing(c)' = IF c = b THEN Owing(c) \ {r} ELSE Owing(c)
    <2>1. ~\E t \in Senders : block[t] = b /\ r \in todo[t]
      BY <1>1, <1>2 DEF Hold, With
    <2>2. b \notin Range(pulses[r])
      BY <1>1, <1>2 DEF Hold
    <2>3. \A q \in Readers : current'[q] = c <=> (current[q] = c /\ ~(q = r /\ c = b))
      BY <1>2, <1>7, <1>8
    <2>4. QED BY <2>1, <2>2, <2>3, <1>4 DEF Owing
  <1>11. Balance'
    <2>1. ASSUME NEW c \in Blocks
          PROVE  lost'[c] >= 0 /\ count'[c] = Cardinality(Owing(c)') + lost'[c]
      <3>1. /\ lost[c] >= 0 /\ count[c] = Cardinality(Owing(c)) + lost[c]
            /\ lost[c] \in Int /\ count[c] \in Int
        BY <1>1 DEF Balance, TInv, TypeOK
      <3>2. Cardinality(Owing(c)) \in Nat BY OwingFinite
      <3>3. count'[c] = IF c = b THEN count[c] - 1 ELSE count[c]
        BY <1>6 DEF TInv, TypeOK
      <3>4. Cardinality(Owing(c)') =
               IF c = b THEN Cardinality(Owing(c)) - 1 ELSE Cardinality(Owing(c))
        BY <1>3, <1>10
      <3>5. QED BY <3>1, <3>2, <3>3, <3>4, <1>4
    <2>2. QED BY <2>1 DEF Balance
  <1>12. QED BY <1>9, <1>11

CInv == TInv /\ Enough /\ LInv

LEMMA InitCInv == Init => CInv
  <1> SUFFICES ASSUME Init PROVE Enough
    BY InitTInv, InitLInv DEF CInv
  <1>1. \A s \in Senders : Cardinality(listed[s]) = 0 /\ multiUse[s] = 0
    BY FS_EmptySet DEF Init
  <1>2. \A p \in Pairs : stage[p] # "counted" BY DEF Init
  <1>3. QED BY <1>1, <1>2 DEF Enough

LEMMA LInvStep ==
    ASSUME CInv, [Next]_vars PROVE LInv'
  <1>1. TInv /\ Enough /\ LInv BY DEF CInv
  <1>2. CASE Manager BY <1>1, <1>2, ManagerLInv
  <1>3. ASSUME NEW s \in Senders, StartEvent(s) \/ Skip(s) \/ AllocFails(s) \/ SenderDies(s)
        PROVE  LInv'
    <2>1. UNCHANGED <<ringVars, pulses, current, block, todo, last>>
      BY <1>3 DEF StartEvent, Skip, AllocFails, SenderDies, ringVars, readerVars
    <2>2. \A t \in Senders : sPc'[t] \in {"write", "send"} => sPc'[t] = sPc[t]
      BY <1>1, <1>3 DEF StartEvent, Skip, AllocFails, SenderDies, TInv, TypeOK
    <2>3. QED BY <2>1, <2>2, <1>1, FrameLInv
  <1>4. ASSUME NEW r \in Readers, ReaderDies(r) PROVE LInv'
    <2>1. UNCHANGED <<ringVars, pulses, current, block, todo, last, sPc>>
      BY <1>4 DEF ReaderDies, ringVars, senderVars
    <2>2. QED BY <2>1, <1>1, FrameLInv
  <1>5. CASE UNCHANGED vars
    <2>1. UNCHANGED <<ringVars, pulses, current, block, todo, last, sPc>>
      BY <1>5 DEF vars, ringVars, readerVars, senderVars
    <2>2. QED BY <2>1, <1>1, FrameLInv
  <1>6. QED
    BY <1>1, <1>2, <1>3, <1>4, <1>5, ClaimLInv, WriteLInv, SendPulseLInv,
       SendFailsLInv, GetPulseLInv, ReleaseLInv DEF Next, Sending, Reading

\* The inductive invariant of the lock counts holds in every reachable state.
THEOREM CInvTheorem == Spec => []CInv
  <1>1. CInv /\ [Next]_vars => CInv'
    BY TInvStep, EnoughStep, LInvStep DEF CInv, TInv
  <1>2. QED BY <1>1, InitCInv, PTL DEF Spec

\* Until the ring is reset, the lock count of a block is the number of the
\* readers that have still to release it and of the locks nobody will
\* release, for any number of senders, readers, blocks, events and faults.
THEOREM LocksBalance == Spec => []LockBalance
  <1>1. CInv => LockBalance
    BY DEF CInv, LInv, Balance, LockBalance
  <1>2. QED BY <1>1, CInvTheorem, PTL

(***************************************************************************)
(* The channel keeps the promise of EventDelivery.                         *)
(***************************************************************************)
Pending == [s \in Senders |-> IF sPc[s] = "send" THEN todo[s] ELSE {}]
Inbox   == [r \in Readers |-> [i \in DOMAIN pulses[r] |-> content[pulses[r][i]]]]
AtWork  == [r \in Readers |->
              IF current[r] = NoBlock THEN NoEvent ELSE content[current[r]]]

Mapped == <<last, Pending, Inbox, AtWork, seen, wiped>>

LEMMA InitKept == Init => Delivery!Init
  <1> SUFFICES ASSUME Init PROVE Delivery!Init OBVIOUS
  <1>1. Pending = [s \in Senders |-> {}] BY DEF Init, Pending
  <1>2. Inbox = [r \in Readers |-> <<>>]
    <2>1. \A r \in Readers : Inbox[r] = <<>> BY DEF Init, Inbox
    <2>2. QED BY <2>1 DEF Inbox
  <1>3. AtWork = [r \in Readers |-> NoEvent] BY DEF Init, AtWork
  <1>4. QED BY <1>1, <1>2, <1>3 DEF Init, Delivery!Init, Pending, Inbox, AtWork

\* Steps that a reader does not see.
LEMMA FrameKept ==
    ASSUME UNCHANGED <<content, wiped, pulses, current, todo, last, seen>>,
           \A s \in Senders : (sPc'[s] = "send") <=> (sPc[s] = "send")
    PROVE  UNCHANGED Mapped
  <1>1. Pending' = Pending BY DEF Pending
  <1>2. Inbox' = Inbox BY DEF Inbox
  <1>3. AtWork' = AtWork BY DEF AtWork
  <1>4. QED BY <1>1, <1>2, <1>3 DEF Mapped

LEMMA WriteKept ==
    ASSUME CInv, ~wiped, NEW s \in Senders, Write(s), NEW R, R = todo[s]
    PROVE  Delivery!Announce(s, R)
  <1>1. Hold BY DEF CInv, LInv
  <1>2. /\ sPc[s] = "write"
        /\ last' = [last EXCEPT ![s] = @ + 1]
        /\ content' = [content EXCEPT ![block[s]] = <<s, last[s] + 1>>]
        /\ sPc' = [sPc EXCEPT ![s] = "send"]
        /\ wiped' = wiped /\ pulses' = pulses /\ current' = current /\ seen' = seen
        /\ todo' = todo
    BY DEF Write, readerVars
  <1>3. \A r \in Readers : ~With(block[s], r)
    BY <1>1, <1>2 DEF Hold
  <1>4. \A c \in Blocks : c # block[s] => content'[c] = content[c]
    BY <1>2 DEF CInv, TInv, TypeOK
  <1>5. Inbox' = Inbox
    <2>1. \A r \in Readers : \A i \in DOMAIN pulses[r] :
             content'[pulses[r][i]] = content[pulses[r][i]]
      BY <1>3, <1>4, RangeOfPulses DEF With, Range, CInv, TInv
    <2>2. QED BY <2>1, <1>2 DEF Inbox
  <1>6. AtWork' = AtWork
    <2>1. \A r \in Readers :
             current[r] # NoBlock => content'[current[r]] = content[current[r]]
      BY <1>3, <1>4 DEF With, CInv, TInv, TypeOK
    <2>2. QED BY <2>1, <1>2 DEF AtWork
  <1>7. Pending' = [Pending EXCEPT ![s] = todo[s]]
    <2>1. \A t \in Senders : sPc'[t] = IF t = s THEN "send" ELSE sPc[t]
      BY <1>2 DEF CInv, TInv, TypeOK
    <2>2. QED BY <2>1, <1>2 DEF Pending
  <1>8. Pending[s] = {} BY <1>2 DEF Pending
  <1>9. QED BY <1>2, <1>5, <1>6, <1>7, <1>8
            DEF Delivery!Announce, Pending, Inbox, AtWork

\* What telling one subscriber does to the set of those still to be told.
LEMMA ToldPending ==
    ASSUME TInv, Hold, NEW s \in Senders, NEW r \in Readers, Told(s, r)
    PROVE  Pending' = [Pending EXCEPT ![s] = @ \ {r}] /\ Pending[s] = todo[s]
  <1>1. /\ sPc[s] = "send"
        /\ \A t \in Senders : todo'[t] = IF t = s THEN todo[s] \ {r} ELSE todo[t]
        /\ \A t \in Senders : t # s => sPc'[t] = sPc[t]
        /\ \/ todo[s] = {r} /\ sPc'[s] = "idle"
           \/ todo[s] # {r} /\ sPc'[s] = "send"
    BY ToldEffect
  <1>2. Pending[s] = todo[s] BY <1>1 DEF Pending
  <1>3. ASSUME NEW t \in Senders
        PROVE  (IF sPc'[t] = "send" THEN todo'[t] ELSE {}) =
                  IF t = s THEN todo[s] \ {r} ELSE Pending[t]
    <2>1. CASE t = s BY <2>1, <1>1
    <2>2. CASE t # s BY <2>2, <1>1 DEF Pending
    <2>3. QED BY <2>1, <2>2
  <1>4. Pending' = [t \in Senders |-> IF t = s THEN todo[s] \ {r} ELSE Pending[t]]
    BY <1>3 DEF Pending
  <1>5. QED BY <1>2, <1>4 DEF Pending

LEMMA SendPulseKept ==
    ASSUME CInv, ~wiped, NEW s \in Senders, NEW r \in Readers, SendPulse(s, r)
    PROVE  Delivery!Deliver(s, r)
  <1>1. Hold /\ TInv BY DEF CInv, LInv
  <1>2. PICK b : b = block[s] OBVIOUS
  <1>3. /\ Told(s, r) /\ r \in todo[s] /\ b \in Blocks
        /\ last' = last /\ content[b] = <<s, last[s]>>
    BY <1>1, <1>2, ToldEffect DEF SendPulse, Hold, Told
  <1>4. /\ pulses' = [pulses EXCEPT ![r] = Append(@, b)]
        /\ content' = content /\ wiped' = wiped /\ current' = current /\ seen' = seen
    BY <1>2 DEF SendPulse, ringVars
  <1>5. Pending' = [Pending EXCEPT ![s] = @ \ {r}] /\ Pending[s] = todo[s]
    BY <1>1, <1>3, ToldPending
  <1>6. AtWork' = AtWork BY <1>4 DEF AtWork
  <1>7. Inbox' = [Inbox EXCEPT ![r] = Append(@, <<s, last[s]>>)]
    <2>1. PICK q : q = pulses[r] OBVIOUS
    <2>2. q \in Seq(Blocks) /\ Append(q, b) \in Seq(Blocks)
      BY <2>1, <1>1, <1>3 DEF TInv, TypeOK
    <2>3. PICK f : f = [i \in DOMAIN q |-> content[q[i]]] OBVIOUS
    <2>4. f \in Seq(Events)
      <3>1. \A i \in DOMAIN q : content[q[i]] \in Events
        BY <1>1, <2>1 DEF TInv, Written, Range
      <3>2. DOMAIN q = 1..Len(q) /\ Len(q) \in Nat BY <2>2
      <3>3. QED BY <2>3, <3>1, <3>2
    <2>5. [i \in DOMAIN Append(q, b) |-> content[Append(q, b)[i]]] = Append(f, <<s, last[s]>>)
      <3>1. /\ DOMAIN Append(q, b) = 1..(Len(q) + 1)
            /\ DOMAIN q = 1..Len(q) /\ Len(q) \in Nat
            /\ \A i \in 1..Len(q) : Append(q, b)[i] = q[i]
            /\ Append(q, b)[Len(q) + 1] = b
        BY <2>2, <1>3
      <3>2. Len(f) = Len(q) /\ DOMAIN f = 1..Len(q)
        BY <2>3, <2>4, <3>1
      <3>3. <<s, last[s]>> \in Events
        BY <1>1 DEF TInv, TypeOK, Events
      <3>4. PICK g : g = Append(f, <<s, last[s]>>) OBVIOUS
      <3>5. /\ g \in Seq(Events) /\ DOMAIN g = 1..(Len(q) + 1)
            /\ \A i \in 1..Len(q) : g[i] = f[i]
            /\ g[Len(q) + 1] = <<s, last[s]>>
        BY <2>4, <3>2, <3>3, <3>4
      <3>6. \A i \in 1..(Len(q) + 1) : g[i] = content[Append(q, b)[i]]
        <4>1. ASSUME NEW i \in 1..(Len(q) + 1) PROVE g[i] = content[Append(q, b)[i]]
          <5>1. CASE i \in 1..Len(q) BY <5>1, <3>1, <3>5, <2>3
          <5>2. CASE i = Len(q) + 1 BY <5>2, <3>1, <3>5, <1>3
          <5>3. QED BY <5>1, <5>2, <3>1
        <4>2. QED BY <4>1
      <3>7. g = [i \in 1..(Len(q) + 1) |-> g[i]]
        BY <3>5
      <3>8. QED BY <3>1, <3>4, <3>6, <3>7
    <2>6. \A t \in Readers : pulses'[t] = IF t = r THEN Append(q, b) ELSE pulses[t]
      BY <2>1, <1>1, <1>4 DEF TInv, TypeOK
    <2>7. ASSUME NEW t \in Readers
          PROVE  [i \in DOMAIN pulses'[t] |-> content'[pulses'[t][i]]] =
                    IF t = r THEN Append(f, <<s, last[s]>>) ELSE Inbox[t]
      <3>1. CASE t = r
        <4>1. pulses'[t] = Append(q, b) BY <3>1, <2>6
        <4>2. QED BY <3>1, <4>1, <2>5, <1>4
      <3>2. CASE t # r
        <4>1. pulses'[t] = pulses[t] BY <3>2, <2>6
        <4>2. Inbox[t] = [i \in DOMAIN pulses[t] |-> content[pulses[t][i]]]
          BY DEF Inbox
        <4>3. QED BY <3>2, <4>1, <4>2, <1>4
      <3>3. QED BY <3>1, <3>2
    <2>8. Inbox[r] = f BY <2>1, <2>3 DEF Inbox
    <2>9. Inbox' = [t \in Readers |-> IF t = r THEN Append(f, <<s, last[s]>>) ELSE Inbox[t]]
      BY <2>7 DEF Inbox
    <2>10. QED BY <2>8, <2>9 DEF Inbox
  <1>8. QED BY <1>3, <1>4, <1>5, <1>6, <1>7
            DEF Delivery!Deliver, Pending, Inbox, AtWork

LEMMA SendFailsKept ==
    ASSUME CInv, ~wiped, NEW s \in Senders, NEW r \in Readers, SendFails(s, r)
    PROVE  Delivery!GiveUp(s, {r})
  <1>1. Hold /\ TInv BY DEF CInv, LInv
  <1>2. /\ Told(s, r) /\ r \in todo[s] /\ last' = last
        /\ content' = content /\ wiped' = wiped
        /\ pulses' = pulses /\ current' = current /\ seen' = seen
    BY <1>1, ToldEffect DEF SendFails, readerVars
  <1>3. Pending' = [Pending EXCEPT ![s] = @ \ {r}] /\ Pending[s] = todo[s]
    BY <1>1, <1>2, ToldPending
  <1>4. Inbox' = Inbox /\ AtWork' = AtWork BY <1>2 DEF Inbox, AtWork
  <1>5. QED BY <1>2, <1>3, <1>4 DEF Delivery!GiveUp, Pending, Inbox, AtWork

LEMMA SenderDiesKept ==
    ASSUME CInv, ~wiped, NEW s \in Senders, SenderDies(s), NEW R, R = Pending[s]
    PROVE  Delivery!GiveUp(s, R)
  <1>1. /\ last' = last /\ content' = content /\ wiped' = wiped
        /\ pulses' = pulses /\ current' = current /\ seen' = seen /\ todo' = todo
        /\ sPc' = [sPc EXCEPT ![s] = "down"]
    BY DEF SenderDies, readerVars, ringVars
  <1>2. \A t \in Senders : sPc'[t] = IF t = s THEN "down" ELSE sPc[t]
    BY <1>1 DEF CInv, TInv, TypeOK
  <1>3. Pending' = [Pending EXCEPT ![s] = @ \ R]
    <2>1. ASSUME NEW t \in Senders
          PROVE  (IF sPc'[t] = "send" THEN todo'[t] ELSE {}) =
                    IF t = s THEN {} ELSE Pending[t]
      BY <1>1, <1>2 DEF Pending
    <2>2. Pending' = [t \in Senders |-> IF t = s THEN {} ELSE Pending[t]]
      BY <2>1 DEF Pending
    <2>3. Pending[s] \ R = {} OBVIOUS
    <2>4. QED BY <2>2, <2>3 DEF Pending
  <1>4. Inbox' = Inbox /\ AtWork' = AtWork BY <1>1 DEF Inbox, AtWork
  <1>5. QED BY <1>1, <1>3, <1>4 DEF Delivery!GiveUp, Pending, Inbox, AtWork

LEMMA GetPulseKept ==
    ASSUME CInv, ~wiped, NEW r \in Readers, GetPulse(r)
    PROVE  Delivery!Take(r)
  <1>1. TInv BY DEF CInv
  <1>2. PICK q : q = pulses[r] OBVIOUS
  <1>3. PICK b : b = Head(q) OBVIOUS
  <1>4. /\ current' = [current EXCEPT ![r] = b]
        /\ seen' = [seen EXCEPT ![r][content[b][1]] = content[b][2]]
        /\ pulses' = [pulses EXCEPT ![r] = Tail(q)]
        /\ content' = content /\ wiped' = wiped
        /\ sPc' = sPc /\ todo' = todo /\ last' = last
        /\ q # <<>>
    BY <1>2, <1>3 DEF GetPulse, ringVars, senderVars
  <1>5. q \in Seq(Blocks) /\ current[r] = NoBlock
    BY <1>1, <1>2 DEF TInv, TypeOK, Shape, GetPulse
  <1>6. /\ b \in Blocks /\ b = q[1]
        /\ Len(q) \in Nat /\ Len(q) >= 1 /\ DOMAIN q = 1..Len(q)
        /\ DOMAIN Tail(q) = 1..(Len(q) - 1)
        /\ \A i \in 1..(Len(q) - 1) : Tail(q)[i] = q[i + 1]
    BY <1>3, <1>4, <1>5
  <1>7. PICK f : f = [i \in DOMAIN q |-> content[q[i]]] OBVIOUS
  <1>8. /\ f \in Seq(Events) /\ f # <<>> /\ Head(f) = content[b]
        /\ Tail(f) = [i \in DOMAIN Tail(q) |-> content[Tail(q)[i]]]
    <2>1. \A i \in DOMAIN q : content[q[i]] \in Events
      BY <1>1, <1>2 DEF TInv, Written, Range
    <2>2. f \in Seq(Events) /\ Len(f) = Len(q)
      BY <1>6, <1>7, <2>1
    <2>3. f # <<>> /\ Head(f) = content[b]
      BY <2>2, <1>6, <1>7
    <2>4. PICK g : g = Tail(f) OBVIOUS
    <2>5. /\ g \in Seq(Events) /\ DOMAIN g = 1..(Len(q) - 1)
          /\ \A i \in 1..(Len(q) - 1) : g[i] = f[i + 1]
      BY <2>2, <2>3, <2>4, <1>6
    <2>6. \A i \in 1..(Len(q) - 1) : g[i] = content[Tail(q)[i]]
      BY <2>5, <1>6, <1>7
    <2>7. g = [i \in 1..(Len(q) - 1) |-> g[i]]
      BY <2>5
    <2>8. QED BY <2>2, <2>3, <2>4, <2>6, <2>7, <1>6
  <1>9. Inbox[r] = f BY <1>2, <1>7 DEF Inbox
  <1>10. Inbox' = [Inbox EXCEPT ![r] = Tail(f)]
    <2>1. \A t \in Readers : pulses'[t] = IF t = r THEN Tail(q) ELSE pulses[t]
      BY <1>1, <1>4 DEF TInv, TypeOK
    <2>2. ASSUME NEW t \in Readers
          PROVE  [i \in DOMAIN pulses'[t] |-> content'[pulses'[t][i]]] =
                    IF t = r THEN Tail(f) ELSE Inbox[t]
      <3>1. CASE t = r BY <3>1, <2>1, <1>4, <1>8
      <3>2. CASE t # r
        <4>1. pulses'[t] = pulses[t] BY <3>2, <2>1
        <4>2. Inbox[t] = [i \in DOMAIN pulses[t] |-> content[pulses[t][i]]]
          BY DEF Inbox
        <4>3. QED BY <3>2, <4>1, <4>2, <1>4
      <3>3. QED BY <3>1, <3>2
    <2>3. Inbox' = [t \in Readers |-> IF t = r THEN Tail(f) ELSE Inbox[t]]
      BY <2>2 DEF Inbox
    <2>4. QED BY <2>3 DEF Inbox
  <1>11. AtWork[r] = NoEvent BY <1>5 DEF AtWork
  <1>12. AtWork' = [AtWork EXCEPT ![r] = content[b]]
    <2>1. \A t \in Readers : current'[t] = IF t = r THEN b ELSE current[t]
      BY <1>1, <1>4 DEF TInv, TypeOK
    <2>2. b # NoBlock BY <1>6, BlocksType
    <2>3. \A t \in Readers :
             (IF current'[t] = NoBlock THEN NoEvent ELSE content'[current'[t]]) =
                IF t = r THEN content[b] ELSE AtWork[t]
      BY <2>1, <2>2, <1>4 DEF AtWork
    <2>4. AtWork' = [t \in Readers |-> IF t = r THEN content[b] ELSE AtWork[t]]
      BY <2>3 DEF AtWork
    <2>5. QED BY <2>4 DEF AtWork
  <1>13. Pending' = Pending BY <1>4 DEF Pending
  <1>14. PICK e : e = content[b] OBVIOUS
  <1>15. /\ Inbox[r] # <<>> /\ Head(Inbox[r]) = e /\ Tail(Inbox[r]) = Tail(f)
         /\ seen' = [seen EXCEPT ![r][e[1]] = e[2]]
    BY <1>4, <1>8, <1>9, <1>14
  <1>16. QED BY <1>4, <1>10, <1>11, <1>12, <1>13, <1>14, <1>15
             DEF Delivery!Take, Pending, Inbox, AtWork

LEMMA ReleaseKept ==
    ASSUME CInv, ~wiped, NEW r \in Readers, MessageHandled(r) \/ HandlerThrows(r)
    PROVE  Delivery!Handled(r)
  <1>1. TInv BY DEF CInv
  <1>2. /\ current' = [current EXCEPT ![r] = NoBlock]
        /\ content' = content /\ wiped' = wiped /\ pulses' = pulses /\ seen' = seen
        /\ sPc' = sPc /\ todo' = todo /\ last' = last
    BY DEF MessageHandled, HandlerThrows, senderVars
  <1>3. current[r] \in Blocks /\ content[current[r]] \in Events
    BY <1>1, BlocksType DEF MessageHandled, HandlerThrows, TInv, Shape, Written
  <1>4. AtWork[r] # NoEvent
    BY <1>3, BlocksType, ChannelAssumption DEF AtWork, Events
  <1>5. AtWork' = [AtWork EXCEPT ![r] = NoEvent]
    <2>1. \A t \in Readers : current'[t] = IF t = r THEN NoBlock ELSE current[t]
      BY <1>1, <1>2 DEF TInv, TypeOK
    <2>2. \A t \in Readers :
             (IF current'[t] = NoBlock THEN NoEvent ELSE content'[current'[t]]) =
                IF t = r THEN NoEvent ELSE AtWork[t]
      BY <2>1, <1>2 DEF AtWork
    <2>3. AtWork' = [t \in Readers |-> IF t = r THEN NoEvent ELSE AtWork[t]]
      BY <2>2 DEF AtWork
    <2>4. QED BY <2>3 DEF AtWork
  <1>6. Inbox' = Inbox /\ Pending' = Pending BY <1>2 DEF Inbox, Pending
  <1>7. QED BY <1>2, <1>4, <1>5, <1>6
            DEF Delivery!Handled, Pending, Inbox, AtWork

LEMMA StepKept ==
    ASSUME CInv, [Next]_vars
    PROVE  [Delivery!Next]_(Delivery!vars)
  <1>1. UNCHANGED Mapped => UNCHANGED Delivery!vars
    BY DEF Mapped, Pending, Inbox, AtWork, Delivery!vars
  <1>2. CASE wiped'
    BY <1>2 DEF Delivery!Next, Delivery!Break
  <1>3. CASE ~wiped'
    <2>1. wiped' = wiped => ~wiped BY <1>3
    <2>2. CASE Manager
      <3>1. PICK p \in Pairs : StartServer(p) \/ AddSubscriber(p) \/ AddToLists(p)
        BY <2>2 DEF Manager
      <3>2. UNCHANGED <<content, pulses, current, todo, last, seen, sPc>>
        BY <3>1 DEF StartServer, AddSubscriber, AddToLists, ResetRing, senderVars,
                    readerVars, ringVars
      <3>3. ResetRing \/ wiped' = wiped
        BY <3>1 DEF StartServer, AddSubscriber, AddToLists, ringVars
      <3>4. wiped' = wiped
        BY <3>3, <1>3 DEF ResetRing, CInv, TInv, TypeOK
      <3>5. QED BY <3>2, <3>4, <1>1, FrameKept
    <2>3. ASSUME NEW s \in Senders, StartEvent(s) \/ Claim(s) \/ Skip(s) \/ AllocFails(s)
          PROVE  UNCHANGED Mapped
      <3>1. CASE ~Claim(s)
        <4>1. UNCHANGED <<content, wiped, pulses, current, todo, last, seen>>
          BY <2>3, <3>1 DEF StartEvent, Skip, AllocFails, ringVars, readerVars
        <4>2. \A t \in Senders : (sPc'[t] = "send") <=> (sPc[t] = "send")
          BY <2>3, <3>1 DEF StartEvent, Skip, AllocFails, CInv, TInv, TypeOK
        <4>3. QED BY <4>1, <4>2, FrameKept
      <3>2. CASE Claim(s)
        <4>1. UNCHANGED <<content, wiped, pulses, current, last, seen>>
          BY <3>2 DEF Claim, readerVars
        <4>2. \A t \in Senders :
                 /\ (sPc'[t] = "send") <=> (sPc[t] = "send")
                 /\ sPc[t] = "send" => todo'[t] = todo[t]
          BY <3>2 DEF Claim, CInv, TInv, TypeOK
        <4>3. Pending' = Pending BY <4>2 DEF Pending
        <4>4. Inbox' = Inbox /\ AtWork' = AtWork BY <4>1 DEF Inbox, AtWork
        <4>5. QED BY <4>1, <4>3, <4>4 DEF Mapped
      <3>3. QED BY <3>1, <3>2
    <2>4. ASSUME NEW s \in Senders, Write(s)
          PROVE  \E R \in SUBSET Readers : Delivery!Announce(s, R)
      <3>1. PICK R \in SUBSET Readers : R = todo[s] BY DEF CInv, TInv, TypeOK
      <3>2. Delivery!Announce(s, R) BY <2>1, <2>4, <3>1, WriteKept DEF Write
      <3>3. QED BY <3>2
    <2>5. ASSUME NEW s \in Senders, NEW r \in Readers, SendPulse(s, r)
          PROVE  Delivery!Deliver(s, r)
      BY <2>1, <2>5, SendPulseKept DEF SendPulse, ringVars
    <2>6. ASSUME NEW s \in Senders, NEW r \in Readers, SendFails(s, r)
          PROVE  \E R \in SUBSET Readers : Delivery!GiveUp(s, R)
      <3>1. Delivery!GiveUp(s, {r}) /\ {r} \in SUBSET Readers
        BY <2>1, <2>6, SendFailsKept DEF SendFails
      <3>2. QED BY <3>1
    <2>7. ASSUME NEW s \in Senders, SenderDies(s)
          PROVE  \E R \in SUBSET Readers : Delivery!GiveUp(s, R)
      <3>1. PICK R \in SUBSET Readers : R = Pending[s]
        BY DEF Pending, CInv, TInv, TypeOK
      <3>2. Delivery!GiveUp(s, R)
        BY <2>1, <2>7, <3>1, SenderDiesKept DEF SenderDies, ringVars
      <3>3. QED BY <3>2
    <2>8. ASSUME NEW r \in Readers, GetPulse(r) PROVE Delivery!Take(r)
      BY <2>1, <2>8, GetPulseKept DEF GetPulse, ringVars
    <2>9. ASSUME NEW r \in Readers, MessageHandled(r) \/ HandlerThrows(r)
          PROVE  Delivery!Handled(r)
      BY <2>1, <2>9, ReleaseKept DEF MessageHandled, HandlerThrows
    <2>10. ASSUME NEW r \in Readers, ReaderDies(r) PROVE UNCHANGED Mapped
      <3>1. UNCHANGED <<content, wiped, pulses, current, todo, last, seen, sPc>>
        BY <2>10 DEF ReaderDies, ringVars, senderVars
      <3>2. QED BY <3>1, FrameKept
    <2>11. CASE UNCHANGED vars
      <3>1. UNCHANGED <<content, wiped, pulses, current, todo, last, seen, sPc>>
        BY <2>11 DEF vars, ringVars, readerVars, senderVars
      <3>2. QED BY <3>1, <1>1, FrameKept
    <2>12. CASE \E s \in Senders : StartEvent(s) \/ Sending(s) \/ SenderDies(s)
      BY <2>12, <1>1, <2>3, <2>4, <2>5, <2>6, <2>7 DEF Sending, Delivery!Next
    <2>13. CASE \E r \in Readers : Reading(r) \/ HandlerThrows(r) \/ ReaderDies(r)
      BY <2>13, <1>1, <2>8, <2>9, <2>10 DEF Reading, Delivery!Next
    <2>14. QED BY <2>2, <2>11, <2>12, <2>13 DEF Next
  <1>4. QED BY <1>2, <1>3

\* The channel implements EventDelivery: whatever the blocks, the claims and
\* the faults, a reader gets the events it was handed, unchanged and in order,
\* until an activation resets the ring under an event on its way.
THEOREM ChannelKeepsPromise == Spec => KeepsPromise
  <1>1. Init => Delivery!Init BY InitKept
  <1>2. CInv /\ [Next]_vars => [Delivery!Next]_(Delivery!vars) BY StepKept
  <1>3. QED BY <1>1, <1>2, CInvTheorem, PTL DEF Spec, KeepsPromise, Delivery!Spec

Promise == INSTANCE EventDeliveryProofs WITH
    pending <- Pending, inbox <- Inbox, reading <- AtWork, broken <- wiped

\* A reader meets the events of a sender in their order, none of them twice.
THEOREM EventsInOrder == Spec => []InOrder
  <1>1. Init => Promise!Init
    BY InitKept DEF Delivery!Init, Promise!Init, Pending, Inbox, AtWork
  <1>2. CInv /\ [Next]_vars => [Promise!Next]_(Promise!vars)
    <2> SUFFICES ASSUME CInv, [Next]_vars PROVE [Promise!Next]_(Promise!vars)
      OBVIOUS
    <2>1. [Delivery!Next]_(Delivery!vars) BY StepKept
    <2>2. UNCHANGED Delivery!vars => UNCHANGED Promise!vars
      BY DEF Delivery!vars, Promise!vars, Pending, Inbox, AtWork
    <2>3. Delivery!Next => Promise!Next
      BY DEF Delivery!Next, Promise!Next, Delivery!Break, Promise!Break,
             Delivery!Announce, Promise!Announce, Delivery!GiveUp, Promise!GiveUp,
             Delivery!Deliver, Promise!Deliver, Delivery!Take, Promise!Take,
             Delivery!Handled, Promise!Handled, Pending, Inbox, AtWork
    <2>4. QED BY <2>1, <2>2, <2>3
  <1>3. Promise!InOrder => InOrder
    BY DEF Promise!InOrder, InOrder, Delivery!InOrder, Promise!Ordered,
           Delivery!Ordered, Pending, Inbox, AtWork
  <1>4. Promise!Spec => []Promise!InOrder
    BY Promise!HandedInOrder
  <1>5. QED BY <1>1, <1>2, <1>3, <1>4, CInvTheorem, PTL DEF Spec, Promise!Spec
=============================================================================
