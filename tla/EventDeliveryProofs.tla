------------------------ MODULE EventDeliveryProofs ------------------------
(***************************************************************************)
(* Whatever keeps the promise of EventDelivery hands each reader the       *)
(* events of a sender in order and none twice.                             *)
(***************************************************************************)
EXTENDS EventDelivery, TLAPS

Typed ==
    /\ last \in [Senders -> Nat]
    /\ pending \in [Senders -> SUBSET Readers]
    /\ inbox \in [Readers -> Seq(Events)]
    /\ seen \in [Readers -> [Senders -> Nat]]

InOrderEverywhere == \A r \in Readers, s \in Senders : Ordered(r, s)

\* Nothing is known of the state once the channel is broken, and it stays so.
IInv == ~broken => Typed /\ InOrderEverywhere

LEMMA InitIInv == Init => IInv
  BY DEF Init, IInv, Typed, InOrderEverywhere, Ordered, Events

LEMMA AnnounceStep ==
    ASSUME Typed, InOrderEverywhere,
           NEW s \in Senders, NEW R \in SUBSET Readers, Announce(s, R)
    PROVE  Typed' /\ InOrderEverywhere'
  <1>1. Typed'
    BY DEF Announce, Typed
  <1>2. ASSUME NEW r \in Readers, NEW t \in Senders PROVE Ordered(r, t)'
    <2>1. Ordered(r, t) BY DEF InOrderEverywhere
    <2>2. last[t] \in Nat /\ seen[r][t] \in Nat BY DEF Typed
    <2>3. \A i \in DOMAIN inbox[r] : inbox[r][i][2] \in Nat
      BY DEF Typed, Events
    <2>4. CASE t = s
      <3>1. last'[t] = last[t] + 1 BY <2>4 DEF Announce, Typed
      <3>2. QED BY <2>1, <2>2, <2>3, <3>1 DEF Ordered, Announce
    <2>5. CASE t # s
      <3>1. last'[t] = last[t] /\ pending'[t] = pending[t]
        BY <2>5 DEF Announce, Typed
      <3>2. QED BY <2>1, <3>1 DEF Ordered, Announce
    <2>6. QED BY <2>4, <2>5
  <1>3. QED BY <1>1, <1>2 DEF InOrderEverywhere

LEMMA DeliverStep ==
    ASSUME Typed, InOrderEverywhere,
           NEW s \in Senders, NEW r \in Readers, Deliver(s, r)
    PROVE  Typed' /\ InOrderEverywhere'
  <1>0. <<s, last[s]>> \in Events BY DEF Typed, Events
  <1>1. Typed'
    BY <1>0 DEF Deliver, Typed
  <1>2. ASSUME NEW q \in Readers, NEW t \in Senders PROVE Ordered(q, t)'
    <2>1. Ordered(q, t) BY DEF InOrderEverywhere
    <2>2. last[t] \in Nat /\ seen[q][t] \in Nat BY DEF Typed
    <2>3. \A i \in DOMAIN inbox[q] : inbox[q][i][2] \in Nat
      BY DEF Typed, Events
    <2>4. pending'[t] \subseteq pending[t]
      BY DEF Deliver, Typed
    <2>5. CASE q # r
      <3>1. inbox'[q] = inbox[q] BY <2>5 DEF Deliver, Typed
      <3>2. QED BY <2>1, <2>4, <3>1 DEF Ordered, Deliver
    <2>6. CASE q = r
      <3>1. inbox[q] \in Seq(Events) BY DEF Typed
      <3>2. inbox'[q] = Append(inbox[q], <<s, last[s]>>)
        BY <2>6 DEF Deliver, Typed
      <3>3. /\ DOMAIN inbox[q] = 1..Len(inbox[q])
            /\ DOMAIN inbox'[q] = 1..(Len(inbox[q]) + 1)
            /\ Len(inbox[q]) \in Nat
            /\ \A i \in 1..Len(inbox[q]) : inbox'[q][i] = inbox[q][i]
            /\ inbox'[q][Len(inbox[q]) + 1] = <<s, last[s]>>
        BY <3>1, <3>2, <1>0
      <3>4. r \in pending[s] /\ r \notin pending'[s]
        BY DEF Deliver, Typed
      <3>5. last' = last /\ seen' = seen BY DEF Deliver
      <3>6. ASSUME NEW i \in DOMAIN inbox'[q], inbox'[q][i][1] = t
            PROVE  /\ seen[q][t] < inbox'[q][i][2]
                   /\ inbox'[q][i][2] <= last[t]
                   /\ q \in pending'[t] => inbox'[q][i][2] < last[t]
                   /\ \A j \in 1..(i - 1) :
                         inbox'[q][j][1] = t => inbox'[q][j][2] < inbox'[q][i][2]
        <4>1. CASE i \in 1..Len(inbox[q])
          <5>1. i \in DOMAIN inbox[q] /\ inbox[q][i][1] = t BY <4>1, <3>3, <3>6
          <5>2. /\ seen[q][t] < inbox[q][i][2]
                /\ inbox[q][i][2] <= last[t]
                /\ q \in pending[t] => inbox[q][i][2] < last[t]
                /\ \A j \in 1..(i - 1) :
                      inbox[q][j][1] = t => inbox[q][j][2] < inbox[q][i][2]
            BY <5>1, <2>1 DEF Ordered
          <5>3. \A j \in 1..(i - 1) : inbox'[q][j] = inbox[q][j]
            BY <4>1, <3>3
          <5>4. inbox'[q][i] = inbox[q][i] BY <4>1, <3>3
          <5>5. QED BY <5>2, <5>3, <5>4, <2>4
        <4>2. CASE i = Len(inbox[q]) + 1
          <5>1. t = s /\ inbox'[q][i][2] = last[s]
            BY <4>2, <3>3, <3>6
          <5>2. \A j \in 1..(i - 1) : inbox'[q][j] = inbox[q][j]
            BY <4>2, <3>3
          <5>3. q \notin pending'[t] BY <5>1, <3>4, <2>6
          <5>4. q \in pending[t] BY <5>1, <3>4, <2>6
          <5>5. \A j \in DOMAIN inbox[q] : inbox[q][j][1] = t => inbox[q][j][2] < last[t]
            BY <5>4, <2>1 DEF Ordered
          <5>6. seen[q][t] < last[t] BY <5>4, <2>1 DEF Ordered
          <5>7. \A j \in 1..(i - 1) : j \in DOMAIN inbox[q] BY <4>2, <3>3
          <5>8. inbox'[q][i][2] = last[t] BY <5>1
          <5>9. \A j \in 1..(i - 1) :
                   inbox'[q][j][1] = t => inbox'[q][j][2] < inbox'[q][i][2]
            BY <5>2, <5>5, <5>7, <5>8
          <5>10. inbox'[q][i][2] <= last[t] BY <5>8, <2>2
          <5>11. QED BY <5>3, <5>6, <5>8, <5>9, <5>10
        <4>3. QED BY <4>1, <4>2, <3>3
      <3>7. QED BY <2>1, <2>4, <3>5, <3>6 DEF Ordered
    <2>7. QED BY <2>5, <2>6
  <1>3. QED BY <1>1, <1>2 DEF InOrderEverywhere

LEMMA GiveUpStep ==
    ASSUME Typed, InOrderEverywhere,
           NEW s \in Senders, NEW R \in SUBSET Readers, GiveUp(s, R)
    PROVE  Typed' /\ InOrderEverywhere'
  <1>1. Typed'
    BY DEF GiveUp, Typed
  <1>2. ASSUME NEW r \in Readers, NEW t \in Senders PROVE Ordered(r, t)'
    <2>1. Ordered(r, t) BY DEF InOrderEverywhere
    <2>2. pending'[t] \subseteq pending[t] BY DEF GiveUp, Typed
    <2>3. QED BY <2>1, <2>2 DEF Ordered, GiveUp
  <1>3. QED BY <1>1, <1>2 DEF InOrderEverywhere

LEMMA TakeStep ==
    ASSUME Typed, InOrderEverywhere, NEW r \in Readers, Take(r)
    PROVE  Typed' /\ InOrderEverywhere'
  <1>1. PICK e : e = Head(inbox[r]) OBVIOUS
  <1>2. inbox[r] \in Seq(Events) /\ inbox[r] # <<>>
    BY DEF Typed, Take
  <1>3. /\ e \in Events /\ e = inbox[r][1]
        /\ Len(inbox[r]) \in Nat /\ Len(inbox[r]) >= 1
        /\ DOMAIN inbox[r] = 1..Len(inbox[r])
        /\ Tail(inbox[r]) \in Seq(Events)
        /\ DOMAIN Tail(inbox[r]) = 1..(Len(inbox[r]) - 1)
        /\ \A i \in 1..(Len(inbox[r]) - 1) : Tail(inbox[r])[i] = inbox[r][i + 1]
    BY <1>1, <1>2
  <1>4. e[1] \in Senders /\ e[2] \in Nat BY <1>3 DEF Events
  <1>5. /\ seen' = [seen EXCEPT ![r][e[1]] = e[2]]
        /\ inbox' = [inbox EXCEPT ![r] = Tail(@)]
        /\ last' = last /\ pending' = pending
    BY <1>1 DEF Take
  <1>6. Typed'
    BY <1>3, <1>4, <1>5 DEF Typed
  <1>7. ASSUME NEW q \in Readers, NEW t \in Senders PROVE Ordered(q, t)'
    <2>1. Ordered(q, t) BY DEF InOrderEverywhere
    <2>2. CASE q # r
      <3>1. inbox'[q] = inbox[q] /\ seen'[q] = seen[q]
        BY <2>2, <1>5 DEF Typed
      <3>2. QED BY <2>1, <3>1, <1>5 DEF Ordered
    <2>3. CASE q = r
      <3>1. inbox'[q] = Tail(inbox[r]) BY <2>3, <1>5 DEF Typed
      <3>2. seen'[q][t] = IF t = e[1] THEN e[2] ELSE seen[q][t]
        BY <2>3, <1>4, <1>5 DEF Typed
      <3>3. /\ seen'[q][t] <= last[t]
            /\ q \in pending[t] => seen'[q][t] < last[t]
        BY <2>1, <2>3, <3>2, <1>3 DEF Ordered
      <3>4. ASSUME NEW i \in 1..(Len(inbox[r]) - 1), inbox[r][i + 1][1] = t
            PROVE  /\ seen'[q][t] < inbox[r][i + 1][2]
                   /\ inbox[r][i + 1][2] <= last[t]
                   /\ q \in pending[t] => inbox[r][i + 1][2] < last[t]
                   /\ \A j \in 1..(i - 1) : inbox[r][j + 1][1] = t =>
                         inbox[r][j + 1][2] < inbox[r][i + 1][2]
        <4>1. i + 1 \in DOMAIN inbox[r] BY <1>3
        <4>2. \A j \in 1..i : inbox[r][j][1] = t =>
                 inbox[r][j][2] < inbox[r][i + 1][2]
          BY <4>1, <2>1, <2>3, <3>4 DEF Ordered
        <4>3. seen'[q][t] < inbox[r][i + 1][2]
          BY <4>1, <4>2, <2>1, <2>3, <3>2, <3>4, <1>3 DEF Ordered
        <4>4. QED BY <4>1, <4>2, <4>3, <2>1, <2>3, <3>4 DEF Ordered
      <3>5. QED BY <3>1, <3>3, <3>4, <1>3, <1>5 DEF Ordered
    <2>4. QED BY <2>2, <2>3
  <1>8. QED BY <1>6, <1>7 DEF InOrderEverywhere

LEMMA HandledStep ==
    ASSUME Typed, InOrderEverywhere, NEW r \in Readers, Handled(r)
    PROVE  Typed' /\ InOrderEverywhere'
  BY DEF Handled, Typed, InOrderEverywhere, Ordered

\* The promise, kept for any number of senders, readers and events: a reader
\* meets the events of a sender in the order of their announcement and none
\* of them twice, until the channel breaks.
THEOREM HandedInOrder == Spec => []InOrder
  <1>1. IInv /\ [Next]_vars => IInv'
    <2> SUFFICES ASSUME IInv, [Next]_vars, ~broken' PROVE (Typed /\ InOrderEverywhere)'
      BY DEF IInv
    <2>1. CASE UNCHANGED vars
      <3>1. ~broken BY <2>1 DEF vars
      <3>2. Typed /\ InOrderEverywhere BY <3>1 DEF IInv
      <3>3. QED BY <2>1, <3>2 DEF vars, Typed, InOrderEverywhere, Ordered
    <2>2. CASE Next
      <3>1. ~broken /\ ~Break
        BY <2>2 DEF Next, Break, Announce, GiveUp, Deliver, Take, Handled
      <3>2. Typed /\ InOrderEverywhere BY <3>1 DEF IInv
      <3>3. CASE \E s \in Senders, R \in SUBSET Readers : Announce(s, R)
        BY <3>2, <3>3, AnnounceStep
      <3>4. CASE \E s \in Senders, R \in SUBSET Readers : GiveUp(s, R)
        BY <3>2, <3>4, GiveUpStep
      <3>5. CASE \E s \in Senders, r \in Readers : Deliver(s, r)
        BY <3>2, <3>5, DeliverStep
      <3>6. CASE \E r \in Readers : Take(r)
        BY <3>2, <3>6, TakeStep
      <3>7. CASE \E r \in Readers : Handled(r)
        BY <3>2, <3>7, HandledStep
      <3>8. QED BY <2>2, <3>1, <3>3, <3>4, <3>5, <3>6, <3>7 DEF Next
    <2>3. QED BY <2>1, <2>2
  <1>2. IInv => InOrder
    BY DEF IInv, InOrder, InOrderEverywhere
  <1>3. QED BY <1>1, <1>2, InitIInv, PTL DEF Spec
=============================================================================
