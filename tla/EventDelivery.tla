--------------------------- MODULE EventDelivery ---------------------------
(***************************************************************************)
(* What the station's event channel promises.  A sender announces          *)
(* numbered events; each event is handed to a set of readers, one reader   *)
(* after the other; a reader takes what it was handed in that order, one   *)
(* event at a time.  Some readers may never be told of an event (a pulse   *)
(* fails, the sender dies), but what a reader holds in its inbox or is     *)
(* reading is the event it was handed: the ring of memory blocks behind it *)
(* is not visible here.                                                    *)
(*                                                                         *)
(* The promise ends when the channel breaks: starting another reader or    *)
(* publisher resets the ring under the events on their way (see            *)
(* EventChannel), and nothing is promised from then on.                    *)
(***************************************************************************)
EXTENDS Integers, Sequences

CONSTANTS
    Senders, Readers,
    NoEvent    \* the reader handles none; not one of Events

VARIABLES
    last,     \* number of the last event of each sender
    pending,  \* readers its sender has still to tell of it
    inbox,    \* events handed to each reader
    reading,  \* the event a reader handles
    seen,     \* number of the last event of each sender a reader took
    broken

vars == <<last, pending, inbox, reading, seen, broken>>

Events == Senders \X Nat

Init ==
    /\ last = [s \in Senders |-> 0]
    /\ pending = [s \in Senders |-> {}]
    /\ inbox = [r \in Readers |-> <<>>]
    /\ reading = [r \in Readers |-> NoEvent]
    /\ seen = [r \in Readers |-> [s \in Senders |-> 0]]
    /\ broken = FALSE

Announce(s, R) ==
    /\ pending[s] = {}
    /\ last' = [last EXCEPT ![s] = @ + 1]
    /\ pending' = [pending EXCEPT ![s] = R]
    /\ UNCHANGED <<inbox, reading, seen, broken>>

Deliver(s, r) ==
    /\ r \in pending[s]
    /\ inbox' = [inbox EXCEPT ![r] = Append(@, <<s, last[s]>>)]
    /\ pending' = [pending EXCEPT ![s] = @ \ {r}]
    /\ UNCHANGED <<last, reading, seen, broken>>

\* Some readers are never told of the event.
GiveUp(s, R) ==
    /\ R \subseteq pending[s]
    /\ pending' = [pending EXCEPT ![s] = @ \ R]
    /\ UNCHANGED <<last, inbox, reading, seen, broken>>

Take(r) ==
    /\ reading[r] = NoEvent
    /\ inbox[r] # <<>>
    /\ LET e == Head(inbox[r]) IN
       /\ reading' = [reading EXCEPT ![r] = e]
       /\ seen' = [seen EXCEPT ![r][e[1]] = e[2]]
    /\ inbox' = [inbox EXCEPT ![r] = Tail(@)]
    /\ UNCHANGED <<last, pending, broken>>

Handled(r) ==
    /\ reading[r] # NoEvent
    /\ reading' = [reading EXCEPT ![r] = NoEvent]
    /\ UNCHANGED <<last, pending, inbox, seen, broken>>

\* Nothing is promised of the step that breaks the channel, nor after it.
Break == broken'

Next ==
    \/ Break
    \/ \E s \in Senders, R \in SUBSET Readers : Announce(s, R) \/ GiveUp(s, R)
    \/ \E s \in Senders, r \in Readers : Deliver(s, r)
    \/ \E r \in Readers : Take(r) \/ Handled(r)

Spec == Init /\ [][Next]_vars

-----------------------------------------------------------------------------
\* What reader r still has in its inbox of sender s: older first, newer than
\* what r has taken, and older than what r is yet to be told.
Ordered(r, s) ==
    /\ seen[r][s] <= last[s]
    /\ r \in pending[s] => seen[r][s] < last[s]
    /\ \A i \in DOMAIN inbox[r] :
          inbox[r][i][1] = s =>
             /\ seen[r][s] < inbox[r][i][2]
             /\ inbox[r][i][2] <= last[s]
             /\ r \in pending[s] => inbox[r][i][2] < last[s]
             /\ \A j \in 1..(i - 1) :
                   inbox[r][j][1] = s => inbox[r][j][2] < inbox[r][i][2]

\* Every reader is handed the events of a sender in the order in which they
\* were announced, and none of them twice.
InOrder == ~broken => \A r \in Readers, s \in Senders : Ordered(r, s)
=============================================================================
