------------------------------ MODULE RingScan ------------------------------
(***************************************************************************)
(* The order in which the director's workers take requests off the ring:   *)
(* each worker has a RingServer of its own, whose `next` is one past the   *)
(* slot it served last, and server_take_from looks at the slots from there *)
(* on, wrapping round, one compare-and-swap at a time.  Ring abstracts     *)
(* from this order; here the clients are reduced to what they do to the    *)
(* state of a slot: submit a request into it again and again, or take one  *)
(* back at a deadline.                                                     *)
(***************************************************************************)
EXTENDS Integers

CONSTANTS Workers,     \* the director's worker threads
          NSlots       \* geom.slot_count

Slots == 0 .. NSlots - 1

\* Where the count of requests that went before one stops.
MaxPassed == NSlots

VARIABLES
    state,         \* FREE, SUBMITTED or PROCESSING
    next, i,       \* a worker's `next`, and the loop counter of its pass
    serving,       \* the slot it is serving, NSlots for none
    passed         \* requests a worker took since the one in the slot was submitted

vars == <<state, next, i, serving, passed>>

Init ==
    /\ state = [s \in Slots |-> "FREE"]
    /\ next = [w \in Workers |-> 0]
    /\ i = [w \in Workers |-> 0]
    /\ serving = [w \in Workers |-> NSlots]
    /\ passed = [w \in Workers |-> [s \in Slots |-> 0]]

\* A client submits a request into a free slot.
publish(s) ==
    /\ state[s] = "FREE"
    /\ state' = [state EXCEPT ![s] = "SUBMITTED"]
    /\ UNCHANGED <<next, i, serving, passed>>

\* The request in s waits no longer.
Forget(s) == [w \in Workers |-> [passed[w] EXCEPT ![s] = 0]]

\* A client takes back a request no worker has taken.
give_up(s) ==
    /\ state[s] = "SUBMITTED"
    /\ state' = [state EXCEPT ![s] = "FREE"]
    /\ passed' = Forget(s)
    /\ UNCHANGED <<next, i, serving>>

Overtake(n) == IF n < MaxPassed THEN n + 1 ELSE n

\* Mutant: `next` runs past the last slot.
After_unwrapped(s) == s + 1

\* Mutant: the next pass starts at slot 0 again (server_take).
After_zero(s) == 0

\* self.next after slot s was served.
After(s) == (s + 1) % NSlots

\* One slot of server_take_from's pass, and `next` when it is taken.
server_take_from(w) ==
    LET s == (next[w] + i[w]) % NSlots IN
    /\ serving[w] = NSlots
    /\ IF state[s] = "SUBMITTED"
       THEN /\ state' = [state EXCEPT ![s] = "PROCESSING"]
            /\ serving' = [serving EXCEPT ![w] = s]
            /\ next' = [next EXCEPT ![w] = After(s)]
            /\ i' = [i EXCEPT ![w] = 0]
            /\ passed' = [Forget(s) EXCEPT ![w] =
                  [t \in Slots |-> IF t # s /\ state[t] = "SUBMITTED"
                                   THEN Overtake(passed[w][t]) ELSE 0]]
       ELSE /\ i' = [i EXCEPT ![w] = (@ + 1) % NSlots]
            /\ UNCHANGED <<state, next, serving, passed>>

\* The handler returns and its client frees the slot.
serve(w) ==
    /\ serving[w] # NSlots
    /\ state' = [state EXCEPT ![serving[w]] = "FREE"]
    /\ serving' = [serving EXCEPT ![w] = NSlots]
    /\ UNCHANGED <<next, i, passed>>

Next ==
    \/ \E s \in Slots : publish(s) \/ give_up(s)
    \/ \E w \in Workers : server_take_from(w) \/ serve(w)

\* The worker threads run and their handlers return.  The clients may do as
\* they like.
Spec ==
    /\ Init /\ [][Next]_vars
    /\ \A w \in Workers : WF_vars(server_take_from(w) \/ serve(w))

-----------------------------------------------------------------------------
\* Every variable has its type: `next` and the loop counter stay slot indices
\* (server_take_from and serve_one wrap them round).
TypeOK ==
    /\ state \in [Slots -> {"FREE", "SUBMITTED", "PROCESSING"}]
    /\ next \in [Workers -> Slots]
    /\ i \in [Workers -> Slots]
    /\ serving \in [Workers -> Slots \cup {NSlots}]
    /\ passed \in [Workers -> [Slots -> 0 .. MaxPassed]]

\* While a request waits each worker takes every other slot once at most,
\* however fast the other slots are submitted again (ring.rs: "A server thread
\* that starts after the slot it last served cannot pass a waiting high slot
\* over for ever").
BoundedOvertaking ==
    \A w \in Workers, s \in Slots : passed[w][s] <= NSlots - 1

\* A submitted request is taken by a worker, or taken back by its client.
EverySlotTaken == \A s \in Slots : state[s] = "SUBMITTED" ~> state[s] # "SUBMITTED"
=============================================================================
