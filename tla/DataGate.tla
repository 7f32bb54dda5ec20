------------------------------ MODULE DataGate ------------------------------
(***************************************************************************)
(* The gate on the data requests one process has in flight (DataGate in    *)
(* vfs-ipc's concurrent.rs) and the calls that go through it: submit_data  *)
(* and the batches of read_fragmented, with the requests they publish, the *)
(* slots a timeout leaves with the director, and the metadata requests     *)
(* that pass no gate but need a worker too.                                *)
(*                                                                         *)
(* A step is one atomic access (the compare-and-swap loops of `take` and   *)
(* take_one are one access each) or one critical section of `retired`; the *)
(* line's lock is held over several steps of hand_out.  The ring is        *)
(* reduced to who has a slot: Ring models the rest.  A place in line whose *)
(* owner left is dropped from `line` at once (hand_out skips it).  The     *)
(* condition variable is left out: a sleeper looks again after POLL.       *)
(***************************************************************************)
EXTENDS Integers, Sequences, FiniteSets, FiniteSetsExt

CONSTANTS Threads,     \* threads of the process that make data calls
          Slots,       \* the ring's slots
          Limit,       \* DataGate::limit
          NWorkers,    \* the director's worker threads
          Slow,        \* the threads that may be off the processor for STALE
          Mortal,      \* the threads that may be killed at the gate
          Meta, None   \* the owner of a metadata request's slot, and nobody

ASSUME GateAssumption ==
    /\ Limit \in Nat \ {0}
    /\ NWorkers \in Nat \ {0}
    /\ IsFiniteSet(Threads)
    /\ None \notin Threads /\ Meta \notin Threads
    /\ Slow \subseteq Threads /\ Mortal \subseteq Threads

Least(a, b) == IF a < b THEN a ELSE b
Most(a, b) == IF a < b THEN b ELSE a

\* DataGate::new.
reserve == Least(Most(Limit \div 4, 1), Limit - 1)
per_call == (Limit + 1) \div 2

VARIABLES
    avail, queued,         \* the atomics of the gate
    line, lock,            \* the line and the holder of its lock
    retired,               \* slots whose permit stays out
    wstate,                \* a thread's place in line
    pc, ret,               \* where a thread is, and where hand_out returns to
    n, want,               \* its permits, and how many it asked for
    todo,                  \* slots it still has to retire
    freed,                 \* permits reclaim or retire is about to return
    front,                 \* the place hand_out is about to grant
    slot,                  \* the ring: state and owner of each slot
    ahead                  \* who was in line when a thread came to the gate

gate == <<avail, queued, line, lock, retired, wstate, ahead>>
local == <<ret, n, want, todo, freed, front>>
vars == <<gate, pc, local, slot>>

FreeSlot == [st |-> "FREE", by |-> None]

Init ==
    /\ avail = Limit
    /\ queued = 0
    /\ line = << >>
    /\ lock = None
    /\ retired = {}
    /\ wstate = [t \in Threads |-> "GONE"]
    /\ pc = [t \in Threads |-> "idle"]
    /\ ret = [t \in Threads |-> "idle"]
    /\ n = [t \in Threads |-> 0]
    /\ want = [t \in Threads |-> 0]
    /\ todo = [t \in Threads |-> {}]
    /\ freed = [t \in Threads |-> 0]
    /\ front = [t \in Threads |-> None]
    /\ slot = [s \in Slots |-> FreeSlot]
    /\ ahead = [t \in Threads |-> {}]

Goto(t, l) == pc' = [pc EXCEPT ![t] = l]
CallFrom(t, l, r) ==
    /\ Goto(t, l)
    /\ ret' = [ret EXCEPT ![t] = r]
Return(t) ==
    /\ Goto(t, ret[t])
    /\ ret' = [ret EXCEPT ![t] = "idle"]

\* Thread u is no longer in line.
LeaveLine(u) ==
    \E k \in 1 .. Len(line) :
        /\ line[k] = u
        /\ line' = [i \in 1 .. Len(line) - 1 |-> line[IF i < k THEN i ELSE i + 1]]
        /\ ahead' = [t \in Threads |-> ahead[t] \ {u}]

-----------------------------------------------------------------------------
(***************************************************************************)
(* acquire.                                                                *)
(***************************************************************************)

\* A call comes to the gate and looks whether anybody is in line.
acquire(t) ==
    /\ pc[t] = "idle"
    /\ \E k \in 1 .. per_call : want' = [want EXCEPT ![t] = k]
    /\ ahead' = [ahead EXCEPT ![t] = {line[k] : k \in 1 .. Len(line)}]
    /\ Goto(t, IF queued = 0 THEN "take" ELSE "join")
    /\ UNCHANGED <<avail, queued, line, lock, retired, wstate,
                   ret, n, todo, freed, front, slot>>

\* How many permits `take` takes: the first if there is one, further ones
\* only while more than the reserve stays free.
Taken(cur, w) ==
    IF cur = 0 THEN 0 ELSE 1 + Least(Most(cur - 1 - reserve, 0), w - 1)

\* The fast path: take at once; with no permit left, reclaim first; again
\* after a reclaim that returned some, and in the short spin while the line
\* is empty.
take(t) ==
    LET k == Taken(avail, want[t]) IN
    /\ pc[t] \in {"take", "take_again"}
    /\ IF k > 0
       THEN /\ avail' = avail - k
            /\ n' = [n EXCEPT ![t] = k]
            /\ Goto(t, "send")
            /\ UNCHANGED ret
       ELSE /\ IF pc[t] = "take" THEN CallFrom(t, "reclaim", "take_again")
                                 ELSE Goto(t, "spin") /\ UNCHANGED ret
            /\ UNCHANGED <<avail, n>>
    /\ UNCHANGED <<queued, line, lock, retired, wstate, ahead,
                   want, todo, freed, front, slot>>

spin(t) ==
    /\ pc[t] = "spin"
    /\ Goto(t, IF queued = 0 THEN "take_again" ELSE "join")
    /\ UNCHANGED <<gate, local, slot>>

\* The spin is over and no permit came.
spin_ends(t) ==
    /\ pc[t] = "spin"
    /\ Goto(t, "join")
    /\ UNCHANGED <<gate, local, slot>>

\* join_line: the back of the line, under its lock; then hand_out.
join_line(t) ==
    /\ pc[t] = "join"
    /\ lock = None
    /\ line' = Append(line, t)
    /\ queued' = queued + 1
    /\ wstate' = [wstate EXCEPT ![t] = "WAITING"]
    /\ CallFrom(t, "hand_out", "wait")
    /\ UNCHANGED <<avail, lock, retired, ahead, n, want, todo, freed, front,
                   slot>>

\* Mutant: the count goes down for a place that never was in line.
join_line_timeout_counts(t) ==
    /\ pc[t] = "join"
    /\ lock # None
    /\ Goto(t, "idle")
    /\ queued' = queued - 1
    /\ want' = [want EXCEPT ![t] = 0]
    /\ ahead' = [ahead EXCEPT ![t] = {}]
    /\ UNCHANGED <<avail, line, lock, retired, wstate, ret, n, todo, freed,
                   front, slot>>

\* Mutant: the line's lock is waited for without a bound.
join_line_timeout_never(t) == FALSE /\ UNCHANGED vars /\ pc[t] = "join"

\* The lock could not be had before patience ran out.
join_line_timeout(t) ==
    /\ pc[t] = "join"
    /\ lock # None
    /\ Goto(t, "idle")
    /\ want' = [want EXCEPT ![t] = 0]
    /\ ahead' = [ahead EXCEPT ![t] = {}]
    /\ UNCHANGED <<avail, queued, line, lock, retired, wstate, ret, n, todo,
                   freed, front, slot>>

\* Mutant: a waiter only waits.
wait_in_line_asleep(t) ==
    /\ pc[t] = "wait"
    /\ IF wstate[t] = "GRANTED"
       THEN /\ n' = [n EXCEPT ![t] = 1]
            /\ wstate' = [wstate EXCEPT ![t] = "GONE"]
            /\ Goto(t, "send")
       ELSE /\ Goto(t, IF wstate[t] = "GONE" THEN "join" ELSE "poll")
            /\ UNCHANGED <<n, wstate>>
    /\ UNCHANGED <<avail, queued, line, lock, retired, ahead,
                   ret, want, todo, freed, front, slot>>

\* One turn of wait_in_line: a permit was handed over; the place was passed
\* over as stale; or still waiting, and the thread reclaims and hands out
\* what it finds.
wait_in_line(t) ==
    /\ pc[t] = "wait"
    /\ CASE wstate[t] = "GRANTED" ->
              /\ n' = [n EXCEPT ![t] = 1]
              /\ wstate' = [wstate EXCEPT ![t] = "GONE"]
              /\ Goto(t, "send")
              /\ UNCHANGED ret
         [] wstate[t] = "GONE" ->
              /\ Goto(t, "join")
              /\ UNCHANGED <<n, wstate, ret>>
         [] OTHER ->
              /\ CallFrom(t, "reclaim", "poll")
              /\ UNCHANGED <<n, wstate>>
    /\ UNCHANGED <<avail, queued, line, lock, retired, ahead,
                   want, todo, freed, front, slot>>

poll(t) ==
    /\ pc[t] = "poll"
    /\ CallFrom(t, "hand_out", "wait")
    /\ UNCHANGED <<gate, n, want, todo, freed, front, slot>>

\* Patience ran out: the swap WAITING -> GONE, then `queued`.
wait_timeout(t) ==
    /\ pc[t] = "wait"
    /\ wstate[t] = "WAITING"
    /\ wstate' = [wstate EXCEPT ![t] = "GONE"]
    /\ LeaveLine(t)
    /\ Goto(t, "leave")
    /\ UNCHANGED <<avail, queued, lock, retired, local, slot>>

leave(t) ==
    /\ pc[t] = "leave"
    /\ queued' = queued - 1
    /\ Goto(t, "idle")
    /\ want' = [want EXCEPT ![t] = 0]
    /\ ahead' = [ahead EXCEPT ![t] = {}]
    /\ UNCHANGED <<avail, line, lock, retired, wstate, ret, n, todo, freed,
                   front, slot>>

-----------------------------------------------------------------------------
(***************************************************************************)
(* hand_out, release, retire, reclaim.                                     *)
(***************************************************************************)

\* hand_out: nothing to do when nobody is in line; else the line's lock.
hand_out(t) ==
    /\ pc[t] = "hand_out"
    /\ IF queued = 0
       THEN Return(t) /\ UNCHANGED lock
       ELSE /\ lock = None
            /\ lock' = t
            /\ Goto(t, "front")
            /\ UNCHANGED ret
    /\ UNCHANGED <<avail, queued, line, retired, wstate, ahead,
                   n, want, todo, freed, front, slot>>

\* lock_briefly gave up: the permits stay in `avail` for the waiters' polls.
hand_out_busy(t) ==
    /\ pc[t] = "hand_out"
    /\ queued # 0 /\ lock # None
    /\ Return(t)
    /\ UNCHANGED <<gate, n, want, todo, freed, front, slot>>

\* take_one for the place at the front; no place or no permit ends the loop.
hand_out_front(t) ==
    /\ pc[t] = "front"
    /\ IF line = << >> \/ avail = 0
       THEN /\ lock' = None
            /\ Return(t)
            /\ UNCHANGED <<avail, front>>
       ELSE /\ avail' = avail - 1
            /\ front' = [front EXCEPT ![t] = Head(line)]
            /\ Goto(t, "grant")
            /\ UNCHANGED <<lock, ret>>
    /\ UNCHANGED <<queued, line, retired, wstate, ahead, n, want, todo, freed,
                   slot>>

\* A place whose owner has not looked for STALE is passed over.
hand_out_stale(t) ==
    /\ pc[t] = "front"
    /\ line # << >>
    /\ Head(line) \in Slow \/ pc[Head(line)] = "dead"
    /\ wstate' = [wstate EXCEPT ![Head(line)] = "GONE"]
    /\ queued' = queued - 1
    /\ LeaveLine(Head(line))
    /\ UNCHANGED <<avail, lock, retired, pc, local, slot>>

\* Mutant: the permit of a place whose owner left is dropped.
hand_out_grant_loses(t) ==
    LET u == front[t] IN
    /\ pc[t] = "grant"
    /\ IF wstate[u] = "WAITING"
       THEN /\ wstate' = [wstate EXCEPT ![u] = "GRANTED"]
            /\ queued' = queued - 1
            /\ LeaveLine(u)
       ELSE UNCHANGED <<wstate, queued, line, ahead>>
    /\ front' = [front EXCEPT ![t] = None]
    /\ Goto(t, "front")
    /\ UNCHANGED <<avail, lock, retired, ret, n, want, todo, freed, slot>>

\* Mutant: `queued` goes down whether or not the swap succeeded.
hand_out_grant_counts(t) ==
    LET u == front[t] IN
    /\ pc[t] = "grant"
    /\ queued' = queued - 1
    /\ IF wstate[u] = "WAITING"
       THEN /\ wstate' = [wstate EXCEPT ![u] = "GRANTED"]
            /\ LeaveLine(u)
            /\ UNCHANGED avail
       ELSE /\ avail' = avail + 1
            /\ UNCHANGED <<wstate, line, ahead>>
    /\ front' = [front EXCEPT ![t] = None]
    /\ Goto(t, "front")
    /\ UNCHANGED <<lock, retired, ret, n, want, todo, freed, slot>>

\* The swap WAITING -> GRANTED; if the owner left at that moment the permit
\* goes to the next place.
hand_out_grant(t) ==
    LET u == front[t] IN
    /\ pc[t] = "grant"
    /\ IF wstate[u] = "WAITING"
       THEN /\ wstate' = [wstate EXCEPT ![u] = "GRANTED"]
            /\ queued' = queued - 1
            /\ LeaveLine(u)
            /\ UNCHANGED avail
       ELSE /\ avail' = avail + 1
            /\ UNCHANGED <<wstate, queued, line, ahead>>
    /\ front' = [front EXCEPT ![t] = None]
    /\ Goto(t, "front")
    /\ UNCHANGED <<lock, retired, ret, n, want, todo, freed, slot>>

\* The permits are added before the line is looked at.
release(t) ==
    /\ pc[t] = "release"
    /\ avail' = avail + freed[t]
    /\ freed' = [freed EXCEPT ![t] = 0]
    /\ IF freed[t] = 0 THEN Return(t)
                       ELSE Goto(t, "hand_out") /\ UNCHANGED ret
    /\ UNCHANGED <<queued, line, lock, retired, wstate, ahead,
                   n, want, todo, front, slot>>

\* The retired slots the director has finished with.
Finished == {s \in retired : slot[s].st # "ABANDONED"}

\* reclaim takes their permits back.  The fast path takes again only after a
\* reclaim that found some.
reclaim(t) ==
    /\ pc[t] = "reclaim"
    /\ retired' = retired \ Finished
    /\ freed' = [freed EXCEPT ![t] = Cardinality(Finished)]
    /\ IF Finished = {} /\ ret[t] = "take_again"
       THEN CallFrom(t, "spin", "idle")
       ELSE Goto(t, "release") /\ UNCHANGED ret
    /\ UNCHANGED <<avail, queued, line, lock, wstate, ahead,
                   n, want, todo, front, slot>>

\* Permits::retire: the permit of each abandoned slot stays out.  A slot that
\* is on the list already was claimed again since, so the permit kept for it
\* then comes back.
retire(t) ==
    /\ pc[t] = "retire"
    /\ \/ /\ todo[t] = {}
          /\ Goto(t, "drop")
          /\ UNCHANGED <<retired, n, todo, freed, ret>>
       \/ \E s \in todo[t] :
          /\ todo' = [todo EXCEPT ![t] = @ \ {s}]
          /\ n' = [n EXCEPT ![t] = @ - 1]
          /\ IF s \in retired
             THEN /\ freed' = [freed EXCEPT ![t] = 1]
                  /\ CallFrom(t, "release", "retire")
                  /\ UNCHANGED retired
             ELSE /\ retired' = retired \cup {s}
                  /\ UNCHANGED <<freed, pc, ret>>
    /\ UNCHANGED <<avail, queued, line, lock, wstate, ahead, want, front, slot>>

\* The drop of Permits returns the rest.
drop(t) ==
    /\ pc[t] = "drop"
    /\ freed' = [freed EXCEPT ![t] = n[t]]
    /\ n' = [n EXCEPT ![t] = 0]
    /\ want' = [want EXCEPT ![t] = 0]
    /\ ahead' = [ahead EXCEPT ![t] = {}]
    /\ CallFrom(t, "release", "idle")
    /\ UNCHANGED <<avail, queued, line, lock, retired, wstate, todo, front,
                   slot>>

-----------------------------------------------------------------------------
(***************************************************************************)
(* The calls and the ring.                                                 *)
(***************************************************************************)

Of(t) == {s \in Slots : slot[s].by = t /\ slot[s].st # "ABANDONED"}
Busy == {s \in Slots : slot[s].st \in {"PROCESSING", "ABANDONED"}}

\* One request of the call is published, at most one for each permit.
publish(t) ==
    /\ pc[t] = "send"
    /\ Cardinality(Of(t)) < n[t]
    /\ \E s \in Slots :
          /\ slot[s].st = "FREE"
          /\ slot' = [slot EXCEPT ![s] = [st |-> "SUBMITTED", by |-> t]]
    /\ UNCHANGED <<gate, pc, local>>

\* The last one has been: the call waits for its answers.
published(t) ==
    /\ pc[t] = "send"
    /\ Of(t) # {}
    /\ Goto(t, "await")
    /\ UNCHANGED <<gate, local, slot>>

\* All are answered: the slots are released, the permits dropped.
answered(t) ==
    /\ pc[t] = "await"
    /\ \A s \in Of(t) : slot[s].st = "COMPLETED"
    /\ slot' = [s \in Slots |-> IF s \in Of(t) THEN FreeSlot ELSE slot[s]]
    /\ Goto(t, "drop")
    /\ UNCHANGED <<gate, local>>

\* What a slot is once its call gave it up (ring::abandon).
Abandoned(sl) ==
    IF sl.st = "PROCESSING" THEN [sl EXCEPT !.st = "ABANDONED"] ELSE FreeSlot

\* Mutant: a timeout returns all its permits.
give_up_unretired(t) ==
    /\ pc[t] \in {"send", "await"}
    /\ slot' = [s \in Slots |-> IF s \in Of(t) THEN Abandoned(slot[s])
                                               ELSE slot[s]]
    /\ Goto(t, "drop")
    /\ UNCHANGED <<gate, local>>

\* RingFull or Timeout: the slots the director still has are to be retired.
give_up(t) ==
    /\ pc[t] \in {"send", "await"}
    /\ todo' = [todo EXCEPT ![t] = {s \in Of(t) : slot[s].st = "PROCESSING"}]
    /\ slot' = [s \in Slots |-> IF s \in Of(t) THEN Abandoned(slot[s])
                                               ELSE slot[s]]
    /\ Goto(t, "retire")
    /\ UNCHANGED <<gate, ret, n, want, freed, front>>

\* The process's metadata requests, one at a time: no permit is asked for.
meta_submit(s) ==
    /\ slot[s].st = "FREE"
    /\ \A r \in Slots : slot[r].by # Meta
    /\ slot' = [slot EXCEPT ![s] = [st |-> "SUBMITTED", by |-> Meta]]
    /\ UNCHANGED <<gate, pc, local>>

meta_answered(s) ==
    /\ slot[s] = [st |-> "COMPLETED", by |-> Meta]
    /\ slot' = [slot EXCEPT ![s] = FreeSlot]
    /\ UNCHANGED <<gate, pc, local>>

meta_give_up(s) ==
    /\ slot[s].by = Meta
    /\ slot[s].st # "ABANDONED"
    /\ slot' = [slot EXCEPT ![s] = Abandoned(@)]
    /\ UNCHANGED <<gate, pc, local>>

\* A free worker takes a request; its handler returns.
server_take(s) ==
    /\ slot[s].st = "SUBMITTED"
    /\ Cardinality(Busy) < NWorkers
    /\ slot' = [slot EXCEPT ![s].st = "PROCESSING"]
    /\ UNCHANGED <<gate, pc, local>>

server_complete(s) ==
    /\ s \in Busy
    /\ slot' = [slot EXCEPT ![s] = IF @.st = "ABANDONED" THEN FreeSlot
                                   ELSE [@ EXCEPT !.st = "COMPLETED"]]
    /\ UNCHANGED <<gate, pc, local>>

\* The thread is killed at the gate, with the line's lock or without (a game
\* that exits kills all its threads but one).
die(t) ==
    /\ t \in Mortal
    /\ pc[t] \in {"wait", "front", "grant", "hand_out", "release"}
    /\ Goto(t, "dead")
    /\ UNCHANGED <<gate, local, slot>>

-----------------------------------------------------------------------------
AtGate(t) ==
    \/ take(t) \/ spin(t) \/ spin_ends(t)
    \/ join_line(t) \/ wait_in_line(t) \/ poll(t) \/ leave(t)
    \/ hand_out(t) \/ hand_out_busy(t) \/ hand_out_front(t) \/ hand_out_grant(t)
    \/ release(t) \/ reclaim(t) \/ retire(t) \/ drop(t)
    \/ publish(t) \/ published(t) \/ answered(t)

\* What only a clock, or the death of a thread, makes happen.
Patience(t) == join_line_timeout(t) \/ wait_timeout(t)
Deadline(t) == give_up(t)
Stall(t) == hand_out_stale(t) \/ die(t)

MetaStep(s) == meta_submit(s) \/ meta_answered(s) \/ meta_give_up(s)

Next ==
    \/ \E t \in Threads : acquire(t) \/ AtGate(t) \/ Patience(t) \/ Deadline(t)
                                     \/ Stall(t)
    \/ \E s \in Slots : MetaStep(s) \/ server_take(s) \/ server_complete(s)

Spec == Init /\ [][Next]_vars

\* The process's threads run, a spin ends, and a deadline passes for a thread
\* that keeps coming back to look at the clock.
Running(t) == WF_vars(AtGate(t)) /\ SF_vars(spin_ends(t)) /\ SF_vars(Deadline(t))

\* Whatever the director does, and whichever mortal threads are killed.
LiveSpec == Spec /\ \A t \in Threads : Running(t)

-----------------------------------------------------------------------------
\* Every variable has its type: the two atomics of the gate stay within the
\* limit and the number of threads, and no call has more than its share.
TypeOK ==
    /\ avail \in 0 .. Limit
    /\ queued \in 0 .. Cardinality(Threads)
    /\ line \in Seq(Threads)
    /\ lock \in Threads \cup {None}
    /\ retired \subseteq Slots
    /\ wstate \in [Threads -> {"WAITING", "GRANTED", "GONE"}]
    /\ pc \in [Threads -> {"idle", "take", "take_again", "spin", "join", "wait",
                           "poll", "leave", "hand_out", "front", "grant",
                           "release", "reclaim", "retire", "drop", "send",
                           "await", "dead"}]
    /\ ret \in [Threads -> {"idle", "take_again", "wait", "poll", "retire"}]
    /\ n \in [Threads -> 0 .. per_call]
    /\ want \in [Threads -> 0 .. per_call]
    /\ todo \in [Threads -> SUBSET Slots]
    /\ freed \in [Threads -> 0 .. Limit]
    /\ front \in [Threads -> Threads \cup {None}]
    /\ slot \in [Slots -> [st : {"FREE", "SUBMITTED", "PROCESSING", "COMPLETED",
                                 "ABANDONED"},
                           by : Threads \cup {Meta, None}]]
    /\ ahead \in [Threads -> SUBSET Threads]

\* The permits of a thread: its own, those on their way back, the one handed
\* over to it but not picked up yet, and the one it is about to hand over.  A
\* thread that is killed keeps them.
Out(t) == n[t] + freed[t] + (IF wstate[t] = "GRANTED" THEN 1 ELSE 0)
                          + (IF front[t] # None THEN 1 ELSE 0)

\* No permit is lost or made: every one is free, with a caller, on its way
\* from one to the other, or out for a retired slot, whatever timeouts race
\* with grants and whatever slots are used again (hand_out, retire, reclaim).
PermitsConserved ==
    avail + MapThenSumSet(Out, Threads) + Cardinality(retired) = Limit

DataBusy == {s \in Busy : slot[s].by \in Threads}

\* A permit is out for every worker a data request holds, the requests whose
\* caller gave up included ("a permit stands for a worker a data request may
\* be holding"): so data requests never hold more than Limit workers.
PermitPerWorker == Cardinality(DataBusy) + avail <= Limit

\* No barging: a thread has a permit only when everybody who was in line when
\* it came to the gate has been served or has left ("a pipeline that returns
\* its permits and asks again for its next batch goes behind a caller already
\* waiting").
NoBarging ==
    \A t \in Threads : n[t] > 0 \/ wstate[t] = "GRANTED" => ahead[t] = {}

\* Two calls cannot take the whole gate: with no slot retired and at most two
\* calls that have permits, one is left (DataGate's documentation: "two deep
\* reads of slow content leave permits for a third thread's small read,
\* however long they run").
TwoReadsLeaveAPermit ==
    /\ retired = {}
    /\ Cardinality({t \in Threads : Out(t) > 0}) <= 2
    => avail > 0

\* A wait in line has an end too.
Impatient == \A t \in Threads : SF_vars(Patience(t))

\* Nothing here waits for ever: every call returns, although other threads
\* are killed in line, with a permit or with the line's lock, and no handler
\* returns (DataGate: "a thread killed at any point costs the survivors at
\* most a deadline, not a hang").
CallEnds == Impatient =>
    \A t \in Threads : pc[t] \notin {"idle", "dead"} ~> pc[t] \in {"idle", "dead"}

\* The handlers return, nobody is killed, and the metadata requests cease to
\* time out (one that does keeps the slot it was in from being reclaimed).
GoodDays ==
    /\ \A s \in Slots : WF_vars(server_complete(s))
    /\ [](\A t \in Threads : pc[t] # "dead")
    /\ <>[][~ \E s \in Slots : meta_give_up(s)]_vars

\* A caller that stays in line, however long, is served once the director
\* finishes with the requests that were given up: their permits come back
\* although nobody but the waiters looks for them (wait_in_line's reclaim and
\* hand_out).
WaiterServed == GoodDays =>
    \A t \in Threads : wstate[t] = "WAITING" ~> wstate[t] # "WAITING"
=============================================================================
