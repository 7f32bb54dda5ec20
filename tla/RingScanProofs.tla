--------------------------- MODULE RingScanProofs ---------------------------
(***************************************************************************)
(* For any number of workers and slots: a request that waits is passed     *)
(* over by each worker at most once for every other slot.                  *)
(***************************************************************************)
EXTENDS RingScan, TLAPS

\* How many slots a pass of w, from its `next` on, looks at before s.
Ahead(w, s) == IF s >= next[w] THEN s - next[w] ELSE s - next[w] + NSlots

\* What w took while s waited came before s in w's order; a pass that is
\* beyond s already began before the request was there.
Waits(w, s) ==
    IF i[w] <= Ahead(w, s) THEN passed[w][s] <= NSlots - 1 - Ahead(w, s)
    ELSE passed[w][s] = 0

\* A slot being served is its worker's alone.
Served ==
    \A w \in Workers : serving[w] # NSlots =>
        /\ state[serving[w]] = "PROCESSING"
        /\ \A v \in Workers : serving[v] = serving[w] => v = w

IInv ==
    /\ TypeOK
    /\ \A w \in Workers, s \in Slots :
          IF state[s] = "SUBMITTED" THEN Waits(w, s) ELSE passed[w][s] = 0
    /\ Served

-----------------------------------------------------------------------------
\* An index that has run past the last slot once wraps round to where it is
\* beyond (the index arithmetic of server_take_from and After).
LEMMA Wrap ==
    ASSUME NEW n \in Nat \ {0}, NEW a \in 0 .. 2 * n - 1
    PROVE  a % n = IF a < n THEN a ELSE a - n
<1>1. CASE a < n
  BY <1>1, SMT
<1>2. CASE a >= n
  <2>1. a = n + (a - n) /\ a - n \in 0 .. n - 1
    BY <1>2, SMT
  <2> QED
    BY <1>2, <2>1, SMT
<1> QED
  BY <1>1, <1>2

\* The slot an index of the scan stands for, without the remainder.
LEMMA Looked ==
    ASSUME NSlots \in Nat \ {0}, TypeOK, NEW w \in Workers
    PROVE  LET a == next[w] + i[w] IN
           /\ a % NSlots = IF a < NSlots THEN a ELSE a - NSlots
           /\ a % NSlots \in Slots
<1> DEFINE a == next[w] + i[w]
<1>1. next[w] \in Slots /\ i[w] \in Slots
  BY DEF TypeOK
<1>2. next[w] + i[w] \in 0 .. 2 * NSlots - 1
  BY <1>1, SMT DEF Slots
<1>3. a % NSlots = IF a < NSlots THEN a ELSE a - NSlots
  BY <1>2, Wrap, Zenon
<1>4. a % NSlots \in Slots
  BY <1>1, <1>3, SMT DEF Slots
<1> QED
  BY <1>3, <1>4, Zenon

\* One slot further round the ring.
LEMMA Further ==
    ASSUME NSlots \in Nat \ {0}, NEW s \in Slots
    PROVE  /\ (s + 1) % NSlots = IF s = NSlots - 1 THEN 0 ELSE s + 1
           /\ (s + 1) % NSlots \in Slots
<1> DEFINE a == s + 1
<1>1. a \in 0 .. 2 * NSlots - 1
  BY SMT DEF Slots
<1>2. a % NSlots = IF a < NSlots THEN a ELSE a - NSlots
  <2> HIDE DEF a
  <2> QED
    BY <1>1, Wrap, Zenon
<1> QED
  BY <1>2, SMT DEF Slots

-----------------------------------------------------------------------------
\* Nothing waits at first.
LEMMA Initially == NSlots \in Nat \ {0} /\ Init => IInv
<1> SUFFICES ASSUME NSlots \in Nat \ {0}, Init PROVE IInv
  OBVIOUS
<1>1. TypeOK
  BY SMT DEF Init, TypeOK, Slots, MaxPassed
<1>3. Served
  BY Zenon DEF Init, Served
<1>2. ASSUME NEW w \in Workers, NEW s \in Slots
      PROVE  state[s] = "FREE" /\ passed[w][s] = 0
  BY Zenon DEF Init
<1> QED
  BY <1>1, <1>2, <1>3, SMT DEF IInv

\* A request that is submitted has waited for nothing yet.
LEMMA Publishing ==
    ASSUME NSlots \in Nat \ {0}, IInv, NEW s \in Slots, publish(s)
    PROVE  IInv'
<1>1. TypeOK'
  BY SMT DEF IInv, TypeOK, publish
<1>2. ASSUME NEW w \in Workers, NEW t \in Slots
      PROVE  (IF state[t] = "SUBMITTED" THEN Waits(w, t) ELSE passed[w][t] = 0)'
  <2>1. next[w] \in Slots /\ i[w] \in Slots /\ passed[w][t] \in 0 .. MaxPassed
    BY SMT DEF IInv, TypeOK
  <2>2. Waits(w, t)' <=> Waits(w, t)
    BY Zenon DEF Waits, Ahead, publish
  <2>3. CASE t = s
    <3>1. passed[w][t] = 0
      BY <2>3, SMT DEF IInv, publish
    <3> QED
      BY <2>1, <2>2, <3>1, SMT DEF Waits, Ahead, Slots, publish
  <2>4. CASE t # s
    BY <2>2, <2>4, SMT DEF IInv, TypeOK, publish
  <2> QED
    BY <2>3, <2>4, Zenon
<1>3. Served'
  <2> SUFFICES ASSUME NEW w \in Workers, serving[w] # NSlots
               PROVE  /\ state'[serving[w]] = "PROCESSING"
                      /\ \A v \in Workers : serving[v] = serving[w] => v = w
    BY Zenon DEF Served, publish
  <2>1. serving[w] \in Slots /\ state[serving[w]] = "PROCESSING"
    BY SMT DEF IInv, Served, TypeOK
  <2>2. \A v \in Workers : serving[v] = serving[w] => v = w
    BY Zenon DEF IInv, Served
  <2> QED
    BY <2>1, <2>2, SMT DEF IInv, TypeOK, publish
<1> QED
  BY <1>1, <1>2, <1>3, Zenon DEF IInv

\* A request that is taken back waits no longer.
LEMMA GivingUp ==
    ASSUME NSlots \in Nat \ {0}, IInv, NEW s \in Slots, give_up(s)
    PROVE  IInv'
<1>1. TypeOK'
  BY SMT DEF IInv, TypeOK, give_up, Forget, MaxPassed
<1>2. ASSUME NEW w \in Workers, NEW t \in Slots
      PROVE  (IF state[t] = "SUBMITTED" THEN Waits(w, t) ELSE passed[w][t] = 0)'
  <2>1. passed'[w][t] = IF t = s THEN 0 ELSE passed[w][t]
    BY SMT DEF IInv, TypeOK, give_up, Forget
  <2>2. state'[t] = IF t = s THEN "FREE" ELSE state[t]
    BY SMT DEF IInv, TypeOK, give_up
  <2>3. CASE t = s
    BY <2>1, <2>2, <2>3, SMT
  <2>4. CASE t # s
    BY <2>1, <2>2, <2>4, SMT DEF IInv, Waits, Ahead, give_up
  <2> QED
    BY <2>3, <2>4, Zenon
<1>3. Served'
  <2> SUFFICES ASSUME NEW w \in Workers, serving[w] # NSlots
               PROVE  /\ state'[serving[w]] = "PROCESSING"
                      /\ \A v \in Workers : serving[v] = serving[w] => v = w
    BY Zenon DEF Served, give_up
  <2>1. serving[w] \in Slots /\ state[serving[w]] = "PROCESSING"
    BY SMT DEF IInv, Served, TypeOK
  <2>2. \A v \in Workers : serving[v] = serving[w] => v = w
    BY Zenon DEF IInv, Served
  <2> QED
    BY <2>1, <2>2, SMT DEF IInv, TypeOK, give_up
<1> QED
  BY <1>1, <1>2, <1>3, Zenon DEF IInv

\* A slot that is freed had no request waiting in it.
LEMMA Serving ==
    ASSUME NSlots \in Nat \ {0}, IInv, NEW v \in Workers, serve(v)
    PROVE  IInv'
<1>1. TypeOK'
  BY SMT DEF IInv, TypeOK, serve
<1>2. ASSUME NEW w \in Workers, NEW t \in Slots
      PROVE  (IF state[t] = "SUBMITTED" THEN Waits(w, t) ELSE passed[w][t] = 0)'
  <2>1. /\ serving[v] \in Slots /\ state[serving[v]] = "PROCESSING"
        /\ state' = [state EXCEPT ![serving[v]] = "FREE"]
    BY SMT DEF IInv, Served, TypeOK, serve
  <2>2. state'[t] = IF t = serving[v] THEN "FREE" ELSE state[t]
    BY <2>1, SMT DEF IInv, TypeOK
  <2>3. CASE t = serving[v]
    BY <2>1, <2>2, <2>3, SMT DEF IInv, serve
  <2>4. CASE t # serving[v]
    BY <2>2, <2>4, SMT DEF IInv, Waits, Ahead, serve
  <2> QED
    BY <2>3, <2>4, Zenon
<1>3. Served'
  <2> SUFFICES ASSUME NEW w \in Workers, serving'[w] # NSlots
               PROVE  /\ state'[serving'[w]] = "PROCESSING"
                      /\ \A u \in Workers : serving'[u] = serving'[w] => u = w
    BY Zenon DEF Served
  <2>1. w # v /\ serving'[w] = serving[w] /\ serving[w] # NSlots
    BY SMT DEF IInv, TypeOK, serve
  <2>2. /\ serving[w] \in Slots /\ state[serving[w]] = "PROCESSING"
        /\ \A u \in Workers : serving[u] = serving[w] => u = w
    BY <2>1, SMT DEF IInv, Served, TypeOK
  <2>3. serving[v] # serving[w]
    BY <2>1, <2>2, Zenon
  <2> QED
    BY <2>1, <2>2, <2>3, SMT DEF IInv, TypeOK, serve
<1> QED
  BY <1>1, <1>2, <1>3, Zenon DEF IInv

\* The pass goes on, or a request is taken: the order of the pass comes nearer
\* to every request that goes on waiting.
LEMMA Taking ==
    ASSUME NSlots \in Nat \ {0}, IInv, NEW v \in Workers, server_take_from(v)
    PROVE  IInv'
<1> DEFINE s == (next[v] + i[v]) % NSlots
<1>0. /\ TypeOK /\ next[v] \in Slots /\ i[v] \in Slots /\ serving[v] = NSlots
  BY SMT DEF IInv, TypeOK, server_take_from
<1>1. /\ s = IF next[v] + i[v] < NSlots THEN next[v] + i[v] ELSE (next[v] + i[v]) - NSlots
      /\ s \in Slots
  BY <1>0, Looked, Zenon
<1>2. /\ (s + 1) % NSlots = IF s = NSlots - 1 THEN 0 ELSE s + 1
      /\ (s + 1) % NSlots \in Slots
  BY <1>1, Further, Zenon
<1>3. /\ (i[v] + 1) % NSlots = IF i[v] = NSlots - 1 THEN 0 ELSE i[v] + 1
      /\ (i[v] + 1) % NSlots \in Slots
  BY <1>0, Further, Zenon
<1>4. CASE state[s] # "SUBMITTED"
  <2>1. /\ i' = [i EXCEPT ![v] = (i[v] + 1) % NSlots]
        /\ state' = state /\ next' = next /\ serving' = serving /\ passed' = passed
    BY <1>4, Zenon DEF server_take_from
  <2>2. TypeOK'
    BY <1>0, <1>3, <2>1, SMT DEF TypeOK
  <2>3. Served'
    BY <2>1, Zenon DEF IInv, Served
  <2>4. ASSUME NEW w \in Workers, NEW t \in Slots
        PROVE  (IF state[t] = "SUBMITTED" THEN Waits(w, t) ELSE passed[w][t] = 0)'
    <3>1. Ahead(w, t)' = Ahead(w, t)
      BY <2>1, Zenon DEF Ahead
    <3>2. IF state[t] = "SUBMITTED" THEN Waits(w, t) ELSE passed[w][t] = 0
      BY Zenon DEF IInv
    <3>3. CASE w # v \/ state[t] # "SUBMITTED"
      <4>1. w # v => i'[w] = i[w]
        BY <1>0, <2>1, SMT DEF TypeOK
      <4> QED
        BY <2>1, <3>1, <3>2, <3>3, <4>1, SMT DEF Waits
    <3>4. CASE w = v /\ state[t] = "SUBMITTED"
      <4>1. i'[v] = IF i[v] = NSlots - 1 THEN 0 ELSE i[v] + 1
        BY <1>0, <1>3, <2>1, SMT DEF TypeOK
      <4>2. t # s
        BY <1>4, <3>4, Zenon
      <4>3. Ahead(v, t) \in 0 .. NSlots - 1 /\ Ahead(v, t) # i[v]
        BY <1>0, <1>1, <4>2, SMT DEF Ahead, Slots
      <4>4. Waits(v, t)
        BY <3>2, <3>4, Zenon
      <4>5. i[v] \in 0 .. NSlots - 1 /\ passed[v][t] \in Nat
        BY <1>0, SMT DEF TypeOK, Slots
      <4>6. IF i'[v] <= Ahead(v, t) THEN passed[v][t] <= NSlots - 1 - Ahead(v, t) ELSE passed[v][t] = 0
        BY <4>1, <4>3, <4>4, <4>5, SMT DEF Waits
      <4> QED
        BY <2>1, <3>1, <3>4, <4>6, Zenon DEF Waits
    <3> QED
      BY <3>3, <3>4, Zenon
  <2> QED
    BY <2>2, <2>3, <2>4, Zenon DEF IInv
<1>5. CASE state[s] = "SUBMITTED"
  <2>1. /\ state' = [state EXCEPT ![s] = "PROCESSING"]
        /\ serving' = [serving EXCEPT ![v] = s]
        /\ next' = [next EXCEPT ![v] = (s + 1) % NSlots]
        /\ i' = [i EXCEPT ![v] = 0]
        /\ passed' = [Forget(s) EXCEPT ![v] =
              [t \in Slots |-> IF t # s /\ state[t] = "SUBMITTED" THEN Overtake(passed[v][t]) ELSE 0]]
    BY <1>5, Zenon DEF server_take_from, After
  <2> HIDE DEF s
  <2>2. ASSUME NEW w \in Workers, NEW t \in Slots
        PROVE  passed'[w][t] = IF t = s THEN 0
                               ELSE IF w # v THEN passed[w][t]
                               ELSE IF state[t] = "SUBMITTED" THEN Overtake(passed[v][t]) ELSE 0
    BY <1>0, <1>1, <2>1, SMT DEF TypeOK, Forget
  <2>3. TypeOK'
    <3>1. state' \in [Slots -> {"FREE", "SUBMITTED", "PROCESSING"}]
      BY <1>0, <1>1, <2>1, SMT DEF TypeOK
    <3>2. next' \in [Workers -> Slots] /\ i' \in [Workers -> Slots]
      BY <1>0, <1>2, <2>1, SMT DEF TypeOK, Slots
    <3>3. serving' \in [Workers -> Slots \cup {NSlots}]
      BY <1>0, <1>1, <2>1, SMT DEF TypeOK
    <3>4. Forget(s) \in [Workers -> [Slots -> 0 .. MaxPassed]]
      <4>1. 0 \in 0 .. MaxPassed
        BY SMT DEF MaxPassed
      <4>2. ASSUME NEW w \in Workers
            PROVE  [passed[w] EXCEPT ![s] = 0] \in [Slots -> 0 .. MaxPassed]
        BY <1>0, <1>1, <4>1, SMT DEF TypeOK
      <4> QED
        BY <4>2, Zenon DEF Forget
    <3>5. [t \in Slots |-> IF t # s /\ state[t] = "SUBMITTED" THEN Overtake(passed[v][t]) ELSE 0]
             \in [Slots -> 0 .. MaxPassed]
      BY <1>0, SMT DEF TypeOK, Overtake, MaxPassed
    <3>6. passed' \in [Workers -> [Slots -> 0 .. MaxPassed]]
      BY <2>1, <3>4, <3>5, SMT
    <3> QED
      BY <3>1, <3>2, <3>3, <3>6, Zenon DEF TypeOK
  <2>4. ASSUME NEW w \in Workers, NEW t \in Slots
        PROVE  (IF state[t] = "SUBMITTED" THEN Waits(w, t) ELSE passed[w][t] = 0)'
    <3>1. IF state[t] = "SUBMITTED" THEN Waits(w, t) ELSE passed[w][t] = 0
      BY Zenon DEF IInv
    <3>2. state'[t] = IF t = s THEN "PROCESSING" ELSE state[t]
      BY <1>0, <1>1, <2>1, SMT DEF TypeOK
    <3>3. CASE t = s \/ state[t] # "SUBMITTED"
      BY <2>2, <3>1, <3>2, <3>3, SMT
    <3>4. CASE t # s /\ state[t] = "SUBMITTED" /\ w # v
      <4>1. next'[w] = next[w] /\ i'[w] = i[w] /\ passed'[w][t] = passed[w][t]
        BY <1>0, <2>1, <2>2, <3>4, SMT DEF TypeOK
      <4> QED
        BY <3>1, <3>2, <3>4, <4>1, SMT DEF Waits, Ahead
    <3>5. CASE t # s /\ state[t] = "SUBMITTED" /\ w = v
      <4>1. /\ next'[v] = IF s = NSlots - 1 THEN 0 ELSE s + 1
            /\ i'[v] = 0 /\ passed'[v][t] = Overtake(passed[v][t])
        BY <1>0, <1>2, <2>1, <2>2, <3>5, SMT DEF TypeOK
      <4>2. Waits(v, t) /\ passed[v][t] \in Nat
        BY <1>0, <3>1, <3>5, SMT DEF TypeOK
      <4>3. /\ Ahead(v, t) \in 0 .. NSlots - 1
            /\ Ahead(v, t)' = IF i[v] < Ahead(v, t) THEN Ahead(v, t) - i[v] - 1
                              ELSE Ahead(v, t) + NSlots - i[v] - 1
            /\ Ahead(v, t) # i[v]
        BY <1>0, <1>1, <3>5, <4>1, SMT DEF Ahead, Slots
      <4>4. Overtake(passed[v][t]) <= passed[v][t] + 1
        BY <4>2, SMT DEF Overtake
      <4>5. i[v] \in 0 .. NSlots - 1 /\ Overtake(passed[v][t]) \in Nat
        BY <1>0, <4>2, SMT DEF Slots, Overtake
      <4>6. Overtake(passed[v][t]) <= NSlots - 1 - Ahead(v, t)' /\ 0 <= Ahead(v, t)'
        BY <4>2, <4>3, <4>4, <4>5, SMT DEF Waits
      <4>7. Waits(v, t)'
        BY <4>1, <4>6, Zenon DEF Waits
      <4> QED
        BY <3>2, <3>5, <4>7, Zenon
    <3> QED
      BY <3>3, <3>4, <3>5, Zenon
  <2>5. Served'
    <3> SUFFICES ASSUME NEW w \in Workers, serving'[w] # NSlots
                 PROVE  /\ state'[serving'[w]] = "PROCESSING"
                        /\ \A u \in Workers : serving'[u] = serving'[w] => u = w
      BY Zenon DEF Served
    <3>1. \A u \in Workers : serving'[u] = IF u = v THEN s ELSE serving[u]
      BY <1>0, <2>1, SMT DEF TypeOK
    <3>2. \A u \in Workers : serving[u] # s
      BY <1>1, <1>5, SMT DEF IInv, Served, Slots
    <3>3. CASE w = v
      BY <1>0, <1>1, <2>1, <3>1, <3>2, <3>3, SMT DEF TypeOK
    <3>4. CASE w # v
      <4>1. /\ serving'[w] = serving[w] /\ serving[w] \in Slots /\ state[serving[w]] = "PROCESSING"
            /\ \A u \in Workers : serving[u] = serving[w] => u = w
        BY <1>0, <3>1, <3>4, SMT DEF IInv, Served, TypeOK
      <4>2. state'[serving[w]] = "PROCESSING"
        BY <1>0, <1>1, <2>1, <3>2, <4>1, SMT DEF TypeOK
      <4> QED
        BY <3>1, <3>2, <3>4, <4>1, <4>2, Zenon
    <3> QED
      BY <3>3, <3>4, Zenon
  <2> QED
    BY <2>3, <2>4, <2>5, Zenon DEF IInv
<1> QED
  BY <1>4, <1>5, Zenon

-----------------------------------------------------------------------------
\* Every step keeps the invariant.
LEMMA Steps ==
    ASSUME NSlots \in Nat \ {0}, IInv, [Next]_vars
    PROVE  IInv'
<1>1. CASE \E s \in Slots : publish(s) \/ give_up(s)
  BY <1>1, Publishing, GivingUp, Zenon
<1>2. CASE \E w \in Workers : server_take_from(w) \/ serve(w)
  BY <1>2, Taking, Serving, Zenon
<1>3. CASE UNCHANGED vars
  <2>1. state' = state /\ next' = next /\ i' = i /\ serving' = serving /\ passed' = passed
    BY <1>3, Zenon DEF vars
  <2> QED
    BY <2>1, Zenon DEF IInv, TypeOK, Served, Waits, Ahead
<1> QED
  BY <1>1, <1>2, <1>3, Zenon DEF Next

\* For any number of workers and slots, `next` and the loop counter stay slot
\* indices, and while a request waits each worker takes every other slot once
\* at most: server_take_from cannot pass a slot over for ever.
THEOREM OvertakingIsBounded ==
    ASSUME NSlots \in Nat \ {0}
    PROVE  Spec => [](TypeOK /\ BoundedOvertaking)
<1>1. Init => IInv
  BY Initially, Zenon
<1>2. IInv /\ [Next]_vars => IInv'
  BY Steps, Zenon
<1>3. IInv => TypeOK /\ BoundedOvertaking
  <2> SUFFICES ASSUME IInv, NEW w \in Workers, NEW s \in Slots
               PROVE  passed[w][s] <= NSlots - 1
    BY Zenon DEF IInv, BoundedOvertaking
  <2>1. next[w] \in Slots /\ i[w] \in Slots /\ passed[w][s] \in Nat
    BY SMT DEF IInv, TypeOK
  <2>2. IF state[s] = "SUBMITTED" THEN Waits(w, s) ELSE passed[w][s] = 0
    BY Zenon DEF IInv
  <2> QED
    BY <2>1, <2>2, SMT DEF Waits, Ahead, Slots
<1> QED
  BY <1>1, <1>2, <1>3, PTL DEF Spec
=============================================================================
