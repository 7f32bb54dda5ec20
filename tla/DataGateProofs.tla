--------------------------- MODULE DataGateProofs ---------------------------
(***************************************************************************)
(* For any number of threads, slots and permits, with threads killed at     *)
(* the gate and places passed over: nobody overtakes the line.              *)
(***************************************************************************)
EXTENDS DataGate, FiniteSetTheorems, TLAPS

\* The steps another call is made from; Where a thread is in its own call.
Inner == {"hand_out", "front", "grant", "release", "reclaim"}
Where(t) == IF pc[t] \in Inner THEN ret[t] ELSE pc[t]

PCs == {"idle", "take", "take_again", "spin", "join", "wait", "poll", "leave", "hand_out", "front", "grant",
        "release", "reclaim", "retire", "drop", "send", "await", "dead"}

Types ==
  /\ line \in Seq(Threads)
  /\ queued \in Int
  /\ lock \in Threads \cup {None}
  /\ wstate \in [Threads -> {"WAITING", "GRANTED", "GONE"}]
  /\ pc \in [Threads -> PCs]
  /\ ret \in [Threads -> {"idle", "take_again", "wait", "poll", "retire"}]
  /\ DOMAIN n = Threads
  /\ front \in [Threads -> Threads \cup {None}]
  /\ ahead \in [Threads -> SUBSET Threads]

\* What a thread has at each point of its call.
Place(t) ==
  /\ Where(t) \notin {"wait", "poll", "dead"} => wstate[t] = "GONE"
  /\ Where(t) \in {"take", "take_again", "spin", "send", "await", "retire", "drop"} => ahead[t] = {}
  /\ Where(t) \notin {"send", "await", "retire", "drop", "dead"} => n[t] = 0

\* The line holds the waiting threads, each once.
InLine(t) == \E i \in 1 .. Len(line) : line[i] = t
Line ==
  /\ \A i, j \in 1 .. Len(line) : line[i] = line[j] => i = j
  /\ \A t \in Threads : wstate[t] = "WAITING" <=> InLine(t)

\* `queued` counts the line and those that have just left it.
Leaving == {t \in Threads : pc[t] = "leave"}
Count == queued = Len(line) + Cardinality(Leaving)

\* Whoever is ahead of a thread is in line, and before it once it is too.
Before(u, i) == \E j \in 1 .. Len(line) : j < i /\ line[j] = u
Order ==
  /\ \A t \in Threads : \A u \in ahead[t] : wstate[u] = "WAITING"
  /\ \A i \in 1 .. Len(line) : \A u \in ahead[line[i]] : Before(u, i)

\* The lock's holder grants the first place, unless its owner left.
Granting(t) ==
  /\ pc[t] \in {"front", "grant"} => lock = t
  /\ pc[t] = "grant" => front[t] \in Threads /\ (wstate[front[t]] = "WAITING" => line[1] = front[t])

IInv ==
  /\ Types /\ (\A t \in Threads : Place(t)) /\ Line /\ Count /\ Order /\ (\A t \in Threads : Granting(t))
  /\ NoBarging

-----------------------------------------------------------------------------
\* The number of those that have left but not been counted out.
LEMMA LeavingCount ==
    ASSUME Types, NEW t \in Threads
    PROVE  /\ IsFiniteSet(Leaving) /\ Cardinality(Leaving) \in Nat
           /\ Cardinality(Leaving \cup {t}) = IF t \in Leaving THEN Cardinality(Leaving) ELSE Cardinality(Leaving) + 1
           /\ Cardinality(Leaving \ {t}) = IF t \in Leaving THEN Cardinality(Leaving) - 1 ELSE Cardinality(Leaving)
<1>1. IsFiniteSet(Leaving)
  BY GateAssumption, FS_Subset, Zenon DEF Leaving
<1> QED
  BY <1>1, FS_CardinalityType, FS_AddElement, FS_RemoveElement, Zenon

\* A step of one thread that leaves the line alone.
LEMMA Aside ==
    ASSUME IInv, Types', Count', NEW t \in Threads, line' = line,
           \A u \in Threads \ {t} : /\ pc'[u] = pc[u] /\ ret'[u] = ret[u] /\ n'[u] = n[u] /\ front'[u] = front[u]
                                    /\ wstate'[u] = wstate[u] /\ ahead'[u] = ahead[u],
           wstate'[t] = "WAITING" <=> wstate[t] = "WAITING",
           ahead'[t] = ahead[t] \/ (wstate[t] # "WAITING" /\ \A u \in ahead'[t] : wstate[u] = "WAITING"),
           lock' = lock \/ lock \in {None, t},
           Place(t)', Granting(t)', n'[t] > 0 \/ wstate'[t] = "GRANTED" => ahead'[t] = {}
    PROVE  IInv'
<1>1. ASSUME NEW u \in Threads, u # t
      PROVE  Place(u)' /\ Granting(u)' /\ (n'[u] > 0 \/ wstate'[u] = "GRANTED" => ahead'[u] = {})
  <2>1. Place(u) /\ Granting(u)
    BY Zenon DEF IInv
  <2>2. Place(u)'
    BY <1>1, <2>1, Zenon DEF Place, Where
  <2>3. pc[u] \in {"front", "grant"} => lock' = u
    BY <1>1, <2>1, GateAssumption, Zenon DEF Granting
  <2>4. \A v \in Threads : wstate'[v] = "WAITING" <=> wstate[v] = "WAITING"
    BY Zenon
  <2>5. Granting(u)'
    BY <1>1, <2>1, <2>3, <2>4, Zenon DEF Granting
  <2> QED
    BY <1>1, <2>2, <2>5, Zenon DEF IInv, NoBarging
<1>2. Line'
  BY SMTT(60) DEF IInv, Line, InLine
<1>3. Order'
  <2>1. \A i \in 1 .. Len(line) : line[i] \in Threads /\ wstate[line[i]] = "WAITING"
    BY SMTT(60) DEF IInv, Line, InLine, Types
  <2>2. \A u \in Threads : ahead[u] \subseteq Threads /\ ahead'[u] \subseteq Threads
    BY Zenon DEF IInv, Types
  <2>3. ASSUME NEW u \in Threads, NEW v \in ahead'[u] PROVE wstate'[v] = "WAITING"
    BY <2>2, SMTT(60) DEF IInv, Order
  <2>4. ASSUME NEW i \in 1 .. Len(line), NEW v \in ahead'[line[i]] PROVE Before(v, i)'
    <3>1. v \in ahead[line[i]]
      BY <2>1, Zenon
    <3> QED
      BY <3>1, Zenon DEF IInv, Order, Before
  <2> QED
    BY <2>3, <2>4, Zenon DEF Order
<1>4. NoBarging'
  BY <1>1, Zenon DEF NoBarging
<1> QED
  BY <1>1, <1>2, <1>3, <1>4, Zenon DEF IInv

\* Nobody begins or ends leaving.
LEMMA SameCount ==
    ASSUME IInv, Types', NEW t \in Threads, UNCHANGED <<line, queued>>,
           \A u \in Threads \ {t} : pc'[u] = pc[u], pc[t] # "leave", pc'[t] # "leave"
    PROVE  Count'
<1>1. Leaving' = Leaving
  BY Zenon DEF Leaving
<1> QED
  BY <1>1, Zenon DEF IInv, Count

\* A thread leaves the line: the others keep their order.
LEMMA Leaves ==
    ASSUME Types, Line, Order, NEW u \in Threads, LeaveLine(u),
           \A v \in Threads \ {u} : wstate'[v] = wstate[v], wstate'[u] # "WAITING"
    PROVE  /\ line' \in Seq(Threads) /\ Len(line') = Len(line) - 1 /\ Len(line) \in Nat
           /\ ahead' \in [Threads -> SUBSET Threads]
           /\ \A v \in Threads : ahead'[v] = ahead[v] \ {u}
           /\ Line' /\ Order'
           /\ Len(line) > 0 /\ line[1] # u => line'[1] = line[1]
<1>1. PICK k \in 1 .. Len(line) :
          /\ line[k] = u
          /\ line' = [i \in 1 .. Len(line) - 1 |-> line[IF i < k THEN i ELSE i + 1]]
          /\ ahead' = [t \in Threads |-> ahead[t] \ {u}]
  BY Zenon DEF LeaveLine
<1> DEFINE m == Len(line)
           old(i) == IF i < k THEN i ELSE i + 1
<1>2. line \in Seq(Threads) /\ m \in Nat /\ k \in 1 .. m
  BY <1>1, SMTT(60) DEF Types
<1>3. \A i \in 1 .. m - 1 : old(i) \in 1 .. m /\ old(i) # k
  BY <1>2, SMTT(60)
<1>4. \A i \in 1 .. m - 1 : line[old(i)] \in Threads
  BY <1>2, <1>3, SMTT(60)
<1>5. line' \in Seq(Threads) /\ Len(line') = m - 1 /\ \A i \in 1 .. m - 1 : line'[i] = line[old(i)]
  BY <1>1, <1>2, <1>4, SMTT(60)
<1>6. \A i, j \in 1 .. m - 1 : (old(i) = old(j) => i = j) /\ (old(i) < old(j) <=> i < j)
  BY <1>2, SMTT(60)
<1>7. \A i \in 1 .. m : i # k => \E j \in 1 .. m - 1 : old(j) = i
  <2> TAKE i \in 1 .. m
  <2>1. CASE i < k
    <3>1. i \in 1 .. m - 1 /\ old(i) = i
      BY <1>2, <2>1, SMTT(60)
    <3> QED
      BY <3>1, Zenon
  <2>2. CASE i > k
    <3>1. i - 1 \in 1 .. m - 1 /\ old(i - 1) = i
      BY <1>2, <2>2, SMTT(60)
    <3> QED
      BY <3>1, Zenon
  <2> QED
    BY <1>2, <2>1, <2>2, SMTT(60)
<1> HIDE DEF old
<1>8. \A v \in Threads : ahead'[v] = ahead[v] \ {u}
  BY <1>1, Zenon
<1>9. \A i \in 1 .. m : line[i] = u <=> i = k
  BY <1>1, Zenon DEF Line
<1>10. Line'
  <2>1. \A i, j \in 1 .. m - 1 : line'[i] = line'[j] => i = j
    BY <1>3, <1>5, <1>6, SMTT(60) DEF Line
  <2>2. ASSUME NEW t \in Threads PROVE wstate'[t] = "WAITING" <=> InLine(t)'
    <3>1. InLine(t)' => t # u /\ InLine(t)
      BY <1>3, <1>5, <1>9, SMTT(60) DEF InLine
    <3>2. t # u /\ InLine(t) => InLine(t)'
      <4>1. HAVE t # u /\ InLine(t)
      <4>2. PICK i \in 1 .. m : line[i] = t
        BY <4>1, Zenon DEF InLine
      <4>3. PICK j \in 1 .. m - 1 : old(j) = i
        BY <1>7, <1>9, <4>1, <4>2, Zenon
      <4> QED
        BY <1>5, <4>2, <4>3, Zenon DEF InLine
    <3> QED
      BY <3>1, <3>2, Zenon DEF Line
  <2> QED
    BY <1>5, <2>1, <2>2, Zenon DEF Line
<1>11. Order'
  <2>1. ASSUME NEW t \in Threads, NEW v \in ahead'[t] PROVE wstate'[v] = "WAITING"
    BY <1>8, SMTT(60) DEF Order, Types
  <2>2. ASSUME NEW i \in 1 .. m - 1, NEW v \in ahead'[line'[i]] PROVE Before(v, i)'
    <3>1. v # u /\ v \in ahead[line[old(i)]] /\ old(i) \in 1 .. m
      BY <1>3, <1>4, <1>5, <1>8, SMTT(60)
    <3>2. PICK j \in 1 .. m : j < old(i) /\ line[j] = v
      BY <3>1, Zenon DEF Order, Before
    <3>3. PICK l \in 1 .. m - 1 : old(l) = j
      BY <1>7, <1>9, <3>1, <3>2, Zenon
    <3> QED
      BY <1>5, <1>6, <3>2, <3>3, Zenon DEF Before
  <2> QED
    BY <1>5, <2>1, <2>2, Zenon DEF Order
<1>12. m > 0 /\ line[1] # u => line'[1] = line[1]
  <2>1. HAVE m > 0 /\ line[1] # u
  <2>2. 1 \in 1 .. m - 1 /\ old(1) = 1
    BY <1>1, <1>2, <2>1, SMTT(60) DEF old
  <2> QED
    BY <1>5, <2>2, Zenon
<1>13. ahead' \in [Threads -> SUBSET Threads]
  BY <1>1, Zenon DEF Types
<1> QED
  BY <1>2, <1>5, <1>8, <1>10, <1>11, <1>12, <1>13, Zenon

\* The fast path.
LEMMA take_Keeps ==
    ASSUME IInv, NEW t \in Threads, take(t)
    PROVE  IInv'
<1>1. /\ Types /\ Place(t) /\ Granting(t) /\ (n[t] > 0 \/ wstate[t] = "GRANTED" => ahead[t] = {})
      /\ ret[t] \in {"idle", "take_again", "wait", "poll", "retire"}
  BY Zenon DEF IInv, Types, NoBarging
<1>2. Types'
  BY <1>1, SMTT(60) DEF take, Goto, CallFrom, Types, PCs, gate, local
<1>3. /\ line' = line /\ queued' = queued
      /\ \A u \in Threads \ {t} : /\ pc'[u] = pc[u] /\ ret'[u] = ret[u] /\ n'[u] = n[u] /\ front'[u] = front[u]
                                 /\ wstate'[u] = wstate[u] /\ ahead'[u] = ahead[u]
  BY <1>1, Zenon DEF take, Goto, CallFrom, Types, gate, local
<1>4. /\ wstate' = wstate /\ ahead' = ahead /\ lock' = lock
      /\ pc[t] \in {"take", "take_again"}
      /\ \/ pc'[t] = "send"
         \/ pc'[t] = "reclaim" /\ ret'[t] = "take_again" /\ n'[t] = n[t]
         \/ pc'[t] = "spin" /\ n'[t] = n[t]
  BY <1>1, Zenon DEF take, Goto, CallFrom, Types, gate, local
<1>5. Place(t)'
  BY <1>1, <1>4, Zenon DEF Place, Where, Inner
<1>6. Granting(t)'
  BY <1>1, <1>4, GateAssumption, Zenon DEF Granting, Types
<1>7. Count'
  BY <1>1, <1>2, <1>3, <1>4, SameCount, Zenon
<1>8. /\ n'[t] > 0 \/ wstate'[t] = "GRANTED" => ahead'[t] = {}
      /\ wstate'[t] = "WAITING" <=> wstate[t] = "WAITING"
      /\ ahead'[t] = ahead[t] \/ (wstate[t] # "WAITING" /\ \A u \in ahead'[t] : wstate[u] = "WAITING")
      /\ lock' = lock \/ lock \in {None, t}
  BY <1>1, <1>4, <1>5, Zenon DEF Place, Where, Inner, Granting
<1> QED
  BY <1>2, <1>3, <1>5, <1>6, <1>7, <1>8, Aside, Zenon

\* The spin looks at the line.
LEMMA spin_Keeps ==
    ASSUME IInv, NEW t \in Threads, spin(t)
    PROVE  IInv'
<1>1. /\ Types /\ Place(t) /\ Granting(t) /\ (n[t] > 0 \/ wstate[t] = "GRANTED" => ahead[t] = {})
      /\ ret[t] \in {"idle", "take_again", "wait", "poll", "retire"}
  BY Zenon DEF IInv, Types, NoBarging
<1>2. Types'
  BY <1>1, Zenon DEF spin, Goto, Types, PCs, gate, local
<1>3. /\ line' = line /\ queued' = queued
      /\ \A u \in Threads \ {t} : /\ pc'[u] = pc[u] /\ ret'[u] = ret[u] /\ n'[u] = n[u] /\ front'[u] = front[u]
                                 /\ wstate'[u] = wstate[u] /\ ahead'[u] = ahead[u]
  BY <1>1, Zenon DEF spin, Goto, Types, gate, local
<1>4. /\ wstate' = wstate /\ ahead' = ahead /\ lock' = lock
      /\ pc[t] = "spin" /\ pc'[t] \in {"take_again", "join"} /\ n'[t] = n[t]
  BY <1>1, Zenon DEF spin, Goto, Types, gate, local
<1>5. Place(t)'
  BY <1>1, <1>4, Zenon DEF Place, Where, Inner
<1>6. Granting(t)'
  BY <1>1, <1>4, GateAssumption, Zenon DEF Granting, Types
<1>7. Count'
  BY <1>1, <1>2, <1>3, <1>4, SameCount, Zenon
<1>8. /\ n'[t] > 0 \/ wstate'[t] = "GRANTED" => ahead'[t] = {}
      /\ wstate'[t] = "WAITING" <=> wstate[t] = "WAITING"
      /\ ahead'[t] = ahead[t] \/ (wstate[t] # "WAITING" /\ \A u \in ahead'[t] : wstate[u] = "WAITING")
      /\ lock' = lock \/ lock \in {None, t}
  BY <1>1, <1>4, <1>5, Zenon DEF Place, Where, Inner, Granting
<1> QED
  BY <1>2, <1>3, <1>5, <1>6, <1>7, <1>8, Aside, Zenon

\* The spin is over.
LEMMA spin_ends_Keeps ==
    ASSUME IInv, NEW t \in Threads, spin_ends(t)
    PROVE  IInv'
<1>1. /\ Types /\ Place(t) /\ Granting(t) /\ (n[t] > 0 \/ wstate[t] = "GRANTED" => ahead[t] = {})
      /\ ret[t] \in {"idle", "take_again", "wait", "poll", "retire"}
  BY Zenon DEF IInv, Types, NoBarging
<1>2. Types'
  BY <1>1, Zenon DEF spin_ends, Goto, Types, PCs, gate, local
<1>3. /\ line' = line /\ queued' = queued
      /\ \A u \in Threads \ {t} : /\ pc'[u] = pc[u] /\ ret'[u] = ret[u] /\ n'[u] = n[u] /\ front'[u] = front[u]
                                 /\ wstate'[u] = wstate[u] /\ ahead'[u] = ahead[u]
  BY <1>1, Zenon DEF spin_ends, Goto, Types, gate, local
<1>4. /\ wstate' = wstate /\ ahead' = ahead /\ lock' = lock
      /\ pc[t] = "spin" /\ pc'[t] = "join" /\ n'[t] = n[t]
  BY <1>1, Zenon DEF spin_ends, Goto, Types, gate, local
<1>5. Place(t)'
  BY <1>1, <1>4, Zenon DEF Place, Where, Inner
<1>6. Granting(t)'
  BY <1>1, <1>4, GateAssumption, Zenon DEF Granting, Types
<1>7. Count'
  BY <1>1, <1>2, <1>3, <1>4, SameCount, Zenon
<1>8. /\ n'[t] > 0 \/ wstate'[t] = "GRANTED" => ahead'[t] = {}
      /\ wstate'[t] = "WAITING" <=> wstate[t] = "WAITING"
      /\ ahead'[t] = ahead[t] \/ (wstate[t] # "WAITING" /\ \A u \in ahead'[t] : wstate[u] = "WAITING")
      /\ lock' = lock \/ lock \in {None, t}
  BY <1>1, <1>4, <1>5, Zenon DEF Place, Where, Inner, Granting
<1> QED
  BY <1>2, <1>3, <1>5, <1>6, <1>7, <1>8, Aside, Zenon

\* A waiter hands out.
LEMMA poll_Keeps ==
    ASSUME IInv, NEW t \in Threads, poll(t)
    PROVE  IInv'
<1>1. /\ Types /\ Place(t) /\ Granting(t) /\ (n[t] > 0 \/ wstate[t] = "GRANTED" => ahead[t] = {})
      /\ ret[t] \in {"idle", "take_again", "wait", "poll", "retire"}
  BY Zenon DEF IInv, Types, NoBarging
<1>2. Types'
  BY <1>1, Zenon DEF poll, Goto, CallFrom, Types, PCs, gate, local
<1>3. /\ line' = line /\ queued' = queued
      /\ \A u \in Threads \ {t} : /\ pc'[u] = pc[u] /\ ret'[u] = ret[u] /\ n'[u] = n[u] /\ front'[u] = front[u]
                                 /\ wstate'[u] = wstate[u] /\ ahead'[u] = ahead[u]
  BY <1>1, Zenon DEF poll, Goto, CallFrom, Types, gate, local
<1>4. /\ wstate' = wstate /\ ahead' = ahead /\ lock' = lock
      /\ pc[t] = "poll" /\ pc'[t] = "hand_out" /\ ret'[t] = "wait" /\ n'[t] = n[t]
  BY <1>1, Zenon DEF poll, Goto, CallFrom, Types, gate, local
<1>5. Place(t)'
  BY <1>1, <1>4, Zenon DEF Place, Where, Inner
<1>6. Granting(t)'
  BY <1>1, <1>4, GateAssumption, Zenon DEF Granting, Types
<1>7. Count'
  BY <1>1, <1>2, <1>3, <1>4, SameCount, Zenon
<1>8. n'[t] > 0 \/ wstate'[t] = "GRANTED" => ahead'[t] = {}
  BY <1>1, <1>4, Zenon
<1>9. /\ wstate'[t] = "WAITING" <=> wstate[t] = "WAITING"
      /\ ahead'[t] = ahead[t] \/ (wstate[t] # "WAITING" /\ \A u \in ahead'[t] : wstate[u] = "WAITING")
      /\ lock' = lock \/ lock \in {None, t}
  BY <1>1, <1>4, Zenon DEF Granting
<1> QED
  BY <1>2, <1>3, <1>5, <1>6, <1>7, <1>8, <1>9, Aside, Zenon

\* A waiter looks at its place.
LEMMA wait_in_line_Keeps ==
    ASSUME IInv, NEW t \in Threads, wait_in_line(t)
    PROVE  IInv'
<1>1. /\ Types /\ Place(t) /\ Granting(t) /\ (n[t] > 0 \/ wstate[t] = "GRANTED" => ahead[t] = {})
      /\ ret[t] \in {"idle", "take_again", "wait", "poll", "retire"}
  BY Zenon DEF IInv, Types, NoBarging
<1>2. Types'
  BY <1>1, SMTT(60) DEF wait_in_line, Goto, CallFrom, Types, PCs, gate, local
<1>3. /\ line' = line /\ queued' = queued
      /\ \A u \in Threads \ {t} : /\ pc'[u] = pc[u] /\ ret'[u] = ret[u] /\ n'[u] = n[u] /\ front'[u] = front[u]
                                 /\ wstate'[u] = wstate[u] /\ ahead'[u] = ahead[u]
  BY <1>1, Zenon DEF wait_in_line, Goto, CallFrom, Types, gate, local
<1>4. /\ ahead' = ahead /\ lock' = lock /\ pc[t] = "wait"
      /\ \/ wstate[t] = "GRANTED" /\ wstate'[t] = "GONE" /\ pc'[t] = "send"
         \/ wstate[t] = "GONE" /\ wstate'[t] = "GONE" /\ pc'[t] = "join" /\ n'[t] = n[t]
         \/ wstate'[t] = wstate[t] /\ pc'[t] = "reclaim" /\ ret'[t] = "poll" /\ n'[t] = n[t]
  BY <1>1, Zenon DEF wait_in_line, Goto, CallFrom, Types, gate, local
<1>5. Place(t)'
  BY <1>1, <1>4, Zenon DEF Place, Where, Inner
<1>6. Granting(t)'
  BY <1>1, <1>4, GateAssumption, Zenon DEF Granting, Types
<1>7. Count'
  BY <1>1, <1>2, <1>3, <1>4, SameCount, Zenon
<1>8. n'[t] > 0 \/ wstate'[t] = "GRANTED" => ahead'[t] = {}
  BY <1>1, <1>4, Zenon
<1>9. /\ wstate'[t] = "WAITING" <=> wstate[t] = "WAITING"
      /\ ahead'[t] = ahead[t] \/ (wstate[t] # "WAITING" /\ \A u \in ahead'[t] : wstate[u] = "WAITING")
      /\ lock' = lock \/ lock \in {None, t}
  BY <1>1, <1>4, Zenon DEF Granting
<1> QED
  BY <1>2, <1>3, <1>5, <1>6, <1>7, <1>8, <1>9, Aside, Zenon

\* hand_out takes the lock or has nothing to do.
LEMMA hand_out_Keeps ==
    ASSUME IInv, NEW t \in Threads, hand_out(t)
    PROVE  IInv'
<1>1. /\ Types /\ Place(t) /\ Granting(t) /\ (n[t] > 0 \/ wstate[t] = "GRANTED" => ahead[t] = {})
      /\ ret[t] \in {"idle", "take_again", "wait", "poll", "retire"}
  BY Zenon DEF IInv, Types, NoBarging
<1>2. Types'
  BY <1>1, SMTT(60) DEF hand_out, Goto, Return, Types, PCs, gate, local
<1>3. /\ line' = line /\ queued' = queued
      /\ \A u \in Threads \ {t} : /\ pc'[u] = pc[u] /\ ret'[u] = ret[u] /\ n'[u] = n[u] /\ front'[u] = front[u]
                                 /\ wstate'[u] = wstate[u] /\ ahead'[u] = ahead[u]
  BY <1>1, Zenon DEF hand_out, Goto, Return, Types, gate, local
<1>4. /\ wstate' = wstate /\ ahead' = ahead /\ pc[t] = "hand_out" /\ n'[t] = n[t]
      /\ \/ pc'[t] = ret[t] /\ lock' = lock
         \/ pc'[t] = "front" /\ ret'[t] = ret[t] /\ lock = None /\ lock' = t
  BY <1>1, Zenon DEF hand_out, Goto, Return, Types, gate, local
<1>5. Place(t)'
  BY <1>1, <1>4, Zenon DEF Place, Where, Inner
<1>6. Granting(t)'
  BY <1>1, <1>4, GateAssumption, Zenon DEF Granting, Types
<1>7. Count'
  BY <1>1, <1>2, <1>3, <1>4, SameCount, Zenon
<1>8. n'[t] > 0 \/ wstate'[t] = "GRANTED" => ahead'[t] = {}
  BY <1>1, <1>4, Zenon
<1>9. /\ wstate'[t] = "WAITING" <=> wstate[t] = "WAITING"
      /\ ahead'[t] = ahead[t] \/ (wstate[t] # "WAITING" /\ \A u \in ahead'[t] : wstate[u] = "WAITING")
      /\ lock' = lock \/ lock \in {None, t}
  BY <1>1, <1>4, Zenon DEF Granting
<1> QED
  BY <1>2, <1>3, <1>5, <1>6, <1>7, <1>8, <1>9, Aside, Zenon

\* hand_out gives up on the lock.
LEMMA hand_out_busy_Keeps ==
    ASSUME IInv, NEW t \in Threads, hand_out_busy(t)
    PROVE  IInv'
<1>1. /\ Types /\ Place(t) /\ Granting(t) /\ (n[t] > 0 \/ wstate[t] = "GRANTED" => ahead[t] = {})
      /\ ret[t] \in {"idle", "take_again", "wait", "poll", "retire"}
  BY Zenon DEF IInv, Types, NoBarging
<1>2. Types'
  BY <1>1, Zenon DEF hand_out_busy, Goto, Return, Types, PCs, gate, local
<1>3. /\ line' = line /\ queued' = queued
      /\ \A u \in Threads \ {t} : /\ pc'[u] = pc[u] /\ ret'[u] = ret[u] /\ n'[u] = n[u] /\ front'[u] = front[u]
                                 /\ wstate'[u] = wstate[u] /\ ahead'[u] = ahead[u]
  BY <1>1, Zenon DEF hand_out_busy, Goto, Return, Types, gate, local
<1>4. /\ wstate' = wstate /\ ahead' = ahead /\ lock' = lock
      /\ pc[t] = "hand_out" /\ pc'[t] = ret[t] /\ n'[t] = n[t]
  BY <1>1, Zenon DEF hand_out_busy, Goto, Return, Types, gate, local
<1>5. Place(t)'
  BY <1>1, <1>4, Zenon DEF Place, Where, Inner
<1>6. Granting(t)'
  BY <1>1, <1>4, GateAssumption, Zenon DEF Granting, Types
<1>7. Count'
  BY <1>1, <1>2, <1>3, <1>4, SameCount, Zenon
<1>8. n'[t] > 0 \/ wstate'[t] = "GRANTED" => ahead'[t] = {}
  BY <1>1, <1>4, Zenon
<1>9. /\ wstate'[t] = "WAITING" <=> wstate[t] = "WAITING"
      /\ ahead'[t] = ahead[t] \/ (wstate[t] # "WAITING" /\ \A u \in ahead'[t] : wstate[u] = "WAITING")
      /\ lock' = lock \/ lock \in {None, t}
  BY <1>1, <1>4, Zenon DEF Granting
<1> QED
  BY <1>2, <1>3, <1>5, <1>6, <1>7, <1>8, <1>9, Aside, Zenon

\* hand_out takes a permit for the first place.
LEMMA hand_out_front_Keeps ==
    ASSUME IInv, NEW t \in Threads, hand_out_front(t)
    PROVE  IInv'
<1>1. /\ Types /\ Place(t) /\ Granting(t) /\ (n[t] > 0 \/ wstate[t] = "GRANTED" => ahead[t] = {})
      /\ ret[t] \in {"idle", "take_again", "wait", "poll", "retire"}
  BY Zenon DEF IInv, Types, NoBarging
<1>2. Types'
  BY <1>1, SMTT(60) DEF hand_out_front, Goto, Return, Types, PCs, gate, local
<1>3. /\ line' = line /\ queued' = queued
      /\ \A u \in Threads \ {t} : /\ pc'[u] = pc[u] /\ ret'[u] = ret[u] /\ n'[u] = n[u] /\ front'[u] = front[u]
                                 /\ wstate'[u] = wstate[u] /\ ahead'[u] = ahead[u]
  BY <1>1, Zenon DEF hand_out_front, Goto, Return, Types, gate, local
<1>4. /\ wstate' = wstate /\ ahead' = ahead /\ pc[t] = "front" /\ n'[t] = n[t]
      /\ \/ pc'[t] = ret[t] /\ lock' = None
         \/ pc'[t] = "grant" /\ ret'[t] = ret[t] /\ lock' = lock /\ front'[t] = line[1] /\ line[1] \in Threads /\ line' = line
  BY <1>1, SMTT(60) DEF hand_out_front, Goto, Return, Types, gate, local
<1>5. Place(t)'
  BY <1>1, <1>4, Zenon DEF Place, Where, Inner
<1>6. Granting(t)'
  BY <1>1, <1>4, GateAssumption, Zenon DEF Granting, Types
<1>7. Count'
  BY <1>1, <1>2, <1>3, <1>4, SameCount, Zenon
<1>8. n'[t] > 0 \/ wstate'[t] = "GRANTED" => ahead'[t] = {}
  BY <1>1, <1>4, Zenon
<1>9. /\ wstate'[t] = "WAITING" <=> wstate[t] = "WAITING"
      /\ ahead'[t] = ahead[t] \/ (wstate[t] # "WAITING" /\ \A u \in ahead'[t] : wstate[u] = "WAITING")
      /\ lock' = lock \/ lock \in {None, t}
  BY <1>1, <1>4, Zenon DEF Granting
<1> QED
  BY <1>2, <1>3, <1>5, <1>6, <1>7, <1>8, <1>9, Aside, Zenon

\* Permits come back.
LEMMA release_Keeps ==
    ASSUME IInv, NEW t \in Threads, release(t)
    PROVE  IInv'
<1>1. /\ Types /\ Place(t) /\ Granting(t) /\ (n[t] > 0 \/ wstate[t] = "GRANTED" => ahead[t] = {})
      /\ ret[t] \in {"idle", "take_again", "wait", "poll", "retire"}
  BY Zenon DEF IInv, Types, NoBarging
<1>2. Types'
  BY <1>1, SMTT(60) DEF release, Goto, Return, Types, PCs, gate, local
<1>3. /\ line' = line /\ queued' = queued
      /\ \A u \in Threads \ {t} : /\ pc'[u] = pc[u] /\ ret'[u] = ret[u] /\ n'[u] = n[u] /\ front'[u] = front[u]
                                 /\ wstate'[u] = wstate[u] /\ ahead'[u] = ahead[u]
  BY <1>1, Zenon DEF release, Goto, Return, Types, gate, local
<1>4. /\ wstate' = wstate /\ ahead' = ahead /\ lock' = lock
      /\ pc[t] = "release" /\ n'[t] = n[t]
      /\ \/ pc'[t] = ret[t]
         \/ pc'[t] = "hand_out" /\ ret'[t] = ret[t]
  BY <1>1, Zenon DEF release, Goto, Return, Types, gate, local
<1>5. Place(t)'
  BY <1>1, <1>4, Zenon DEF Place, Where, Inner
<1>6. Granting(t)'
  BY <1>1, <1>4, GateAssumption, Zenon DEF Granting, Types
<1>7. Count'
  BY <1>1, <1>2, <1>3, <1>4, SameCount, Zenon
<1>8. n'[t] > 0 \/ wstate'[t] = "GRANTED" => ahead'[t] = {}
  BY <1>1, <1>4, Zenon
<1>9. /\ wstate'[t] = "WAITING" <=> wstate[t] = "WAITING"
      /\ ahead'[t] = ahead[t] \/ (wstate[t] # "WAITING" /\ \A u \in ahead'[t] : wstate[u] = "WAITING")
      /\ lock' = lock \/ lock \in {None, t}
  BY <1>1, <1>4, Zenon DEF Granting
<1> QED
  BY <1>2, <1>3, <1>5, <1>6, <1>7, <1>8, <1>9, Aside, Zenon

\* Permits of finished slots are taken back.
LEMMA reclaim_Keeps ==
    ASSUME IInv, NEW t \in Threads, reclaim(t)
    PROVE  IInv'
<1>1. /\ Types /\ Place(t) /\ Granting(t) /\ (n[t] > 0 \/ wstate[t] = "GRANTED" => ahead[t] = {})
      /\ ret[t] \in {"idle", "take_again", "wait", "poll", "retire"}
  BY Zenon DEF IInv, Types, NoBarging
<1>2. Types'
  BY <1>1, SMTT(60) DEF reclaim, Goto, CallFrom, Types, PCs, gate, local
<1>3. /\ line' = line /\ queued' = queued
      /\ \A u \in Threads \ {t} : /\ pc'[u] = pc[u] /\ ret'[u] = ret[u] /\ n'[u] = n[u] /\ front'[u] = front[u]
                                 /\ wstate'[u] = wstate[u] /\ ahead'[u] = ahead[u]
  BY <1>1, Zenon DEF reclaim, Goto, CallFrom, Types, gate, local
<1>4. /\ wstate' = wstate /\ ahead' = ahead /\ lock' = lock
      /\ pc[t] = "reclaim" /\ n'[t] = n[t]
      /\ \/ ret[t] = "take_again" /\ pc'[t] = "spin"
         \/ pc'[t] = "release" /\ ret'[t] = ret[t]
  BY <1>1, Zenon DEF reclaim, Goto, CallFrom, Types, gate, local
<1>5. Place(t)'
  BY <1>1, <1>4, Zenon DEF Place, Where, Inner
<1>6. Granting(t)'
  BY <1>1, <1>4, GateAssumption, Zenon DEF Granting, Types
<1>7. Count'
  BY <1>1, <1>2, <1>3, <1>4, SameCount, Zenon
<1>8. n'[t] > 0 \/ wstate'[t] = "GRANTED" => ahead'[t] = {}
  BY <1>1, <1>4, Zenon
<1>9. /\ wstate'[t] = "WAITING" <=> wstate[t] = "WAITING"
      /\ ahead'[t] = ahead[t] \/ (wstate[t] # "WAITING" /\ \A u \in ahead'[t] : wstate[u] = "WAITING")
      /\ lock' = lock \/ lock \in {None, t}
  BY <1>1, <1>4, Zenon DEF Granting
<1> QED
  BY <1>2, <1>3, <1>5, <1>6, <1>7, <1>8, <1>9, Aside, Zenon

\* Permits of slots given up stay out.
LEMMA retire_Keeps ==
    ASSUME IInv, NEW t \in Threads, retire(t)
    PROVE  IInv'
<1>1. /\ Types /\ Place(t) /\ Granting(t) /\ (n[t] > 0 \/ wstate[t] = "GRANTED" => ahead[t] = {})
      /\ ret[t] \in {"idle", "take_again", "wait", "poll", "retire"}
  BY Zenon DEF IInv, Types, NoBarging
<1>2. Types'
  BY <1>1, SMTT(60) DEF retire, Goto, CallFrom, Types, PCs, gate, local
<1>3. /\ line' = line /\ queued' = queued
      /\ \A u \in Threads \ {t} : /\ pc'[u] = pc[u] /\ ret'[u] = ret[u] /\ n'[u] = n[u] /\ front'[u] = front[u]
                                 /\ wstate'[u] = wstate[u] /\ ahead'[u] = ahead[u]
  BY <1>1, SMTT(60) DEF retire, Goto, CallFrom, Types, gate, local
<1>4. /\ wstate' = wstate /\ ahead' = ahead /\ lock' = lock
      /\ pc[t] = "retire"
      /\ \/ pc'[t] = "drop"
         \/ pc'[t] = "release" /\ ret'[t] = "retire"
         \/ pc'[t] = "retire"
  BY <1>1, SMTT(60) DEF retire, Goto, CallFrom, Types, gate, local
<1>5. Place(t)'
  BY <1>1, <1>4, Zenon DEF Place, Where, Inner
<1>6. Granting(t)'
  BY <1>1, <1>4, GateAssumption, Zenon DEF Granting, Types
<1>7. Count'
  BY <1>1, <1>2, <1>3, <1>4, SameCount, Zenon
<1>8. /\ n'[t] > 0 \/ wstate'[t] = "GRANTED" => ahead'[t] = {}
      /\ wstate'[t] = "WAITING" <=> wstate[t] = "WAITING"
      /\ ahead'[t] = ahead[t] \/ (wstate[t] # "WAITING" /\ \A u \in ahead'[t] : wstate[u] = "WAITING")
      /\ lock' = lock \/ lock \in {None, t}
  BY <1>1, <1>4, <1>5, Zenon DEF Place, Where, Inner, Granting
<1> QED
  BY <1>2, <1>3, <1>5, <1>6, <1>7, <1>8, Aside, Zenon

\* A call has sent its requests.
LEMMA published_Keeps ==
    ASSUME IInv, NEW t \in Threads, published(t)
    PROVE  IInv'
<1>1. /\ Types /\ Place(t) /\ Granting(t) /\ (n[t] > 0 \/ wstate[t] = "GRANTED" => ahead[t] = {})
      /\ ret[t] \in {"idle", "take_again", "wait", "poll", "retire"}
  BY Zenon DEF IInv, Types, NoBarging
<1>2. Types'
  BY <1>1, Zenon DEF published, Goto, Types, PCs, gate, local
<1>3. /\ line' = line /\ queued' = queued
      /\ \A u \in Threads \ {t} : /\ pc'[u] = pc[u] /\ ret'[u] = ret[u] /\ n'[u] = n[u] /\ front'[u] = front[u]
                                 /\ wstate'[u] = wstate[u] /\ ahead'[u] = ahead[u]
  BY <1>1, Zenon DEF published, Goto, Types, gate, local
<1>4. /\ wstate' = wstate /\ ahead' = ahead /\ lock' = lock
      /\ pc[t] = "send" /\ pc'[t] = "await" /\ n'[t] = n[t]
  BY <1>1, Zenon DEF published, Goto, Types, gate, local
<1>5. Place(t)'
  BY <1>1, <1>4, Zenon DEF Place, Where, Inner
<1>6. Granting(t)'
  BY <1>1, <1>4, GateAssumption, Zenon DEF Granting, Types
<1>7. Count'
  BY <1>1, <1>2, <1>3, <1>4, SameCount, Zenon
<1>8. /\ n'[t] > 0 \/ wstate'[t] = "GRANTED" => ahead'[t] = {}
      /\ wstate'[t] = "WAITING" <=> wstate[t] = "WAITING"
      /\ ahead'[t] = ahead[t] \/ (wstate[t] # "WAITING" /\ \A u \in ahead'[t] : wstate[u] = "WAITING")
      /\ lock' = lock \/ lock \in {None, t}
  BY <1>1, <1>4, <1>5, Zenon DEF Place, Where, Inner, Granting
<1> QED
  BY <1>2, <1>3, <1>5, <1>6, <1>7, <1>8, Aside, Zenon

\* A call has its answers.
LEMMA answered_Keeps ==
    ASSUME IInv, NEW t \in Threads, answered(t)
    PROVE  IInv'
<1>1. /\ Types /\ Place(t) /\ Granting(t) /\ (n[t] > 0 \/ wstate[t] = "GRANTED" => ahead[t] = {})
      /\ ret[t] \in {"idle", "take_again", "wait", "poll", "retire"}
  BY Zenon DEF IInv, Types, NoBarging
<1>2. Types'
  BY <1>1, Zenon DEF answered, Goto, Types, PCs, gate, local
<1>3. /\ line' = line /\ queued' = queued
      /\ \A u \in Threads \ {t} : /\ pc'[u] = pc[u] /\ ret'[u] = ret[u] /\ n'[u] = n[u] /\ front'[u] = front[u]
                                 /\ wstate'[u] = wstate[u] /\ ahead'[u] = ahead[u]
  BY <1>1, Zenon DEF answered, Goto, Types, gate, local
<1>4. /\ wstate' = wstate /\ ahead' = ahead /\ lock' = lock
      /\ pc[t] = "await" /\ pc'[t] = "drop" /\ n'[t] = n[t]
  BY <1>1, Zenon DEF answered, Goto, Types, gate, local
<1>5. Place(t)'
  BY <1>1, <1>4, Zenon DEF Place, Where, Inner
<1>6. Granting(t)'
  BY <1>1, <1>4, GateAssumption, Zenon DEF Granting, Types
<1>7. Count'
  BY <1>1, <1>2, <1>3, <1>4, SameCount, Zenon
<1>8. /\ n'[t] > 0 \/ wstate'[t] = "GRANTED" => ahead'[t] = {}
      /\ wstate'[t] = "WAITING" <=> wstate[t] = "WAITING"
      /\ ahead'[t] = ahead[t] \/ (wstate[t] # "WAITING" /\ \A u \in ahead'[t] : wstate[u] = "WAITING")
      /\ lock' = lock \/ lock \in {None, t}
  BY <1>1, <1>4, <1>5, Zenon DEF Place, Where, Inner, Granting
<1> QED
  BY <1>2, <1>3, <1>5, <1>6, <1>7, <1>8, Aside, Zenon

\* A call gives up.
LEMMA give_up_Keeps ==
    ASSUME IInv, NEW t \in Threads, give_up(t)
    PROVE  IInv'
<1>1. /\ Types /\ Place(t) /\ Granting(t) /\ (n[t] > 0 \/ wstate[t] = "GRANTED" => ahead[t] = {})
      /\ ret[t] \in {"idle", "take_again", "wait", "poll", "retire"}
  BY Zenon DEF IInv, Types, NoBarging
<1>2. Types'
  BY <1>1, Zenon DEF give_up, Goto, Types, PCs, gate, local
<1>3. /\ line' = line /\ queued' = queued
      /\ \A u \in Threads \ {t} : /\ pc'[u] = pc[u] /\ ret'[u] = ret[u] /\ n'[u] = n[u] /\ front'[u] = front[u]
                                 /\ wstate'[u] = wstate[u] /\ ahead'[u] = ahead[u]
  BY <1>1, Zenon DEF give_up, Goto, Types, gate, local
<1>4. /\ wstate' = wstate /\ ahead' = ahead /\ lock' = lock
      /\ pc[t] \in {"send", "await"} /\ pc'[t] = "retire" /\ n'[t] = n[t]
  BY <1>1, Zenon DEF give_up, Goto, Types, gate, local
<1>5. Place(t)'
  BY <1>1, <1>4, Zenon DEF Place, Where, Inner
<1>6. Granting(t)'
  BY <1>1, <1>4, GateAssumption, Zenon DEF Granting, Types
<1>7. Count'
  BY <1>1, <1>2, <1>3, <1>4, SameCount, Zenon
<1>8. /\ n'[t] > 0 \/ wstate'[t] = "GRANTED" => ahead'[t] = {}
      /\ wstate'[t] = "WAITING" <=> wstate[t] = "WAITING"
      /\ ahead'[t] = ahead[t] \/ (wstate[t] # "WAITING" /\ \A u \in ahead'[t] : wstate[u] = "WAITING")
      /\ lock' = lock \/ lock \in {None, t}
  BY <1>1, <1>4, <1>5, Zenon DEF Place, Where, Inner, Granting
<1> QED
  BY <1>2, <1>3, <1>5, <1>6, <1>7, <1>8, Aside, Zenon

\* A thread is killed.
LEMMA die_Keeps ==
    ASSUME IInv, NEW t \in Threads, die(t)
    PROVE  IInv'
<1>1. /\ Types /\ Place(t) /\ Granting(t) /\ (n[t] > 0 \/ wstate[t] = "GRANTED" => ahead[t] = {})
      /\ ret[t] \in {"idle", "take_again", "wait", "poll", "retire"}
  BY Zenon DEF IInv, Types, NoBarging
<1>2. Types'
  BY <1>1, Zenon DEF die, Goto, Types, PCs, gate, local
<1>3. /\ line' = line /\ queued' = queued
      /\ \A u \in Threads \ {t} : /\ pc'[u] = pc[u] /\ ret'[u] = ret[u] /\ n'[u] = n[u] /\ front'[u] = front[u]
                                 /\ wstate'[u] = wstate[u] /\ ahead'[u] = ahead[u]
  BY <1>1, Zenon DEF die, Goto, Types, gate, local
<1>4. /\ wstate' = wstate /\ ahead' = ahead /\ lock' = lock
      /\ pc[t] \in {"wait", "front", "grant", "hand_out", "release"} /\ pc'[t] = "dead" /\ n'[t] = n[t]
  BY <1>1, Zenon DEF die, Goto, Types, gate, local
<1>5. Place(t)'
  BY <1>1, <1>4, Zenon DEF Place, Where, Inner
<1>6. Granting(t)'
  BY <1>1, <1>4, GateAssumption, Zenon DEF Granting, Types
<1>7. Count'
  BY <1>1, <1>2, <1>3, <1>4, SameCount, Zenon
<1>8. n'[t] > 0 \/ wstate'[t] = "GRANTED" => ahead'[t] = {}
  BY <1>1, <1>4, Zenon
<1>9. /\ wstate'[t] = "WAITING" <=> wstate[t] = "WAITING"
      /\ ahead'[t] = ahead[t] \/ (wstate[t] # "WAITING" /\ \A u \in ahead'[t] : wstate[u] = "WAITING")
      /\ lock' = lock \/ lock \in {None, t}
  BY <1>1, <1>4, Zenon DEF Granting
<1> QED
  BY <1>2, <1>3, <1>5, <1>6, <1>7, <1>8, <1>9, Aside, Zenon

\* A call returns the rest of its permits.
LEMMA drop_Keeps ==
    ASSUME IInv, NEW t \in Threads, drop(t)
    PROVE  IInv'
<1>1. /\ Types /\ Place(t) /\ Granting(t) /\ (n[t] > 0 \/ wstate[t] = "GRANTED" => ahead[t] = {})
      /\ ret[t] \in {"idle", "take_again", "wait", "poll", "retire"}
  BY Zenon DEF IInv, Types, NoBarging
<1>2. Types'
  BY <1>1, Zenon DEF drop, Goto, CallFrom, Types, PCs, gate, local
<1>3. /\ line' = line /\ queued' = queued
      /\ \A u \in Threads \ {t} : /\ pc'[u] = pc[u] /\ ret'[u] = ret[u] /\ n'[u] = n[u] /\ front'[u] = front[u]
                                 /\ wstate'[u] = wstate[u] /\ ahead'[u] = ahead[u]
  BY <1>1, Zenon DEF drop, Goto, CallFrom, Types, gate, local
<1>4. /\ wstate' = wstate /\ lock' = lock /\ pc[t] = "drop" /\ pc'[t] = "release" /\ ret'[t] = "idle"
      /\ n'[t] = 0 /\ ahead'[t] = {}
  BY <1>1, Zenon DEF drop, Goto, CallFrom, Types, gate, local
<1>5. Place(t)'
  BY <1>1, <1>4, Zenon DEF Place, Where, Inner
<1>6. Granting(t)'
  BY <1>1, <1>4, GateAssumption, Zenon DEF Granting, Types
<1>7. Count'
  BY <1>1, <1>2, <1>3, <1>4, SameCount, Zenon
<1>8. /\ n'[t] > 0 \/ wstate'[t] = "GRANTED" => ahead'[t] = {}
      /\ wstate'[t] = "WAITING" <=> wstate[t] = "WAITING"
      /\ ahead'[t] = ahead[t] \/ (wstate[t] # "WAITING" /\ \A u \in ahead'[t] : wstate[u] = "WAITING")
      /\ lock' = lock \/ lock \in {None, t}
  BY <1>1, <1>4, <1>5, Zenon DEF Place, Where, Inner, Granting
<1> QED
  BY <1>2, <1>3, <1>5, <1>6, <1>7, <1>8, Aside, Zenon

\* A call could not get into the line.
LEMMA join_line_timeout_Keeps ==
    ASSUME IInv, NEW t \in Threads, join_line_timeout(t)
    PROVE  IInv'
<1>1. /\ Types /\ Place(t) /\ Granting(t) /\ (n[t] > 0 \/ wstate[t] = "GRANTED" => ahead[t] = {})
      /\ ret[t] \in {"idle", "take_again", "wait", "poll", "retire"}
  BY Zenon DEF IInv, Types, NoBarging
<1>2. Types'
  BY <1>1, Zenon DEF join_line_timeout, Goto, Types, PCs, gate, local
<1>3. /\ line' = line /\ queued' = queued
      /\ \A u \in Threads \ {t} : /\ pc'[u] = pc[u] /\ ret'[u] = ret[u] /\ n'[u] = n[u] /\ front'[u] = front[u]
                                 /\ wstate'[u] = wstate[u] /\ ahead'[u] = ahead[u]
  BY <1>1, Zenon DEF join_line_timeout, Goto, Types, gate, local
<1>4. /\ wstate' = wstate /\ lock' = lock /\ pc[t] = "join" /\ pc'[t] = "idle"
      /\ n'[t] = n[t] /\ ahead'[t] = {}
  BY <1>1, Zenon DEF join_line_timeout, Goto, Types, gate, local
<1>5. Place(t)'
  BY <1>1, <1>4, Zenon DEF Place, Where, Inner
<1>6. Granting(t)'
  BY <1>1, <1>4, GateAssumption, Zenon DEF Granting, Types
<1>7. Count'
  BY <1>1, <1>2, <1>3, <1>4, SameCount, Zenon
<1>8. /\ n'[t] > 0 \/ wstate'[t] = "GRANTED" => ahead'[t] = {}
      /\ wstate'[t] = "WAITING" <=> wstate[t] = "WAITING"
      /\ ahead'[t] = ahead[t] \/ (wstate[t] # "WAITING" /\ \A u \in ahead'[t] : wstate[u] = "WAITING")
      /\ lock' = lock \/ lock \in {None, t}
  BY <1>1, <1>4, <1>5, Zenon DEF Place, Where, Inner, Granting
<1> QED
  BY <1>2, <1>3, <1>5, <1>6, <1>7, <1>8, Aside, Zenon

\* A call comes to the gate: it may take at once only when nobody is in line.
LEMMA acquire_Keeps ==
    ASSUME IInv, NEW t \in Threads, acquire(t)
    PROVE  IInv'
<1>1. Types /\ Place(t) /\ Line /\ Count /\ pc[t] = "idle"
  BY Zenon DEF IInv, acquire
<1>2. line \in Seq(Threads) /\ Len(line) \in Nat /\ queued \in Int
  BY <1>1, SMTT(60) DEF Types
<1>3. ahead' = [ahead EXCEPT ![t] = {line[k] : k \in 1 .. Len(line)}]
  BY Zenon DEF acquire
<1>4. {line[k] : k \in 1 .. Len(line)} \subseteq Threads
  BY <1>2, SMTT(60)
<1>5. ahead' \in [Threads -> SUBSET Threads] /\ ahead'[t] = {line[k] : k \in 1 .. Len(line)}
  BY <1>1, <1>3, <1>4, Zenon DEF Types
<1>6. /\ UNCHANGED <<line, queued, lock, wstate, ret, n, front>>
      /\ pc' = [pc EXCEPT ![t] = IF queued = 0 THEN "take" ELSE "join"]
  BY Zenon DEF acquire, Goto
<1>7. pc' \in [Threads -> PCs] /\ pc'[t] = (IF queued = 0 THEN "take" ELSE "join")
  BY <1>1, <1>6, Zenon DEF Types, PCs
<1>8. Types'
  BY <1>1, <1>5, <1>6, <1>7, Zenon DEF Types
<1>9. queued = 0 => ahead'[t] = {}
  <2>1. queued = 0 => Len(line) = 0
    <3>1. Cardinality(Leaving) \in Nat
      BY <1>1, LeavingCount, Zenon
    <3> QED
      BY <1>1, <1>2, <3>1, SMTT(60) DEF Count
  <2> QED
    BY <1>2, <1>5, <2>1, SMTT(60)
<1>10. wstate[t] = "GONE" /\ n[t] = 0
  BY <1>1, Zenon DEF Place, Where, Inner
<1>11. \A u \in ahead'[t] : wstate[u] = "WAITING"
  BY <1>1, <1>2, <1>5, Zenon DEF Line, InLine
<1>12. \A u \in Threads \ {t} : /\ pc'[u] = pc[u] /\ ret'[u] = ret[u] /\ n'[u] = n[u] /\ front'[u] = front[u]
                                /\ wstate'[u] = wstate[u] /\ ahead'[u] = ahead[u]
  BY <1>1, <1>3, <1>6, Zenon DEF Types
<1>13. Place(t)'
  BY <1>6, <1>7, <1>9, <1>10, Zenon DEF Place, Where, Inner
<1>14. Granting(t)'
  BY <1>7, Zenon DEF Granting
<1>15. Count'
  BY <1>1, <1>6, <1>7, <1>8, <1>12, SameCount, Zenon
<1>16. ~ (n'[t] > 0 \/ wstate'[t] = "GRANTED")
  BY <1>6, <1>10, SMTT(60)
<1>17. /\ n'[t] > 0 \/ wstate'[t] = "GRANTED" => ahead'[t] = {}
       /\ wstate'[t] = "WAITING" <=> wstate[t] = "WAITING"
       /\ ahead'[t] = ahead[t] \/ (wstate[t] # "WAITING" /\ \A u \in ahead'[t] : wstate[u] = "WAITING")
       /\ lock' = lock \/ lock \in {None, t}
  BY <1>6, <1>10, <1>11, <1>16, Zenon
<1> QED
  BY <1>6, <1>8, <1>12, <1>13, <1>14, <1>15, <1>17, Aside, Zenon

\* A call that left the line is counted out.
LEMMA leave_Keeps ==
    ASSUME IInv, NEW t \in Threads, leave(t)
    PROVE  IInv'
<1>1. Types /\ Place(t) /\ Count /\ pc[t] = "leave"
  BY Zenon DEF IInv, leave
<1>2. /\ UNCHANGED <<line, lock, wstate, ret, n, front>> /\ queued' = queued - 1
      /\ pc' = [pc EXCEPT ![t] = "idle"] /\ ahead' = [ahead EXCEPT ![t] = {}]
  BY Zenon DEF leave, Goto
<1>3. pc'[t] = "idle" /\ ahead'[t] = {} /\ wstate[t] = "GONE" /\ n[t] = 0
  BY <1>1, <1>2, Zenon DEF Types, Place, Where, Inner
<1>4. Types'
  BY <1>1, <1>2, SMTT(60) DEF Types, PCs
<1>5. \A u \in Threads \ {t} : /\ pc'[u] = pc[u] /\ ret'[u] = ret[u] /\ n'[u] = n[u] /\ front'[u] = front[u]
                               /\ wstate'[u] = wstate[u] /\ ahead'[u] = ahead[u]
  BY <1>1, <1>2, Zenon DEF Types
<1>6. Count'
  <2>1. t \in Leaving /\ Leaving' = Leaving \ {t}
    BY <1>1, <1>3, <1>5, Zenon DEF Leaving
  <2>2. Cardinality(Leaving') = Cardinality(Leaving) - 1 /\ Cardinality(Leaving) \in Nat
    BY <1>1, <2>1, LeavingCount, Zenon
  <2>3. Len(line) \in Nat
    BY <1>1, SMTT(60) DEF Types
  <2> QED
    BY <1>1, <1>2, <2>2, <2>3, SMTT(60) DEF Count
<1>7. Place(t)' /\ Granting(t)'
  BY <1>2, <1>3, Zenon DEF Place, Where, Inner, Granting
<1>8. /\ n'[t] > 0 \/ wstate'[t] = "GRANTED" => ahead'[t] = {}
      /\ wstate'[t] = "WAITING" <=> wstate[t] = "WAITING"
      /\ ahead'[t] = ahead[t] \/ (wstate[t] # "WAITING" /\ \A u \in ahead'[t] : wstate[u] = "WAITING")
      /\ lock' = lock \/ lock \in {None, t}
  BY <1>2, <1>3, Zenon
<1> QED
  BY <1>2, <1>4, <1>5, <1>6, <1>7, <1>8, Aside, Zenon

\* A call goes to the back of the line.
LEMMA join_line_Keeps ==
    ASSUME IInv, NEW t \in Threads, join_line(t)
    PROVE  IInv'
<1> DEFINE m == Len(line)
<1>1. Types /\ Place(t) /\ Line /\ Count /\ Order /\ pc[t] = "join" /\ lock = None
  BY Zenon DEF IInv, join_line
<1>2. /\ line' = Append(line, t) /\ queued' = queued + 1 /\ wstate' = [wstate EXCEPT ![t] = "WAITING"]
      /\ pc' = [pc EXCEPT ![t] = "hand_out"] /\ ret' = [ret EXCEPT ![t] = "wait"]
      /\ UNCHANGED <<lock, ahead, n, front>>
  BY Zenon DEF join_line, CallFrom, Goto
<1>3. line \in Seq(Threads) /\ m \in Nat /\ wstate[t] = "GONE" /\ n[t] = 0
  BY <1>1, SMTT(60) DEF Types, Place, Where, Inner
<1>4. /\ line' \in Seq(Threads) /\ Len(line') = m + 1 /\ line'[m + 1] = t
      /\ \A i \in 1 .. m : line'[i] = line[i]
  BY <1>2, <1>3, SMTT(60)
<1>5. Types'
  BY <1>1, <1>2, <1>4, SMTT(60) DEF Types, PCs
<1>6. pc'[t] = "hand_out" /\ ret'[t] = "wait" /\ wstate'[t] = "WAITING"
  BY <1>1, <1>2, Zenon DEF Types
<1>7. \A u \in Threads \ {t} : /\ pc'[u] = pc[u] /\ ret'[u] = ret[u] /\ n'[u] = n[u] /\ front'[u] = front[u]
                               /\ wstate'[u] = wstate[u] /\ ahead'[u] = ahead[u]
  BY <1>1, <1>2, Zenon DEF Types
<1>8. \A i \in 1 .. m + 1 : i \in 1 .. m \/ i = m + 1
  BY <1>3, SMTT(60)
<1>9. \A i \in 1 .. m : line[i] # t /\ i \in 1 .. m + 1 /\ i < m + 1
  <2>1. \A i \in 1 .. m : line[i] # t
    BY <1>1, <1>3, Zenon DEF Line, InLine
  <2> QED
    BY <1>3, <2>1, SMTT(60)
<1>10. m + 1 \in 1 .. m + 1
  BY <1>3, SMTT(60)
<1> HIDE DEF m
<1>11. Line'
  <2>1. \A i, j \in 1 .. m + 1 : line'[i] = line'[j] => i = j
    <3> TAKE i, j \in 1 .. m + 1
    <3>1. CASE i \in 1 .. m /\ j \in 1 .. m
      BY <1>1, <1>4, <3>1, Zenon DEF Line, m
    <3>2. CASE i = m + 1 \/ j = m + 1
      BY <1>4, <1>8, <1>9, <3>2, Zenon
    <3> QED
      BY <1>8, <3>1, <3>2, Zenon
  <2>2. ASSUME NEW u \in Threads PROVE wstate'[u] = "WAITING" <=> InLine(u)'
    <3>1. CASE u = t
      BY <1>4, <1>6, <1>10, <3>1, Zenon DEF InLine
    <3>2. CASE u # t
      <4>1. InLine(u)' <=> InLine(u)
        BY <1>4, <1>8, <1>9, <3>2, Zenon DEF InLine, m
      <4> QED
        BY <1>1, <1>7, <3>2, <4>1, Zenon DEF Line
    <3> QED
      BY <3>1, <3>2, Zenon
  <2> QED
    BY <1>4, <2>1, <2>2, Zenon DEF Line
<1>12. Order'
  <2>1. ASSUME NEW u \in Threads, NEW v \in ahead[u] PROVE wstate'[v] = "WAITING"
    BY <1>1, <1>6, <1>7, Zenon DEF Order, Types
  <2>2. ASSUME NEW i \in 1 .. m + 1, NEW v \in ahead[line'[i]] PROVE Before(v, i)'
    <3>1. CASE i \in 1 .. m
      <4>1. v \in ahead[line[i]]
        BY <1>4, <3>1, Zenon
      <4>2. PICK j \in 1 .. m : j < i /\ line[j] = v
        BY <1>1, <3>1, <4>1, Zenon DEF Order, Before, m
      <4> QED
        BY <1>4, <1>9, <4>2, Zenon DEF Before
    <3>2. CASE i = m + 1
      <4>1. v \in ahead[t]
        BY <1>4, <3>2, Zenon
      <4>2. v \in Threads /\ wstate[v] = "WAITING"
        BY <1>1, <4>1, Zenon DEF Order, Types
      <4>3. PICK j \in 1 .. m : line[j] = v
        BY <1>1, <4>2, Zenon DEF Line, InLine, m
      <4> QED
        BY <1>4, <1>9, <3>2, <4>3, Zenon DEF Before
    <3> QED
      BY <1>8, <3>1, <3>2, Zenon
  <2> QED
    BY <1>2, <1>4, <2>1, <2>2, Zenon DEF Order
<1>13. Count'
  <2>1. Leaving' = Leaving
    BY <1>1, <1>6, <1>7, Zenon DEF Leaving
  <2>2. Cardinality(Leaving) \in Nat
    BY <1>1, LeavingCount, Zenon
  <2> QED
    BY <1>1, <1>2, <1>3, <1>4, <2>1, <2>2, SMTT(60) DEF Count, m
<1>14. ASSUME NEW u \in Threads PROVE Place(u)' /\ Granting(u)' /\ (n'[u] > 0 \/ wstate'[u] = "GRANTED" => ahead'[u] = {})
  <2>1. CASE u = t
    <3>1. ~ (n'[t] > 0 \/ wstate'[t] = "GRANTED")
      BY <1>2, <1>3, <1>6, SMTT(60)
    <3> QED
      BY <1>2, <1>3, <1>6, <2>1, <3>1, Zenon DEF Place, Where, Inner, Granting
  <2>2. CASE u # t
    <3>1. Place(u) /\ Granting(u)
      BY Zenon DEF IInv
    <3>2. Place(u)'
      BY <1>7, <2>2, <3>1, Zenon DEF Place, Where
    <3>3. pc[u] \notin {"front", "grant"}
      BY <1>1, <3>1, GateAssumption, Zenon DEF Granting
    <3> QED
      BY <1>7, <2>2, <3>2, <3>3, Zenon DEF IInv, NoBarging, Granting
  <2> QED
    BY <2>1, <2>2, Zenon
<1>15. NoBarging'
  BY <1>14, Zenon DEF NoBarging
<1> QED
  BY <1>5, <1>11, <1>12, <1>13, <1>14, <1>15, Zenon DEF IInv

\* What is left to show of a step that takes a thread out of the line.
LEMMA AwayFromLine ==
    ASSUME IInv, Types', Count', Line', Order', NEW t \in Threads, NEW u \in Threads,
           wstate[u] = "WAITING", wstate'[u] # "WAITING",
           \A v \in Threads \ {u} : wstate'[v] = wstate[v],
           \A v \in Threads : ahead'[v] = ahead[v] \ {u},
           Len(line) > 0 /\ line[1] # u => line'[1] = line[1],
           \A v \in Threads \ {t} : pc'[v] = pc[v],
           ret' = ret, n' = n, lock' = lock,
           \A v \in Threads \ {t} : front'[v] = front[v],
           Place(t)', Granting(t)', wstate'[u] = "GRANTED" => ahead[u] = {},
           u # t => Where(u) \in {"wait", "poll", "dead"}
    PROVE  IInv'
<1>1. ASSUME NEW v \in Threads
      PROVE  n'[v] > 0 \/ wstate'[v] = "GRANTED" => ahead'[v] = {}
  <2>1. n[v] > 0 \/ wstate[v] = "GRANTED" => ahead[v] = {}
    BY Zenon DEF IInv, NoBarging
  <2>2. ahead[v] = {} => ahead'[v] = {}
    BY Zenon
  <2>3. n'[v] > 0 => n[v] > 0
    BY Zenon
  <2>4. wstate'[v] = "GRANTED" => wstate[v] = "GRANTED" \/ ahead[v] = {}
    BY Zenon
  <2> QED
    BY <2>1, <2>2, <2>3, <2>4, Zenon
<1>2. ASSUME NEW v \in Threads, v # t PROVE Place(v)'
  <2>1. Place(v) /\ Where(v)' = Where(v)
    BY <1>2, Zenon DEF IInv, Where
  <2>2. ahead[v] = {} => ahead'[v] = {}
    BY Zenon
  <2>3. CASE v # u
    BY <2>1, <2>2, <2>3, Zenon DEF Place
  <2>4. CASE v = u
    BY <1>2, <2>1, <2>2, <2>4, Zenon DEF Place
  <2> QED
    BY <2>3, <2>4, Zenon
<1>3. ASSUME NEW v \in Threads, v # t PROVE Granting(v)'
  <2>1. Granting(v) /\ pc'[v] = pc[v] /\ front'[v] = front[v]
    BY <1>3, Zenon DEF IInv
  <2>2. ASSUME pc[v] = "grant", wstate'[front[v]] = "WAITING"
        PROVE  line'[1] = front[v]
    <3>1. front[v] \in Threads /\ front[v] # u /\ wstate[front[v]] = "WAITING" /\ line[1] = front[v]
      BY <2>1, <2>2, Zenon DEF Granting
    <3>2. InLine(front[v])
      BY <3>1, Zenon DEF IInv, Line
    <3>3. Len(line) > 0
      <4>1. line \in Seq(Threads) /\ Len(line) \in Nat
        BY SMTT(60) DEF IInv, Types
      <4> QED
        BY <3>2, <4>1, SMTT(60) DEF InLine
    <3> QED
      BY <3>1, <3>3, Zenon
  <2> QED
    BY <2>1, <2>2, Zenon DEF Granting
<1>4. NoBarging'
  BY <1>1, Zenon DEF NoBarging
<1> QED
  BY <1>2, <1>3, <1>4, Zenon DEF IInv

\* A waiter loses patience.
LEMMA wait_timeout_Keeps ==
    ASSUME IInv, NEW t \in Threads, wait_timeout(t)
    PROVE  IInv'
<1>1. Types /\ Place(t) /\ Line /\ Count /\ Order /\ pc[t] = "wait" /\ wstate[t] = "WAITING"
  BY Zenon DEF IInv, wait_timeout
<1>2. /\ wstate' = [wstate EXCEPT ![t] = "GONE"] /\ LeaveLine(t) /\ pc' = [pc EXCEPT ![t] = "leave"]
      /\ UNCHANGED <<queued, lock, ret, n, front>>
  BY Zenon DEF wait_timeout, Goto, local
<1>3. /\ wstate'[t] = "GONE" /\ pc'[t] = "leave"
      /\ \A v \in Threads \ {t} : wstate'[v] = wstate[v] /\ pc'[v] = pc[v]
  BY <1>1, <1>2, Zenon DEF Types
<1>4. /\ line' \in Seq(Threads) /\ Len(line') = Len(line) - 1 /\ Len(line) \in Nat
      /\ ahead' \in [Threads -> SUBSET Threads]
      /\ \A v \in Threads : ahead'[v] = ahead[v] \ {t}
      /\ Line' /\ Order'
      /\ Len(line) > 0 /\ line[1] # t => line'[1] = line[1]
  BY <1>1, <1>2, <1>3, Leaves, Zenon
<1>5. Types'
  BY <1>1, <1>2, <1>4, Zenon DEF Types, PCs
<1>6. Count'
  <2>1. t \notin Leaving /\ Leaving' = Leaving \cup {t}
    BY <1>1, <1>3, Zenon DEF Leaving
  <2>2. Cardinality(Leaving') = Cardinality(Leaving) + 1 /\ Cardinality(Leaving) \in Nat
    BY <1>1, <2>1, LeavingCount, Zenon
  <2> QED
    BY <1>1, <1>2, <1>4, <2>2, SMTT(60) DEF Count
<1>7. Place(t)' /\ Granting(t)'
  BY <1>1, <1>2, <1>3, Zenon DEF Place, Where, Inner, Granting
<1> QED
  BY <1>1, <1>2, <1>3, <1>4, <1>5, <1>6, <1>7, AwayFromLine, Zenon

\* A place whose owner does not look is passed over.
LEMMA hand_out_stale_Keeps ==
    ASSUME IInv, NEW t \in Threads, hand_out_stale(t)
    PROVE  IInv'
<1> DEFINE u == Head(line)
<1>1. Types /\ Place(t) /\ Granting(t) /\ Line /\ Count /\ Order /\ pc[t] = "front" /\ line # << >>
  BY Zenon DEF IInv, hand_out_stale
<1>2. line \in Seq(Threads) /\ Len(line) \in Nat /\ Len(line) > 0 /\ u = line[1] /\ u \in Threads
  BY <1>1, SMTT(60) DEF Types
<1>3. wstate[u] = "WAITING"
  BY <1>1, <1>2, SMTT(60) DEF Line, InLine
<1>4. /\ wstate' = [wstate EXCEPT ![u] = "GONE"] /\ LeaveLine(u) /\ queued' = queued - 1
      /\ UNCHANGED <<lock, pc, ret, n, front>>
  BY Zenon DEF hand_out_stale, local
<1> HIDE DEF u
<1>5. wstate'[u] = "GONE" /\ \A v \in Threads \ {u} : wstate'[v] = wstate[v]
  BY <1>1, <1>2, <1>4, Zenon DEF Types
<1>6. /\ line' \in Seq(Threads) /\ Len(line') = Len(line) - 1 /\ Len(line) \in Nat
      /\ ahead' \in [Threads -> SUBSET Threads]
      /\ \A v \in Threads : ahead'[v] = ahead[v] \ {u}
      /\ Line' /\ Order'
      /\ Len(line) > 0 /\ line[1] # u => line'[1] = line[1]
  BY <1>1, <1>2, <1>4, <1>5, Leaves, Zenon
<1>7. Types'
  <2>1. queued' \in Int
    BY <1>1, <1>4, SMTT(60) DEF Types
  <2>2. wstate' \in [Threads -> {"WAITING", "GRANTED", "GONE"}]
    BY <1>1, <1>2, <1>4, Zenon DEF Types
  <2> QED
    BY <1>1, <1>4, <1>6, <2>1, <2>2, Zenon DEF Types
<1>8. Count'
  <2>1. Leaving' = Leaving
    BY <1>4, Zenon DEF Leaving
  <2>2. Cardinality(Leaving) \in Nat
    BY <1>1, <1>2, LeavingCount, Zenon
  <2> QED
    BY <1>1, <1>4, <1>6, <2>1, <2>2, SMTT(60) DEF Count
<1>9. Where(u) \in {"wait", "poll", "dead"}
  BY <1>2, <1>3, Zenon DEF IInv, Place
<1>10. Place(t)' /\ Granting(t)'
  <2>1. ahead[t] = {} => ahead'[t] = {}
    BY <1>6, Zenon
  <2>2. wstate[t] = "GONE" => wstate'[t] = "GONE"
    BY <1>5, Zenon
  <2>3. Where(t)' = Where(t)
    BY <1>4, Zenon DEF Where
  <2>4. Place(t)'
    BY <1>1, <1>4, <2>1, <2>2, <2>3, Zenon DEF Place
  <2> QED
    BY <1>1, <1>4, <2>4, Zenon DEF Granting
<1> QED
  BY <1>2, <1>3, <1>4, <1>5, <1>6, <1>7, <1>8, <1>9, <1>10, AwayFromLine, Zenon

\* The first place gets its permit, or its owner has left.
LEMMA hand_out_grant_Keeps ==
    ASSUME IInv, NEW t \in Threads, hand_out_grant(t)
    PROVE  IInv'
<1> DEFINE u == front[t]
<1>1. Types /\ Place(t) /\ Granting(t) /\ Line /\ Count /\ Order /\ pc[t] = "grant" /\ u \in Threads
  BY Zenon DEF IInv, hand_out_grant, Granting
<1>2. /\ front' = [front EXCEPT ![t] = None] /\ pc' = [pc EXCEPT ![t] = "front"]
      /\ UNCHANGED <<lock, ret, n>>
  BY Zenon DEF hand_out_grant, Goto
<1>3. pc'[t] = "front" /\ \A v \in Threads \ {t} : pc'[v] = pc[v] /\ front'[v] = front[v]
  BY <1>1, <1>2, Zenon DEF Types
<1>4. Where(t)' = Where(t) /\ ret'[t] = ret[t]
  BY <1>1, <1>2, <1>3, Zenon DEF Where, Inner
<1>5. Granting(t)'
  BY <1>1, <1>2, <1>3, Zenon DEF Granting
<1>6. Leaving' = Leaving /\ Cardinality(Leaving) \in Nat
  <2>1. Leaving' = Leaving
    BY <1>1, <1>3, Zenon DEF Leaving
  <2> QED
    BY <1>1, <2>1, LeavingCount, Zenon
<1>7. CASE wstate[u] = "WAITING"
  <2>1. wstate' = [wstate EXCEPT ![u] = "GRANTED"] /\ queued' = queued - 1 /\ LeaveLine(u)
    BY <1>7, Zenon DEF hand_out_grant
  <2>2. line[1] = u
    BY <1>1, <1>7, Zenon DEF Granting
  <2> HIDE DEF u
  <2>3. wstate'[u] = "GRANTED" /\ \A v \in Threads \ {u} : wstate'[v] = wstate[v]
    BY <1>1, <2>1, Zenon DEF Types
  <2>4. /\ line' \in Seq(Threads) /\ Len(line') = Len(line) - 1 /\ Len(line) \in Nat
        /\ ahead' \in [Threads -> SUBSET Threads]
        /\ \A v \in Threads : ahead'[v] = ahead[v] \ {u}
        /\ Line' /\ Order'
        /\ Len(line) > 0 /\ line[1] # u => line'[1] = line[1]
    BY <1>1, <2>1, <2>3, Leaves, Zenon
  <2>5. Types'
    <3>1. queued' \in Int
      BY <1>1, <2>1, SMTT(60) DEF Types
    <3>2. wstate' \in [Threads -> {"WAITING", "GRANTED", "GONE"}]
      BY <1>1, <2>1, Zenon DEF Types
    <3>3. pc' \in [Threads -> PCs] /\ front' \in [Threads -> Threads \cup {None}]
      BY <1>1, <1>2, Zenon DEF Types, PCs
    <3> QED
      BY <1>1, <1>2, <2>4, <3>1, <3>2, <3>3, Zenon DEF Types
  <2>6. Count'
    BY <1>1, <1>6, <2>1, <2>4, SMTT(60) DEF Count, Types
  <2>7. ahead[u] = {}
    <3>1. InLine(u)
      BY <1>1, <1>7, Zenon DEF Line
    <3>2. 1 \in 1 .. Len(line)
      BY <2>4, <3>1, SMTT(60) DEF InLine
    <3>3. \A v \in ahead[u] : Before(v, 1)
      BY <1>1, <2>2, <3>2, Zenon DEF Order
    <3>4. \A v : ~ Before(v, 1)
      BY <2>4, SMTT(60) DEF Before
    <3> QED
      BY <3>3, <3>4, Zenon
  <2>8. Where(u) \in {"wait", "poll", "dead"}
    BY <1>1, <1>7, Zenon DEF IInv, Place
  <2>9. Place(t)'
    <3>1. ahead[t] = {} => ahead'[t] = {}
      BY <2>4, Zenon
    <3>2. Where(t) \notin {"wait", "poll", "dead"} => wstate'[t] = "GONE"
      BY <1>1, <2>3, <2>8, Zenon DEF Place
    <3> QED
      BY <1>1, <1>2, <1>4, <3>1, <3>2, Zenon DEF Place
  <2> QED
    BY <1>1, <1>2, <1>3, <1>5, <1>7, <2>3, <2>4, <2>5, <2>6, <2>7, <2>8, <2>9, AwayFromLine, Zenon
<1>8. CASE wstate[u] # "WAITING"
  <2>1. UNCHANGED <<wstate, queued, line, ahead>>
    BY <1>8, Zenon DEF hand_out_grant
  <2>2. Types'
    BY <1>1, <1>2, <2>1, Zenon DEF Types, PCs
  <2>3. Place(t)'
    BY <1>1, <1>2, <1>4, <2>1, Zenon DEF Place
  <2>4. Count'
    BY <1>1, <1>6, <2>1, Zenon DEF Count
  <2>5. n[t] > 0 \/ wstate[t] = "GRANTED" => ahead[t] = {}
    BY Zenon DEF IInv, NoBarging
  <2>6. /\ n'[t] > 0 \/ wstate'[t] = "GRANTED" => ahead'[t] = {}
        /\ wstate'[t] = "WAITING" <=> wstate[t] = "WAITING"
        /\ ahead'[t] = ahead[t] \/ (wstate[t] # "WAITING" /\ \A v \in ahead'[t] : wstate[v] = "WAITING")
        /\ lock' = lock \/ lock \in {None, t}
    BY <1>2, <2>1, <2>5, Zenon
  <2>7. \A v \in Threads \ {t} : /\ pc'[v] = pc[v] /\ ret'[v] = ret[v] /\ n'[v] = n[v] /\ front'[v] = front[v]
                                 /\ wstate'[v] = wstate[v] /\ ahead'[v] = ahead[v]
    BY <1>2, <1>3, <2>1, Zenon
  <2> QED
    BY <1>5, <2>1, <2>2, <2>3, <2>4, <2>6, <2>7, Aside, Zenon
<1> QED
  BY <1>7, <1>8, Zenon

-----------------------------------------------------------------------------
\* Steps of the ring, and stuttering.
LEMMA Elsewhere ==
    ASSUME IInv, UNCHANGED <<line, queued, lock, wstate, pc, ret, n, front, ahead>>
    PROVE  IInv'
<1>1. Types' /\ Line' /\ Order' /\ NoBarging'
  BY SMTT(60) DEF IInv, Types, Line, InLine, Order, Before, NoBarging
<1>2. Leaving' = Leaving
  BY Zenon DEF Leaving
<1>3. Count'
  BY <1>2, Zenon DEF IInv, Count
<1>4. \A t \in Threads : Place(t)' /\ Granting(t)'
  BY Zenon DEF IInv, Place, Where, Granting
<1> QED
  BY <1>1, <1>3, <1>4, Zenon DEF IInv

LEMMA Init_IInv ==
    ASSUME Init
    PROVE  IInv
<1>1. line = << >> /\ Len(line) = 0 /\ line \in Seq(Threads)
  BY SMTT(60) DEF Init
<1>2. Types
  BY <1>1, SMTT(60) DEF Init, Types, PCs
<1>3. \A t \in Threads : Place(t) /\ Granting(t)
  BY Zenon DEF Init, Place, Where, Inner, Granting
<1>4. Line /\ Order
  BY <1>1, SMTT(60) DEF Init, Line, InLine, Order
<1>5. Count
  <2>1. Leaving = {}
    BY Zenon DEF Init, Leaving
  <2> QED
    BY <1>1, <2>1, FS_EmptySet, SMTT(60) DEF Init, Count
<1>6. NoBarging
  BY Zenon DEF Init, NoBarging
<1> QED
  BY <1>2, <1>3, <1>4, <1>5, <1>6, Zenon DEF IInv

LEMMA Step_IInv ==
    ASSUME IInv, [Next]_vars
    PROVE  IInv'
<1>1. ASSUME NEW t \in Threads, AtGate(t) PROVE IInv'
  <2>1. CASE publish(t)
    BY <2>1, Elsewhere, Zenon DEF publish, gate, local
  <2> QED
    BY <1>1, <2>1, take_Keeps, spin_Keeps, spin_ends_Keeps, join_line_Keeps, wait_in_line_Keeps, poll_Keeps,
       leave_Keeps, hand_out_Keeps, hand_out_busy_Keeps, hand_out_front_Keeps, hand_out_grant_Keeps,
       release_Keeps, reclaim_Keeps, retire_Keeps, drop_Keeps, published_Keeps, answered_Keeps, Zenon DEF AtGate
<1>2. ASSUME NEW t \in Threads, acquire(t) \/ Patience(t) \/ Deadline(t) \/ Stall(t) PROVE IInv'
  BY <1>2, acquire_Keeps, join_line_timeout_Keeps, wait_timeout_Keeps, give_up_Keeps, hand_out_stale_Keeps,
     die_Keeps, Zenon DEF Patience, Deadline, Stall
<1>3. ASSUME NEW s \in Slots, MetaStep(s) \/ server_take(s) \/ server_complete(s) PROVE IInv'
  BY <1>3, Elsewhere, Zenon DEF MetaStep, meta_submit, meta_answered, meta_give_up, server_take, server_complete, gate, local
<1>4. CASE UNCHANGED vars
  BY <1>4, Elsewhere, Zenon DEF vars, gate, local
<1> QED
  BY <1>1, <1>2, <1>3, <1>4, Zenon DEF Next

-----------------------------------------------------------------------------
\* The invariant behind the line holds in every state.
THEOREM Invariant == Spec => []IInv
<1>1. Init => IInv
  BY Init_IInv, Zenon
<1>2. IInv /\ [Next]_vars => IInv'
  BY Step_IInv, Zenon
<1> QED
  BY <1>1, <1>2, PTL DEF Spec

\* No call gets a permit before one that was in line when it came (acquire,
\* join_line, hand_out).
THEOREM NobodyBarges == Spec => []NoBarging
<1>1. IInv => NoBarging
  BY Zenon DEF IInv
<1> QED
  BY <1>1, Invariant, PTL
=============================================================================
