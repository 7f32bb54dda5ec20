----------------------------- MODULE RingProofs -----------------------------
(***************************************************************************)
(* For any number of clients, workers, slots and requests, and calls that   *)
(* time out anywhere: a slot has one owner on each side, a call gets the     *)
(* answers to its own requests, and no defensive exit is taken.             *)
(*                                                                         *)
(* A step is of one client or one worker and touches at most one slot.      *)
(* ClientFrame and ServerFrame say what the others keep; the lemma of an     *)
(* action says what its own client or worker gets.                          *)
(***************************************************************************)
EXTENDS Ring, TLAPS

\* The locals of a call agree on how far it is.
Shape(c) ==
    /\ Len(ids[c]) = IF pc[c] = "publish" THEN Len(held[c]) - 1 ELSE Len(held[c])
    /\ pc[c] = "idle" => held[c] = << >>
    /\ pc[c] \notin {"idle", "claim"} => Len(held[c]) >= 1
    /\ pc[c] # "idle" => Len(held[c]) <= want[c]
    /\ pc[c] = "claim" => Len(held[c]) < want[c]
    /\ pc[c] \in {"await", "copy", "release"} => Len(held[c]) = want[c]
    /\ pc[c] \in {"idle", "claim", "publish", "publish_store"} => Len(got[c]) = 0
    /\ pc[c] = "await" => Len(got[c]) < want[c]
    /\ pc[c] \in {"copy", "release"} => Len(got[c]) = want[c]
    /\ Len(got[c]) <= Len(held[c])
    /\ pos[c] = 1 \/ pc[c] \in {"abandon", "abandon_cas", "copy", "release"}
    /\ pc[c] \notin {"idle", "claim"} => pos[c] <= Len(held[c])
    /\ pc[c] = "copy" => kind[c] = "bulk"
    /\ pc[c] = "abandon_cas" => seen[c] \in {"SUBMITTED", "PROCESSING", "COMPLETED"}

\* The call writes a request into the last slot it claimed.
Writes(c) == pc[c] \in {"publish", "publish_store"}

\* The positions of the slots whose request the call has handed over and not
\* let go of.
Sent(c) == IF Writes(c) THEN 1 .. Len(held[c]) - 1 ELSE Own(c)

ReplyKinds(k) == IF k = "bulk" THEN {"bulk_answer"} ELSE {"answer", "overflow"}

\* The slot a call writes its request into is its own.
Claimed(c, s) ==
    /\ state[s] = "CLAIMED"
    /\ pc[c] = "publish_store" =>
          /\ reqId[s] = ids[c][Len(held[c])]
          /\ payload[s].id = ids[c][Len(held[c])] /\ payload[s].kind = kind[c]

\* A slot handed over holds the request, or its answer.
Holds(c, i, s) ==
    /\ state[s] \in {"SUBMITTED", "PROCESSING", "COMPLETED"}
    /\ reqId[s] = ids[c][i]
    /\ state[s] = "SUBMITTED" => payload[s].id = ids[c][i] /\ payload[s].kind = kind[c]
    /\ state[s] = "COMPLETED" =>
          /\ ack[s] = AckOf(ids[c][i])
          /\ payload[s].id = ids[c][i] /\ payload[s].kind \in ReplyKinds(kind[c])
          /\ kind[c] = "bulk" => bank[s] = ids[c][i]
    /\ pc[c] \in {"await", "copy", "release"} /\ i <= Len(got[c]) => state[s] = "COMPLETED"

\* What the slots of a call hold.
Mine(c) ==
    /\ Writes(c) => Claimed(c, held[c][Len(held[c])])
    /\ \A i \in Sent(c) : Holds(c, i, held[c][i])

\* OwnReplies for one call.
Replied(c) ==
    \A i \in 1 .. Len(got[c]) :
        /\ got[c][i].resp.id = ids[c][i]
        /\ got[c][i].resp.kind \in ReplyKinds(kind[c])
        /\ kind[c] = "bulk" /\ (pc[c] = "release" \/ (pc[c] = "copy" /\ i < pos[c]))
              => got[c][i].bank = ids[c][i]

\* What a worker knows of the request it serves.
Serves(w) ==
    /\ wpc[w] = "take" <=> wslot[w] = NoSlot
    /\ wpc[w] # "take" => state[wslot[w]] \in {"PROCESSING", "ABANDONED"}
    /\ wpc[w] = "drain" => state[wslot[w]] = "ABANDONED"
    /\ wpc[w] \notin {"take", "read"} => wreq[w].req_id = reqId[wslot[w]]
    /\ wpc[w] \in {"complete", "complete_cas"} /\ wreq[w].payload.kind = "bulk" =>
          bank[wslot[w]] = wreq[w].payload.id
    /\ wpc[w] = "complete_cas" =>
          /\ ack[wslot[w]] = AckOf(wreq[w].req_id)
          /\ payload[wslot[w]].id = wreq[w].payload.id
          /\ payload[wslot[w]].kind \in ReplyKinds(wreq[w].payload.kind)

\* The request a worker serves is the one its client sent.
Knows(w, c) ==
    \A i \in Sent(c) :
        wslot[w] # NoSlot /\ held[c][i] = wslot[w] =>
          /\ wpc[w] = "read" => payload[wslot[w]].id = ids[c][i] /\ payload[wslot[w]].kind = kind[c]
          /\ wpc[w] # "read" => wreq[w].payload.id = ids[c][i] /\ wreq[w].payload.kind = kind[c]

\* Every slot in use has a client or a worker, and each at most one.
Owned == \A s \in Slots : state[s] \notin {"FREE", "ABANDONED"} => \E c \in Clients : HeldBy(s, c)
Served == \A s \in Slots : state[s] \in {"PROCESSING", "ABANDONED"} => \E w \in Workers : wslot[w] = s
OneHolder ==
    \A c, d \in Clients : \A i \in Own(c), j \in Own(d) :
        held[c][i] = held[d][j] => c = d /\ i = j
OneServer == \A w, v \in Workers : wslot[w] = wslot[v] /\ wslot[w] # NoSlot => w = v

IInv ==
    /\ TypeOK
    /\ \A c \in Clients : Shape(c) /\ Mine(c) /\ Replied(c)
    /\ \A w \in Workers : Serves(w) /\ \A c \in Clients : Knows(w, c)
    /\ Owned /\ Served /\ OneHolder /\ OneServer

-----------------------------------------------------------------------------
\* A step leaves a call, a slot or a worker alone.
SameCall(c) ==
    /\ pc'[c] = pc[c] /\ kind'[c] = kind[c] /\ want'[c] = want[c] /\ held'[c] = held[c]
    /\ ids'[c] = ids[c] /\ got'[c] = got[c] /\ pos'[c] = pos[c] /\ seen'[c] = seen[c]
SameSlot(s) ==
    /\ state'[s] = state[s] /\ reqId'[s] = reqId[s] /\ payload'[s] = payload[s]
    /\ ack'[s] = ack[s] /\ bank'[s] = bank[s]
SameServe(w) == wpc'[w] = wpc[w] /\ wslot'[w] = wslot[w] /\ wreq'[w] = wreq[w]

\* A call the step leaves alone is where it was.
LEMMA SameShape ==
    ASSUME NEW c, SameCall(c)
    PROVE  /\ Own(c)' = Own(c) /\ Sent(c)' = Sent(c) /\ Writes(c)' = Writes(c)
           /\ Shape(c) => Shape(c)'
           /\ Replied(c) => Replied(c)'
           /\ \A s : HeldBy(s, c)' <=> HeldBy(s, c)
<1>1. Own(c)' = Own(c)
  BY Zenon DEF SameCall, Own
<1>2. Writes(c)' = Writes(c)
  BY Zenon DEF SameCall, Writes
<1>3. Sent(c)' = Sent(c)
  BY <1>1, <1>2, Zenon DEF SameCall, Sent
<1>4. Shape(c) => Shape(c)'
  BY Zenon DEF SameCall, Shape
<1>5. Replied(c) => Replied(c)'
  BY Zenon DEF SameCall, Replied
<1>6. \A s : HeldBy(s, c)' <=> HeldBy(s, c)
  BY <1>1, Zenon DEF SameCall, HeldBy
<1> QED
  BY <1>1, <1>2, <1>3, <1>4, <1>5, <1>6, Zenon

\* The types of one call's locals.
LEMMA CallTypes ==
    ASSUME TypeOK, NEW c \in Clients
    PROVE  /\ held[c] \in Seq(Slots) /\ Len(held[c]) \in Nat
           /\ ids[c] \in Seq(ReqIds) /\ Len(ids[c]) \in Nat
           /\ got[c] \in Seq(Answer) /\ Len(got[c]) \in Nat
           /\ pos[c] \in Nat \ {0} /\ want[c] \in Nat /\ kind[c] \in {"inline", "bulk"}
           /\ reqSeq \in Nat /\ asked \in Nat
<1>1. held[c] \in Seq(Slots) /\ ids[c] \in Seq(ReqIds) /\ got[c] \in Seq(Answer)
  BY Zenon DEF TypeOK
<1>2. Len(held[c]) \in Nat /\ Len(ids[c]) \in Nat /\ Len(got[c]) \in Nat
  BY <1>1, SMTT(60)
<1> QED
  BY <1>1, <1>2, Zenon DEF TypeOK

\* What a call has: positions of its sequences, slots that are in use.
LEMMA Positions ==
    ASSUME TypeOK, NEW c \in Clients, Shape(c), Mine(c)
    PROVE  /\ Own(c) \subseteq 1 .. Len(held[c]) /\ Sent(c) \subseteq Own(c)
           /\ Writes(c) => Len(held[c]) \in Own(c)
           /\ \A i \in Own(c) : i \in Sent(c) \/ (Writes(c) /\ i = Len(held[c]))
           /\ \A i \in Own(c) : held[c][i] \in Slots
           /\ \A i \in Own(c) : state[held[c][i]] \notin {"FREE", "ABANDONED"}
<1>1. held[c] \in Seq(Slots) /\ pos[c] \in Nat \ {0} /\ Len(held[c]) \in Nat
  BY CallTypes, Zenon
<1>2. Own(c) \subseteq 1 .. Len(held[c])
  BY <1>1, SMTT(60) DEF Own
<1>3. Sent(c) \subseteq Own(c)
  BY <1>1, SMTT(60) DEF Own, Sent, Writes
<1>4. \A i \in Own(c) : i \in Sent(c) \/ (Writes(c) /\ i = Len(held[c]))
  BY <1>1, SMTT(60) DEF Own, Sent, Writes
<1>5. \A i \in 1 .. Len(held[c]) : held[c][i] \in Slots
  BY <1>1, SMTT(60)
<1>6. \A i \in Own(c) : state[held[c][i]] \notin {"FREE", "ABANDONED"}
  BY <1>4, Zenon DEF Mine, Holds, Claimed
<1>7. Writes(c) => Len(held[c]) \in Own(c)
  BY <1>1, SMTT(60) DEF Writes, Own, Shape
<1> QED
  BY <1>2, <1>3, <1>4, <1>5, <1>6, <1>7, Zenon

\* A call the step leaves alone, with slots it leaves alone, is as it was.
LEMMA SameMine ==
    ASSUME TypeOK, NEW c \in Clients, Shape(c), Mine(c), SameCall(c),
           Writes(c) => SameSlot(held[c][Len(held[c])]),
           \A i \in Sent(c) : SameSlot(held[c][i]) \/ Holds(c, i, held[c][i])'
    PROVE  Mine(c)'
<1>1. Sent(c)' = Sent(c) /\ Writes(c)' = Writes(c) /\ held'[c] = held[c]
  BY SameShape, Zenon DEF SameCall
<1>2. ASSUME NEW i \in Sent(c), SameSlot(held[c][i]) PROVE Holds(c, i, held[c][i])'
  <2>1. Holds(c, i, held[c][i])
    BY Zenon DEF Mine
  <2>2. /\ pc'[c] = pc[c] /\ kind'[c] = kind[c] /\ held'[c] = held[c] /\ ids'[c] = ids[c] /\ got'[c] = got[c]
    BY Zenon DEF SameCall
  <2> QED
    BY <1>2, <2>1, <2>2, Zenon DEF Holds, SameSlot
<1>3. Writes(c) => Claimed(c, held[c][Len(held[c])])'
  BY Zenon DEF Mine, Claimed, SameCall, SameSlot
<1> QED
  BY <1>1, <1>2, <1>3, Zenon DEF Mine

\* A worker the step leaves alone, with a slot it leaves alone, is as it was.
LEMMA SameServes ==
    ASSUME NEW w, Serves(w), SameServe(w), wslot[w] # NoSlot => SameSlot(wslot[w])
    PROVE  Serves(w)'
BY Zenon DEF Serves, SameServe, SameSlot

\* ... and so is what it knows of its client.
LEMMA SameKnows ==
    ASSUME NEW w, NEW c, Knows(w, c), SameServe(w), SameCall(c),
           \A i \in Sent(c) :
              wslot[w] # NoSlot /\ held[c][i] = wslot[w] => payload'[wslot[w]] = payload[wslot[w]]
    PROVE  Knows(w, c)'
<1>1. Sent(c)' = Sent(c)
  BY SameShape, Zenon
<1> QED
  BY <1>1, Zenon DEF Knows, SameServe, SameCall

\* A step of the client c that touches the slots T, none of them another
\* call's.
LEMMA ClientFrame ==
    ASSUME IInv, NEW c \in Clients, NEW T \in SUBSET Slots,
           \A d \in Clients \ {c} : SameCall(d),
           \A w \in Workers : SameServe(w),
           \A s \in Slots \ T : SameSlot(s),
           \A d \in Clients \ {c} : \A i \in Own(d) : held[d][i] \notin T,
           \A i \in Own(c)' : held'[c][i] \in T \/ (i \in Own(c) /\ held'[c][i] = held[c][i]),
           \A i, j \in Own(c)' : held'[c][i] = held'[c][j] => i = j,
           \A s \in Slots \ T : HeldBy(s, c) => HeldBy(s, c)',
           \A s \in T : state'[s] \in {"FREE", "ABANDONED"} \/ HeldBy(s, c)',
           \A s \in T : state'[s] \in {"PROCESSING", "ABANDONED"} => state[s] \in {"PROCESSING", "ABANDONED"},
           TypeOK', Shape(c)', Mine(c)', Replied(c)',
           \A w \in Workers : Knows(w, c)' /\ (wslot[w] \in T => Serves(w)')
    PROVE  IInv'
<1>1. ASSUME NEW d \in Clients PROVE Shape(d)' /\ Mine(d)' /\ Replied(d)'
  <2>1. CASE d = c
    BY <2>1, Zenon
  <2>2. CASE d # c
    <3>1. SameCall(d) /\ Shape(d) /\ Mine(d) /\ Replied(d) /\ TypeOK
      BY <2>2, Zenon DEF IInv
    <3>2. \A i \in Own(d) : SameSlot(held[d][i])
      BY <2>2, <3>1, Positions, Zenon
    <3>3. Sent(d) \subseteq Own(d) /\ (Writes(d) => Len(held[d]) \in Own(d))
      BY <3>1, Positions, Zenon
    <3>4. Mine(d)'
      BY <3>1, <3>2, <3>3, SameMine, Zenon
    <3> QED
      BY <3>1, <3>4, SameShape, Zenon
  <2> QED
    BY <2>1, <2>2, Zenon
<1>2. ASSUME NEW w \in Workers PROVE Serves(w)'
  <2>1. wslot[w] \in Slots \cup {NoSlot} /\ Serves(w)
    BY Zenon DEF IInv, TypeOK
  <2> QED
    BY <2>1, SameServes, Zenon
<1>3. ASSUME NEW w \in Workers, NEW d \in Clients PROVE Knows(w, d)'
  <2>1. CASE d = c
    BY <2>1, Zenon
  <2>2. CASE d # c
    <3>1. SameCall(d) /\ Shape(d) /\ Mine(d) /\ TypeOK /\ SameServe(w) /\ Knows(w, d)
      BY <2>2, Zenon DEF IInv
    <3>2. \A i \in Sent(d) : held[d][i] \in Slots \ T
      BY <2>2, <3>1, Positions, Zenon
    <3>3. \A i \in Sent(d) : payload'[held[d][i]] = payload[held[d][i]]
      BY <3>2, Zenon DEF SameSlot
    <3> QED
      BY <3>1, <3>3, SameKnows, SMTT(60)
  <2> QED
    BY <2>1, <2>2, Zenon
<1>4. Owned'
  <2> SUFFICES ASSUME NEW s \in Slots, state'[s] \notin {"FREE", "ABANDONED"}
               PROVE  \E d \in Clients : HeldBy(s, d)'
    BY Zenon DEF Owned
  <2>1. CASE s \in T
    BY <2>1, Zenon
  <2>2. CASE s \notin T
    <3>1. PICK d \in Clients : HeldBy(s, d)
      BY <2>2, Zenon DEF IInv, Owned, SameSlot
    <3> QED
      BY <2>2, <3>1, SameShape, Zenon
  <2> QED
    BY <2>1, <2>2, Zenon
<1>5. Served'
  BY SMTT(60) DEF IInv, Served, SameSlot, SameServe
<1>6. OneServer'
  BY SMTT(60) DEF IInv, OneServer, SameServe
<1>7. OneHolder'
  <2> SUFFICES ASSUME NEW d \in Clients, NEW e \in Clients, NEW i \in Own(d)', NEW j \in Own(e)',
                      held'[d][i] = held'[e][j]
               PROVE  d = e /\ i = j
    BY Zenon DEF OneHolder
  <2>1. CASE d = c /\ e = c
    BY <2>1, Zenon
  <2>2. ASSUME NEW x \in Clients \ {c}
        PROVE  Own(x)' = Own(x) /\ held'[x] = held[x]
    BY SameShape, Zenon DEF SameCall
  <2>3. CASE d = c /\ e # c
    BY <2>2, <2>3, SMTT(60) DEF IInv, OneHolder
  <2>4. CASE d # c /\ e = c
    BY <2>2, <2>4, SMTT(60) DEF IInv, OneHolder
  <2>5. CASE d # c /\ e # c
    BY <2>2, <2>5, SMTT(60) DEF IInv, OneHolder
  <2> QED
    BY <2>1, <2>3, <2>4, <2>5, Zenon
<1> QED
  BY <1>1, <1>2, <1>3, <1>4, <1>5, <1>6, <1>7, Zenon DEF IInv

\* A step of the worker w that touches the slots T, none of them another
\* worker's.
LEMMA ServerFrame ==
    ASSUME IInv, NEW w \in Workers, NEW T \in SUBSET Slots,
           \A c \in Clients : SameCall(c),
           \A v \in Workers \ {w} : SameServe(v) /\ wslot[v] \notin T,
           \A s \in Slots \ T : SameSlot(s),
           wslot[w] \in T \cup {NoSlot}, wslot'[w] \in T \cup {NoSlot},
           \A s \in T : state[s] # "CLAIMED",
           \A s \in T : state'[s] \in {"FREE", "ABANDONED"} \/ state[s] \notin {"FREE", "ABANDONED"},
           \A s \in T : state'[s] \in {"PROCESSING", "ABANDONED"} => wslot'[w] = s,
           \A c \in Clients : \A i \in Sent(c) : held[c][i] \in T => Holds(c, i, held[c][i])',
           TypeOK', Serves(w)', \A c \in Clients : Knows(w, c)'
    PROVE  IInv'
<1>1. ASSUME NEW c \in Clients PROVE Shape(c)' /\ Mine(c)' /\ Replied(c)'
  <2>1. SameCall(c) /\ Shape(c) /\ Mine(c) /\ Replied(c) /\ TypeOK
    BY Zenon DEF IInv
  <2>2. Sent(c) \subseteq Own(c) /\ (Writes(c) => Len(held[c]) \in Own(c)) /\ \A i \in Own(c) : held[c][i] \in Slots
    BY <2>1, Positions, Zenon
  <2>3. Writes(c) => SameSlot(held[c][Len(held[c])])
    BY <2>1, <2>2, Zenon DEF Mine, Claimed
  <2>4. Mine(c)'
    BY <2>1, <2>2, <2>3, SameMine, Zenon
  <2> QED
    BY <2>1, <2>4, SameShape, Zenon
<1>2. ASSUME NEW v \in Workers PROVE Serves(v)'
  <2>1. wslot[v] \in Slots \cup {NoSlot} /\ Serves(v)
    BY Zenon DEF IInv, TypeOK
  <2> QED
    BY <2>1, SameServes, Zenon
<1>3. ASSUME NEW v \in Workers, NEW c \in Clients PROVE Knows(v, c)'
  <2>1. CASE v = w
    BY <2>1, Zenon
  <2>2. CASE v # w
    <3>1. SameCall(c) /\ SameServe(v) /\ Knows(v, c) /\ wslot[v] \in (Slots \ T) \cup {NoSlot}
      BY <2>2, Zenon DEF IInv, TypeOK
    <3>2. wslot[v] # NoSlot => payload'[wslot[v]] = payload[wslot[v]]
      BY <3>1, Zenon DEF SameSlot
    <3> QED
      BY <3>1, <3>2, SameKnows, Zenon
  <2> QED
    BY <2>1, <2>2, Zenon
<1>4. Owned'
  <2> SUFFICES ASSUME NEW s \in Slots, state'[s] \notin {"FREE", "ABANDONED"}
               PROVE  \E d \in Clients : HeldBy(s, d)'
    BY Zenon DEF Owned
  <2>1. state[s] \notin {"FREE", "ABANDONED"}
    BY Zenon DEF SameSlot
  <2>2. PICK d \in Clients : HeldBy(s, d)
    BY <2>1, Zenon DEF IInv, Owned
  <2> QED
    BY <2>2, SameShape, Zenon
<1>5. Served'
  BY RingAssumption, SMTT(60) DEF IInv, Served, SameSlot, SameServe
<1>6. OneServer'
  BY SMTT(60) DEF IInv, OneServer, SameServe
<1>7. OneHolder'
  <2>1. ASSUME NEW x \in Clients PROVE Own(x)' = Own(x) /\ held'[x] = held[x]
    BY SameShape, Zenon DEF SameCall
  <2> QED
    BY <2>1, SMTT(60) DEF IInv, OneHolder
<1> QED
  BY <1>1, <1>2, <1>3, <1>4, <1>5, <1>6, <1>7, Zenon DEF IInv

\* A step of the client c that touches no slot and lets go of none.
LEMMA ClientLocal ==
    ASSUME IInv, NEW c \in Clients,
           \A d \in Clients \ {c} : SameCall(d),
           \A w \in Workers : SameServe(w),
           \A s \in Slots : SameSlot(s),
           Own(c)' = Own(c), held'[c] = held[c],
           TypeOK', Shape(c)', Mine(c)', Replied(c)',
           \A w \in Workers : Knows(w, c)'
    PROVE  IInv'
<1>1. \A i, j \in Own(c) : held[c][i] = held[c][j] => i = j
  BY Zenon DEF IInv, OneHolder
<1>2. \A s : HeldBy(s, c)' <=> HeldBy(s, c)
  BY Zenon DEF HeldBy
<1> DEFINE T == {}
<1>3. /\ T \in SUBSET Slots /\ Slots \ T = Slots
      /\ \A i \in Own(c)' : i \in Own(c) /\ held'[c][i] = held[c][i]
      /\ \A i, j \in Own(c)' : held'[c][i] = held'[c][j] => i = j
  BY <1>1, Zenon
<1>4. \A x : x \notin T
  BY Zenon
<1> HIDE DEF T
<1> QED
  BY <1>2, <1>3, <1>4, ClientFrame, Zenon

\* A step of the client c that touches one of its own slots and keeps it.
LEMMA ClientTouch ==
    ASSUME IInv, NEW c \in Clients, NEW n \in Own(c),
           \A d \in Clients \ {c} : SameCall(d),
           \A w \in Workers : SameServe(w),
           \A s \in Slots : s # held[c][n] => SameSlot(s),
           Own(c)' = Own(c), held'[c] = held[c],
           state[held[c][n]] \in {"PROCESSING", "ABANDONED"} \/ state'[held[c][n]] \notin {"PROCESSING", "ABANDONED"},
           TypeOK', Shape(c)', Mine(c)', Replied(c)',
           \A w \in Workers : Knows(w, c)' /\ wslot[w] # held[c][n]
    PROVE  IInv'
<1> DEFINE T == {held[c][n]}
<1>1. \A d \in Clients : \A i \in Own(d) : held[d][i] = held[c][n] => d = c /\ i = n
  BY Zenon DEF IInv, OneHolder
<1>2. \A s : HeldBy(s, c)' <=> HeldBy(s, c)
  BY Zenon DEF HeldBy
<1>3. held[c][n] \in Slots
  BY Positions, Zenon DEF IInv
<1>4. /\ T \in SUBSET Slots
      /\ \A d \in Clients \ {c} : \A i \in Own(d) : held[d][i] \notin T
      /\ \A w \in Workers : wslot[w] \notin T
      /\ \A s \in Slots \ T : SameSlot(s)
  BY <1>1, <1>3, Zenon
<1>5. /\ \A i \in Own(c)' : i \in Own(c) /\ held'[c][i] = held[c][i]
      /\ \A i, j \in Own(c)' : held'[c][i] = held'[c][j] => i = j
  BY SMTT(60) DEF IInv, OneHolder
<1>6. /\ \A s \in T : HeldBy(s, c)'
      /\ \A s \in T : state'[s] \in {"PROCESSING", "ABANDONED"} => state[s] \in {"PROCESSING", "ABANDONED"}
  BY <1>2, Zenon DEF HeldBy
<1> HIDE DEF T
<1> QED
  BY <1>2, <1>4, <1>5, <1>6, ClientFrame, Zenon

\* A step of the client c that gives up the next of its slots, at n.
LEMMA ClientLetsGo ==
    ASSUME IInv, NEW c \in Clients, NEW n \in Own(c),
           \A d \in Clients \ {c} : SameCall(d),
           \A w \in Workers : SameServe(w),
           \A s \in Slots : s # held[c][n] => SameSlot(s),
           Own(c)' = Own(c) \ {n}, Own(c)' = {} \/ held'[c] = held[c],
           \/ state'[held[c][n]] = "FREE"
           \/ state'[held[c][n]] = "ABANDONED" /\ state[held[c][n]] = "PROCESSING",
           TypeOK', Shape(c)', Mine(c)', Replied(c)',
           \A w \in Workers : Knows(w, c)' /\ (wslot[w] = held[c][n] => Serves(w)')
    PROVE  IInv'
<1> DEFINE T == {held[c][n]}
<1>1. \A d \in Clients : \A i \in Own(d) : held[d][i] = held[c][n] => d = c /\ i = n
  BY Zenon DEF IInv, OneHolder
<1>2. held[c][n] \in Slots
  BY Positions, Zenon DEF IInv
<1>3. /\ T \in SUBSET Slots
      /\ \A d \in Clients \ {c} : \A i \in Own(d) : held[d][i] \notin T
      /\ \A w \in Workers : Knows(w, c)' /\ (wslot[w] \in T => Serves(w)')
      /\ \A s \in Slots \ T : SameSlot(s)
  BY <1>1, <1>2, Zenon
<1>4. /\ \A i \in Own(c)' : i \in Own(c) /\ held'[c][i] = held[c][i]
      /\ \A i, j \in Own(c)' : held'[c][i] = held'[c][j] => i = j
  BY SMTT(60) DEF IInv, OneHolder
<1>5. /\ \A s \in T : state'[s] \in {"FREE", "ABANDONED"}
      /\ \A s \in T : state'[s] \in {"PROCESSING", "ABANDONED"} => state[s] \in {"PROCESSING", "ABANDONED"}
  BY Zenon
<1>6. \A s \in Slots \ T : HeldBy(s, c) => HeldBy(s, c)'
  BY Zenon DEF HeldBy
<1> HIDE DEF T
<1> QED
  BY <1>3, <1>4, <1>5, <1>6, ClientFrame, Zenon

-----------------------------------------------------------------------------
\* The records of the module and the sets they are in.
LEMMA Records ==
    /\ \A k \in {"inline", "bulk"}, n \in Nat : [kind |-> k, id |-> n] \in Payload
    /\ \A p \in Payload : p.id \in Nat /\ [resp |-> p, bank |-> NoBank] \in Answer
    /\ \A a \in Answer : \A b \in Banks : [a EXCEPT !.bank = b] \in Answer
    /\ \A n \in Nat, p \in Payload : [req_id |-> n, payload |-> p] \in Request
    /\ \A r \in Request : r.req_id \in Nat /\ r.payload \in Payload
    /\ \A p \in Payload : \A r \in Replies(p) :
          r \in Payload /\ r.id = p.id /\ r.kind \in ReplyKinds(p.kind)
    /\ NoRequest \in Request /\ NoPayload \in Payload
    /\ \A n \in Nat : AckOf(n) \in 0 .. AckMod - 1
BY RingAssumption, SMTT(60) DEF Payload, Answer, Request, ReqIds, Banks, NoBank, NoRequest, NoPayload, Replies,
   ReplyKinds, AckOf

\* A call begins.
LEMMA submit_Inductive ==
    ASSUME IInv, NEW c \in Clients, submit(c)
    PROVE  IInv'
<1> USE DEF ring, server
<1>1. PICK a \in Calls : /\ asked' = asked + a[2]
                         /\ kind' = [kind EXCEPT ![c] = a[1]] /\ want' = [want EXCEPT ![c] = a[2]]
  BY Zenon DEF submit
<1>2. a[1] \in {"inline", "bulk"} /\ a[2] \in Nat \ {0}
  BY RingAssumption, Zenon
<1>3. TypeOK'
  <2>1. asked' \in Nat /\ kind' \in [Clients -> {"inline", "bulk"}] /\ want' \in [Clients -> Nat]
    <3>1. asked \in Nat /\ kind \in [Clients -> {"inline", "bulk"}] /\ want \in [Clients -> Nat]
      BY Zenon DEF IInv, TypeOK
    <3> QED
      BY <1>1, <1>2, <3>1, SMTT(60)
  <2>2. pc' = [pc EXCEPT ![c] = "claim"] /\ UNCHANGED <<ring, held, ids, got, pos, seen, server>>
    BY Zenon DEF submit
  <2> QED
    BY <2>1, <2>2, Zenon DEF IInv, TypeOK
<1>4. /\ held'[c] = << >> /\ held[c] = << >> /\ Len(ids[c]) = 0 /\ Len(got[c]) = 0 /\ pos[c] = 1
      /\ ids' = ids /\ got' = got /\ pos' = pos /\ pc'[c] = "claim" /\ want'[c] = a[2] /\ pc[c] = "idle"
  BY <1>1, Zenon DEF IInv, TypeOK, Shape, submit
<1>5. Own(c)' = {} /\ Own(c) = {} /\ ~ Writes(c)' /\ Sent(c)' = {}
  BY <1>4, SMTT(60) DEF Own, Sent, Writes
<1>6. Shape(c)'
  BY <1>2, <1>4, SMTT(60) DEF Shape
<1>7. Mine(c)' /\ Replied(c)' /\ \A w \in Workers : Knows(w, c)'
  BY <1>4, <1>5, SMTT(60) DEF Mine, Replied, Knows
<1>8. /\ \A d \in Clients \ {c} : SameCall(d)
      /\ \A w \in Workers : SameServe(w)
      /\ \A s \in Slots : SameSlot(s)
  BY <1>1, Zenon DEF IInv, TypeOK, submit, SameCall, SameServe, SameSlot
<1>9. \A s \in Slots : ~ HeldBy(s, c)
  BY <1>5, Zenon DEF HeldBy
<1> HIDE DEF ring, server
<1> QED
  BY <1>3, <1>5, <1>6, <1>7, <1>8, <1>9, ClientFrame, Zenon

\* A call that ends has nothing left.
LEMMA EndCall_Keeps ==
    ASSUME TypeOK, NEW c \in Clients, EndCall(c)
    PROVE  /\ pc' \in [Clients -> {"idle", "claim", "publish", "publish_store", "await",
                                   "abandon", "abandon_cas", "copy", "release"}]
           /\ kind' \in [Clients -> {"inline", "bulk"}] /\ want' \in [Clients -> Nat]
           /\ held' \in [Clients -> Seq(Slots)] /\ ids' \in [Clients -> Seq(ReqIds)]
           /\ got' \in [Clients -> Seq(Answer)] /\ pos' \in [Clients -> Nat \ {0}]
           /\ seen' \in [Clients -> SlotStates]
           /\ Own(c)' = {} /\ Shape(c)' /\ Mine(c)' /\ Replied(c)'
           /\ \A w \in Workers : Knows(w, c)'
           /\ \A d \in Clients \ {c} : SameCall(d)
<1> USE DEF EndCall
<1>1. pc'[c] = "idle" /\ held'[c] = << >> /\ ids'[c] = << >> /\ got'[c] = << >> /\ pos'[c] = 1
  BY Zenon DEF TypeOK
<1>2. Own(c)' = {} /\ Sent(c)' = {} /\ ~ Writes(c)'
  BY <1>1, SMTT(60) DEF Own, Sent, Writes
<1>3. Shape(c)' /\ Mine(c)' /\ Replied(c)' /\ \A w \in Workers : Knows(w, c)'
  BY <1>1, <1>2, SMTT(60) DEF Shape, Mine, Replied, Knows
<1>4. \A d \in Clients \ {c} : SameCall(d)
  BY Zenon DEF TypeOK, SameCall
<1>5. /\ pc' \in [Clients -> {"idle", "claim", "publish", "publish_store", "await",
                              "abandon", "abandon_cas", "copy", "release"}]
      /\ kind' \in [Clients -> {"inline", "bulk"}] /\ want' \in [Clients -> Nat]
      /\ pos' \in [Clients -> Nat \ {0}] /\ seen' \in [Clients -> SlotStates]
  BY SMTT(60) DEF TypeOK, SlotStates
<1>6. held' \in [Clients -> Seq(Slots)] /\ ids' \in [Clients -> Seq(ReqIds)] /\ got' \in [Clients -> Seq(Answer)]
  BY SMTT(60) DEF TypeOK
<1> QED
  BY <1>2, <1>3, <1>4, <1>5, <1>6, Zenon

\* A call claims a slot nobody has.
LEMMA claim_free_from_Inductive ==
    ASSUME IInv, NEW c \in Clients, claim_free_from(c)
    PROVE  IInv'
<1> USE DEF server
<1>1. PICK s \in Slots : /\ state[s] = "FREE"
                         /\ state' = [state EXCEPT ![s] = "CLAIMED"]
                         /\ held' = [held EXCEPT ![c] = Append(@, s)]
  BY Zenon DEF claim_free_from
<1> DEFINE n == Len(held[c])
<1>2. TypeOK /\ Shape(c) /\ Mine(c) /\ pc[c] = "claim" /\ held[c] \in Seq(Slots) /\ n \in Nat
  BY CallTypes, Zenon DEF IInv, claim_free_from
<1>3. TypeOK'
  <2>1. state' \in [Slots -> SlotStates]
    BY <1>1, Zenon DEF IInv, TypeOK, SlotStates
  <2>2. Append(held[c], s) \in Seq(Slots)
    BY <1>2, SMTT(60)
  <2>3. held' \in [Clients -> Seq(Slots)]
    BY <1>1, <1>2, <2>2, Zenon DEF TypeOK
  <2> QED
    BY <1>2, <2>1, <2>3, Zenon DEF TypeOK, claim_free_from
<1>4. /\ pc'[c] = "publish" /\ held'[c] = Append(held[c], s) /\ ids' = ids /\ got' = got
      /\ pos' = pos /\ want' = want /\ kind' = kind /\ seen' = seen
      /\ Len(held'[c]) = n + 1 /\ held'[c][n + 1] = s /\ \A i \in 1 .. n : held'[c][i] = held[c][i]
  <2>1. /\ pc'[c] = "publish" /\ held'[c] = Append(held[c], s) /\ ids' = ids /\ got' = got
        /\ pos' = pos /\ want' = want /\ kind' = kind /\ seen' = seen
    BY <1>1, <1>2, Zenon DEF TypeOK, claim_free_from
  <2> QED
    BY <1>2, <2>1, SMTT(60)
<1>5. Own(c)' = 1 .. n + 1 /\ Own(c) = 1 .. n /\ Writes(c)' /\ Sent(c) = 1 .. n /\ Sent(c)' = 1 .. n
  BY <1>2, <1>4, SMTT(60) DEF Own, Sent, Writes
<1>6. Shape(c)'
  <2>1. Len(ids[c]) = n /\ Len(got[c]) = 0 /\ pos[c] = 1 /\ n < want[c] /\ want[c] \in Nat
    BY <1>2, CallTypes, Zenon DEF Shape
  <2> QED
    BY <1>2, <1>4, <2>1, SMTT(60) DEF Shape
<1>7. /\ \A d \in Clients \ {c} : SameCall(d)
      /\ \A w \in Workers : SameServe(w)
      /\ \A t \in Slots \ {s} : SameSlot(t)
  BY <1>1, SMTT(60) DEF IInv, TypeOK, claim_free_from, SameCall, SameServe, SameSlot
<1>8. \A d \in Clients : \A i \in Own(d) : held[d][i] \in Slots \ {s}
  BY <1>1, Positions, Zenon DEF IInv
<1>9. Mine(c)'
  <2>1. Claimed(c, held[c][Len(held[c])])'
    <3>1. state'[s] = "CLAIMED" /\ held'[c][Len(held'[c])] = s
      BY <1>1, <1>2, <1>4, Zenon DEF TypeOK
    <3> QED
      BY <1>4, <3>1, Zenon DEF Claimed
  <2>2. ASSUME NEW i \in 1 .. n PROVE Holds(c, i, held[c][i])'
    <3>1. Holds(c, i, held[c][i]) /\ SameSlot(held[c][i]) /\ held'[c][i] = held[c][i]
      BY <1>2, <1>4, <1>5, <1>7, <1>8, Zenon DEF Mine
    <3> QED
      BY <3>1, <1>4, Zenon DEF Holds, SameSlot
  <2> QED
    BY <1>5, <2>1, <2>2, Zenon DEF Mine
<1>10. Replied(c)'
  BY <1>2, <1>4, SMTT(60) DEF Replied, Shape
<1>11. ASSUME NEW w \in Workers PROVE Knows(w, c)' /\ wslot[w] # s
  <2>1. Knows(w, c) /\ Serves(w) /\ SameServe(w)
    BY <1>7, Zenon DEF IInv
  <2>2. wslot[w] # s
    BY <1>1, <2>1, RingAssumption, Zenon DEF Serves
  <2>3. payload' = payload
    BY Zenon DEF claim_free_from
  <2> QED
    BY <1>4, <1>5, <2>1, <2>2, <2>3, Zenon DEF Knows, SameServe
<1>12. \A i, j \in Own(c)' : held'[c][i] = held'[c][j] => i = j
  <2>1. \A i, j \in 1 .. n : held[c][i] = held[c][j] => i = j
    BY <1>5, Zenon DEF IInv, OneHolder
  <2>2. \A i \in 1 .. n : held[c][i] # s
    BY <1>5, <1>8, Zenon
  <2>3. \A i \in 1 .. n + 1 : i \in 1 .. n \/ i = n + 1
    BY <1>2, SMTT(60)
  <2> QED
    BY <1>4, <1>5, <2>1, <2>2, <2>3, Zenon
<1>13. \A t \in Slots : HeldBy(t, c) => HeldBy(t, c)'
  BY <1>2, <1>4, <1>5, SMTT(60) DEF HeldBy
<1>14. HeldBy(s, c)' /\ state'[s] = "CLAIMED"
  <2>1. n + 1 \in 1 .. n + 1
    BY <1>2, SMTT(60)
  <2> QED
    BY <1>1, <1>2, <1>4, <1>5, <2>1, Zenon DEF HeldBy, TypeOK
<1>15. \A i \in Own(c)' : held'[c][i] \in {s} \/ (i \in Own(c) /\ held'[c][i] = held[c][i])
  BY <1>2, <1>4, <1>5, SMTT(60)
<1> HIDE DEF server
<1> QED
  BY <1>3, <1>6, <1>7, <1>8, <1>9, <1>10, <1>11, <1>12, <1>13, <1>14, <1>15, ClientFrame, Zenon

\* A call finds no slot in time.
LEMMA claim_timeout_Inductive ==
    ASSUME IInv, NEW c \in Clients, claim_timeout(c)
    PROVE  IInv'
<1> USE DEF server, ring, call
<1>1. TypeOK /\ Shape(c) /\ Mine(c) /\ Replied(c) /\ pc[c] = "claim" /\ \A w \in Workers : Knows(w, c)
  BY Zenon DEF IInv, claim_timeout
<1>2. held[c] \in Seq(Slots) /\ Len(held[c]) \in Nat /\ pos[c] = 1
  BY <1>1, CallTypes, Zenon DEF Shape
<1>3. UNCHANGED <<ring, asked, server>>
  BY Zenon DEF claim_timeout
<1>4. /\ \A w \in Workers : SameServe(w)
      /\ \A t \in Slots : SameSlot(t)
  BY <1>3, Zenon DEF SameServe, SameSlot
<1>5. CASE held[c] = << >>
  <2>1. EndCall(c)
    BY <1>5, Zenon DEF claim_timeout
  <2>2. TypeOK'
    BY <1>1, <1>3, <2>1, EndCall_Keeps, Zenon DEF TypeOK
  <2>3. Own(c) = {}
    BY <1>1, <1>2, <1>5, SMTT(60) DEF Own
  <2>4. held'[c] = held[c]
    BY <1>1, <1>5, <2>1, Zenon DEF EndCall, TypeOK
  <2> QED
    BY <1>1, <1>4, <2>1, <2>2, <2>3, <2>4, EndCall_Keeps, ClientLocal, Zenon
<1>6. CASE held[c] # << >>
  <2>1. pc' = [pc EXCEPT ![c] = "abandon"] /\ UNCHANGED call
    BY <1>6, Zenon DEF claim_timeout
  <2>2. TypeOK'
    BY <1>1, <1>3, <2>1, Zenon DEF TypeOK
  <2>3. pc'[c] = "abandon" /\ Own(c)' = Own(c) /\ ~ Writes(c)' /\ Sent(c)' = Sent(c)
    BY <1>1, <1>2, <2>1, Zenon DEF Own, Sent, Writes, TypeOK
  <2>4. Shape(c)'
    BY <1>1, <1>2, <1>6, <2>1, <2>3, SMTT(60) DEF Shape
  <2>5. Replied(c)'
    BY <1>1, <2>1, <2>3, Zenon DEF Replied
  <2>6. \A w \in Workers : Knows(w, c)'
    BY <1>1, <1>3, <2>1, <2>3, Zenon DEF Knows
  <2>7. Mine(c)'
    BY <1>1, <1>3, <2>1, <2>3, Zenon DEF Mine, Holds
  <2>8. \A d \in Clients \ {c} : SameCall(d)
    BY <1>1, <2>1, Zenon DEF SameCall, TypeOK
  <2>9. held'[c] = held[c]
    BY <2>1, Zenon
  <2> QED
    BY <1>4, <2>2, <2>3, <2>4, <2>5, <2>6, <2>7, <2>8, <2>9, ClientLocal, Zenon
<1> QED
  BY <1>5, <1>6, Zenon

\* A call writes its request into the slot it claimed.
LEMMA publish_request_Inductive ==
    ASSUME IInv, NEW c \in Clients, publish_request(c)
    PROVE  IInv'
<1> USE DEF server
<1> DEFINE n == Len(held[c])
           s == held[c][n]
<1>0. TypeOK /\ Shape(c) /\ Mine(c) /\ Replied(c) /\ pc[c] = "publish"
  BY Zenon DEF IInv, publish_request
<1>1. /\ held[c] \in Seq(Slots) /\ n \in Nat /\ n >= 1 /\ ids[c] \in Seq(Nat) /\ Len(ids[c]) = n - 1
      /\ reqSeq \in Nat /\ kind[c] \in {"inline", "bulk"}
  BY <1>0, CallTypes, Zenon DEF Shape, ReqIds
<1>2. s \in Slots /\ state[s] = "CLAIMED" /\ n \in Own(c)
  BY <1>0, <1>1, Positions, Zenon DEF Mine, Claimed, Writes
<1>3. TypeOK'
  <2>1. ids' = [ids EXCEPT ![c] = Append(@, reqSeq)] /\ reqSeq' = reqSeq + 1
    BY Zenon DEF publish_request
  <2>2. ids' \in [Clients -> Seq(ReqIds)]
    <3>1. Append(ids[c], reqSeq) \in Seq(ReqIds)
      BY <1>1, SMTT(60) DEF ReqIds
    <3> QED
      BY <1>0, <2>1, <3>1, Zenon DEF TypeOK
  <2>3. payload' \in [Slots -> Payload] /\ reqId' \in [Slots -> ReqIds] /\ reqSeq' \in Nat
    <3>1. [kind |-> kind[c], id |-> reqSeq] \in Payload /\ reqSeq \in ReqIds
      BY <1>1, Records, Zenon DEF ReqIds
    <3>2. reqSeq + 1 \in Nat
      BY <1>1, SMTT(60)
    <3> QED
      BY <1>0, <1>2, <2>1, <3>1, <3>2, Zenon DEF TypeOK, publish_request
  <2> QED
    BY <1>0, <2>2, <2>3, Zenon DEF TypeOK, publish_request
<1>4. /\ pc'[c] = "publish_store" /\ held' = held /\ got' = got /\ pos' = pos /\ want' = want /\ kind' = kind
      /\ seen' = seen /\ state' = state /\ ids'[c] = Append(ids[c], reqSeq)
  BY <1>0, <1>1, Zenon DEF IInv, TypeOK, publish_request
<1>5. Own(c)' = Own(c) /\ Writes(c)' /\ Sent(c)' = Sent(c) /\ Sent(c) = 1 .. n - 1
  BY <1>0, <1>1, <1>4, Zenon DEF Own, Sent, Writes
<1>6. /\ Len(ids'[c]) = n /\ ids'[c][n] = reqSeq /\ \A i \in 1 .. n - 1 : ids'[c][i] = ids[c][i]
  BY <1>0, <1>1, <1>4, SMTT(60)
<1>7. Shape(c)'
  BY <1>0, <1>1, <1>4, <1>6, Zenon DEF Shape
<1>8. /\ \A d \in Clients \ {c} : SameCall(d)
      /\ \A w \in Workers : SameServe(w)
      /\ \A t \in Slots \ {s} : SameSlot(t)
  BY <1>2, Zenon DEF IInv, TypeOK, publish_request, SameCall, SameServe, SameSlot
<1>9. \A d \in Clients : \A i \in Own(d) : held[d][i] = s => d = c /\ i = n
  BY <1>2, Zenon DEF IInv, OneHolder
<1>10. Mine(c)'
  <2>1. Claimed(c, held[c][Len(held[c])])'
    BY <1>0, <1>1, <1>2, <1>4, <1>6, Zenon DEF Claimed, TypeOK, publish_request
  <2>2. ASSUME NEW i \in 1 .. n - 1 PROVE Holds(c, i, held[c][i])'
    <3>0. i \in Own(c) /\ i # n /\ held[c][i] \in Slots
      BY <1>0, <1>1, <1>5, Positions, SMTT(60)
    <3>1. Holds(c, i, held[c][i]) /\ SameSlot(held[c][i])
      BY <1>0, <1>5, <1>8, <1>9, <3>0, Zenon DEF Mine
    <3> QED
      BY <3>1, <1>1, <1>4, <1>6, Zenon DEF Holds, SameSlot
  <2> QED
    BY <1>4, <1>5, <2>1, <2>2, Zenon DEF Mine
<1>11. Replied(c)'
  BY <1>0, <1>1, <1>4, SMTT(60) DEF Replied, Shape
<1>12. ASSUME NEW w \in Workers PROVE Knows(w, c)' /\ wslot[w] # s
  <2>1. Knows(w, c) /\ Serves(w) /\ SameServe(w)
    BY <1>8, Zenon DEF IInv
  <2>2. wslot[w] # s
    BY <1>2, <2>1, RingAssumption, Zenon DEF Serves
  <2>3. payload'[wslot[w]] = payload[wslot[w]] \/ wslot[w] = NoSlot
    BY <1>8, <2>2, Zenon DEF SameSlot, IInv, TypeOK
  <2> QED
    BY <1>4, <1>5, <1>6, <2>1, <2>2, <2>3, Zenon DEF Knows, SameServe
<1>13. state'[s] = "CLAIMED" /\ held'[c] = held[c] /\ \A t \in Slots : t # s => SameSlot(t)
  BY <1>2, <1>4, <1>8, Zenon
<1> HIDE DEF server, n
<1> QED
  BY <1>2, <1>3, <1>5, <1>7, <1>8, <1>10, <1>11, <1>12, <1>13, ClientTouch, Zenon

\* A call hands a slot over.
LEMMA publish_store_Inductive ==
    ASSUME IInv, NEW c \in Clients, publish_store(c)
    PROVE  IInv'
<1> USE DEF server, call
<1> DEFINE n == Len(held[c])
           s == held[c][n]
<1>1. TypeOK /\ Shape(c) /\ Mine(c) /\ Replied(c) /\ pc[c] = "publish_store"
  BY Zenon DEF IInv, publish_store
<1>2. /\ held[c] \in Seq(Slots) /\ n \in Nat /\ n >= 1 /\ Len(ids[c]) = n /\ Len(got[c]) = 0 /\ pos[c] = 1
      /\ want[c] \in Nat
  BY <1>1, CallTypes, Zenon DEF Shape
<1>3. s \in Slots /\ Claimed(c, s) /\ n \in Own(c)
  BY <1>1, Positions, Zenon DEF Mine, Writes
<1>4. state' = [state EXCEPT ![s] = "SUBMITTED"] /\ UNCHANGED <<asked, reqId, payload, ack, bank, reqSeq, call, server>>
  BY Zenon DEF publish_store
<1>5. /\ pc' = [pc EXCEPT ![c] = pc'[c]]
      /\ pc'[c] = IF n = want[c] THEN "await" ELSE "claim"
  BY <1>1, Zenon DEF publish_store, TypeOK
<1>6. TypeOK'
  <2>1. pc' \in [Clients -> {"idle", "claim", "publish", "publish_store", "await",
                             "abandon", "abandon_cas", "copy", "release"}]
    BY <1>1, Zenon DEF TypeOK, publish_store
  <2>2. state' \in [Slots -> SlotStates]
    BY <1>1, <1>4, Zenon DEF TypeOK, SlotStates
  <2> QED
    BY <1>1, <1>4, <2>1, <2>2, Zenon DEF TypeOK
<1>7. Own(c)' = Own(c) /\ Own(c) = 1 .. n /\ ~ Writes(c)' /\ Sent(c)' = 1 .. n /\ Sent(c) = 1 .. n - 1
  BY <1>1, <1>4, <1>5, Zenon DEF Own, Sent, Writes
<1>8. Shape(c)'
  BY <1>1, <1>2, <1>4, <1>5, SMTT(60) DEF Shape
<1>9. /\ \A d \in Clients \ {c} : SameCall(d)
      /\ \A w \in Workers : SameServe(w)
      /\ \A t \in Slots : t # s => SameSlot(t)
  BY <1>1, <1>3, <1>4, <1>5, Zenon DEF TypeOK, SameCall, SameServe, SameSlot
<1>10. \A d \in Clients : \A i \in Own(d) : held[d][i] = s => d = c /\ i = n
  BY <1>3, Zenon DEF IInv, OneHolder
<1>11. ASSUME NEW i \in 1 .. n PROVE Holds(c, i, held[c][i])'
  <2>1. CASE i = n
    <3>1. state'[s] = "SUBMITTED"
      BY <1>1, <1>3, <1>4, Zenon DEF TypeOK
    <3>2. reqId[s] = ids[c][n] /\ payload[s].id = ids[c][n] /\ payload[s].kind = kind[c]
      BY <1>1, <1>3, Zenon DEF Claimed
    <3>3. kind'[c] = kind[c] /\ ids'[c] = ids[c] /\ ~ (i <= Len(got'[c]))
      BY <1>2, <1>4, SMTT(60)
    <3>4. held'[c][i] = s /\ reqId'[s] = reqId[s] /\ payload'[s] = payload[s]
      BY <1>4, <2>1, Zenon
    <3> QED
      BY <2>1, <3>1, <3>2, <3>3, <3>4, Zenon DEF Holds
  <2>2. CASE i # n
    <3>1. i \in Own(c) /\ held[c][i] \in Slots /\ Holds(c, i, held[c][i])
      BY <1>1, <1>2, <1>7, <2>2, Positions, Zenon DEF Mine
    <3>2. SameSlot(held[c][i])
      BY <1>9, <1>10, <2>2, <3>1, Zenon
    <3>3. kind'[c] = kind[c] /\ ids'[c] = ids[c] /\ ~ (i <= Len(got'[c]))
      BY <1>2, <1>4, SMTT(60)
    <3>4. held'[c][i] = held[c][i]
      BY <1>4, Zenon
    <3> QED
      BY <3>1, <3>2, <3>3, <3>4, Zenon DEF Holds, SameSlot
  <2> QED
    BY <2>1, <2>2, Zenon
<1>12. Mine(c)'
  BY <1>4, <1>7, <1>11, Zenon DEF Mine
<1>13. Replied(c)'
  BY <1>2, <1>4, SMTT(60) DEF Replied
<1>14. ASSUME NEW w \in Workers PROVE Knows(w, c)' /\ wslot[w] # s
  <2>1. Knows(w, c) /\ Serves(w) /\ SameServe(w)
    BY <1>9, Zenon DEF IInv
  <2>2. wslot[w] # s
    BY <1>3, <2>1, RingAssumption, Zenon DEF Serves, Claimed
  <2>3. /\ held'[c] = held[c] /\ ids'[c] = ids[c] /\ kind'[c] = kind[c]
        /\ wslot'[w] = wslot[w] /\ wpc'[w] = wpc[w] /\ wreq'[w] = wreq[w] /\ payload' = payload
    BY <1>4, <2>1, Zenon DEF SameServe
  <2>4. ASSUME NEW i \in 1 .. n, held[c][i] = wslot[w]
        PROVE  i \in Sent(c)
    <3>1. i # n
      BY <2>2, <2>4, Zenon
    <3> QED
      BY <1>2, <1>7, <3>1, SMTT(60)
  <2> QED
    BY <1>7, <2>1, <2>2, <2>3, <2>4, Zenon DEF Knows
<1>15. held'[c] = held[c] /\ state'[s] = "SUBMITTED"
  BY <1>1, <1>3, <1>4, Zenon DEF TypeOK
<1> HIDE DEF server, call, n
<1> QED
  BY <1>3, <1>6, <1>7, <1>8, <1>9, <1>12, <1>13, <1>14, <1>15, ClientTouch, Zenon

\* A call takes the answer to its next request; the ack is always its own.
LEMMA await_response_Inductive ==
    ASSUME IInv, NEW c \in Clients, await_response(c)
    PROVE  IInv'
<1> USE DEF server, ring
<1> DEFINE k == Len(got[c]) + 1
           s == held[c][k]
<1>1. TypeOK /\ Shape(c) /\ Mine(c) /\ Replied(c) /\ pc[c] = "await" /\ state[s] = "COMPLETED"
      /\ \A w \in Workers : Knows(w, c)
  BY Zenon DEF IInv, await_response
<1>2. /\ held[c] \in Seq(Slots) /\ Len(held[c]) \in Nat /\ got[c] \in Seq(Answer) /\ Len(got[c]) \in Nat
      /\ k \in 1 .. Len(held[c]) /\ Len(ids[c]) = Len(held[c]) /\ pos[c] = 1 /\ Len(held[c]) = want[c]
      /\ kind[c] \in {"inline", "bulk"}
  <2>1. /\ held[c] \in Seq(Slots) /\ Len(held[c]) \in Nat /\ got[c] \in Seq(Answer) /\ Len(got[c]) \in Nat
        /\ kind[c] \in {"inline", "bulk"}
    BY <1>1, CallTypes, Zenon
  <2>2. /\ Len(ids[c]) = Len(held[c]) /\ pos[c] = 1 /\ Len(held[c]) = want[c] /\ Len(got[c]) < want[c]
    BY <1>1, Zenon DEF Shape
  <2>3. k \in 1 .. Len(held[c])
    BY <2>1, <2>2, SMTT(60)
  <2> QED
    BY <2>1, <2>2, <2>3, Zenon
<1>3. Own(c) = 1 .. Len(held[c]) /\ Sent(c) = Own(c) /\ s \in Slots
  BY <1>1, <1>2, Positions, Zenon DEF Own, Sent, Writes
<1>4. Holds(c, k, s)
  BY <1>1, <1>2, <1>3, Zenon DEF Mine
<1>5. UNCHANGED <<ring, asked, kind, want, held, ids, pos, seen, server>>
  BY Zenon DEF await_response
<1>6. ack[s] = AckOf(ids[c][k]) /\ payload[s].id = ids[c][k] /\ payload[s].kind \in ReplyKinds(kind[c])
  BY <1>1, <1>4, Zenon DEF Holds
<1>7. /\ got' = [got EXCEPT ![c] = Append(@, [resp |-> payload[s], bank |-> NoBank])]
      /\ pc' = [pc EXCEPT ![c] = IF k < want[c] THEN "await"
                                 ELSE IF kind[c] = "bulk" THEN "copy" ELSE "release"]
  BY <1>6, Zenon DEF await_response
<1> DEFINE a == [resp |-> payload[s], bank |-> NoBank]
<1>8. a \in Answer /\ a.resp = payload[s]
  BY <1>1, <1>3, Records, Zenon DEF TypeOK
<1> HIDE DEF a
<1>9. got' = [got EXCEPT ![c] = Append(@, a)]
  BY <1>7, Zenon DEF a
<1>10. /\ got'[c] = Append(got[c], a) /\ Len(got'[c]) = k /\ got'[c][k] = a
       /\ \A i \in 1 .. Len(got[c]) : got'[c][i] = got[c][i]
  BY <1>1, <1>2, <1>8, <1>9, SMTT(60) DEF TypeOK
<1>11. /\ pc'[c] = IF k < want[c] THEN "await" ELSE IF kind[c] = "bulk" THEN "copy" ELSE "release"
  BY <1>1, <1>7, Zenon DEF TypeOK
<1>12. TypeOK'
  <2>1. got' \in [Clients -> Seq(Answer)]
    BY <1>1, <1>8, <1>9, SMTT(60) DEF TypeOK
  <2>2. pc' \in [Clients -> {"idle", "claim", "publish", "publish_store", "await",
                             "abandon", "abandon_cas", "copy", "release"}]
    BY <1>1, <1>7, Zenon DEF TypeOK
  <2> QED
    BY <1>1, <1>5, <2>1, <2>2, Zenon DEF TypeOK
<1>13. Own(c)' = Own(c) /\ Sent(c)' = Sent(c) /\ ~ Writes(c)'
  BY <1>2, <1>3, <1>5, <1>11, Zenon DEF Own, Sent, Writes
<1>14. Shape(c)'
  BY <1>1, <1>2, <1>5, <1>10, <1>11, SMTT(60) DEF Shape
<1>15. Mine(c)'
  <2>1. ASSUME NEW i \in 1 .. Len(held[c]) PROVE Holds(c, i, held[c][i])'
    <3>1. Holds(c, i, held[c][i])
      BY <1>1, <1>3, Zenon DEF Mine
    <3>2. i <= k => state[held[c][i]] = "COMPLETED"
      <4>1. i <= k => i <= Len(got[c]) \/ i = k
        BY <1>2, SMTT(60)
      <4> QED
        BY <1>1, <3>1, <4>1, Zenon DEF Holds
    <3> QED
      BY <1>5, <1>10, <3>1, <3>2, Zenon DEF Holds
  <2> QED
    BY <1>3, <1>5, <1>13, <2>1, Zenon DEF Mine
<1>16. Replied(c)'
  <2>1. ASSUME NEW i \in 1 .. k
        PROVE  got'[c][i].resp.id = ids[c][i] /\ got'[c][i].resp.kind \in ReplyKinds(kind[c])
    <3>1. CASE i = k
      BY <1>6, <1>8, <1>10, <3>1, Zenon
    <3>2. CASE i # k
      <4>1. i \in 1 .. Len(got[c]) /\ got'[c][i] = got[c][i]
        BY <1>2, <1>10, <3>2, SMTT(60)
      <4> QED
        BY <1>1, <4>1, Zenon DEF Replied
    <3> QED
      BY <3>1, <3>2, Zenon
  <2>2. \A i \in 1 .. k : ~ (kind[c] = "bulk" /\ (pc'[c] = "release" \/ (pc'[c] = "copy" /\ i < pos[c])))
    BY <1>2, <1>11, SMTT(60)
  <2> QED
    BY <1>5, <1>10, <2>1, <2>2, Zenon DEF Replied
<1>17. \A w \in Workers : Knows(w, c)'
  BY <1>1, <1>5, <1>13, Zenon DEF Knows
<1>18. /\ \A d \in Clients \ {c} : SameCall(d)
       /\ \A w \in Workers : SameServe(w)
       /\ \A t \in Slots : SameSlot(t)
       /\ held'[c] = held[c]
  BY <1>1, <1>5, <1>7, Zenon DEF TypeOK, SameCall, SameServe, SameSlot
<1> QED
  BY <1>12, <1>13, <1>14, <1>15, <1>16, <1>17, <1>18, ClientLocal, Zenon

\* A call waits no longer.
LEMMA await_timeout_Inductive ==
    ASSUME IInv, NEW c \in Clients, await_timeout(c)
    PROVE  IInv'
<1> USE DEF server, ring, call
<1>1. TypeOK /\ Shape(c) /\ Mine(c) /\ Replied(c) /\ pc[c] = "await" /\ \A w \in Workers : Knows(w, c)
  BY Zenon DEF IInv, await_timeout
<1>2. pc' = [pc EXCEPT ![c] = "abandon"] /\ UNCHANGED <<ring, asked, call, server>>
  BY Zenon DEF await_timeout
<1>3. TypeOK'
  BY <1>1, <1>2, Zenon DEF TypeOK
<1>4. pc'[c] = "abandon" /\ Own(c)' = Own(c) /\ ~ Writes(c)' /\ Sent(c)' = Sent(c)
  BY <1>1, <1>2, Zenon DEF Own, Sent, Writes, TypeOK, Shape
<1>5. Shape(c)'
  BY <1>1, <1>2, <1>4, Zenon DEF Shape
<1>6. Replied(c)'
  BY <1>1, <1>2, <1>4, Zenon DEF Replied
<1>7. \A w \in Workers : Knows(w, c)'
  BY <1>1, <1>2, <1>4, Zenon DEF Knows
<1>8. Mine(c)'
  BY <1>1, <1>2, <1>4, Zenon DEF Mine, Holds
<1>9. /\ \A d \in Clients \ {c} : SameCall(d)
      /\ \A w \in Workers : SameServe(w)
      /\ \A t \in Slots : SameSlot(t)
      /\ held'[c] = held[c]
  BY <1>1, <1>2, Zenon DEF TypeOK, SameCall, SameServe, SameSlot
<1> QED
  BY <1>3, <1>4, <1>5, <1>6, <1>7, <1>8, <1>9, ClientLocal, Zenon

\* A call looks at a slot it gives up: one it has handed over.
LEMMA abandon_load_Inductive ==
    ASSUME IInv, NEW c \in Clients, abandon_load(c)
    PROVE  IInv'
<1> USE DEF server, ring
<1>1. TypeOK /\ Shape(c) /\ Mine(c) /\ Replied(c) /\ pc[c] = "abandon" /\ \A w \in Workers : Knows(w, c)
  BY Zenon DEF IInv, abandon_load
<1>2. /\ seen' = [seen EXCEPT ![c] = state[held[c][pos[c]]]] /\ pc' = [pc EXCEPT ![c] = "abandon_cas"]
      /\ UNCHANGED <<ring, asked, kind, want, held, ids, got, pos, server>>
  BY Zenon DEF abandon_load
<1>3. held[c] \in Seq(Slots) /\ Len(held[c]) \in Nat /\ pos[c] \in 1 .. Len(held[c])
  BY <1>1, CallTypes, SMTT(60) DEF Shape
<1>4. Own(c) = pos[c] .. Len(held[c]) /\ Sent(c) = Own(c) /\ pos[c] \in Own(c) /\ held[c][pos[c]] \in Slots
  BY <1>1, <1>3, SMTT(60) DEF Own, Sent, Writes
<1>5. state[held[c][pos[c]]] \in {"SUBMITTED", "PROCESSING", "COMPLETED"}
  BY <1>1, <1>4, Zenon DEF Mine, Holds
<1>6. TypeOK'
  BY <1>1, <1>2, <1>4, Zenon DEF TypeOK
<1>7. pc'[c] = "abandon_cas" /\ seen'[c] = state[held[c][pos[c]]]
  BY <1>1, <1>2, Zenon DEF TypeOK
<1>8. Own(c)' = Own(c) /\ ~ Writes(c)' /\ Sent(c)' = Sent(c)
  BY <1>2, <1>4, <1>7, Zenon DEF Own, Sent, Writes
<1>9. Shape(c)'
  BY <1>1, <1>2, <1>5, <1>7, Zenon DEF Shape
<1>10. Replied(c)' /\ \A w \in Workers : Knows(w, c)'
  BY <1>1, <1>2, <1>7, <1>8, Zenon DEF Replied, Knows
<1>11. Mine(c)'
  BY <1>1, <1>2, <1>7, <1>8, Zenon DEF Mine, Holds
<1>12. /\ \A d \in Clients \ {c} : SameCall(d)
       /\ \A w \in Workers : SameServe(w)
       /\ \A t \in Slots : SameSlot(t)
       /\ held'[c] = held[c]
  BY <1>1, <1>2, Zenon DEF TypeOK, SameCall, SameServe, SameSlot
<1> QED
  BY <1>6, <1>8, <1>9, <1>10, <1>11, <1>12, ClientLocal, Zenon

\* What a call keeps when it lets go of the slot at pos[c], the next of the
\* ones it has, and is not done.
LEMMA NextSlot ==
    ASSUME TypeOK, NEW c \in Clients, Shape(c), Mine(c), Replied(c),
           \A w \in Workers : Knows(w, c),
           pc[c] \in {"abandon_cas", "release"}, pos[c] # Len(held[c]),
           pc'[c] = IF pc[c] = "release" THEN "release" ELSE "abandon",
           pos'[c] = pos[c] + 1, UNCHANGED <<kind, want, held, ids, got, seen, payload, server>>,
           \A i \in Own(c) \ {pos[c]} : SameSlot(held[c][i])
    PROVE  Own(c)' = Own(c) \ {pos[c]} /\ Shape(c)' /\ Mine(c)' /\ Replied(c)' /\ \A w \in Workers : Knows(w, c)'
<1>1. held[c] \in Seq(Slots) /\ Len(held[c]) \in Nat /\ pos[c] \in 1 .. Len(held[c])
  BY CallTypes, SMTT(60) DEF Shape
<1>2. Own(c) = pos[c] .. Len(held[c]) /\ Sent(c) = Own(c)
  BY <1>1, Zenon DEF Own, Sent, Writes
<1>3. Own(c)' = pos[c] + 1 .. Len(held[c]) /\ Sent(c)' = Own(c)' /\ ~ Writes(c)'
  BY <1>1, Zenon DEF Own, Sent, Writes
<1>4. Own(c)' = Own(c) \ {pos[c]}
  BY <1>1, <1>2, <1>3, SMTT(60)
<1>5. Shape(c)'
  BY <1>1, SMTT(60) DEF Shape
<1>6. Mine(c)'
  <2>1. ASSUME NEW i \in Own(c)' PROVE Holds(c, i, held[c][i])'
    <3>1. Holds(c, i, held[c][i]) /\ SameSlot(held[c][i])
      BY <1>2, <1>4, Zenon DEF Mine
    <3> QED
      BY <3>1, Zenon DEF Holds, SameSlot
  <2> QED
    BY <1>3, <2>1, Zenon DEF Mine
<1>7. Replied(c)'
  BY Zenon DEF Replied
<1>8. \A w \in Workers : Knows(w, c)'
  BY <1>2, <1>3, <1>4, SMTT(60) DEF Knows, server
<1> QED
  BY <1>4, <1>5, <1>6, <1>7, <1>8, Zenon

\* A call gives a slot up: it frees it, or leaves it to the worker that
\* processes it.
LEMMA abandon_Inductive ==
    ASSUME IInv, NEW c \in Clients, abandon(c)
    PROVE  IInv'
<1> USE DEF server
<1> DEFINE n == pos[c]
           s == held[c][n]
<1>1. TypeOK /\ Shape(c) /\ Mine(c) /\ Replied(c) /\ pc[c] = "abandon_cas" /\ \A w \in Workers : Knows(w, c)
  BY Zenon DEF IInv, abandon
<1>2. held[c] \in Seq(Slots) /\ Len(held[c]) \in Nat /\ n \in 1 .. Len(held[c])
  BY <1>1, CallTypes, SMTT(60) DEF Shape
<1>3. Own(c) = n .. Len(held[c]) /\ Sent(c) = Own(c) /\ n \in Own(c) /\ s \in Slots
  BY <1>1, <1>2, SMTT(60) DEF Own, Sent, Writes
<1>4. seen[c] \in {"SUBMITTED", "PROCESSING", "COMPLETED"}
  BY <1>1, Zenon DEF Shape
<1>5. UNCHANGED <<asked, reqId, payload, ack, bank, reqSeq, server>>
  BY Zenon DEF abandon
<1>6. \A w \in Workers : SameServe(w)
  BY <1>5, Zenon DEF SameServe
<1>7. CASE state[s] # seen[c]
  <2>1. /\ state' = state /\ pos' = [pos EXCEPT ![c] = pos[c]] /\ pc' = [pc EXCEPT ![c] = "abandon"]
        /\ UNCHANGED <<kind, want, held, ids, got, seen>>
    BY <1>4, <1>7, Zenon DEF abandon
  <2>2. pos' = pos /\ pc'[c] = "abandon"
    BY <1>1, <2>1, Zenon DEF TypeOK
  <2>3. TypeOK'
    BY <1>1, <1>5, <2>1, <2>2, Zenon DEF TypeOK
  <2>4. Own(c)' = Own(c) /\ ~ Writes(c)' /\ Sent(c)' = Sent(c)
    BY <1>1, <2>1, <2>2, Zenon DEF Own, Sent, Writes
  <2>5. Shape(c)'
    BY <1>1, <2>1, <2>2, Zenon DEF Shape
  <2>6. Replied(c)' /\ \A w \in Workers : Knows(w, c)'
    BY <1>1, <1>5, <2>1, <2>2, <2>4, Zenon DEF Replied, Knows
  <2>7. Mine(c)'
    BY <1>1, <1>5, <2>1, <2>2, <2>4, Zenon DEF Mine, Holds
  <2>8. /\ \A d \in Clients \ {c} : SameCall(d)
        /\ \A t \in Slots : SameSlot(t)
        /\ held'[c] = held[c]
    BY <1>1, <1>5, <2>1, <2>2, Zenon DEF TypeOK, SameCall, SameSlot
  <2> QED
    BY <1>6, <2>3, <2>4, <2>5, <2>6, <2>7, <2>8, ClientLocal, Zenon
<1>8. CASE state[s] = seen[c]
  <2>1. state' = [state EXCEPT ![s] = AbandonTo(seen[c])]
    BY <1>4, <1>8, Zenon DEF abandon
  <2>2. /\ state' \in [Slots -> SlotStates] /\ state'[s] = AbandonTo(seen[c])
        /\ \A t \in Slots : t # s => SameSlot(t)
    BY <1>1, <1>3, <1>5, <2>1, Zenon DEF TypeOK, SlotStates, AbandonTo, SameSlot
  <2>3. \/ state'[s] = "FREE" /\ state[s] # "PROCESSING"
        \/ state'[s] = "ABANDONED" /\ state[s] = "PROCESSING"
    BY <1>8, <2>2, Zenon DEF AbandonTo
  <2>4. \A w \in Workers : wslot[w] = s => Serves(w)'
    <3>1. state[s] # "ABANDONED"
      BY <1>4, <1>8, Zenon
    <3>2. ASSUME NEW w \in Workers, wslot[w] = s PROVE Serves(w)'
      <4>1. Serves(w) /\ wslot[w] # NoSlot
        BY <1>3, <3>2, RingAssumption, Zenon DEF IInv
      <4>2. state[s] = "PROCESSING" /\ state'[s] = "ABANDONED"
        BY <2>3, <3>1, <3>2, <4>1, Zenon DEF Serves
      <4> QED
        BY <1>5, <3>2, <4>1, <4>2, Zenon DEF Serves
    <3> QED
      BY <3>2, Zenon
  <2>5. CASE n = Len(held[c])
    <3>1. EndCall(c)
      BY <1>8, <2>5, Zenon DEF abandon
    <3>2. TypeOK'
      BY <1>1, <1>5, <2>2, <3>1, EndCall_Keeps, Zenon DEF TypeOK
    <3>3. Own(c)' = Own(c) \ {n} /\ Own(c)' = {}
      BY <1>1, <1>2, <1>3, <2>5, <3>1, EndCall_Keeps, SMTT(60)
    <3> HIDE DEF n, server
    <3> QED
      BY <1>1, <1>3, <1>6, <2>2, <2>3, <2>4, <3>1, <3>2, <3>3, EndCall_Keeps, ClientLetsGo, Zenon
  <2>6. CASE n # Len(held[c])
    <3>1. /\ pos' = [pos EXCEPT ![c] = @ + 1] /\ pc' = [pc EXCEPT ![c] = "abandon"]
          /\ UNCHANGED <<kind, want, held, ids, got, seen>>
      BY <1>8, <2>6, Zenon DEF abandon
    <3>2. pos'[c] = n + 1 /\ pc'[c] = "abandon" /\ \A d \in Clients \ {c} : SameCall(d)
      BY <1>1, <3>1, Zenon DEF TypeOK, SameCall
    <3>3. TypeOK'
      <4>1. pos[c] + 1 \in Nat \ {0}
        BY <1>1, CallTypes, SMTT(60)
      <4>2. pos' \in [Clients -> Nat \ {0}]
        BY <1>1, <3>1, <4>1, Zenon DEF TypeOK
      <4>3. pc' \in [Clients -> {"idle", "claim", "publish", "publish_store", "await",
                                 "abandon", "abandon_cas", "copy", "release"}]
        BY <1>1, <3>1, Zenon DEF TypeOK
      <4> QED
        BY <1>1, <1>5, <2>2, <3>1, <4>2, <4>3, Zenon DEF TypeOK
    <3>4. \A i \in Own(c) \ {n} : SameSlot(held[c][i])
      BY <1>1, <1>3, <2>2, Positions, Zenon DEF IInv, OneHolder
    <3>5. Own(c)' = Own(c) \ {n} /\ Shape(c)' /\ Mine(c)' /\ Replied(c)' /\ \A w \in Workers : Knows(w, c)'
      BY <1>1, <1>5, <2>6, <3>1, <3>2, <3>4, NextSlot, Zenon
    <3>6. held'[c] = held[c]
      BY <3>1, Zenon
    <3> HIDE DEF n, server
    <3> QED
      BY <1>3, <1>6, <2>2, <2>3, <2>4, <3>2, <3>3, <3>5, <3>6, ClientLetsGo, Zenon
  <2> QED
    BY <2>5, <2>6, Zenon
<1> QED
  BY <1>7, <1>8, Zenon

\* A call copies a bank while it still holds the slot.
LEMMA copy_bank_Inductive ==
    ASSUME IInv, NEW c \in Clients, copy_bank(c)
    PROVE  IInv'
<1> USE DEF server, ring
<1> DEFINE k == pos[c]
           b == IF got[c][k].resp.kind = "bulk_answer" THEN bank[held[c][k]] ELSE NoBank
           a == [got[c][k] EXCEPT !.bank = b]
<1>1. TypeOK /\ Shape(c) /\ Mine(c) /\ Replied(c) /\ pc[c] = "copy" /\ \A w \in Workers : Knows(w, c)
  BY Zenon DEF IInv, copy_bank
<1>2. /\ held[c] \in Seq(Slots) /\ Len(held[c]) \in Nat /\ got[c] \in Seq(Answer) /\ Len(got[c]) \in Nat
      /\ k \in 1 .. Len(held[c]) /\ Len(got[c]) = Len(held[c]) /\ kind[c] = "bulk"
      /\ Len(ids[c]) = Len(held[c]) /\ want[c] = Len(held[c])
  BY <1>1, CallTypes, SMTT(60) DEF Shape
<1>3. Own(c) = 1 .. Len(held[c]) /\ Sent(c) = Own(c) /\ held[c][k] \in Slots
  BY <1>1, <1>2, SMTT(60) DEF Own, Sent, Writes
<1>4. bank[held[c][k]] = ids[c][k]
  BY <1>1, <1>2, <1>3, SMTT(60) DEF Mine, Holds
<1>5. got[c][k] \in Answer /\ got[c][k].resp.kind = "bulk_answer"
  BY <1>1, <1>2, SMTT(60) DEF Replied, ReplyKinds
<1>6. b = ids[c][k] /\ b \in Banks
  BY <1>1, <1>3, <1>4, <1>5, Zenon DEF TypeOK
<1>7. a \in Answer /\ a.resp = got[c][k].resp /\ a.bank = ids[c][k]
  <2>1. a \in Answer
    BY <1>5, <1>6, Records, Zenon
  <2>2. a.resp = got[c][k].resp /\ a.bank = b
    BY <1>5, Zenon DEF Answer
  <2> QED
    BY <1>6, <2>1, <2>2, Zenon
<1>8. got' = [got EXCEPT ![c] = [got[c] EXCEPT ![k] = a]]
  BY Zenon DEF copy_bank
<1>9. /\ pos' = [pos EXCEPT ![c] = IF k = Len(held[c]) THEN 1 ELSE k + 1]
      /\ pc' = [pc EXCEPT ![c] = IF k = Len(held[c]) THEN "release" ELSE "copy"]
      /\ UNCHANGED <<ring, asked, kind, want, held, ids, seen, server>>
  BY Zenon DEF copy_bank
<1> HIDE DEF a, b
<1>10. /\ got'[c] = [got[c] EXCEPT ![k] = a] /\ got'[c] \in Seq(Answer) /\ Len(got'[c]) = Len(got[c])
       /\ got'[c][k] = a /\ \A i \in 1 .. Len(got[c]) : i # k => got'[c][i] = got[c][i]
  BY <1>1, <1>2, <1>7, <1>8, SMTT(60) DEF TypeOK
<1>11. TypeOK'
  <2>1. got' \in [Clients -> Seq(Answer)]
    BY <1>1, <1>8, <1>10, Zenon DEF TypeOK
  <2>2. pos' \in [Clients -> Nat \ {0}]
    BY <1>1, <1>2, <1>9, SMTT(60) DEF TypeOK
  <2>3. pc' \in [Clients -> {"idle", "claim", "publish", "publish_store", "await",
                             "abandon", "abandon_cas", "copy", "release"}]
    BY <1>1, <1>9, Zenon DEF TypeOK
  <2> QED
    BY <1>1, <1>9, <2>1, <2>2, <2>3, Zenon DEF TypeOK
<1>12. \/ k = Len(held[c]) /\ pos'[c] = 1 /\ pc'[c] = "release"
       \/ k # Len(held[c]) /\ pos'[c] = k + 1 /\ pc'[c] = "copy"
  BY <1>1, <1>9, Zenon DEF TypeOK
<1>13. Own(c)' = Own(c) /\ ~ Writes(c)' /\ Sent(c)' = Sent(c)
  BY <1>3, <1>9, <1>12, Zenon DEF Own, Sent, Writes
<1>14. Shape(c)'
  <2>1. CASE k = Len(held[c])
    BY <1>1, <1>2, <1>9, <1>10, <1>12, <2>1, Zenon DEF Shape
  <2>2. CASE k # Len(held[c])
    <3>1. pos'[c] <= Len(held[c]) /\ pc'[c] = "copy"
      BY <1>2, <1>12, <2>2, SMTT(60)
    <3>2. Len(held[c]) >= 1 /\ Len(held[c]) <= Len(held[c])
      BY <1>2, SMTT(60)
    <3> QED
      BY <1>2, <1>9, <1>10, <3>1, <3>2, Zenon DEF Shape
  <2> QED
    BY <2>1, <2>2, Zenon
<1>15. Mine(c)'
  <2>1. ASSUME NEW i \in Sent(c)
        PROVE  Holds(c, i, held[c][i])'
    <3>1. Holds(c, i, held[c][i]) /\ i <= Len(got[c])
      BY <1>1, <1>2, <1>3, SMTT(60) DEF Mine
    <3>2. pc'[c] \in {"copy", "release"} /\ Len(got'[c]) = Len(got[c])
      BY <1>10, <1>12, Zenon
    <3> QED
      BY <1>1, <1>9, <3>1, <3>2, Zenon DEF Holds
  <2> QED
    BY <1>9, <1>13, <2>1, Zenon DEF Mine
<1>16. Replied(c)'
  <2>1. ASSUME NEW i \in 1 .. Len(got[c])
        PROVE  /\ got'[c][i].resp = got[c][i].resp
               /\ pc'[c] = "release" \/ i < pos'[c] => got'[c][i].bank = ids[c][i]
    <3>1. CASE i = k
      BY <1>7, <1>10, <3>1, Zenon
    <3>2. CASE i # k
      <4>1. pc'[c] = "release" \/ i < pos'[c] => i < k
        BY <1>2, <1>12, <3>2, SMTT(60)
      <4> QED
        BY <1>1, <1>2, <1>10, <3>2, <4>1, Zenon DEF Replied
    <3> QED
      BY <3>1, <3>2, Zenon
  <2> QED
    BY <1>1, <1>9, <1>10, <2>1, Zenon DEF Replied
<1>17. \A w \in Workers : Knows(w, c)'
  BY <1>1, <1>9, <1>13, Zenon DEF Knows
<1>18. /\ \A d \in Clients \ {c} : SameCall(d)
       /\ \A w \in Workers : SameServe(w)
       /\ \A t \in Slots : SameSlot(t)
       /\ held'[c] = held[c]
  BY <1>1, <1>8, <1>9, Zenon DEF TypeOK, SameCall, SameServe, SameSlot
<1> QED
  BY <1>11, <1>13, <1>14, <1>15, <1>16, <1>17, <1>18, ClientLocal, Zenon

\* A call frees a slot it has the answer of.
LEMMA free_slot_Inductive ==
    ASSUME IInv, NEW c \in Clients, free_slot(c)
    PROVE  IInv'
<1> USE DEF server
<1> DEFINE n == pos[c]
           s == held[c][n]
<1>1. TypeOK /\ Shape(c) /\ Mine(c) /\ Replied(c) /\ pc[c] = "release" /\ \A w \in Workers : Knows(w, c)
  BY Zenon DEF IInv, free_slot
<1>2. held[c] \in Seq(Slots) /\ Len(held[c]) \in Nat /\ n \in 1 .. Len(held[c]) /\ Len(got[c]) = Len(held[c])
  BY <1>1, CallTypes, SMTT(60) DEF Shape
<1>3. Own(c) = n .. Len(held[c]) /\ Sent(c) = Own(c) /\ n \in Own(c) /\ s \in Slots
  BY <1>1, <1>2, SMTT(60) DEF Own, Sent, Writes
<1>4. state[s] = "COMPLETED"
  <2>1. Holds(c, n, s)
    BY <1>1, <1>3, Zenon DEF Mine
  <2>2. n <= Len(got[c])
    BY <1>2, SMTT(60)
  <2> HIDE DEF n, s
  <2> QED
    BY <1>1, <2>1, <2>2, Zenon DEF Holds
<1>5. state' = [state EXCEPT ![s] = "FREE"] /\ UNCHANGED <<asked, reqId, payload, ack, bank, reqSeq, server>>
  BY Zenon DEF free_slot
<1>6. /\ \A w \in Workers : SameServe(w)
      /\ \A t \in Slots : t # s => SameSlot(t)
      /\ state'[s] = "FREE" /\ state' \in [Slots -> SlotStates]
  BY <1>1, <1>3, <1>5, Zenon DEF SameServe, SameSlot, TypeOK, SlotStates
<1>7. \A w \in Workers : wslot[w] # s
  BY <1>3, <1>4, RingAssumption, SMTT(60) DEF IInv, Serves
<1>8. CASE n = Len(held[c])
  <2>1. EndCall(c)
    BY <1>8, Zenon DEF free_slot
  <2>2. TypeOK'
    BY <1>1, <1>5, <1>6, <2>1, EndCall_Keeps, Zenon DEF TypeOK
  <2>3. Own(c)' = Own(c) \ {n} /\ Own(c)' = {}
    BY <1>1, <1>2, <1>3, <1>8, <2>1, EndCall_Keeps, SMTT(60)
  <2> HIDE DEF n, server
  <2> QED
    BY <1>1, <1>3, <1>6, <1>7, <2>1, <2>2, <2>3, EndCall_Keeps, ClientLetsGo, Zenon
<1>9. CASE n # Len(held[c])
  <2>1. pos' = [pos EXCEPT ![c] = @ + 1] /\ UNCHANGED <<pc, kind, want, held, ids, got, seen>>
    BY <1>9, Zenon DEF free_slot
  <2>2. pos'[c] = n + 1 /\ pc'[c] = "release" /\ \A d \in Clients \ {c} : SameCall(d)
    BY <1>1, <2>1, Zenon DEF TypeOK, SameCall
  <2>3. TypeOK'
    <3>1. pos[c] + 1 \in Nat \ {0}
      BY <1>1, CallTypes, SMTT(60)
    <3>2. pos' \in [Clients -> Nat \ {0}]
      BY <1>1, <2>1, <3>1, Zenon DEF TypeOK
    <3> QED
      BY <1>1, <1>5, <1>6, <2>1, <3>2, Zenon DEF TypeOK
  <2>4. \A i \in Own(c) \ {n} : SameSlot(held[c][i])
    BY <1>1, <1>3, <1>6, Positions, Zenon DEF IInv, OneHolder
  <2>5. Own(c)' = Own(c) \ {n} /\ Shape(c)' /\ Mine(c)' /\ Replied(c)' /\ \A w \in Workers : Knows(w, c)'
    BY <1>1, <1>5, <1>9, <2>1, <2>2, <2>4, NextSlot, Zenon
  <2>6. held'[c] = held[c]
    BY <2>1, Zenon
  <2> HIDE DEF n, server
  <2> QED
    BY <1>3, <1>6, <1>7, <2>2, <2>3, <2>5, <2>6, ClientLetsGo, Zenon
<1> QED
  BY <1>8, <1>9, Zenon

-----------------------------------------------------------------------------
\* A worker takes a request nobody serves yet.
LEMMA server_take_from_Inductive ==
    ASSUME IInv, NEW w \in Workers, server_take_from(w)
    PROVE  IInv'
<1> USE DEF call
<1>1. PICK s \in Slots : /\ state[s] = "SUBMITTED"
                         /\ state' = [state EXCEPT ![s] = "PROCESSING"]
                         /\ wslot' = [wslot EXCEPT ![w] = s]
  BY Zenon DEF server_take_from
<1>2. /\ wpc[w] = "take" /\ wpc' = [wpc EXCEPT ![w] = "read"]
      /\ UNCHANGED <<asked, reqId, payload, ack, bank, reqSeq, pc, call, wreq>>
  BY Zenon DEF server_take_from
<1>3. TypeOK /\ Serves(w) /\ \A v \in Workers : Serves(v)
  BY Zenon DEF IInv
<1>4. TypeOK'
  BY <1>1, <1>2, <1>3, Zenon DEF TypeOK, SlotStates
<1>5. wslot[w] = NoSlot /\ wslot'[w] = s /\ wpc'[w] = "read" /\ state'[s] = "PROCESSING" /\ s # NoSlot
  <2>1. wslot[w] = NoSlot
    BY <1>2, <1>3, Zenon DEF Serves
  <2>2. s # NoSlot
    BY <1>1, RingAssumption, Zenon
  <2> QED
    BY <1>1, <1>2, <1>3, <2>1, <2>2, Zenon DEF TypeOK
<1>6. /\ \A c \in Clients : SameCall(c)
      /\ \A v \in Workers \ {w} : SameServe(v) /\ wslot[v] # s
      /\ \A t \in Slots \ {s} : SameSlot(t)
  <2>1. \A v \in Workers \ {w} : wslot[v] # s
    BY <1>1, <1>3, <1>5, Zenon DEF Serves
  <2>2. \A v \in Workers \ {w} : SameServe(v)
    BY <1>1, <1>2, <1>3, Zenon DEF TypeOK, SameServe
  <2>3. \A t \in Slots \ {s} : SameSlot(t)
    BY <1>1, <1>2, <1>3, Zenon DEF TypeOK, SameSlot
  <2>4. \A c \in Clients : SameCall(c)
    BY <1>2, Zenon DEF SameCall
  <2> QED
    BY <2>1, <2>2, <2>3, <2>4, Zenon
<1>7. Serves(w)'
  BY <1>5, Zenon DEF Serves
<1>8. ASSUME NEW c \in Clients, NEW i \in Sent(c), held[c][i] = s
      PROVE  /\ Holds(c, i, held[c][i])'
             /\ payload[s].id = ids[c][i] /\ payload[s].kind = kind[c]
  <2>1. Holds(c, i, s)
    BY <1>8, Zenon DEF IInv, Mine
  <2> QED
    BY <1>1, <1>2, <1>5, <1>8, <2>1, Zenon DEF Holds
<1>9. ASSUME NEW c \in Clients PROVE Knows(w, c)'
  <2>1. Sent(c)' = Sent(c) /\ held'[c] = held[c] /\ ids'[c] = ids[c] /\ kind'[c] = kind[c]
    BY <1>6, SameShape, Zenon DEF SameCall
  <2> QED
    BY <1>2, <1>5, <1>8, <2>1, Zenon DEF Knows
<1> DEFINE T == {s}
<1>10. /\ T \in SUBSET Slots /\ wslot[w] \in T \cup {NoSlot} /\ wslot'[w] \in T \cup {NoSlot}
       /\ \A v \in Workers \ {w} : SameServe(v) /\ wslot[v] \notin T
       /\ \A t \in Slots \ T : SameSlot(t)
       /\ \A t \in T : state[t] # "CLAIMED" /\ state[t] \notin {"FREE", "ABANDONED"} /\ wslot'[w] = t
       /\ \A c \in Clients : \A i \in Sent(c) : held[c][i] \in T => Holds(c, i, held[c][i])'
  BY <1>1, <1>5, <1>6, <1>8, Zenon
<1> HIDE DEF call, T
<1> QED
  BY <1>4, <1>6, <1>7, <1>9, <1>10, ServerFrame, Zenon

\* A step of a worker on the slot it serves, which keeps it or lets it go.
LEMMA ServerTouch ==
    ASSUME IInv, NEW w \in Workers, wslot[w] # NoSlot,
           \A c \in Clients : SameCall(c),
           \A v \in Workers \ {w} : SameServe(v),
           \A s \in Slots : s # wslot[w] => SameSlot(s),
           \/ wslot'[w] = wslot[w] /\ state' = state
           \/ /\ wslot'[w] = NoSlot
              /\ \/ state'[wslot[w]] = "COMPLETED" /\ state[wslot[w]] = "PROCESSING"
                 \/ state'[wslot[w]] = "FREE" /\ state[wslot[w]] = "ABANDONED",
           \A c \in Clients : \A i \in Sent(c) : held[c][i] = wslot[w] => Holds(c, i, held[c][i])',
           TypeOK', Serves(w)', \A c \in Clients : Knows(w, c)'
    PROVE  IInv'
<1> DEFINE T == {wslot[w]}
<1>1. wslot[w] \in Slots /\ state[wslot[w]] \in {"PROCESSING", "ABANDONED"}
  <2>1. wslot[w] \in Slots \cup {NoSlot}
    BY Zenon DEF IInv, TypeOK
  <2>2. wpc[w] # "take" /\ state[wslot[w]] \in {"PROCESSING", "ABANDONED"}
    BY Zenon DEF IInv, Serves
  <2> QED
    BY <2>1, <2>2, Zenon
<1>2. \A v \in Workers \ {w} : SameServe(v) /\ wslot[v] \notin T
  BY Zenon DEF IInv, OneServer
<1>3. /\ T \in SUBSET Slots /\ wslot[w] \in T \cup {NoSlot} /\ wslot'[w] \in T \cup {NoSlot}
      /\ \A s \in Slots \ T : SameSlot(s)
      /\ \A s \in T : state[s] # "CLAIMED"
      /\ \A s \in T : state'[s] \in {"FREE", "ABANDONED"} \/ state[s] \notin {"FREE", "ABANDONED"}
      /\ \A s \in T : state'[s] \in {"PROCESSING", "ABANDONED"} => wslot'[w] = s
      /\ \A c \in Clients : \A i \in Sent(c) : held[c][i] \in T => Holds(c, i, held[c][i])'
  BY <1>1, Zenon
<1> HIDE DEF T
<1> QED
  BY <1>2, <1>3, ServerFrame, Zenon

\* A worker reads the request.
LEMMA read_request_Inductive ==
    ASSUME IInv, NEW w \in Workers, read_request(w)
    PROVE  IInv'
<1> USE DEF call, ring
<1>1. TypeOK /\ Serves(w) /\ \A c \in Clients : Mine(c) /\ Knows(w, c)
  BY Zenon DEF IInv
<1>2. /\ wpc[w] = "read" /\ wpc' = [wpc EXCEPT ![w] = "handle"]
      /\ wreq' = [wreq EXCEPT ![w] = [req_id |-> reqId[wslot[w]], payload |-> payload[wslot[w]]]]
      /\ UNCHANGED <<ring, asked, pc, call, wslot>>
  BY Zenon DEF read_request
<1>3. wslot[w] # NoSlot /\ wslot[w] \in Slots
  BY <1>1, <1>2, Zenon DEF Serves, TypeOK
<1>4. TypeOK'
  <2>1. [req_id |-> reqId[wslot[w]], payload |-> payload[wslot[w]]] \in Request
    BY <1>1, <1>3, Records, Zenon DEF TypeOK, ReqIds
  <2> QED
    BY <1>1, <1>2, <2>1, Zenon DEF TypeOK
<1>5. wpc'[w] = "handle" /\ wreq'[w].req_id = reqId[wslot[w]] /\ wreq'[w].payload = payload[wslot[w]]
  BY <1>1, <1>2, Zenon DEF TypeOK
<1>6. /\ \A c \in Clients : SameCall(c)
      /\ \A v \in Workers \ {w} : SameServe(v)
      /\ \A t \in Slots : SameSlot(t)
      /\ wslot'[w] = wslot[w] /\ state' = state
  BY <1>1, <1>2, Zenon DEF TypeOK, SameCall, SameServe, SameSlot
<1>7. Serves(w)'
  BY <1>1, <1>2, <1>3, <1>5, Zenon DEF Serves
<1>8. ASSUME NEW c \in Clients PROVE Knows(w, c)' /\ \A i \in Sent(c) : Holds(c, i, held[c][i])'
  <2>1. Sent(c)' = Sent(c)
    BY <1>6, SameShape, Zenon
  <2>2. ASSUME NEW i \in Sent(c), held[c][i] = wslot[w]
        PROVE  wreq'[w].payload.id = ids[c][i] /\ wreq'[w].payload.kind = kind[c]
    BY <1>1, <1>2, <1>3, <1>5, <2>2, Zenon DEF Knows
  <2>3. Knows(w, c)'
    <3>1. /\ held'[c] = held[c] /\ ids'[c] = ids[c] /\ kind'[c] = kind[c]
          /\ wslot'[w] = wslot[w] /\ wpc'[w] # "read"
      BY <1>5, <1>6, Zenon DEF SameCall
    <3> QED
      BY <2>1, <2>2, <3>1, Zenon DEF Knows
  <2>4. ASSUME NEW i \in Sent(c)
        PROVE  Holds(c, i, held[c][i])'
    <3>1. Holds(c, i, held[c][i])
      BY <1>1, Zenon DEF Mine
    <3> QED
      BY <1>2, <3>1, Zenon DEF Holds
  <2> QED
    BY <2>3, <2>4, Zenon
<1> QED
  BY <1>3, <1>4, <1>6, <1>7, <1>8, ServerTouch, Zenon

\* A worker fills the bank of the slot it serves.
LEMMA handler_Inductive ==
    ASSUME IInv, NEW w \in Workers, handler(w)
    PROVE  IInv'
<1> USE DEF call
<1>1. TypeOK /\ Serves(w) /\ \A c \in Clients : Mine(c) /\ Knows(w, c)
  BY Zenon DEF IInv
<1>2. /\ wpc[w] = "handle" /\ wpc' = [wpc EXCEPT ![w] = "complete"]
      /\ bank' = IF wreq[w].payload.kind = "bulk" THEN [bank EXCEPT ![wslot[w]] = wreq[w].payload.id] ELSE bank
      /\ UNCHANGED <<asked, state, reqId, payload, ack, reqSeq, pc, call, wslot, wreq>>
  BY Zenon DEF handler
<1>3. wslot[w] # NoSlot /\ wslot[w] \in Slots /\ state[wslot[w]] \in {"PROCESSING", "ABANDONED"}
  BY <1>1, <1>2, Zenon DEF Serves, TypeOK
<1>4. wreq[w].payload.id \in Banks
  BY <1>1, Records, Zenon DEF TypeOK, Banks, ReqIds
<1>5. bank' \in [Slots -> Banks]
  BY <1>1, <1>2, <1>4, Zenon DEF TypeOK
<1>6. TypeOK'
  BY <1>1, <1>2, <1>5, Zenon DEF TypeOK
<1>7. /\ wpc'[w] = "complete" /\ (wreq[w].payload.kind = "bulk" => bank'[wslot[w]] = wreq[w].payload.id)
      /\ \A s \in Slots : s # wslot[w] => bank'[s] = bank[s]
  BY <1>1, <1>2, <1>3, Zenon DEF TypeOK
<1>8. /\ \A c \in Clients : SameCall(c)
      /\ \A v \in Workers \ {w} : SameServe(v)
      /\ \A t \in Slots : t # wslot[w] => SameSlot(t)
      /\ wslot'[w] = wslot[w] /\ state' = state
  BY <1>1, <1>2, <1>7, Zenon DEF TypeOK, SameCall, SameServe, SameSlot
<1>9. Serves(w)'
  BY <1>1, <1>2, <1>3, <1>7, Zenon DEF Serves
<1>10. ASSUME NEW c \in Clients
       PROVE  Knows(w, c)' /\ \A i \in Sent(c) : held[c][i] = wslot[w] => Holds(c, i, held[c][i])'
  <2>1. Sent(c)' = Sent(c)
    BY <1>8, SameShape, Zenon
  <2>2. Knows(w, c)'
    BY <1>1, <1>2, <1>7, <2>1, Zenon DEF Knows
  <2> QED
    BY <1>1, <1>2, <1>3, <2>2, Zenon DEF Mine, Holds
<1> QED
  BY <1>3, <1>6, <1>8, <1>9, <1>10, ServerTouch, Zenon

\* A worker is done with its slot.
LEMMA EndServe_Keeps ==
    ASSUME TypeOK, NEW w \in Workers, EndServe(w)
    PROVE  /\ wpc' \in [Workers -> {"take", "read", "handle", "complete", "complete_cas", "drain"}]
           /\ wslot' \in [Workers -> Slots \cup {NoSlot}] /\ wreq' \in [Workers -> Request]
           /\ wslot'[w] = NoSlot /\ Serves(w)' /\ \A c : Knows(w, c)'
           /\ \A v \in Workers \ {w} : SameServe(v)
<1>1. /\ wpc' \in [Workers -> {"take", "read", "handle", "complete", "complete_cas", "drain"}]
      /\ wslot' \in [Workers -> Slots \cup {NoSlot}] /\ wreq' \in [Workers -> Request]
  BY Records, Zenon DEF TypeOK, EndServe
<1>2. wslot'[w] = NoSlot /\ wpc'[w] = "take"
  BY Zenon DEF TypeOK, EndServe
<1>3. Serves(w)' /\ \A c : Knows(w, c)'
  BY <1>2, Zenon DEF Serves, Knows
<1>4. \A v \in Workers \ {w} : SameServe(v)
  BY Zenon DEF TypeOK, EndServe, SameServe
<1> QED
  BY <1>1, <1>2, <1>3, <1>4, Zenon

\* A worker writes the answer into its slot, or finds that its client gave up.
LEMMA server_complete_Inductive ==
    ASSUME IInv, NEW w \in Workers, server_complete(w)
    PROVE  IInv'
<1> USE DEF call
<1> DEFINE s == wslot[w]
<1>1. TypeOK /\ Serves(w) /\ \A c \in Clients : Mine(c) /\ Knows(w, c)
  BY Zenon DEF IInv
<1>2. wpc[w] = "complete" /\ UNCHANGED <<asked, state, reqId, bank, reqSeq, pc, call>>
  BY Zenon DEF server_complete
<1>3. s # NoSlot /\ s \in Slots /\ state[s] \in {"PROCESSING", "ABANDONED"} /\ reqId[s] = wreq[w].req_id
  BY <1>1, <1>2, Zenon DEF Serves, TypeOK
<1>4. CASE state[s] = "PROCESSING"
  <2>1. PICK r \in Replies(wreq[w].payload) : payload' = [payload EXCEPT ![s] = r]
    BY <1>3, <1>4, Zenon DEF server_complete
  <2>2. /\ ack' = [ack EXCEPT ![s] = AckOf(wreq[w].req_id)] /\ wpc' = [wpc EXCEPT ![w] = "complete_cas"]
        /\ UNCHANGED <<wslot, wreq>>
    BY <1>3, <1>4, Zenon DEF server_complete
  <2>3. wreq[w] \in Request /\ wreq[w].req_id \in Nat /\ wreq[w].payload \in Payload
    BY <1>1, Records, Zenon DEF TypeOK
  <2>4. /\ r \in Payload /\ r.id = wreq[w].payload.id /\ r.kind \in ReplyKinds(wreq[w].payload.kind)
        /\ AckOf(wreq[w].req_id) \in 0 .. AckMod - 1
    BY <2>1, <2>3, Records, Zenon
  <2>5. TypeOK'
    BY <1>1, <1>2, <2>1, <2>2, <2>4, Zenon DEF TypeOK
  <2>6. /\ payload'[s] = r /\ ack'[s] = AckOf(wreq[w].req_id) /\ wpc'[w] = "complete_cas"
        /\ \A t \in Slots : t # s => payload'[t] = payload[t] /\ ack'[t] = ack[t]
    BY <1>1, <1>3, <2>1, <2>2, Zenon DEF TypeOK
  <2>7. /\ \A c \in Clients : SameCall(c)
        /\ \A v \in Workers \ {w} : SameServe(v)
        /\ \A t \in Slots : t # wslot[w] => SameSlot(t)
        /\ wslot'[w] = wslot[w] /\ state' = state
    BY <1>1, <1>2, <2>2, <2>6, Zenon DEF TypeOK, SameCall, SameServe, SameSlot
  <2>8. Serves(w)'
    BY <1>1, <1>2, <1>3, <2>2, <2>4, <2>6, Zenon DEF Serves
  <2>9. ASSUME NEW c \in Clients
        PROVE  Knows(w, c)' /\ \A i \in Sent(c) : held[c][i] = wslot[w] => Holds(c, i, held[c][i])'
    <3>1. Sent(c)' = Sent(c)
      BY <2>7, SameShape, Zenon
    <3>2. Knows(w, c)'
      BY <1>1, <1>2, <2>2, <2>6, <3>1, Zenon DEF Knows
    <3>3. ASSUME NEW i \in Sent(c), held[c][i] = wslot[w]
          PROVE  Holds(c, i, held[c][i])'
      <4>1. Holds(c, i, held[c][i]) /\ state[held[c][i]] = "PROCESSING"
        BY <1>1, <1>4, <3>3, Zenon DEF Mine
      <4> QED
        BY <1>2, <4>1, Zenon DEF Holds
    <3> QED
      BY <3>2, <3>3, Zenon
  <2> QED
    BY <1>3, <2>5, <2>7, <2>8, <2>9, ServerTouch, Zenon
<1>5. CASE state[s] = "ABANDONED"
  <2>1. wpc' = [wpc EXCEPT ![w] = "drain"] /\ UNCHANGED <<wslot, wreq, payload, ack>>
    BY <1>3, <1>5, Zenon DEF server_complete
  <2>2. TypeOK'
    BY <1>1, <1>2, <2>1, Zenon DEF TypeOK
  <2>3. wpc'[w] = "drain"
    BY <1>1, <2>1, Zenon DEF TypeOK
  <2>4. /\ \A c \in Clients : SameCall(c)
        /\ \A v \in Workers \ {w} : SameServe(v)
        /\ \A t \in Slots : SameSlot(t)
        /\ wslot'[w] = wslot[w] /\ state' = state
    BY <1>1, <1>2, <2>1, Zenon DEF TypeOK, SameCall, SameServe, SameSlot
  <2>5. Serves(w)'
    BY <1>1, <1>2, <1>3, <1>5, <2>1, <2>3, Zenon DEF Serves
  <2>6. ASSUME NEW c \in Clients
        PROVE  Knows(w, c)' /\ \A i \in Sent(c) : Holds(c, i, held[c][i])'
    <3>1. Sent(c)' = Sent(c)
      BY <2>4, SameShape, Zenon
    <3>2. Knows(w, c)'
      BY <1>1, <1>2, <2>1, <2>3, <3>1, Zenon DEF Knows
    <3> QED
      BY <1>1, <1>2, <2>1, <3>2, Zenon DEF Mine, Holds
  <2> QED
    BY <1>3, <2>2, <2>4, <2>5, <2>6, ServerTouch, Zenon
<1> QED
  BY <1>3, <1>4, <1>5, Zenon

\* A worker publishes the answer, unless its client gave up.
LEMMA complete_cas_Inductive ==
    ASSUME IInv, NEW w \in Workers, complete_cas(w)
    PROVE  IInv'
<1> USE DEF call
<1> DEFINE s == wslot[w]
<1>1. TypeOK /\ Serves(w) /\ \A c \in Clients : Mine(c) /\ Knows(w, c)
  BY Zenon DEF IInv
<1>2. wpc[w] = "complete_cas" /\ UNCHANGED <<asked, reqId, payload, ack, bank, reqSeq, pc, call>>
  BY Zenon DEF complete_cas
<1>3. s # NoSlot /\ s \in Slots /\ state[s] \in {"PROCESSING", "ABANDONED"}
  BY <1>1, <1>2, Zenon DEF Serves, TypeOK
<1>4. \A c \in Clients : SameCall(c)
  BY <1>2, Zenon DEF SameCall
<1>5. CASE state[s] = "PROCESSING"
  <2>1. EndServe(w) /\ state' = [state EXCEPT ![s] = "COMPLETED"]
    BY <1>5, Zenon DEF complete_cas
  <2>2. /\ state' \in [Slots -> SlotStates] /\ state'[s] = "COMPLETED"
        /\ \A t \in Slots : t # wslot[w] => SameSlot(t)
    BY <1>1, <1>2, <1>3, <2>1, Zenon DEF TypeOK, SlotStates, SameSlot
  <2>3. TypeOK'
    BY <1>1, <1>2, <2>1, <2>2, EndServe_Keeps, Zenon DEF TypeOK
  <2>4. ASSUME NEW c \in Clients, NEW i \in Sent(c), held[c][i] = s PROVE Holds(c, i, held[c][i])'
    <3>1. Holds(c, i, s) /\ wreq[w].payload.id = ids[c][i] /\ wreq[w].payload.kind = kind[c]
      BY <1>1, <1>2, <1>3, <2>4, Zenon DEF Mine, Knows
    <3>2. /\ ack[s] = AckOf(ids[c][i]) /\ payload[s].id = ids[c][i] /\ payload[s].kind \in ReplyKinds(kind[c])
          /\ kind[c] = "bulk" => bank[s] = ids[c][i]
      BY <1>1, <1>2, <3>1, Zenon DEF Serves, Holds
    <3> QED
      BY <1>2, <2>2, <2>4, <3>1, <3>2, Zenon DEF Holds
  <2> QED
    BY <1>1, <1>3, <1>4, <1>5, <2>1, <2>2, <2>3, <2>4, EndServe_Keeps, ServerTouch, Zenon
<1>6. CASE state[s] = "ABANDONED"
  <2>1. wpc' = [wpc EXCEPT ![w] = "drain"] /\ UNCHANGED <<state, wslot, wreq>>
    BY <1>6, Zenon DEF complete_cas
  <2>2. TypeOK'
    BY <1>1, <1>2, <2>1, Zenon DEF TypeOK
  <2>3. wpc'[w] = "drain"
    BY <1>1, <2>1, Zenon DEF TypeOK
  <2>4. /\ \A v \in Workers \ {w} : SameServe(v)
        /\ \A t \in Slots : SameSlot(t)
        /\ wslot'[w] = wslot[w] /\ state' = state
    BY <1>1, <1>2, <2>1, Zenon DEF TypeOK, SameServe, SameSlot
  <2>5. Serves(w)'
    BY <1>1, <1>2, <1>3, <1>6, <2>1, <2>3, Zenon DEF Serves
  <2>6. ASSUME NEW c \in Clients
        PROVE  Knows(w, c)' /\ \A i \in Sent(c) : Holds(c, i, held[c][i])'
    <3>1. Sent(c)' = Sent(c)
      BY <1>4, SameShape, Zenon
    <3>2. Knows(w, c)'
      BY <1>1, <1>2, <2>1, <2>3, <3>1, Zenon DEF Knows
    <3> QED
      BY <1>1, <1>2, <2>1, <3>2, Zenon DEF Mine, Holds
  <2> QED
    BY <1>3, <1>4, <2>2, <2>4, <2>5, <2>6, ServerTouch, Zenon
<1> QED
  BY <1>3, <1>5, <1>6, Zenon

\* A worker frees a slot that was given up.
LEMMA drain_Inductive ==
    ASSUME IInv, NEW w \in Workers, drain(w)
    PROVE  IInv'
<1> USE DEF call
<1> DEFINE s == wslot[w]
<1>1. TypeOK /\ Serves(w) /\ \A c \in Clients : Mine(c)
  BY Zenon DEF IInv
<1>2. wpc[w] = "drain" /\ EndServe(w) /\ UNCHANGED <<asked, reqId, payload, ack, bank, reqSeq, pc, call>>
  BY Zenon DEF drain
<1>3. s # NoSlot /\ s \in Slots /\ state[s] = "ABANDONED"
  BY <1>1, <1>2, Zenon DEF Serves, TypeOK
<1>4. state' = [state EXCEPT ![s] = "FREE"]
  BY <1>3, Zenon DEF drain
<1>5. /\ state' \in [Slots -> SlotStates] /\ state'[s] = "FREE"
      /\ \A t \in Slots : t # wslot[w] => SameSlot(t)
      /\ \A c \in Clients : SameCall(c)
  BY <1>1, <1>2, <1>3, <1>4, Zenon DEF TypeOK, SlotStates, SameSlot, SameCall
<1>6. TypeOK'
  BY <1>1, <1>2, <1>5, EndServe_Keeps, Zenon DEF TypeOK
<1>7. \A c \in Clients : \A i \in Sent(c) : held[c][i] # s
  BY <1>1, <1>3, Zenon DEF Mine, Holds
<1> QED
  BY <1>1, <1>2, <1>3, <1>5, <1>6, <1>7, EndServe_Keeps, ServerTouch, Zenon

-----------------------------------------------------------------------------
\* At the start no call runs and every slot is free.
LEMMA Init_Invariant == Init => IInv
<1> SUFFICES ASSUME Init PROVE IInv
  BY Zenon
<1> USE DEF Init
<1>1. TypeOK
  BY Records, RingAssumption, SMTT(60) DEF TypeOK, SlotStates, ReqIds, Banks, NoBank
<1>2. ASSUME NEW c \in Clients PROVE Shape(c) /\ Mine(c) /\ Replied(c) /\ Own(c) = {} /\ Sent(c) = {}
  <2>1. Own(c) = {} /\ Sent(c) = {} /\ ~ Writes(c)
    BY SMTT(60) DEF Own, Sent, Writes
  <2> QED
    BY <2>1, SMTT(60) DEF Shape, Mine, Replied
<1>3. ASSUME NEW w \in Workers, NEW c \in Clients PROVE Knows(w, c)
  BY <1>2, Zenon DEF Knows
<1>4. ASSUME NEW w \in Workers PROVE Serves(w)
  BY Zenon DEF Serves
<1>5. Owned /\ Served /\ OneHolder /\ OneServer
  BY <1>2, Zenon DEF Owned, Served, OneHolder, OneServer
<1> QED
  BY <1>1, <1>2, <1>3, <1>4, <1>5, Zenon DEF IInv

\* Every step of a client or a worker keeps the inductive invariant.
LEMMA Step_Inductive == IInv /\ [Next]_vars => IInv'
<1> SUFFICES ASSUME IInv, [Next]_vars PROVE IInv'
  BY Zenon
<1>1. CASE UNCHANGED vars
  <2>1. /\ \A c \in Clients : SameCall(c)
        /\ \A w \in Workers : SameServe(w)
        /\ \A s : SameSlot(s)
    BY <1>1, Zenon DEF vars, ring, call, server, SameCall, SameServe, SameSlot
  <2>2. TypeOK'
    BY <1>1, Zenon DEF IInv, vars, ring, call, server, TypeOK
  <2>3. ASSUME NEW c \in Clients PROVE Shape(c)' /\ Mine(c)' /\ Replied(c)'
    BY <2>1, SameShape, SameMine, Zenon DEF IInv
  <2>4. ASSUME NEW w \in Workers PROVE Serves(w)' /\ \A c \in Clients : Knows(w, c)'
    BY <2>1, SameServes, SameKnows, Zenon DEF IInv, SameSlot
  <2>5. OneHolder'
    BY <1>1, SMTT(60) DEF IInv, vars, call, OneHolder, Own
  <2>6. Owned'
    BY <2>1, SameShape, Zenon DEF IInv, SameSlot, Owned
  <2>7. Served' /\ OneServer'
    BY <1>1, Zenon DEF IInv, vars, ring, server, Served, OneServer
  <2> QED
    BY <2>2, <2>3, <2>4, <2>5, <2>6, <2>7, Zenon DEF IInv
<1>2. ASSUME NEW c \in Clients, ClientStep(c) PROVE IInv'
  BY <1>2, submit_Inductive, claim_free_from_Inductive, claim_timeout_Inductive, publish_request_Inductive, publish_store_Inductive, await_response_Inductive, await_timeout_Inductive, abandon_load_Inductive, abandon_Inductive, copy_bank_Inductive, free_slot_Inductive, Zenon DEF ClientStep
<1>3. ASSUME NEW w \in Workers, ServerStep(w) PROVE IInv'
  BY <1>3, server_take_from_Inductive, read_request_Inductive, handler_Inductive, server_complete_Inductive, complete_cas_Inductive, drain_Inductive, Zenon DEF ServerStep
<1> QED
  BY <1>1, <1>2, <1>3, Zenon DEF Next

\* The inductive invariant holds for ever.
THEOREM Invariant == Spec => []IInv
BY Init_Invariant, Step_Inductive, PTL DEF Spec

\* Every slot belongs to at most one client and one worker, as its state says
\* (ring.rs: the state word is all that keeps two calls, or a call that gave up
\* and a worker that answers late, from the same slot).
THEOREM SlotsAreOwned == Spec => []SlotOwnership
<1>1. IInv => SlotOwnership
  <2> SUFFICES ASSUME IInv PROVE SlotOwnership
    BY Zenon
  <2>1. ASSUME NEW s \in Slots, NEW c \in Clients, HeldBy(s, c) PROVE state[s] \notin {"FREE", "ABANDONED"}
    BY <2>1, Positions, Zenon DEF IInv, HeldBy
  <2>2. ASSUME NEW s \in Slots, NEW w \in Workers, ServedBy(s, w) PROVE state[s] \in {"PROCESSING", "ABANDONED"}
    BY <2>2, RingAssumption, Zenon DEF IInv, Serves, ServedBy
  <2>3. ASSUME NEW s \in Slots PROVE s # NoSlot
    BY RingAssumption, Zenon
  <2>4. ASSUME NEW s \in Slots
        PROVE  /\ state[s] \in {"FREE", "ABANDONED"} <=> \A c \in Clients : ~ HeldBy(s, c)
               /\ state[s] \in {"PROCESSING", "ABANDONED"} <=> \E w \in Workers : ServedBy(s, w)
               /\ \A w, v \in Workers : ServedBy(s, w) /\ ServedBy(s, v) => w = v
    <3>1. state[s] \in {"FREE", "ABANDONED"} <=> \A c \in Clients : ~ HeldBy(s, c)
      BY <2>1, Zenon DEF IInv, Owned
    <3>2. state[s] \in {"PROCESSING", "ABANDONED"} <=> \E w \in Workers : ServedBy(s, w)
      BY <2>2, Zenon DEF IInv, Served, ServedBy
    <3>3. \A w, v \in Workers : ServedBy(s, w) /\ ServedBy(s, v) => w = v
      BY <2>3, Zenon DEF IInv, OneServer, ServedBy
    <3> QED
      BY <3>1, <3>2, <3>3, Zenon
  <2>5. OneHolder
    BY Zenon DEF IInv
  <2> QED
    BY <2>4, <2>5, Zenon DEF SlotOwnership, OneHolder
<1> QED
  BY <1>1, Invariant, PTL

\* A call hands over the answers to its own requests, and bulk bytes from their
\* banks, although slots and banks are used again after timeouts.
THEOREM RepliesAreOwn == Spec => []OwnReplies
<1>1. IInv => OwnReplies
  BY Zenon DEF IInv, Replied, ReplyKinds, OwnReplies
<1> QED
  BY <1>1, Invariant, PTL

\* server_complete never finds its slot taken over, and take_response never
\* meets an ack that is not its own.
THEOREM NothingIsStale == Spec => []NeverStale
<1>1. IInv => NeverStale
  <2> SUFFICES ASSUME IInv PROVE NeverStale
    BY Zenon
  <2>1. ASSUME NEW c \in Clients, pc[c] = "await", state[held[c][Len(got[c]) + 1]] = "COMPLETED"
        PROVE  ack[held[c][Len(got[c]) + 1]] = AckOf(ids[c][Len(got[c]) + 1])
    <3>1. TypeOK /\ Shape(c) /\ Mine(c)
      BY Zenon DEF IInv
    <3>2. Len(got[c]) + 1 \in Sent(c)
      BY <2>1, <3>1, SMTT(60) DEF TypeOK, Shape, Sent, Own, Writes
    <3> QED
      BY <2>1, <3>1, <3>2, Zenon DEF Mine, Holds
  <2>2. ASSUME NEW w \in Workers PROVE Serves(w)
    BY Zenon DEF IInv
  <2> QED
    BY <2>1, <2>2, Zenon DEF Serves, NeverStale
<1> QED
  BY <1>1, Invariant, PTL
=============================================================================
