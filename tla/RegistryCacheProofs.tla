------------------------- MODULE RegistryCacheProofs -------------------------
(***************************************************************************)
(* For any number of processes, readers, writers and hosts: no read of the *)
(* registry returns an answer older than a change its author was told of   *)
(* before the read began, and no cache holds a stale answer for good.      *)
(***************************************************************************)
EXTENDS RegistryCache, TLAPS

\* The publication of a change has reached p's ring.
Reached(w, p) == wpc[w] = "reply" \/ (wpc[w] = "publish" /\ p \notin unseen)
AdminReached(p) == apc = "publish" /\ p \notin unseen

\* The answer v reflects every change whose publication has reached p's ring.
Fresh(p, v) ==
    /\ v >= replied
    /\ \A w \in Writers : Reached(w, p) => v >= wclock[w]
    /\ AdminReached(p) => v >= aclock

\* Numbers are of changes made, and the attached host reflects them all.
Clocks ==
    /\ content[registry] = clock
    /\ \A h \in Sources : content[h] <= clock
    /\ \A w \in Writers : wclock[w] <= clock
    /\ \A w \in Writers : wpc[w] \in {"idle", "apply"} => wclock[w] = 0
    /\ \A r \in Readers : floor[r] <= clock
    /\ \A r \in Readers : rval[r] <= clock
    /\ \A p \in Procs : cached[p] <= clock
    /\ aclock <= clock
    /\ replied <= clock

\* Whoever publishes holds the sinks' lock.
Locking ==
    /\ \A w \in Writers : wpc[w] = "publish" <=> lock = w
    /\ apc = "publish" <=> lock = Admin

\* What a cache and a reader know of the generation is what their ring showed.
Words ==
    /\ \A p \in Procs : word[p] <= generation /\ cgen[p] <= word[p]
    /\ \A p \in unseen : word[p] < generation
    /\ \A r \in Readers : rgen[r] <= word[ProcOf[r]]
    /\ \A p \in Procs \ sinks :
          /\ word[p] = 0
          /\ cached[p] = Nothing
          /\ \A r \in Readers : ProcOf[r] = p => rpc[r] = "idle"

\* Answers at the generation the ring shows are fresh.
FreshAnswers ==
    /\ \A p \in Procs :
          cached[p] # Nothing /\ cgen[p] = word[p] => Fresh(p, cached[p])
    /\ \A r \in Readers : rgen[r] = word[ProcOf[r]] =>
          /\ rpc[r] = "answer" => Fresh(ProcOf[r], content[rhost[r]])
          /\ rpc[r] = "insert" => Fresh(ProcOf[r], rval[r])

\* Two reads of one process that saw the same generation may use each other's
\* answers, although the ring has moved on.
Shared ==
    \A r \in Readers : rpc[r] # "idle" =>
       /\ cached[ProcOf[r]] # Nothing /\ cgen[ProcOf[r]] = rgen[r]
             => cached[ProcOf[r]] >= floor[r]
       /\ \A q \in Readers : ProcOf[q] = ProcOf[r] /\ rgen[q] = rgen[r] =>
             /\ rpc[q] = "answer" => content[rhost[q]] >= floor[r]
             /\ rpc[q] = "insert" => rval[q] >= floor[r]

\* The last change was told to its author or is on its way to be.
Underway ==
    \/ replied = clock
    \/ \E w \in Writers : wpc[w] \in {"changed", "publish", "reply"} /\ wclock[w] = clock
    \/ apc # "idle" /\ aclock = clock

IInv ==
    /\ TypeOK /\ Clocks /\ Locking /\ Words
    /\ FreshAnswers /\ Shared /\ Underway /\ FreshReads

-----------------------------------------------------------------------------
\* A read begins (cached): its floor is what the ring was told before it.
LEMMA read_generation_Inductive ==
    ASSUME IInv, NEW r \in Readers, read_generation(r)
    PROVE  IInv'
<1> USE CacheAssumption DEF IInv, read_generation, host, gens, cache, reader, writer, admin
<1>1. TypeOK'
  BY DEF TypeOK, Sources, Nothing
<1>2. Clocks'
  BY DEF TypeOK, Clocks, Nothing
<1>3. Words'
  BY DEF TypeOK, Words, Nothing
<1>4. FreshAnswers'
  BY DEF TypeOK, FreshAnswers, Fresh, Reached, AdminReached, Clocks, Words, Locking, Nothing
<1>5. Shared'
  BY DEF TypeOK, Shared, Clocks, Words, FreshAnswers, Fresh, Nothing
<1>6. FreshReads'
  BY DEF TypeOK, FreshReads, Clocks, Shared, Nothing
<1>7. Locking' /\ Underway'
  BY DEF Locking, Underway
<1> QED
  BY <1>1, <1>2, <1>3, <1>4, <1>5, <1>6, <1>7

\* A hit under the cache lock is at the generation the read saw.
LEMMA cache_look_Inductive ==
    ASSUME IInv, NEW r \in Readers, cache_look(r)
    PROVE  IInv'
<1> USE CacheAssumption DEF IInv, cache_look, At, host, gens, cache, reader, writer, admin
<1>1. TypeOK'
  BY DEF TypeOK, Sources, Nothing
<1>2. Clocks'
  <2> DEFINE v == At(ProcOf[r], rgen[r]).val
  <2>1. v = Nothing \/ v = cached[ProcOf[r]]
    BY DEF At
  <2>2. v <= clock /\ Nothing <= clock
    <3> HIDE DEF v, cache_look
    <3>1. cached[ProcOf[r]] <= clock /\ Nothing <= clock
      BY DEF TypeOK, Clocks, Nothing
    <3> QED
      BY <2>1, <3>1
  <2>3. /\ rval' = [rval EXCEPT ![r] = rval'[r]] /\ (rval'[r] = v \/ rval'[r] = Nothing)
        /\ cached' = [cached EXCEPT ![ProcOf[r]] = v]
    BY DEF TypeOK, At
  <2> QED
    BY <2>2, <2>3 DEF TypeOK, Clocks
<1>3. Words'
  BY DEF TypeOK, Words, Nothing
<1>4. FreshAnswers'
  BY DEF TypeOK, FreshAnswers, Fresh, Reached, AdminReached, Clocks, Words, Locking, Nothing
<1>5. Shared'
  BY DEF TypeOK, Shared, Clocks, Words, FreshAnswers, Fresh, Nothing
<1>6. FreshReads'
  BY DEF TypeOK, FreshReads, Clocks, Shared, Nothing
<1>7. Locking' /\ Underway'
  BY DEF Locking, Underway
<1> QED
  BY <1>1, <1>2, <1>3, <1>4, <1>5, <1>6, <1>7

\* The host a worker takes for the request reflects every change made.
LEMMA fetch_host_Inductive ==
    ASSUME IInv, NEW r \in Readers, fetch_host(r)
    PROVE  IInv'
<1> USE CacheAssumption DEF IInv, fetch_host, host, gens, cache, reader, writer, admin
<1>1. TypeOK'
  BY DEF TypeOK, Sources, Nothing
<1>2. Words'
  BY DEF TypeOK, Words, Nothing
<1>3. FreshAnswers'
  BY DEF TypeOK, FreshAnswers, Fresh, Reached, AdminReached, Clocks, Words, Locking, Nothing
<1>4. Shared'
  BY DEF TypeOK, Shared, Clocks, Words, FreshAnswers, Fresh, Nothing
<1>5. FreshReads'
  BY DEF TypeOK, FreshReads, Clocks, Shared, Nothing
<1>6. Clocks' /\ Locking' /\ Underway'
  BY DEF Clocks, Locking, Underway
<1> QED
  BY <1>1, <1>2, <1>3, <1>4, <1>5, <1>6

\* The answer is the host's as of now, no older than when it was taken.
LEMMA fetch_answer_Inductive ==
    ASSUME IInv, NEW r \in Readers, fetch_answer(r)
    PROVE  IInv'
<1> USE CacheAssumption DEF IInv, fetch_answer, host, gens, cache, reader, writer, admin
<1>1. TypeOK'
  BY DEF TypeOK, Sources, Nothing
<1>2. Clocks'
  BY DEF TypeOK, Clocks, Nothing
<1>3. Words'
  BY DEF TypeOK, Words, Nothing
<1>4. FreshAnswers'
  BY DEF TypeOK, FreshAnswers, Fresh, Reached, AdminReached, Clocks, Words, Locking, Nothing
<1>5. Shared'
  BY DEF TypeOK, Shared, Clocks, Words, FreshAnswers, Fresh, Nothing
<1>6. FreshReads'
  BY DEF TypeOK, FreshReads, Clocks, Shared, Nothing
<1>7. Locking' /\ Underway'
  BY DEF Locking, Underway
<1> QED
  BY <1>1, <1>2, <1>3, <1>4, <1>5, <1>6, <1>7

\* A failed request leaves no answer and caches none.
LEMMA fetch_failed_Inductive ==
    ASSUME IInv, NEW r \in Readers, fetch_failed(r)
    PROVE  IInv'
<1> USE CacheAssumption DEF IInv, fetch_failed, host, gens, cache, reader, writer, admin
<1>1. TypeOK'
  BY DEF TypeOK, Sources, Nothing
<1>2. Words'
  BY DEF TypeOK, Words, Nothing
<1>3. FreshAnswers'
  BY DEF TypeOK, FreshAnswers, Fresh, Reached, AdminReached, Clocks, Words, Locking, Nothing
<1>4. Shared'
  BY DEF TypeOK, Shared, Clocks, Words, FreshAnswers, Fresh, Nothing
<1>5. FreshReads'
  BY DEF TypeOK, FreshReads, Clocks, Shared, Nothing
<1>6. Clocks' /\ Locking' /\ Underway'
  BY DEF Clocks, Locking, Underway
<1> QED
  BY <1>1, <1>2, <1>3, <1>4, <1>5, <1>6

\* What is cached was asked for after its generation was read.
LEMMA cache_insert_Inductive ==
    ASSUME IInv, NEW r \in Readers, cache_insert(r)
    PROVE  IInv'
<1> USE CacheAssumption DEF IInv, cache_insert, At, host, gens, cache, reader, writer, admin
<1>1. TypeOK'
  BY DEF TypeOK, Sources, Nothing
<1>2. Clocks'
  BY DEF TypeOK, Clocks, Nothing
<1>3. Words'
  BY DEF TypeOK, Words, Nothing
<1>4. FreshAnswers'
  BY DEF TypeOK, FreshAnswers, Fresh, Reached, AdminReached, Clocks, Words, Locking, Nothing
<1>5. Shared'
  BY DEF TypeOK, Shared, Clocks, Words, FreshAnswers, Fresh, Nothing
<1>6. FreshReads'
  BY DEF TypeOK, FreshReads, Clocks, Shared, Nothing
<1>7. Locking' /\ Underway'
  BY DEF Locking, Underway
<1> QED
  BY <1>1, <1>2, <1>3, <1>4, <1>5, <1>6, <1>7

\* A read that is over constrains nothing.
LEMMA read_return_Inductive ==
    ASSUME IInv, NEW r \in Readers, read_return(r)
    PROVE  IInv'
<1> USE CacheAssumption DEF IInv, read_return, host, gens, cache, reader, writer, admin
<1>1. TypeOK'
  BY DEF TypeOK, Sources, Nothing
<1>2. Clocks'
  BY DEF TypeOK, Clocks, Nothing
<1>3. Words'
  <2>1. \A q \in Readers : word[ProcOf[q]] \in Nat
    BY DEF TypeOK
  <2>2. \A q \in Readers : rgen'[q] = rgen[q] \/ rgen'[q] = 0
    BY DEF TypeOK
  <2>3. \A q \in Readers : rpc[q] = "idle" => rpc'[q] = "idle"
    BY DEF TypeOK
  <2> QED
    BY <2>1, <2>2, <2>3 DEF Words
<1>4. FreshAnswers'
  BY DEF TypeOK, FreshAnswers, Fresh, Reached, AdminReached, Clocks, Words, Locking, Nothing
<1>5. Shared'
  BY DEF TypeOK, Shared, Clocks, Words, FreshAnswers, Fresh, Nothing
<1>6. FreshReads'
  BY DEF TypeOK, FreshReads, Clocks, Shared, Nothing
<1>7. Locking' /\ Underway'
  BY DEF Locking, Underway
<1> QED
  BY <1>1, <1>2, <1>3, <1>4, <1>5, <1>6, <1>7

\* Taking the host for a write changes nothing a reader sees.
LEMMA write_dispatch_Inductive ==
    ASSUME IInv, NEW w \in Writers, write_dispatch(w)
    PROVE  IInv'
<1> USE CacheAssumption DEF IInv, write_dispatch, host, gens, cache, reader, writer, admin
<1>1. TypeOK'
  BY DEF TypeOK, Sources, Nothing
<1>2. Clocks'
  BY DEF TypeOK, Clocks, Nothing
<1>3. Locking'
  BY DEF TypeOK, Locking, Admin, Nobody
<1>4. FreshAnswers'
  BY DEF TypeOK, FreshAnswers, Fresh, Reached, AdminReached, Clocks, Words, Locking, Nothing
<1>5. Underway'
  BY DEF TypeOK, Underway, Clocks, Locking
<1>6. Words' /\ Shared' /\ FreshReads'
  BY DEF Words, Shared, FreshReads
<1> QED
  BY <1>1, <1>2, <1>3, <1>4, <1>5, <1>6

\* The change is not published yet: nothing need reflect it.
LEMMA mutate_apply_Inductive ==
    ASSUME IInv, NEW w \in Writers, mutate_apply(w)
    PROVE  IInv'
<1> USE CacheAssumption DEF IInv, mutate_apply, host, gens, cache, reader, writer, admin
<1>1. TypeOK'
  BY DEF TypeOK, Sources, Nothing
<1>2. Clocks'
  <2>1. CASE whost[w] = registry
    BY <2>1 DEF TypeOK, Clocks, Nothing
  <2>2. CASE whost[w] # registry
    BY <2>2 DEF TypeOK, Clocks, Nothing
  <2> QED
    BY <2>1, <2>2
<1>3. Locking'
  BY DEF TypeOK, Locking, Admin, Nobody
<1>4. FreshAnswers'
  BY DEF TypeOK, FreshAnswers, Fresh, Reached, AdminReached, Clocks, Words, Locking, Nothing
<1>5. Shared'
  BY DEF TypeOK, Shared, Clocks, Words, FreshAnswers, Fresh, Nothing
<1>6. Underway'
  BY DEF TypeOK, Underway, Clocks, Locking
<1>7. Words' /\ FreshReads'
  BY DEF Words, FreshReads
<1> QED
  BY <1>1, <1>2, <1>3, <1>4, <1>5, <1>6, <1>7

\* A write the overlay refuses is no change.
LEMMA mutate_refused_Inductive ==
    ASSUME IInv, NEW w \in Writers, mutate_refused(w)
    PROVE  IInv'
<1> USE CacheAssumption DEF IInv, mutate_refused, host, gens, cache, reader, writer, admin
<1>1. TypeOK'
  BY DEF TypeOK, Sources, Nothing
<1>2. Clocks'
  BY DEF TypeOK, Clocks, Nothing
<1>3. Locking'
  BY DEF TypeOK, Locking, Admin, Nobody
<1>4. FreshAnswers'
  BY DEF TypeOK, FreshAnswers, Fresh, Reached, AdminReached, Clocks, Words, Locking, Nothing
<1>5. Underway'
  BY DEF TypeOK, Underway, Clocks, Locking
<1>6. Words' /\ Shared' /\ FreshReads'
  BY DEF Words, Shared, FreshReads
<1> QED
  BY <1>1, <1>2, <1>3, <1>4, <1>5, <1>6

\* The new generation of a write has reached no ring.
LEMMA mutate_changed_Inductive ==
    ASSUME IInv, NEW w \in Writers, mutate_changed(w)
    PROVE  IInv'
<1> USE CacheAssumption DEF IInv, mutate_changed, BeginChanged, host, gens, cache, reader, writer, admin
<1>1. TypeOK'
  BY DEF TypeOK, Sources, Nothing
<1>2. Clocks'
  BY DEF TypeOK, Clocks, Nothing
<1>3. Locking'
  BY DEF TypeOK, Locking, Admin, Nobody
<1>4. Words'
  BY DEF TypeOK, Words, Nothing
<1>5. FreshAnswers'
  BY DEF TypeOK, FreshAnswers, Fresh, Reached, AdminReached, Clocks, Words, Locking, Nothing
<1>6. Underway'
  BY DEF TypeOK, Underway, Clocks, Locking
<1>7. Shared' /\ FreshReads'
  BY DEF Shared, FreshReads
<1> QED
  BY <1>1, <1>2, <1>3, <1>4, <1>5, <1>6, <1>7

\* The ring a write publishes to shows a generation that no reader and no
\* cache of its process has.
LEMMA mutate_publish_Inductive ==
    ASSUME IInv, NEW w \in Writers, mutate_publish(w)
    PROVE  IInv'
<1> USE CacheAssumption DEF IInv, mutate_publish, PublishOne, EndChanged, Max, host, gens, cache, reader, writer, admin
<1>1. TypeOK'
  BY DEF TypeOK, Sources, Nothing
<1>2. Clocks'
  BY DEF TypeOK, Clocks, Nothing
<1>3. Locking'
  BY DEF TypeOK, Locking, Admin, Nobody
<1>4. Words'
  BY DEF TypeOK, Words, Nothing
<1>5. FreshAnswers'
  BY DEF TypeOK, FreshAnswers, Fresh, Reached, AdminReached, Clocks, Words, Locking, Nothing
<1>6. Underway'
  BY DEF TypeOK, Underway, Clocks, Locking
<1>7. Shared' /\ FreshReads'
  BY DEF Shared, FreshReads
<1> QED
  BY <1>1, <1>2, <1>3, <1>4, <1>5, <1>6, <1>7

\* When a writer is told, every ring has been published to.
LEMMA write_reply_Inductive ==
    ASSUME IInv, NEW w \in Writers, write_reply(w)
    PROVE  IInv'
<1> USE CacheAssumption DEF IInv, write_reply, Max, host, gens, cache, reader, writer, admin
<1>1. TypeOK'
  BY DEF TypeOK, Sources, Nothing
<1>2. Clocks'
  BY DEF TypeOK, Clocks, Nothing
<1>3. Locking'
  BY DEF TypeOK, Locking, Admin, Nobody
<1>4. FreshAnswers'
  BY DEF TypeOK, FreshAnswers, Fresh, Reached, AdminReached, Clocks, Words, Locking, Nothing
<1>5. Underway'
  BY DEF TypeOK, Underway, Clocks, Locking
<1>6. Words' /\ Shared' /\ FreshReads'
  BY DEF Words, Shared, FreshReads
<1> QED
  BY <1>1, <1>2, <1>3, <1>4, <1>5, <1>6

\* The swap is not published yet: nothing need reflect it.
LEMMA set_registry_Inductive ==
    ASSUME IInv, NEW h \in Sources, set_registry(h)
    PROVE  IInv'
<1> USE CacheAssumption DEF IInv, set_registry, host, gens, cache, reader, writer, admin
<1>1. TypeOK'
  BY DEF TypeOK, Sources, Nothing
<1>2. Clocks'
  BY DEF TypeOK, Clocks, Nothing
<1>3. Locking'
  BY DEF TypeOK, Locking, Admin, Nobody
<1>4. FreshAnswers'
  BY DEF TypeOK, FreshAnswers, Fresh, Reached, AdminReached, Clocks, Words, Locking, Nothing
<1>5. Shared'
  BY DEF TypeOK, Shared, Clocks, Words, FreshAnswers, Fresh, Nothing
<1>6. Underway'
  BY DEF TypeOK, Underway, Clocks, Locking
<1>7. Words' /\ FreshReads'
  BY DEF Words, FreshReads
<1> QED
  BY <1>1, <1>2, <1>3, <1>4, <1>5, <1>6, <1>7

\* The new generation of an attach or detach has reached no ring.
LEMMA registry_changed_Inductive ==
    ASSUME IInv, registry_changed
    PROVE  IInv'
<1> USE CacheAssumption DEF IInv, registry_changed, BeginChanged, host, gens, cache, reader, writer, admin
<1>1. TypeOK'
  BY DEF TypeOK, Sources, Nothing
<1>2. Locking'
  BY DEF TypeOK, Locking, Admin, Nobody
<1>3. Words'
  BY DEF TypeOK, Words, Nothing
<1>4. FreshAnswers'
  BY DEF TypeOK, FreshAnswers, Fresh, Reached, AdminReached, Clocks, Words, Locking, Nothing
<1>5. Underway'
  BY DEF TypeOK, Underway, Clocks, Locking
<1>6. Clocks' /\ Shared' /\ FreshReads'
  BY DEF Clocks, Shared, FreshReads
<1> QED
  BY <1>1, <1>2, <1>3, <1>4, <1>5, <1>6

\* The ring an attach publishes to shows a generation that no reader and no
\* cache of its process has; at the end every ring was published to.
LEMMA registry_publish_Inductive ==
    ASSUME IInv, registry_publish
    PROVE  IInv'
<1> USE CacheAssumption DEF IInv, registry_publish, PublishOne, EndChanged, Max, host, gens, cache, reader, writer, admin
<1>1. TypeOK'
  BY DEF TypeOK, Sources, Nothing
<1>2. Clocks'
  BY DEF TypeOK, Clocks, Nothing
<1>3. Locking'
  BY DEF TypeOK, Locking, Admin, Nobody
<1>4. Words'
  BY DEF TypeOK, Words, Nothing
<1>5. FreshAnswers'
  BY DEF TypeOK, FreshAnswers, Fresh, Reached, AdminReached, Clocks, Words, Locking, Nothing
<1>6. Underway'
  BY DEF TypeOK, Underway, Clocks, Locking
<1>7. Shared' /\ FreshReads'
  BY DEF Shared, FreshReads
<1> QED
  BY <1>1, <1>2, <1>3, <1>4, <1>5, <1>6, <1>7

\* Nobody has read a ring that is not served.
LEMMA add_sink_Inductive ==
    ASSUME IInv, NEW p \in Procs, add_sink(p)
    PROVE  IInv'
<1> USE CacheAssumption DEF IInv, add_sink, Max, host, gens, cache, reader, writer, admin
<1>1. TypeOK'
  BY DEF TypeOK, Sources, Nothing
<1>2. Words'
  BY DEF TypeOK, Words, Nothing
<1>3. FreshAnswers'
  BY DEF TypeOK, FreshAnswers, Fresh, Reached, AdminReached, Clocks, Words, Locking, Nothing
<1>4. Clocks' /\ Locking' /\ Shared' /\ Underway' /\ FreshReads'
  BY DEF Clocks, Locking, Shared, Underway, FreshReads
<1> QED
  BY <1>1, <1>2, <1>3, <1>4

\* Emptying a full cache (insert_bounded) leaves nothing stale.
LEMMA cache_clear_Inductive ==
    ASSUME IInv, NEW p \in Procs, cache_clear(p)
    PROVE  IInv'
<1> USE CacheAssumption DEF IInv, cache_clear, host, gens, cache, reader, writer, admin
<1>1. TypeOK'
  BY DEF TypeOK, Sources, Nothing
<1>2. Clocks'
  BY DEF TypeOK, Clocks, Nothing
<1>3. Words'
  BY DEF TypeOK, Words, Nothing
<1>4. FreshAnswers'
  BY DEF TypeOK, FreshAnswers, Fresh, Reached, AdminReached, Clocks, Words, Locking, Nothing
<1>5. Shared'
  BY DEF TypeOK, Shared, Clocks, Words, FreshAnswers, Fresh, Nothing
<1>6. Locking' /\ Underway' /\ FreshReads'
  BY DEF Locking, Underway, FreshReads
<1> QED
  BY <1>1, <1>2, <1>3, <1>4, <1>5, <1>6

\* The invariant is inductive.
THEOREM Inductive == IInv /\ [Next]_vars => IInv'
<1> SUFFICES ASSUME IInv, [Next]_vars
             PROVE  IInv'
  OBVIOUS
<1>1. ASSUME NEW r \in Readers, ReadStep(r)
      PROVE  IInv'
  BY <1>1, read_generation_Inductive, cache_look_Inductive, fetch_host_Inductive,
     fetch_answer_Inductive, fetch_failed_Inductive, cache_insert_Inductive,
     read_return_Inductive DEF ReadStep
<1>2. ASSUME NEW w \in Writers, WriteStep(w)
      PROVE  IInv'
  BY <1>2, write_dispatch_Inductive, mutate_apply_Inductive, mutate_refused_Inductive,
     mutate_changed_Inductive, mutate_publish_Inductive, write_reply_Inductive
     DEF WriteStep
<1>3. CASE AdminStep
  BY <1>3, set_registry_Inductive, registry_changed_Inductive,
     registry_publish_Inductive DEF AdminStep
<1>4. ASSUME NEW p \in Procs, add_sink(p) \/ cache_clear(p)
      PROVE  IInv'
  BY <1>4, add_sink_Inductive, cache_clear_Inductive
<1>5. CASE UNCHANGED vars
  BY <1>5 DEF vars, host, gens, cache, reader, writer, admin, IInv, TypeOK, Clocks,
     Locking, Words, FreshAnswers, Fresh, Reached, AdminReached, Shared, Underway,
     FreshReads
<1> QED
  BY <1>1, <1>2, <1>3, <1>4, <1>5 DEF Next

\* The initial state satisfies it.
LEMMA Initial == Init => IInv
<1> SUFFICES ASSUME Init
             PROVE  IInv
  OBVIOUS
<1> USE CacheAssumption DEF Init, Sources, Nothing
<1>1. TypeOK
  BY DEF TypeOK, Admin, Nobody
<1>2. Clocks /\ Words
  BY DEF Clocks, Words
<1>3. Locking
  BY DEF Locking, Admin, Nobody
<1>4. FreshAnswers /\ Shared /\ Underway /\ FreshReads
  BY DEF FreshAnswers, Shared, Underway, FreshReads
<1> QED
  BY <1>1, <1>2, <1>3, <1>4 DEF IInv

\* Every reachable state satisfies it.
THEOREM Invariance == Spec => []IInv
<1>1. Init => IInv
  BY Initial
<1>2. IInv /\ [Next]_vars => IInv'
  BY Inductive
<1> QED
  BY <1>1, <1>2, PTL DEF Spec

\* Type correctness of the registry's state and its readers and writers.
THEOREM TypeCorrect == Spec => []TypeOK
<1>1. IInv => TypeOK
  BY DEF IInv
<1> QED
  BY <1>1, Invariance, PTL

\* No read returns an answer from before a change whose author had been told of
\* it when the read began: publishing before replying, and reading the
\* generation before asking, are enough, for any number of processes.
THEOREM ReadsAreFresh == Spec => []FreshReads
<1>1. IInv => FreshReads
  BY DEF IInv
<1> QED
  BY <1>1, Invariance, PTL

\* With no change on its way to the rings, what a cache holds under the
\* generation its ring shows is what the registry answers.
THEOREM CachesAreCurrent == Spec => []CacheCurrent
<1>1. IInv => CacheCurrent
  <2> SUFFICES ASSUME IInv, apc = "idle",
                      \A w \in Writers : wpc[w] \notin {"changed", "publish"},
                      NEW p \in Procs, cached[p] # Nothing, cgen[p] = word[p]
               PROVE  cached[p] = content[registry]
    BY DEF CacheCurrent
  <2>1. Fresh(p, cached[p])
    BY DEF IInv, FreshAnswers
  <2>2. replied = clock \/ \E w \in Writers : wpc[w] = "reply" /\ wclock[w] = clock
    BY DEF IInv, Underway
  <2>3. cached[p] >= clock
    BY <2>1, <2>2 DEF Fresh, Reached
  <2>4. cached[p] <= clock /\ cached[p] \in Int /\ clock \in Int /\ content[registry] = clock
    BY DEF IInv, TypeOK, Clocks, Nothing
  <2> QED
    BY <2>3, <2>4
<1> QED
  BY <1>1, Invariance, PTL
=============================================================================
