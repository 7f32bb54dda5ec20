--------------------------- MODULE RegistryCache ---------------------------
(***************************************************************************)
(* The registry overlay as the injected processes see it: the director's   *)
(* RegistryHost, its writes (RegistryHost::mutate), attaching and          *)
(* detaching it (Director::set_registry), the generation word every change *)
(* is published under (RegistryGeneration, ring::publish_reg_generation),  *)
(* and the cache of answers each process keeps for as long as the word     *)
(* stays the same (RegClient::cached in vfs-shim).                         *)
(*                                                                         *)
(* Every change of what a read should see (a write to the attached host,   *)
(* an attach, a detach) is numbered by `clock`, and what a host answers is *)
(* the number of the last change it reflects.  One key is modelled: keys   *)
(* share the generation and nothing else.                                  *)
(***************************************************************************)
EXTENDS Integers, FiniteSets

CONSTANTS Procs,       \* injected processes, each with its ring and its cache
          Readers,     \* threads that read the key
          ProcOf,      \* the process of each reader
          Writers,     \* director workers that handle a write
          Hosts,       \* the registry layers that can be attached
          NoHost,      \* the real registry shows: nothing attached
          MaxClock     \* bound: changes in a behaviour

Admin == "set_registry"
Nobody == "nobody"
Nothing == -1
Sources == Hosts \cup {NoHost}

ASSUME CacheAssumption ==
    /\ ProcOf \in [Readers -> Procs]
    /\ NoHost \notin Hosts
    /\ Writers \cap {Admin, Nobody} = {}
    /\ MaxClock \in Nat

VARIABLES
    clock,           \* the number of the last change
    content,         \* what each host, and the real registry, answers
    registry,        \* Director::registry
    generation,      \* RegistryGeneration
    sinks, word,     \* the rings it is published to, and their header words
    lock, unseen,    \* the holder of the sinks' lock, and its rings to publish to
    cgen, cached,    \* a process's Cache: its generation, its answer if any
    rpc, rgen, rhost, rval, floor,   \* a read
    wpc, whost, wclock,              \* a write
    apc, aclock,                     \* an attach or detach
    replied                          \* the last change its author was told of

host == <<clock, content, registry>>
gens == <<generation, sinks, word, lock, unseen>>
cache == <<cgen, cached>>
reader == <<rpc, rgen, rhost, rval, floor>>
writer == <<wpc, whost, wclock>>
admin == <<apc, aclock>>
vars == <<host, gens, cache, reader, writer, admin, replied>>

Init ==
    /\ clock = 0
    /\ content = [h \in Sources |-> 0]
    /\ registry = NoHost
    /\ generation = 1
    /\ sinks = {}
    /\ word = [p \in Procs |-> 0]
    /\ lock = Nobody
    /\ unseen = {}
    /\ cgen = [p \in Procs |-> 0]
    /\ cached = [p \in Procs |-> Nothing]
    /\ rpc = [r \in Readers |-> "idle"]
    /\ rgen = [r \in Readers |-> 0]
    /\ rhost = [r \in Readers |-> NoHost]
    /\ rval = [r \in Readers |-> Nothing]
    /\ floor = [r \in Readers |-> 0]
    /\ wpc = [w \in Writers |-> "idle"]
    /\ whost = [w \in Writers |-> NoHost]
    /\ wclock = [w \in Writers |-> 0]
    /\ apc = "idle"
    /\ aclock = 0
    /\ replied = 0

Max(a, b) == IF a < b THEN b ELSE a

-----------------------------------------------------------------------------
(***************************************************************************)
(* RegistryGeneration.                                                     *)
(***************************************************************************)

\* Mutant: publishes to rings that are not served.
BeginChanged_all(who) ==
    /\ lock = Nobody
    /\ lock' = who
    /\ generation' = generation + 1
    /\ unseen' = Procs
    /\ UNCHANGED <<sinks, word>>

\* The start of `changed`: the sinks' lock, and the bump under it.
BeginChanged(who) ==
    /\ lock = Nobody
    /\ lock' = who
    /\ generation' = generation + 1
    /\ unseen' = sinks
    /\ UNCHANGED <<sinks, word>>

\* One sink of its loop; publish_reg_generation never moves a word back.
PublishOne(who) ==
    /\ lock = who
    /\ \E p \in unseen :
          /\ word' = [word EXCEPT ![p] = Max(@, generation)]
          /\ unseen' = unseen \ {p}
    /\ UNCHANGED <<generation, sinks, lock>>

\* Its end.
EndChanged(who) ==
    /\ lock = who
    /\ unseen = {}
    /\ lock' = Nobody
    /\ UNCHANGED <<generation, sinks, word, unseen>>

\* A ring is served: published to under the lock, before it is handed out.
add_sink(p) ==
    /\ p \notin sinks
    /\ lock = Nobody
    /\ word' = [word EXCEPT ![p] = Max(@, generation)]
    /\ sinks' = sinks \cup {p}
    /\ UNCHANGED <<host, generation, lock, unseen, cache, reader, writer, admin,
                   replied>>

-----------------------------------------------------------------------------
(***************************************************************************)
(* RegistryHost::mutate, in a director worker.                             *)
(***************************************************************************)

\* The worker takes the attached host (Director::registry).
write_dispatch(w) ==
    /\ wpc[w] = "idle"
    /\ registry # NoHost
    /\ whost' = [whost EXCEPT ![w] = registry]
    /\ wpc' = [wpc EXCEPT ![w] = "apply"]
    /\ UNCHANGED <<host, gens, cache, reader, wclock, admin, replied>>

\* The write lock: the overlay changes, a change for the readers too unless
\* the host was detached in the meantime.
mutate_apply(w) ==
    /\ wpc[w] = "apply"
    /\ \/ /\ whost[w] = registry
          /\ clock < MaxClock
          /\ clock' = clock + 1
          /\ content' = [content EXCEPT ![registry] = clock + 1]
          /\ wclock' = [wclock EXCEPT ![w] = clock + 1]
       \/ /\ whost[w] # registry
          /\ UNCHANGED <<clock, content, wclock>>
    /\ wpc' = [wpc EXCEPT ![w] = "changed"]
    /\ UNCHANGED <<registry, gens, cache, reader, whost, admin, replied>>

\* The overlay refuses it (over a limit, no such key): nothing to publish.
mutate_refused(w) ==
    /\ wpc[w] = "apply"
    /\ wpc' = [wpc EXCEPT ![w] = "reply"]
    /\ UNCHANGED <<host, gens, cache, reader, whost, wclock, admin, replied>>

mutate_changed(w) ==
    /\ wpc[w] = "changed"
    /\ BeginChanged(w)
    /\ wpc' = [wpc EXCEPT ![w] = "publish"]
    /\ UNCHANGED <<host, cache, reader, whost, wclock, admin, replied>>

mutate_publish(w) ==
    /\ wpc[w] = "publish"
    /\ \/ PublishOne(w) /\ UNCHANGED wpc
       \/ EndChanged(w) /\ wpc' = [wpc EXCEPT ![w] = "reply"]
    /\ UNCHANGED <<host, cache, reader, whost, wclock, admin, replied>>

\* The reply reaches the writer.
write_reply(w) ==
    /\ wpc[w] = "reply"
    /\ replied' = Max(replied, wclock[w])
    /\ wpc' = [wpc EXCEPT ![w] = "idle"]
    /\ whost' = [whost EXCEPT ![w] = NoHost]
    /\ wclock' = [wclock EXCEPT ![w] = 0]
    /\ UNCHANGED <<host, gens, cache, reader, admin>>

-----------------------------------------------------------------------------
(***************************************************************************)
(* Director::set_registry.                                                 *)
(***************************************************************************)

\* The swap, under the registry's write lock.
set_registry(h) ==
    /\ apc = "idle"
    /\ clock < MaxClock
    /\ registry' = h
    /\ clock' = clock + 1
    /\ content' = [content EXCEPT ![h] = clock + 1]
    /\ aclock' = clock + 1
    /\ apc' = "changed"
    /\ UNCHANGED <<gens, cache, reader, writer, replied>>

registry_changed ==
    /\ apc = "changed"
    /\ BeginChanged(Admin)
    /\ apc' = "publish"
    /\ UNCHANGED <<host, cache, reader, writer, aclock, replied>>

registry_publish ==
    /\ apc = "publish"
    /\ \/ PublishOne(Admin) /\ UNCHANGED <<apc, aclock, replied>>
       \/ /\ EndChanged(Admin)
          /\ replied' = Max(replied, aclock)
          /\ apc' = "idle"
          /\ aclock' = 0
    /\ UNCHANGED <<host, cache, reader, writer>>

-----------------------------------------------------------------------------
(***************************************************************************)
(* RegClient::cached and with_key, in an injected process.                 *)
(***************************************************************************)

\* The generation is read before anything is asked.
read_generation(r) ==
    LET p == ProcOf[r] IN
    /\ rpc[r] = "idle"
    /\ p \in sinks
    /\ rgen' = [rgen EXCEPT ![r] = word[p]]
    /\ floor' = [floor EXCEPT ![r] = replied]
    /\ rval' = [rval EXCEPT ![r] = Nothing]
    /\ rpc' = [rpc EXCEPT ![r] = "look"]
    /\ UNCHANGED <<host, gens, cache, rhost, writer, admin, replied>>

\* Mutant: keeps the answers of the older generation.
At_keeps(p, g) == [gen |-> Max(g, cgen[p]), val |-> cached[p]]

\* Cache::at: a newer generation empties the cache and becomes its own.
At(p, g) ==
    IF g > cgen[p] THEN [gen |-> g, val |-> Nothing]
                   ELSE [gen |-> cgen[p], val |-> cached[p]]

\* Under the cache's lock: a hit at this generation is the answer.
cache_look(r) ==
    LET p == ProcOf[r]
        c == At(p, rgen[r])
        hit == c.gen = rgen[r] /\ c.val # Nothing IN
    /\ rpc[r] = "look"
    /\ cgen' = [cgen EXCEPT ![p] = c.gen]
    /\ cached' = [cached EXCEPT ![p] = c.val]
    /\ rval' = [rval EXCEPT ![r] = IF hit THEN c.val ELSE Nothing]
    /\ rpc' = [rpc EXCEPT ![r] = IF hit THEN "return" ELSE "fetch"]
    /\ UNCHANGED <<host, gens, rgen, rhost, floor, writer, admin, replied>>

\* The request: a worker takes the attached host (Director::registry), then
\* reads it under its read lock.  With nothing attached the request is refused
\* and the caller serves the real key, which is never cached.
fetch_host(r) ==
    /\ rpc[r] = "fetch"
    /\ rhost' = [rhost EXCEPT ![r] = registry]
    /\ rpc' = [rpc EXCEPT ![r] = "answer"]
    /\ UNCHANGED <<host, gens, cache, rgen, rval, floor, writer, admin, replied>>

fetch_answer(r) ==
    /\ rpc[r] = "answer"
    /\ rval' = [rval EXCEPT ![r] = content[rhost[r]]]
    /\ rhost' = [rhost EXCEPT ![r] = NoHost]
    /\ rpc' = [rpc EXCEPT ![r] = IF rhost[r] = NoHost THEN "return" ELSE "insert"]
    /\ UNCHANGED <<host, gens, cache, rgen, floor, writer, admin, replied>>

\* The request failed (a timeout, a full ring): nothing is cached, and the
\* caller has no answer of the overlay.
fetch_failed(r) ==
    /\ rpc[r] \in {"fetch", "answer"}
    /\ rhost' = [rhost EXCEPT ![r] = NoHost]
    /\ rpc' = [rpc EXCEPT ![r] = "idle"]
    /\ UNCHANGED <<host, gens, cache, rgen, rval, floor, writer, admin, replied>>

\* Mutant: reads the generation once the answer is there.
cache_insert_late(r) ==
    LET p == ProcOf[r]
        c == At(p, word[p]) IN
    /\ rpc[r] = "insert"
    /\ cgen' = [cgen EXCEPT ![p] = c.gen]
    /\ cached' = [cached EXCEPT ![p] = IF c.gen = word[p] THEN rval[r] ELSE c.val]
    /\ rpc' = [rpc EXCEPT ![r] = "return"]
    /\ UNCHANGED <<host, gens, rgen, rhost, rval, floor, writer, admin, replied>>

\* The answer is cached under the generation read first, if the cache has not
\* moved past it.
cache_insert(r) ==
    LET p == ProcOf[r]
        c == At(p, rgen[r]) IN
    /\ rpc[r] = "insert"
    /\ cgen' = [cgen EXCEPT ![p] = c.gen]
    /\ cached' = [cached EXCEPT ![p] = IF c.gen = rgen[r] THEN rval[r] ELSE c.val]
    /\ rpc' = [rpc EXCEPT ![r] = "return"]
    /\ UNCHANGED <<host, gens, rgen, rhost, rval, floor, writer, admin, replied>>

read_return(r) ==
    /\ rpc[r] = "return"
    /\ rpc' = [rpc EXCEPT ![r] = "idle"]
    /\ rgen' = [rgen EXCEPT ![r] = 0]
    /\ rval' = [rval EXCEPT ![r] = Nothing]
    /\ floor' = [floor EXCEPT ![r] = 0]
    /\ UNCHANGED <<host, gens, cache, rhost, writer, admin, replied>>

\* insert_bounded empties a full cache.
cache_clear(p) ==
    /\ cached[p] # Nothing
    /\ cached' = [cached EXCEPT ![p] = Nothing]
    /\ UNCHANGED <<host, gens, cgen, reader, writer, admin, replied>>

-----------------------------------------------------------------------------
ReadStep(r) ==
    \/ read_generation(r) \/ cache_look(r) \/ fetch_host(r) \/ fetch_answer(r)
    \/ fetch_failed(r) \/ cache_insert(r) \/ read_return(r)

WriteStep(w) ==
    \/ write_dispatch(w) \/ mutate_apply(w) \/ mutate_refused(w) \/ mutate_changed(w)
    \/ mutate_publish(w) \/ write_reply(w)

AdminStep ==
    \/ \E h \in Sources : set_registry(h)
    \/ registry_changed \/ registry_publish

Next ==
    \/ \E r \in Readers : ReadStep(r)
    \/ \E w \in Writers : WriteStep(w)
    \/ AdminStep
    \/ \E p \in Procs : add_sink(p) \/ cache_clear(p)

Spec == Init /\ [][Next]_vars

-----------------------------------------------------------------------------
TypeOK ==
    /\ clock \in Nat /\ replied \in Nat /\ aclock \in Nat
    /\ generation \in Nat \ {0}
    /\ content \in [Sources -> Nat]
    /\ registry \in Sources
    /\ sinks \subseteq Procs /\ unseen \subseteq sinks
    /\ word \in [Procs -> Nat]
    /\ lock \in Writers \cup {Admin, Nobody}
    /\ cgen \in [Procs -> Nat]
    /\ cached \in [Procs -> Nat \cup {Nothing}]
    /\ rpc \in [Readers -> {"idle", "look", "fetch", "answer", "insert", "return"}]
    /\ rgen \in [Readers -> Nat]
    /\ rhost \in [Readers -> Sources]
    /\ rval \in [Readers -> Nat \cup {Nothing}]
    /\ floor \in [Readers -> Nat]
    /\ wpc \in [Writers -> {"idle", "apply", "changed", "publish", "reply"}]
    /\ whost \in [Writers -> Sources]
    /\ wclock \in [Writers -> Nat]
    /\ apc \in {"idle", "changed", "publish"}

\* A read never returns an answer from before a change whose author had been
\* told of it when the read began, in any process, whatever was cached
\* (dispatch_registry: a write's "reply cannot reach the writer while another
\* process can still use a cached answer from before it").
FreshReads ==
    \A r \in Readers : rpc[r] = "return" => rval[r] >= floor[r]

\* No process keeps a stale answer for good: with no change on its way to the
\* rings, whatever a cache holds under the generation its ring shows is what
\* the registry answers now.  (A writer that gave up waiting is never told, so
\* this is more than FreshReads says.)
CacheCurrent ==
    (apc = "idle" /\ \A w \in Writers : wpc[w] \notin {"changed", "publish"}) =>
        \A p \in Procs :
            cached[p] # Nothing /\ cgen[p] = word[p] => cached[p] = content[registry]
=============================================================================
