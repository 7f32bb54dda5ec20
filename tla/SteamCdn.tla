------------------------------ MODULE SteamCdn -------------------------------
(***************************************************************************)
(* Steam content: the pool of CDN hosts, the chunks of a file and their    *)
(* cache, and the session that renews keys and tokens. Each section is a   *)
(* state machine of its own; they share no state.                          *)
(***************************************************************************)
EXTENDS Integers, Sequences, FiniteSets, FiniteSetsExt, SequencesExt

CONSTANTS
    \* pool
    Hosts,   \* 1..n, in list order
    Fetches, max_attempts, Times, base, max, trial_timeout,
    MaxNow, MaxTokens, HasTokens,
    \* reader
    LenOf,   \* chunk id -> length of its content
    Manifests,   \* lists that may arrive: [size, chunks: sequence of [id, offset]]
    Readers, cap, max_concurrent_chunks, MaxReads, MaxFaults,
    \* content
    Tasks,   \* the tasks that ask for the manifest and then for a reader
    Credentials,   \* "good", "expired" or None
    FirstCache, MaxCalls,
    None

VARIABLES
    \* pool
    now, hosts, current, probing, fx, tokens, token_lock, issued, reported,
    \* reader
    manifest, rd, lru, used, reads, faults,
    \* content
    cache, session, anonymous, pools, built, task, online, calls

(***************************************************************************)
(* The CDN side of a Steam depot: a pool of hosts ranked by latency, where *)
(* a failing host cools down and then gets one trial request, and the      *)
(* fetcher that tries a download on them, with a token per host when a     *)
(* host answers 403.                                                       *)
(*                                                                         *)
(* Latencies are small numbers; an unmeasured host ranks after every       *)
(* measured one and an unreachable one last.  Time is a tick counter.      *)
(***************************************************************************)
poolVars == <<now, hosts, current, probing, fx, tokens, token_lock, issued, reported>>

Unknown == 100
Unreachable == 101
NewHost == [failures |-> 0, until |-> None, latency |-> Unknown, baseline |-> None,
            sampled |-> None, warm |-> None, trial |-> None]
NotFetching == [pc |-> "idle", host |-> None, left |-> 0, sent |-> 0, used |-> None,
                refused |-> {}, wake |-> 0]

PoolInit ==
  /\ now = 0 /\ hosts = [h \in Hosts |-> NewHost] /\ current = None
  /\ probing = Hosts \cup {0}
  /\ fx = [f \in Fetches |-> NotFetching]
  /\ tokens = [h \in Hosts |-> None] /\ token_lock = None /\ issued = 0
  /\ reported = [f \in Fetches |-> 0]

fetchVars == <<tokens, token_lock, issued, reported>>

(***************************************************************************)
(* CdnPool.                                                                *)
(***************************************************************************)
refresh(hs) ==
  [h \in Hosts |->
     IF hs[h].sampled # None /\ now - hs[h].sampled >= max
     THEN [hs[h] EXCEPT !.latency = IF hs[h].baseline = None THEN Unknown ELSE hs[h].baseline,
                        !.sampled = None]
     ELSE hs[h]]

Open(h) ==
  /\ h.until # None => h.until <= now
  /\ h.failures = 0 \/ h.trial = None \/ now - h.trial >= trial_timeout

clearly_faster(c, i) == IF c < Unknown /\ i < Unknown THEN c * 2 < i ELSE c < i

Best(hs) == LET open == {h \in Hosts : Open(hs[h])} IN
  CHOOSE h \in open : \A g \in open : hs[h].latency < hs[g].latency \/ (hs[h].latency = hs[g].latency /\ h <= g)

\* The fastest open host, unless the one in use is healthy and not much
\* slower; None when no host may take a request.
choose(hs) ==
  IF \A h \in Hosts : ~Open(hs[h]) THEN None
  ELSE IF current # None /\ (current # None => hs[current].failures = 0 /\ ~clearly_faster(hs[Best(hs)].latency, hs[current].latency))
       THEN current ELSE Best(hs)

\* Without a host, the one that recovers first and the time until then.
Waits(hs) == {h \in Hosts : hs[h].until # None /\ \A g \in Hosts : hs[g].until # None => hs[h].until <= hs[g].until}
Soonest(hs) == CHOOSE h \in Waits(hs) : \A g \in Waits(hs) : h <= g

probe(h, d) ==
  /\ h \in probing /\ probing' = probing \ {h}
  /\ hosts' = [hosts EXCEPT ![h] =
       IF d # None THEN [@ EXCEPT !.baseline = d, !.latency = d, !.sampled = None]
       ELSE IF @.latency = Unknown THEN [@ EXCEPT !.latency = Unreachable] ELSE @]
  /\ UNCHANGED <<now, current, fx, fetchVars>>

\* After the probe, a connection to the host the next request would use.
preconnect ==
  LET hs == refresh(hosts) IN
  /\ \/ /\ probing = {0} /\ hosts' = hs
        /\ probing' = IF choose(hs) = None THEN {} ELSE {-choose(hs)}
     \/ \E i \in Hosts : /\ probing = {-i} /\ probing' = {}
                         /\ \/ hosts' = [hosts EXCEPT ![i].warm = IF @ = None THEN now ELSE @]
                            \/ UNCHANGED hosts
  /\ UNCHANGED <<now, current, fx, fetchVars>>

pick(f) ==
  LET hs == refresh(hosts)
      i == choose(hs) IN
  /\ fx[f].pc = "pick"
  /\ IF i # None
     THEN /\ hosts' = IF hs[i].failures > 0 THEN [hs EXCEPT ![i].trial = now] ELSE hs
          /\ current' = IF hs[i].failures > 0 THEN current ELSE i
          /\ fx' = [fx EXCEPT ![f].pc = "send", ![f].host = i, ![f].wake = now]
     ELSE /\ hosts' = hs /\ UNCHANGED current
          /\ Waits(hs) # {} => fx' = [fx EXCEPT ![f].pc = "send", ![f].host = Soonest(hs),
                                                ![f].wake = IF hs[Soonest(hs)].until > now THEN hs[Soonest(hs)].until ELSE now]
          /\ Waits(hs) = {} => fx' = [fx EXCEPT ![f].pc = "panicked"]
  /\ UNCHANGED <<now, probing, fetchVars>>

report_success(hs, i) == [hs EXCEPT ![i].failures = 0, ![i].until = None, ![i].trial = None]

report_failure_forgets(hs, i, after) ==
  [hs EXCEPT ![i].failures = @ + 1, ![i].until = None, ![i].trial = None, ![i].warm = None]

\* The cooldown doubles with every failure, up to the longest.
report_failure(hs, i, after) ==
  LET n == hs[i].failures
      cool == IF after # None THEN after ELSE base * 2^(Min({n, 16})) IN
  [hs EXCEPT ![i].failures = n + 1, ![i].until = now + Min({cool, max}), ![i].trial = None, ![i].warm = None]

report_retry(hs, i) == [hs EXCEPT ![i].trial = None]

report_latency(hs, i, sent, ttfb) ==
  LET warm == IF hs[i].warm = None THEN now ELSE hs[i].warm
      h == [hs[i] EXCEPT !.warm = warm] IN
  [hs EXCEPT ![i] = IF sent < warm THEN h
                    ELSE [h EXCEPT !.latency = IF @ >= Unknown THEN ttfb ELSE (@ * 3 + ttfb) \div 4, !.sampled = now]]

report_stall(hs, i, waited) ==
  IF hs[i].latency < Unknown /\ waited > hs[i].latency
  THEN [hs EXCEPT ![i].latency = waited, ![i].sampled = now] ELSE hs

(***************************************************************************)
(* Fetcher::fetch.                                                         *)
(***************************************************************************)
Begin(f) ==
  /\ fx[f].pc = "idle"
  /\ fx' = [fx EXCEPT ![f] = [NotFetching EXCEPT !.pc = "pick", !.left = max_attempts]]
  /\ UNCHANGED <<now, hosts, current, probing, fetchVars>>

\* The wait before the request, and the request with the token there is then.
Send(f) ==
  /\ fx[f].pc = "send" /\ fx[f].wake <= now
  /\ fx' = [fx EXCEPT ![f].pc = "get", ![f].sent = now, ![f].used = tokens[fx[f].host], ![f].left = @ - 1]
  /\ UNCHANGED <<now, hosts, current, probing, fetchVars>>

Measured(f) == report_latency(hosts, fx[f].host, fx[f].sent, now - fx[f].sent + Min(Times))
Again(f) == IF fx[f].left = 0 THEN "failed" ELSE "pick"

Ended(f) == reported' = [reported EXCEPT ![f] = @ + 1]
Finish(f, pc) ==
  /\ fx' = [fx EXCEPT ![f] = IF pc = "pick" THEN [NotFetching EXCEPT !.pc = pc, !.left = fx[f].left, !.refused = fx[f].refused]
                             ELSE [NotFetching EXCEPT !.pc = pc]]
  /\ IF pc \in {"ok", "failed"} THEN Ended(f) ELSE UNCHANGED reported

fetch_ok(f) ==
  /\ fx[f].pc = "get"
  /\ hosts' = report_success(Measured(f), fx[f].host)
  /\ Finish(f, "ok")
  /\ UNCHANGED <<now, current, probing, tokens, token_lock, issued>>

\* An error status, a body that does not decode, or no answer in time.
fetch_fails(f) ==
  LET i == fx[f].host IN
  /\ fx[f].pc = "get"
  /\ \/ \E after \in {None, 1} : hosts' = report_failure(Measured(f), i, after)
     \/ hosts' = report_failure(report_stall(hosts, i, now - fx[f].sent), i, None)
  /\ Finish(f, Again(f))
  /\ UNCHANGED <<now, current, probing, tokens, token_lock, issued>>

\* 403: the first time from this host, ask for a token.
fetch_forbidden(f) ==
  LET i == fx[f].host IN
  /\ fx[f].pc = "get"
  /\ IF i \in fx[f].refused \/ ~HasTokens
     THEN /\ hosts' = report_failure(Measured(f), i, None)
          /\ Finish(f, Again(f))
     ELSE /\ hosts' = Measured(f)
          /\ fx' = [fx EXCEPT ![f].pc = "token", ![f].refused = @ \cup {i}]
          /\ UNCHANGED reported
  /\ UNCHANGED <<now, current, probing, tokens, token_lock, issued>>

refresh_token_always(f) ==
  LET i == fx[f].host IN
  /\ fx[f].pc = "token" /\ token_lock = None
  /\ token_lock' = f /\ tokens' = [tokens EXCEPT ![i] = None]
  /\ fx' = [fx EXCEPT ![f].pc = "asking"]
  /\ UNCHANGED <<now, hosts, current, probing, issued, reported>>

\* One at a time; a token another request fetched meanwhile is used as it is.
refresh_token(f) ==
  LET i == fx[f].host IN
  /\ fx[f].pc = "token" /\ token_lock = None
  /\ IF tokens[i] # None /\ tokens[i] # fx[f].used
     THEN /\ hosts' = report_retry(hosts, i) /\ Finish(f, Again(f))
          /\ UNCHANGED <<tokens, token_lock>>
     ELSE /\ token_lock' = f /\ tokens' = [tokens EXCEPT ![i] = None]
          /\ fx' = [fx EXCEPT ![f].pc = "asking"]
          /\ UNCHANGED <<hosts, reported>>
  /\ UNCHANGED <<now, current, probing, issued>>

cdn_auth_token(f) ==
  LET i == fx[f].host IN
  /\ fx[f].pc = "asking" /\ token_lock' = None
  /\ \/ /\ issued < MaxTokens /\ issued' = issued + 1
        /\ tokens' = [tokens EXCEPT ![i] = issued + 1]
        /\ hosts' = report_retry(hosts, i)
     \/ /\ hosts' = report_failure(hosts, i, None) /\ UNCHANGED <<tokens, issued>>
  /\ Finish(f, Again(f))
  /\ UNCHANGED <<now, current, probing>>

\* The future is dropped: the observer still hears of the download.
Cancel(f) ==
  /\ fx[f].pc \in {"pick", "send", "get", "token", "asking"}
  /\ token_lock' = IF token_lock = f THEN None ELSE token_lock
  /\ fx' = [fx EXCEPT ![f] = [NotFetching EXCEPT !.pc = "cancelled"]] /\ Ended(f)
  /\ UNCHANGED <<now, hosts, current, probing, tokens, issued>>

Tick ==
  /\ now < MaxNow /\ now' = now + 1
  /\ UNCHANGED <<hosts, current, probing, fx, fetchVars>>

PoolNext ==
  \/ \E h \in Hosts, d \in Times \cup {None} : probe(h, d)
  \/ preconnect \/ Tick
  \/ \E f \in Fetches : \/ Begin(f) \/ pick(f) \/ Send(f) \/ fetch_ok(f) \/ fetch_fails(f)
                        \/ fetch_forbidden(f) \/ refresh_token(f) \/ cdn_auth_token(f) \/ Cancel(f)

PoolSpec == PoolInit /\ [][PoolNext]_poolVars

(***************************************************************************)
(* Properties.                                                             *)
(***************************************************************************)
\* Types of the hosts and the downloads.
PoolTypeOK ==
  /\ current \in Hosts \cup {None}
  /\ \A h \in Hosts : hosts[h].failures >= 0 /\ (tokens[h] # None => tokens[h] \in 1..issued)
  /\ \A f \in Fetches : fx[f].left \in 0..max_attempts

\* A host that failed has a time at which it may be tried again, so pick always
\* has a host to wait for and its expect never panics.
FailedHostsReturn ==
  /\ \A h \in Hosts : hosts[h].failures > 0 <=> hosts[h].until # None
  /\ \A f \in Fetches : fx[f].pc # "panicked"

\* The observer hears of each download exactly once, however it ends.
ReportedOnce ==
  \A f \in Fetches : reported[f] = IF fx[f].pc \in {"ok", "failed", "cancelled"} THEN 1 ELSE 0

\* A token is thrown away only if it was the one refused: a 403 that arrives
\* late does not cost the token that replaced it.
NewTokensKeptStep ==
  \A h \in Hosts : tokens[h] # None /\ tokens'[h] # tokens[h] =>
    \E f \in Fetches : fx[f].pc = "token" /\ fx[f].host = h /\ fx[f].used = tokens[h]

NewTokensKept == [][NewTokensKeptStep]_poolVars

(***************************************************************************)
(* Reading a file of a Steam depot: the manifest that is validated before  *)
(* it is used, and reads that fetch the chunks over a range, several at a  *)
(* time, through a cache of decoded chunks with a byte budget.             *)
(*                                                                         *)
(* A chunk id stands for its content (the id is the content's SHA-1): the  *)
(* bytes of chunk i are 10*i + 1, 10*i + 2, ...  A manifest is the chunk   *)
(* list and size of the one file looked at.                                *)
(***************************************************************************)
readerVars == <<manifest, rd, lru, used, reads, faults>>

Bytes(id) == [k \in 1..LenOf[id] |-> 10 * id + k]
NotReading == [pc |-> "idle", off |-> 0, end |-> 0, chunks |-> <<>>, got |-> <<>>, out |-> <<>>]

ReaderInit ==
  /\ manifest = None /\ rd = [r \in Readers |-> NotReading]
  /\ lru = <<>> /\ used = 0 /\ reads = 0 /\ faults = 0

End(c) == c.offset + LenOf[c.id]

new_untiled(m) == TRUE

\* DepotManifest::new: the chunks tile the file from 0 to its size.
new(m) ==
  LET at(k) == IF k = 1 THEN 0 ELSE End(m.chunks[k - 1])
      n == Len(m.chunks) IN
  /\ \A k \in 1..n : m.chunks[k].offset = at(k) /\ LenOf[m.chunks[k].id] > 0
  /\ at(n + 1) = m.size

\* from_cdn_bytes, or decode of a cached file: a list that does not tile is
\* refused.
from_cdn_bytes ==
  /\ manifest = None
  /\ \E m \in Manifests : new(m) /\ manifest' = m
  /\ UNCHANGED <<rd, lru, used, reads, faults>>

partition_point(P(_), n) == CHOOSE k \in 0..n : (\A i \in 1..k : P(i)) /\ (k < n => ~P(k + 1))

chunks_for(off, len) ==
  LET end == Min({off + len, manifest.size})
      ch == manifest.chunks
      ends(i) == End(ch[i]) <= off
      starts(i) == ch[i].offset < end IN
  IF off >= end THEN <<>>
  ELSE SubSeq(ch, partition_point(ends, Len(ch)) + 1, partition_point(starts, Len(ch)))

Fetching(cs) == [k \in DOMAIN cs |-> "want"]

\* A range outside the file is refused.
read_range(r, off, len) ==
  /\ manifest # None /\ rd[r].pc = "idle" /\ reads < MaxReads /\ reads' = reads + 1
  /\ rd' = [rd EXCEPT ![r] =
       IF off + len > manifest.size THEN [NotReading EXCEPT !.pc = "refused"]
       ELSE [pc |-> "reading", off |-> off, end |-> off + len, chunks |-> chunks_for(off, len),
             got |-> Fetching(chunks_for(off, len)), out |-> <<>>]]
  /\ UNCHANGED <<manifest, lru, used, faults>>

\* The whole file, a window of chunks ahead.
xxh64(r) ==
  /\ manifest # None /\ rd[r].pc = "idle" /\ reads < MaxReads /\ reads' = reads + 1
  /\ rd' = [rd EXCEPT ![r] = [pc |-> "hashing", off |-> 0, end |-> manifest.size, chunks |-> manifest.chunks,
                              got |-> Fetching(manifest.chunks), out |-> <<>>]]
  /\ UNCHANGED <<manifest, lru, used, faults>>

(***************************************************************************)
(* ChunkLru, least recently used first.                                    *)
(***************************************************************************)
get(id) == lru' = IF Contains(lru, id) THEN Append(Remove(lru, id), id) ELSE lru

Sizes(s) == FoldLeft(LAMBDA n, id : n + LenOf[id], 0, s)

put_unevicted(id) ==
  IF LenOf[id] > cap \/ Contains(lru, id) THEN UNCHANGED <<lru, used>>
  ELSE LET full == Append(lru, id)
           k == CHOOSE i \in 0..Len(full) : /\ Sizes(SubSeq(full, i + 1, Len(full))) <= cap
                                            /\ \A j \in 0..(i - 1) : Sizes(SubSeq(full, j + 1, Len(full))) > cap IN
       /\ lru' = SubSeq(full, k + 1, Len(full))
       /\ used' = used + LenOf[id]

\* Over the budget, the oldest chunks go.
put(id) ==
  IF LenOf[id] > cap \/ Contains(lru, id) THEN UNCHANGED <<lru, used>>
  ELSE LET full == Append(lru, id)
           k == CHOOSE i \in 0..Len(full) : /\ used + LenOf[id] - Sizes(SubSeq(full, 1, i)) <= cap
                                            /\ \A j \in 0..(i - 1) : used + LenOf[id] - Sizes(SubSeq(full, 1, j)) > cap IN
       /\ lru' = SubSeq(full, k + 1, Len(full))
       /\ used' = used + LenOf[id] - Sizes(SubSeq(full, 1, k))

(***************************************************************************)
(* DepotReader::chunk, for chunk k of reader r's list.                     *)
(***************************************************************************)
Active(r) == rd[r].pc \in {"reading", "hashing"}
Holding == {<<r, k>> \in Readers \X (1..4) : Active(r) /\ k \in DOMAIN rd[r].got /\ rd[r].got[k] = "fetching"}
InWindow(r, k) == rd[r].pc = "hashing" => k <= Len(rd[r].out) + max_concurrent_chunks
Got(r, k, s) == rd' = [rd EXCEPT ![r].got[k] = s]

\* Looked up, and looked up again once a permit is had.
chunk(r, k) ==
  LET id == rd[r].chunks[k].id IN
  /\ Active(r) /\ k \in DOMAIN rd[r].got /\ InWindow(r, k)
  /\ \/ /\ rd[r].got[k] = "want" /\ get(id)
        /\ Got(r, k, IF Contains(lru, id) THEN "done" ELSE "queued")
        /\ UNCHANGED used
     \/ /\ rd[r].got[k] = "queued" /\ Cardinality(Holding) < max_concurrent_chunks
        /\ get(id) /\ Got(r, k, IF Contains(lru, id) THEN "done" ELSE "fetching")
        /\ UNCHANGED used
     \/ /\ rd[r].got[k] = "fetching" /\ Got(r, k, "done") /\ put(id)
  /\ UNCHANGED <<manifest, reads, faults>>

\* What decode_chunk accepts is the content the id names; anything else, on
\* every server, fails the read and drops its other chunks.
decode_chunk(r) ==
  /\ Active(r) /\ faults < MaxFaults /\ \E k \in DOMAIN rd[r].got : rd[r].got[k] = "fetching"
  /\ faults' = faults + 1 /\ rd' = [rd EXCEPT ![r] = [NotReading EXCEPT !.pc = "failed"]]
  /\ UNCHANGED <<manifest, lru, used, reads>>

Cut(c, off, end) == SubSeq(Bytes(c.id), Max({off, c.offset}) - c.offset + 1, Min({end, End(c)}) - c.offset)

\* The parts, in the order of the chunks, cut to the range.
Splice(r) ==
  LET t == rd[r] IN
  /\ t.pc = "reading" /\ \A k \in DOMAIN t.got : t.got[k] = "done"
  /\ rd' = [rd EXCEPT ![r] = [t EXCEPT !.pc = "returned", !.out = FlattenSeq([k \in DOMAIN t.chunks |-> Cut(t.chunks[k], t.off, t.end)]),
                                       !.chunks = <<>>, !.got = <<>>]]
  /\ UNCHANGED <<manifest, lru, used, reads, faults>>

\* `out` counts chunks here: the hash takes the next one once it is there.
Update(r) ==
  LET t == rd[r]
      n == Len(t.out) IN
  /\ t.pc = "hashing"
  /\ \/ /\ n < Len(t.got) /\ (n < Len(t.got) => t.got[n + 1] = "done")
        /\ rd' = [rd EXCEPT ![r].out = Append(@, Bytes(t.chunks[n + 1].id))]
     \/ /\ n = Len(t.got)
        /\ rd' = [rd EXCEPT ![r] = [t EXCEPT !.pc = "returned", !.out = FlattenSeq(t.out), !.chunks = <<>>, !.got = <<>>]]
  /\ UNCHANGED <<manifest, lru, used, reads, faults>>

Return(r) ==
  /\ rd[r].pc \in {"returned", "failed", "refused"}
  /\ rd' = [rd EXCEPT ![r] = NotReading]
  /\ UNCHANGED <<manifest, lru, used, reads, faults>>

ReaderNext ==
  \/ from_cdn_bytes
  \/ \E r \in Readers : \/ \E off \in 0..3, len \in 0..3 : read_range(r, off, len)
                        \/ xxh64(r) \/ decode_chunk(r) \/ Splice(r) \/ Update(r) \/ Return(r)
                        \/ \E k \in 1..4 : chunk(r, k)

ReaderSpec == ReaderInit /\ [][ReaderNext]_readerVars

(***************************************************************************)
(* Properties.                                                             *)
(***************************************************************************)
\* Types of the reads and the cache.
ReaderTypeOK ==
  /\ manifest \in Manifests \cup {None}
  /\ \A r \in Readers : rd[r].pc \in {"idle", "reading", "hashing", "returned", "failed", "refused"}

\* A read returns the bytes of the file at the range asked for, and a hash
\* covers every byte of it once and in order, although the chunks arrive in any.
ReadsAreFile ==
  \A r \in Readers : rd[r].pc = "returned" =>
    LET content == FlattenSeq([k \in DOMAIN manifest.chunks |-> Bytes(manifest.chunks[k].id)]) IN
      /\ Len(content) = manifest.size
      /\ rd[r].out = SubSeq(content, rd[r].off + 1, rd[r].end)

\* The cache counts exactly what it holds and never holds more than its budget;
\* no more chunks are fetched at once than there are permits.
BudgetKept ==
  /\ used = Sizes(lru) /\ used <= cap /\ Cardinality(ToSet(lru)) = Len(lru)
  /\ Cardinality(Holding) <= max_concurrent_chunks

(***************************************************************************)
(* SteamContent: where a depot's key, manifest and CDN server list come    *)
(* from (the disk cache, or Steam, over sessions opened on first use) and  *)
(* the server pool all readers of an app share.                            *)
(*                                                                         *)
(* One app, one depot, one manifest.  A cached key is "good", "bad" (32    *)
(* bytes that are not the key) or None; a cached manifest is "good" or     *)
(* None (a damaged file is a miss); a server list is "fresh", "stale" or   *)
(* None.  Steam is reachable while `online`.                               *)
(***************************************************************************)
contentVars == <<cache, session, anonymous, pools, built, task, online, calls, faults>>

NoTask == [pc |-> "idle", op |-> None, key |-> None, pool |-> None, off |-> FALSE, ans |-> None]

ContentInit ==
  /\ cache \in FirstCache
  /\ session = FALSE /\ anonymous = FALSE /\ pools = None /\ built = 0
  /\ task = [t \in Tasks |-> NoTask] /\ online \in BOOLEAN /\ calls = 0 /\ faults = 0

Goto(t, pc) == task' = [task EXCEPT ![t].pc = pc]
ContentEnd(t, ans) == task' = [task EXCEPT ![t].pc = "done", ![t].ans = ans]
net == <<session, anonymous, pools, built>>

Complete ==
  /\ cache.key = "good" /\ cache.manifest = "good" /\ cache.servers # None
  /\ \A t \in Tasks : task[t].key # "bad"

ContentBegin(t, op) ==
  /\ task[t].pc = "idle" /\ calls < MaxCalls /\ calls' = calls + 1
  /\ task' = [task EXCEPT ![t] = [NoTask EXCEPT !.op = op, !.off = Complete,
                                  !.pc = IF op = "manifest" THEN "manifest" ELSE "key"]]
  /\ UNCHANGED <<cache, net, online, faults>>

\* The logged-on session, connecting on first use.
session_ok == online /\ (session \/ Credentials = "good")
NotLoggedIn == ~session /\ Credentials # "good"

\* A request on the session: answered, or failed by Steam or the network.
OnSession(t, then(_)) ==
  \/ /\ session_ok /\ session' = TRUE /\ then(t) /\ UNCHANGED faults
  \/ /\ ~session_ok \/ faults < MaxFaults
     /\ faults' = IF session_ok THEN faults + 1 ELSE faults
     /\ ContentEnd(t, "failed") /\ UNCHANGED <<session, cache>>

Coded(t) == Goto(t, "key") /\ UNCHANGED cache

content_manifest(t) ==
  /\ task[t].pc = "manifest"
  /\ IF cache.manifest = "good" THEN ContentEnd(t, "ok") /\ UNCHANGED <<cache, session, faults>>
     ELSE Goto(t, "code") /\ UNCHANGED <<cache, session, faults>>
  /\ UNCHANGED <<anonymous, pools, built, online, calls>>

manifest_request_code(t) ==
  /\ task[t].pc = "code" /\ OnSession(t, Coded)
  /\ UNCHANGED <<anonymous, pools, built, online, calls>>

depot_key(t) ==
  /\ task[t].pc = "key"
  /\ task' = [task EXCEPT ![t].pc = IF cache.key # None THEN "pool" ELSE "ask_key", ![t].key = cache.key]
  /\ UNCHANGED <<cache, net, online, calls, faults>>

\* The key Steam sends is used whether or not it could be cached.
Keyed(t) ==
  /\ task' = [task EXCEPT ![t].pc = "pool", ![t].key = "good"]
  /\ cache' \in {cache, [cache EXCEPT !.key = "good"]}

fetch_depot_key(t) ==
  /\ task[t].pc = "ask_key" /\ OnSession(t, Keyed)
  /\ UNCHANGED <<anonymous, pools, built, online, calls>>

\* The app's pool if there is one, else a server list to build it from.
pool(t) ==
  /\ task[t].pc = "pool"
  /\ task' = [task EXCEPT ![t].pc = IF pools # None THEN "reader"
                                    ELSE IF cache.servers = "fresh" THEN "build" ELSE "ask_servers",
                          ![t].pool = pools]
  /\ UNCHANGED <<cache, net, online, calls, faults>>

cdn_servers_strict(t) ==
  /\ task[t].pc = "ask_servers"
  /\ \/ /\ online
        /\ session' = (session \/ ~NotLoggedIn) /\ anonymous' = (anonymous \/ NotLoggedIn)
        /\ cache' \in {cache, [cache EXCEPT !.servers = "fresh"]} /\ Goto(t, "build") /\ UNCHANGED faults
     \/ /\ ~online \/ faults < MaxFaults
        /\ faults' = IF online THEN faults + 1 ELSE faults
        /\ ContentEnd(t, "failed")
        /\ UNCHANGED <<session, anonymous, cache>>
  /\ UNCHANGED <<pools, built, online, calls>>

\* A live list, over an anonymous session when there is no login; if that
\* fails a stale list will do.
cdn_servers(t) ==
  /\ task[t].pc = "ask_servers"
  /\ \/ /\ online
        /\ session' = (session \/ ~NotLoggedIn) /\ anonymous' = (anonymous \/ NotLoggedIn)
        /\ cache' \in {cache, [cache EXCEPT !.servers = "fresh"]} /\ Goto(t, "build") /\ UNCHANGED faults
     \/ /\ ~online \/ faults < MaxFaults
        /\ faults' = IF online THEN faults + 1 ELSE faults
        /\ IF cache.servers # None THEN Goto(t, "build") ELSE ContentEnd(t, "failed")
        /\ UNCHANGED <<session, anonymous, cache>>
  /\ UNCHANGED <<pools, built, online, calls>>

build_own(t) ==
  /\ task[t].pc = "build"
  /\ built' = built + 1 /\ pools' = built + 1
  /\ task' = [task EXCEPT ![t].pc = "reader", ![t].pool = pools']
  /\ UNCHANGED <<cache, session, anonymous, online, calls, faults>>

\* Another reader may have built it meanwhile.
build(t) ==
  /\ task[t].pc = "build"
  /\ built' = built + 1 /\ pools' = IF pools = None THEN built + 1 ELSE pools
  /\ task' = [task EXCEPT ![t].pc = "reader", ![t].pool = pools']
  /\ UNCHANGED <<cache, session, anonymous, online, calls, faults>>

reader(t) ==
  /\ task[t].pc = "reader"
  /\ IF task[t].op = "manifest" THEN Goto(t, "fetch") ELSE ContentEnd(t, "ok")
  /\ UNCHANGED <<cache, net, online, calls, faults>>

fetch_manifest_keeps(t) ==
  /\ task[t].pc = "fetch"
  /\ IF task[t].key = "bad"
     THEN ContentEnd(t, "integrity") /\ UNCHANGED cache
     ELSE \/ cache' \in {cache, [cache EXCEPT !.manifest = "good"]} /\ ContentEnd(t, "ok")
          \/ ContentEnd(t, "failed") /\ UNCHANGED cache
  /\ UNCHANGED <<net, online, calls, faults>>

\* A wrong key decrypts no file names: it is forgotten.
fetch_manifest(t) ==
  /\ task[t].pc = "fetch"
  /\ IF task[t].key = "bad"
     THEN ContentEnd(t, "integrity") /\ cache' = [cache EXCEPT !.key = None]
     ELSE \/ cache' \in {cache, [cache EXCEPT !.manifest = "good"]} /\ ContentEnd(t, "ok")
          \/ ContentEnd(t, "failed") /\ UNCHANGED cache
  /\ UNCHANGED <<net, online, calls, faults>>

ContentReturn(t) ==
  /\ task[t].pc = "done" /\ task' = [task EXCEPT ![t] = NoTask]
  /\ UNCHANGED <<cache, net, online, calls, faults>>

\* A day passes; the network goes.
Age ==
  /\ cache.servers = "fresh" /\ cache' = [cache EXCEPT !.servers = "stale"]
  /\ UNCHANGED <<net, task, online, calls, faults>>
Disconnect ==
  /\ online /\ online' = FALSE
  /\ UNCHANGED <<cache, net, task, calls, faults>>

ContentNext ==
  \/ \E t \in Tasks : \/ ContentBegin(t, "manifest") \/ ContentBegin(t, "reader") \/ content_manifest(t) \/ manifest_request_code(t)
                      \/ depot_key(t) \/ fetch_depot_key(t) \/ pool(t) \/ cdn_servers(t) \/ build(t)
                      \/ reader(t) \/ fetch_manifest(t) \/ ContentReturn(t)
  \/ Age \/ Disconnect

ContentSpec == ContentInit /\ [][ContentNext]_contentVars

(***************************************************************************)
(* Properties.                                                             *)
(***************************************************************************)
\* Types of the cache and the tasks.
ContentTypeOK ==
  /\ cache.key \in {"good", "bad", None} /\ cache.manifest \in {"good", None}
  /\ cache.servers \in {"fresh", "stale", None}
  /\ \A t \in Tasks : task[t].pool \in 0..built \cup {None}

\* All readers of the app use one pool: none is left on a pool of its own.
OnePool == \A t \in Tasks : task[t].pc \in {"reader", "fetch"} => task[t].pool = pools /\ pools # None

\* What was fully cached when it was asked for is served without Steam, however
\* old the server list is (unless a call that began with a bad key is still out:
\* forget_depot_key forgets whatever key is there by then).
OfflineServed == \A t \in Tasks : task[t].off /\ task[t].pc = "done" => task[t].ans = "ok"

\* A key that decrypted nothing is not left for the next call: after the failure
\* it caused, the cache does not hold it.
BadKeyForgotten == \A t \in Tasks : task[t].ans = "integrity" => cache.key # "bad"
==============================================================================
