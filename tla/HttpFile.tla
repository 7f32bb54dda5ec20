------------------------------- MODULE HttpFile -------------------------------
(***************************************************************************)
(* Whole-file downloads of aether-net: a one-byte probe for the length,    *)
(* then ranges fetched side by side and written in order, or one stream    *)
(* when the server ignores Range.  Every request holds a host and a global *)
(* permit, a failed one is retried without them, and the server may        *)
(* replace the file between any two requests.  A byte is a chunk, a file   *)
(* of version v the sequence <<v, 0>>, <<v, 1>>, ..., and a hash the       *)
(* sequence hashed (collisions are left out).                              *)
(***************************************************************************)
EXTENDS Integers, Sequences, FiniteSets, TLC

CONSTANTS
    Downloads, Host,
    Global, PerHost,        \* Limiter
    LenOf,                  \* version -> length; versions are 1, 2, ...
    HonoursRange,
    expected, expected_len, \* what the caller knows: a version or None, a length or None
    parallel_parts, max_attempts, STREAM_WRITE,
    None

VARIABLES
    server,       \* the version served
    hosts, global,\* permits left
    dl,           \* each download
    req,          \* its requests, by part
    sink

vars == <<server, hosts, global, dl, req, sink>>

Versions == DOMAIN LenOf
MaxLen == CHOOSE n \in {LenOf[v] : v \in Versions} : \A v \in Versions : LenOf[v] <= n
Parts == 0 .. MaxLen - 1
NoReq == [at |-> "none", try |-> 0]
Idle == [at |-> "idle", len |-> 0, next |-> 0, hash |-> <<>>]

Init ==
    /\ server = 1
    /\ hosts = [h \in {Host[d] : d \in Downloads} |-> PerHost] /\ global = Global
    /\ dl = [d \in Downloads |-> Idle]
    /\ req = [d \in Downloads |-> [p \in Parts |-> NoReq]]
    /\ sink = [d \in Downloads |-> <<>>]

\* A new upload takes the place of the file.
Reupload == /\ server + 1 \in Versions /\ server' = server + 1
            /\ UNCHANGED <<hosts, global, dl, req, sink>>

(***************************************************************************)
(* Permits                                                                 *)
(***************************************************************************)
Holding == {"sent", "body"}

\* The host's slot first, then a global one.
acquire(d, p) ==
    LET h == Host[d]
    IN /\ \/ /\ req[d][p].at = "wait" /\ hosts[h] > 0
             /\ hosts' = [hosts EXCEPT ![h] = @ - 1]
             /\ req' = [req EXCEPT ![d][p].at = "host"]
             /\ UNCHANGED global
          \/ /\ req[d][p].at = "host" /\ global > 0
             /\ global' = global - 1
             /\ req' = [req EXCEPT ![d][p].at = "sent"]
             /\ UNCHANGED hosts
       /\ UNCHANGED <<server, dl, sink>>

\* Mutant: a request dropped while it waits for a global slot keeps its host's.
Released_sent(d, ps) ==
    /\ hosts' = [hosts EXCEPT ![Host[d]] = @ + Cardinality({p \in ps : req[d][p].at \in Holding})]
    /\ global' = global + Cardinality({p \in ps : req[d][p].at \in Holding})

\* Permits go when their guard is dropped, with the request or with the whole download.
Released(d, ps) ==
    /\ hosts' = [hosts EXCEPT ![Host[d]] = @ + Cardinality({p \in ps : req[d][p].at \in Holding \cup {"host"}})]
    /\ global' = global + Cardinality({p \in ps : req[d][p].at \in Holding})

(***************************************************************************)
(* Outcomes of a request                                                   *)
(***************************************************************************)
\* The job's outcome; everything it still had under way is dropped.
complete(d, how) ==
    /\ Released(d, Parts)
    /\ dl' = [dl EXCEPT ![d].at = how]
    /\ req' = [req EXCEPT ![d] = [p \in Parts |-> NoReq]]

\* Mutant: a retry does not count.
Retried_uncounted(d, p) ==
    req' = [req EXCEPT ![d][p] = [at |-> "wait", try |-> @.try]]

\* A retryable error, and tries are left: the request waits for its permits anew.
Retried(d, p) ==
    /\ req[d][p].try < max_attempts
    /\ req' = [req EXCEPT ![d][p] = [at |-> "wait", try |-> @.try + 1]]

\* What a response can be turned into: an error status, ...
check == {"NotFound", "RateLimited", "Later", "Status4xx", "Status5xx"}
\* ... a body that breaks off, ends early or goes on too long.
read_body_inner == {"Network", "CorruptPart", "Protocol"}

is_retryable(e) == e \in {"Network", "RateLimited", "Later", "CorruptPart", "Status5xx"}

\* A Retry-After longer than the caller waits for.
delay(e) == e = "Later"

\* RetryPolicy::run on an error of one attempt.
run(d, p, e) ==
    IF is_retryable(e) /\ ~delay(e) /\ req[d][p].try < max_attempts
    THEN Retried(d, p) /\ Released(d, {p}) /\ UNCHANGED dl
    ELSE complete(d, "failed")

\* The hash of what arrived against the caller's.
Finish(d, hash, n) ==
    IF expected # None /\ hash # [i \in 1 .. LenOf[expected] |-> <<expected, i - 1>>]
    THEN complete(d, "failed")
    ELSE /\ Released(d, Parts)
         /\ dl' = [dl EXCEPT ![d] = [at |-> "finished", len |-> n, next |-> n, hash |-> hash]]
         /\ req' = [req EXCEPT ![d] = [p \in Parts |-> NoReq]]

check_len(n) == expected_len = None \/ expected_len = n

(***************************************************************************)
(* The download                                                            *)
(***************************************************************************)
download(d) ==
    /\ dl[d].at = "idle"
    /\ dl' = [dl EXCEPT ![d].at = "probe"]
    /\ req' = [req EXCEPT ![d][0] = [at |-> "wait", try |-> 1]]
    /\ UNCHANGED <<server, hosts, global, sink>>

\* `bytes=0-0`: the length, or that the server ignores Range.
range_len(d) ==
    LET n == LenOf[server]
    IN /\ dl[d].at = "probe" /\ req[d][0].at = "sent"
       /\ \/ \E e \in check \cup {"Network", "Protocol"} : run(d, 0, e)
          \/ /\ HonoursRange
             /\ IF ~check_len(n) THEN complete(d, "failed")
                ELSE IF n = 0 THEN Finish(d, <<>>, 0)
                ELSE /\ Released(d, {0})
                     /\ dl' = [dl EXCEPT ![d] = [Idle EXCEPT !.at = "ranged", !.len = n]]
                     /\ req' = [req EXCEPT ![d][0] = NoReq]
          \/ /\ ~HonoursRange
             /\ Released(d, {0})
             /\ dl' = [dl EXCEPT ![d].at = "single"]
             /\ req' = [req EXCEPT ![d][0] = [at |-> "wait", try |-> 1]]
       /\ UNCHANGED <<server, sink>>

\* `buffered`: a part starts when it is within `parallel_parts` of the one to be written next.
Start(d, p) ==
    /\ dl[d].at = "ranged" /\ req[d][p] = NoReq
    /\ p >= dl[d].next /\ p < dl[d].len /\ p < dl[d].next + parallel_parts
    /\ req' = [req EXCEPT ![d][p] = [at |-> "wait", try |-> 1]]
    /\ UNCHANGED <<server, hosts, global, dl, sink>>

\* One attempt at a range: exactly that range, or an error; past the end of a file that shrank it
\* is one that no retry mends.
get_range(d, p) ==
    /\ dl[d].at = "ranged" /\ req[d][p].at = "sent"
    /\ \/ \E e \in check \cup read_body_inner : run(d, p, e)
       \/ IF p >= LenOf[server] THEN run(d, p, "Protocol")
          ELSE /\ Released(d, {p})
               /\ req' = [req EXCEPT ![d][p] = [at |-> "got", try |-> @.try, data |-> <<server, p>>]]
               /\ UNCHANGED dl
    /\ UNCHANGED <<server, sink>>

write_at(d, off, data) ==
    sink' = [sink EXCEPT ![d] = [i \in 1 .. IF Len(@) > off + Len(data) THEN Len(@) ELSE off + Len(data) |->
                                    IF i > off /\ i <= off + Len(data) THEN data[i - off]
                                    ELSE IF i <= Len(@) THEN @[i] ELSE None]]

\* Mutant: parts are taken as they arrive.
ranged_unordered(d) ==
    \E p \in Parts :
       /\ dl[d].at = "ranged" /\ req[d][p].at = "got"
       /\ write_at(d, p, <<req[d][p].data>>)
       /\ LET hash == Append(dl[d].hash, req[d][p].data)
          IN IF Len(hash) = dl[d].len THEN Finish(d, hash, dl[d].len)
             ELSE /\ dl' = [dl EXCEPT ![d].next = @ + 1, ![d].hash = hash]
                  /\ req' = [req EXCEPT ![d][p] = NoReq]
                  /\ UNCHANGED <<hosts, global>>
       /\ UNCHANGED server

\* The next part in order is hashed and written; after the last the hash is compared.
ranged(d) ==
    LET p == dl[d].next
    IN /\ dl[d].at = "ranged" /\ p < dl[d].len
       /\ req[d][p].at = "got"
       /\ \/ LET hash == Append(dl[d].hash, req[d][p].data)
             IN /\ write_at(d, p, <<req[d][p].data>>)
                /\ IF p + 1 = dl[d].len THEN Finish(d, hash, dl[d].len)
                   ELSE /\ dl' = [dl EXCEPT ![d].next = p + 1, ![d].hash = hash]
                        /\ req' = [req EXCEPT ![d][p] = NoReq]
                        /\ UNCHANGED <<hosts, global>>
          \/ complete(d, "failed") /\ UNCHANGED sink
       /\ UNCHANGED server

(***************************************************************************)
(* One stream                                                              *)
(***************************************************************************)
\* The response's headers: a Content-Length, if any, must be the length expected.
Respond(d) ==
    /\ dl[d].at = "single" /\ req[d][0].at = "sent"
    /\ \/ \E e \in check \cup {"Network", "Protocol"} : run(d, 0, e)
       \/ \E declared \in {None, LenOf[server]} :
            IF declared # None /\ ~check_len(declared) THEN complete(d, "failed")
            ELSE /\ req' = [req EXCEPT ![d][0] =
                              [at |-> "body", try |-> @.try, ver |-> server, declared |-> declared, off |-> 0, buf |-> <<>>]]
                 /\ dl' = [dl EXCEPT ![d].hash = <<>>]
                 /\ UNCHANGED <<hosts, global>>
    /\ UNCHANGED <<server, sink>>

\* Mutant: a body longer than expected is written until it ends.
Chunk_unbounded(d) ==
    LET r == req[d][0]
        got == Len(dl[d].hash)
    IN /\ dl[d].at = "single" /\ r.at = "body" /\ got < LenOf[r.ver]
       /\ LET buf == Append(r.buf, <<r.ver, got>>)
          IN /\ dl' = [dl EXCEPT ![d].hash = Append(@, <<r.ver, got>>)]
             /\ IF Len(buf) >= STREAM_WRITE
                THEN write_at(d, r.off, buf) /\ req' = [req EXCEPT ![d][0].off = r.off + Len(buf), ![d][0].buf = <<>>]
                ELSE req' = [req EXCEPT ![d][0].buf = buf] /\ UNCHANGED sink
             /\ UNCHANGED <<hosts, global>>
       /\ UNCHANGED server

\* A piece of the body: never more than expected, written once STREAM_WRITE have come.
Chunk(d) ==
    LET r == req[d][0]
        got == Len(dl[d].hash)
    IN /\ dl[d].at = "single" /\ r.at = "body" /\ got < LenOf[r.ver]
       /\ IF expected_len # None /\ got + 1 > expected_len THEN complete(d, "failed") /\ UNCHANGED sink
          ELSE LET buf == Append(r.buf, <<r.ver, got>>)
               IN /\ dl' = [dl EXCEPT ![d].hash = Append(@, <<r.ver, got>>)]
                  /\ IF Len(buf) >= STREAM_WRITE
                     THEN write_at(d, r.off, buf) /\ req' = [req EXCEPT ![d][0].off = r.off + Len(buf), ![d][0].buf = <<>>]
                     ELSE req' = [req EXCEPT ![d][0].buf = buf] /\ UNCHANGED sink
                  /\ UNCHANGED <<hosts, global>>
       /\ UNCHANGED server

\* The body ends, early perhaps: the rest is written and the length held against both lengths known.
\* Or the connection breaks, and nothing more is written.
single(d) ==
    LET r == req[d][0]
        n == Len(dl[d].hash)
    IN /\ dl[d].at = "single" /\ r.at = "body"
       /\ \/ /\ write_at(d, r.off, r.buf)
             /\ IF (r.declared # None /\ r.declared # n) \/ ~check_len(n) THEN run(d, 0, "CorruptPart")
                ELSE Finish(d, dl[d].hash, n)
          \/ run(d, 0, "Network") /\ UNCHANGED sink
       /\ UNCHANGED server

\* The caller drops the download.
Cancel(d) ==
    /\ dl[d].at \in {"probe", "ranged", "single"}
    /\ complete(d, "failed")
    /\ UNCHANGED <<server, sink>>

Step(d) ==
    \/ download(d) \/ range_len(d) \/ ranged(d) \/ Respond(d) \/ Chunk(d) \/ single(d)
    \/ \E p \in Parts : acquire(d, p) \/ Start(d, p) \/ get_range(d, p)

Next == Reupload \/ \E d \in Downloads : Step(d) \/ Cancel(d)

\* tokio runs every task that can go on; a semaphore serves its waiters in turn.
Fairness == \A d \in Downloads : WF_vars(Step(d)) /\ \A p \in Parts : SF_vars(acquire(d, p))
Spec == Init /\ [][Next]_vars
LiveSpec == Spec /\ Fairness

(***************************************************************************)
(* Properties                                                              *)
(***************************************************************************)
\* Every permit taken is given back, on every path out of a request: what is left and what is held
\* is what there was (limit.rs).
PermitsKept ==
    LET held(D, ats) == Cardinality({dp \in D \X Parts : req[dp[1]][dp[2]].at \in ats})
    IN /\ global + held(Downloads, Holding) = Global /\ global >= 0
       /\ \A h \in DOMAIN hosts :
            hosts[h] >= 0 /\ hosts[h] + held({d \in Downloads : Host[d] = h}, Holding \cup {"host"}) = PerHost

\* A download that finishes has written what it hashed, in the caller's hash's version if one was
\* given, and of the length the caller expects, with nothing past it.
DownloadedIsWhole ==
    \A d \in Downloads : dl[d].at = "finished" =>
        /\ Len(dl[d].hash) = dl[d].len /\ SubSeq(sink[d], 1, dl[d].len) = dl[d].hash
        /\ expected # None => dl[d].hash = [i \in 1 .. LenOf[expected] |-> <<expected, i - 1>>]
        /\ expected_len # None => dl[d].len = expected_len /\ Len(sink[d]) = expected_len

WritesInOrderStep ==
    \A d \in Downloads : sink'[d] # sink[d] =>
       LET changed == {i \in 1 .. Len(sink'[d]) : i > Len(sink[d]) \/ sink'[d][i] # sink[d][i]}
       IN dl[d].at = "single" \/ changed = {Len(sink[d]) + 1}

\* What BlobSink is promised: writes come in increasing order without overlap, but for a restart at 0.
WritesInOrder == [][WritesInOrderStep]_vars

\* A download started comes to an end.
DownloadEnds == \A d \in Downloads : dl[d].at = "probe" ~> dl[d].at \in {"finished", "failed"}

===============================================================================
