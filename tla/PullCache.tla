------------------------------- MODULE PullCache -------------------------------
(***************************************************************************)
(* The pull-through cache of aether-storage (cached/, evict.rs): readers   *)
(* that miss join one fetch of a unit of blocks, the fetch stores what the *)
(* store lacks and counts it, and a background eviction drops files with   *)
(* no open handle when the counted bytes pass the budget.  A byte is a     *)
(* block here.  The order eviction takes files in (least recently used) is *)
(* left open; the RAM tier is not modelled (cached content never changes). *)
(***************************************************************************)
EXTENDS Integers, FiniteSets, FiniteSetsExt, TLC

CONSTANTS
    Threads, Unit,   \* each thread reads through one source, of this many blocks a fetch
    Files, Blocks,
    MaxBytes, Target,  \* cache_max_bytes and the 90% of it eviction stops at
    Cells,           \* bound: fetches in memory
    MaxFaults,       \* bound: failures of the source or the store
    None

VARIABLES
    stored,   \* the store: file -> None or the blocks it holds
    row,      \* the catalog: file -> None or logical_bytes
    pending, logical,   \* AccessLog
    counts,   \* open_counts
    total,    \* cached_logical
    cells,    \* fetches: [key, at, ok]
    inflight, \* key -> the cell to join
    job,      \* each thread: what it has open and is doing
    ev,       \* the background eviction
    stuck,    \* stuck_since
    orphans,  \* files whose store delete failed
    faults

cache == <<stored, row, pending, logical, total, orphans>>
vars == <<cache, counts, cells, inflight, job, ev, stuck, faults>>

Span(b, n) == {c \in Blocks : c \div n = b \div n}
Keys == {<<f, Span(b, Unit[t]), Unit[t]>> : f \in Files, b \in Blocks, t \in Threads}
Closed == [at |-> "closed"]
Idle == [at |-> "idle"]

Init ==
    /\ stored = [f \in Files |-> None] /\ row = [f \in Files |-> None]
    /\ pending = [f \in Files |-> None] /\ logical = [f \in Files |-> None]
    /\ counts = [f \in Files |-> 0] /\ total = 0
    /\ cells = [c \in Cells |-> None] /\ inflight = [k \in Keys |-> None]
    /\ job = [t \in Threads |-> Closed]
    /\ ev = Idle /\ stuck = FALSE /\ orphans = {} /\ faults = 0

Holds(f) == IF stored[f] = None THEN {} ELSE stored[f]
Counted(f) == IF pending[f] # None THEN pending[f] ELSE IF row[f] # None THEN row[f] ELSE 0
Or(n, m) == IF n = None THEN m ELSE n
Monus(n, m) == IF n > m THEN n - m ELSE 0
Fault == faults < MaxFaults /\ faults' = faults + 1

\* An eviction is started when the count is over the budget, none runs and none backs off.
maybe_evict ==
    ev' = IF total' > MaxBytes /\ ~stuck' /\ ev = Idle THEN [at |-> "snapshot"] ELSE ev

\* An access to `f` that stored `n` more bytes, capped at the file's size.
touch(f, before, n) ==
    LET now == Max({before, Min({before + n, Cardinality(Blocks)})})
    IN /\ logical' = [logical EXCEPT ![f] = now]
       /\ pending' = IF now = 0 THEN pending ELSE [pending EXCEPT ![f] = now]

(***************************************************************************)
(* Open, close                                                             *)
(***************************************************************************)
\* A row without its store file goes, and what it counted with it.
cache_acquire(f) ==
    LET gone == stored[f] = None /\ row[f] # None
    IN /\ counts' = [counts EXCEPT ![f] = @ + 1]
       /\ row' = IF gone THEN [row EXCEPT ![f] = None] ELSE row
       /\ total' = IF gone THEN Monus(total, Or(logical[f], row[f])) ELSE total
       /\ IF gone THEN logical' = [logical EXCEPT ![f] = 0] /\ pending' = [pending EXCEPT ![f] = None]
          ELSE touch(f, IF stored[f] = None THEN 0 ELSE Or(logical[f], Or(row[f], 0)), 0)
       /\ UNCHANGED <<stored, orphans>>

open(t, f) ==
    /\ job[t] = Closed
    /\ cache_acquire(f)
    /\ job' = [job EXCEPT ![t] = [at |-> "open", file |-> f]]
    /\ UNCHANGED <<cells, inflight, ev, stuck, faults>>

\* Mutant: the handle is not given back.
close_counted(t) ==
    LET f == job[t].file
    IN /\ job[t].at = "open"
       /\ touch(f, Or(logical[f], 0), 0)
       /\ job' = [job EXCEPT ![t] = Closed]
       /\ UNCHANGED <<stored, row, total, orphans, counts, cells, inflight, stuck, faults>>
       /\ maybe_evict

\* The last handle to close ends an eviction's back-off.
close(t) ==
    LET f == job[t].file
    IN /\ job[t].at = "open"
       /\ counts' = [counts EXCEPT ![f] = @ - 1]
       /\ touch(f, Or(logical[f], 0), 0)
       /\ stuck' = (stuck /\ counts[f] > 1)
       /\ job' = [job EXCEPT ![t] = Closed]
       /\ UNCHANGED <<stored, row, total, orphans, cells, inflight, faults>>
       /\ maybe_evict

(***************************************************************************)
(* Reading                                                                 *)
(***************************************************************************)
\* A miss joins the fetch under way of the same blocks, or makes one to join.
block(t, b) ==
    LET f == job[t].file
        k == <<f, Span(b, Unit[t]), Unit[t]>>
        c == IF inflight[k] # None THEN inflight[k] ELSE CHOOSE x \in Cells : cells[x] = None
    IN /\ job[t].at = "open" /\ b \notin Holds(f)
       /\ inflight[k] # None \/ \E x \in Cells : cells[x] = None
       /\ inflight' = [inflight EXCEPT ![k] = c]
       /\ cells' = IF inflight[k] # None THEN cells
                   ELSE [cells EXCEPT ![c] = [key |-> k, at |-> "new", ok |-> FALSE]]
       /\ job' = [job EXCEPT ![t] = [at |-> "joined", file |-> f, cell |-> c]]
       /\ UNCHANGED <<cache, counts, ev, stuck, faults>>

Settle(c, ok) == cells' = [cells EXCEPT ![c].at = "done", ![c].ok = ok]

\* The first of the joiners runs the fetch: which blocks does the store lack?
stored_span(t) ==
    LET j == job[t]
        missing == cells[j.cell].key[2] \ Holds(j.file)
    IN /\ j.at = "joined" /\ cells[j.cell].at = "new"
       /\ IF missing = {} THEN Settle(j.cell, TRUE) /\ UNCHANGED job
          ELSE /\ cells' = [cells EXCEPT ![j.cell].at = "running"]
               /\ job' = [job EXCEPT ![t] = [at |-> "source", file |-> j.file, cell |-> j.cell, missing |-> missing]]
       /\ UNCHANGED <<cache, counts, inflight, ev, stuck, faults>>

\* The source is read; an error is every joiner's answer.
source_read(t) ==
    LET j == job[t]
    IN /\ j.at = "source"
       /\ \/ job' = [job EXCEPT ![t].at = "store"] /\ UNCHANGED <<cells, faults>>
          \/ Fault /\ Settle(j.cell, FALSE) /\ job' = [job EXCEPT ![t] = [at |-> "joined", file |-> j.file, cell |-> j.cell]]
       /\ UNCHANGED <<cache, counts, inflight, ev, stuck>>

\* Mutant: the store file is made without its row.
fetch_store_rowless(t) ==
    LET j == job[t]
        f == j.file
        before == Or(logical[f], 0)
    IN /\ j.at = "store"
       /\ stored' = [stored EXCEPT ![f] = Holds(f) \cup j.missing]
       /\ \/ touch(f, before, Cardinality(j.missing)) /\ total' = total + logical'[f] - before /\ UNCHANGED faults
          \/ Fault /\ UNCHANGED <<logical, pending, total>>
       /\ Settle(j.cell, TRUE)
       /\ job' = [job EXCEPT ![t] = [at |-> "joined", file |-> f, cell |-> j.cell]]
       /\ UNCHANGED <<row, orphans, counts, inflight, stuck>>
       /\ maybe_evict

\* Mutant: what a failing store did not keep is counted as well.
fetch_store_counts(t) ==
    LET j == job[t]
        f == j.file
        before == Or(logical[f], 0)
    IN /\ j.at = "store"
       /\ row' = IF stored[f] = None THEN [row EXCEPT ![f] = 0] ELSE row
       /\ \/ stored' = [stored EXCEPT ![f] = Holds(f) \cup j.missing] /\ UNCHANGED faults
          \/ Fault /\ stored' = [stored EXCEPT ![f] = Holds(f)]
       /\ touch(f, before, Cardinality(j.missing))
       /\ total' = total + logical'[f] - before
       /\ Settle(j.cell, TRUE)
       /\ job' = [job EXCEPT ![t] = [at |-> "joined", file |-> f, cell |-> j.cell]]
       /\ UNCHANGED <<orphans, counts, inflight, stuck>>
       /\ maybe_evict

\* The catalog row and the store file are made if need be, the missing blocks stored and counted.  A
\* store that fails keeps some of them uncounted; the bytes are served all the same.
fetch_store(t) ==
    LET j == job[t]
        f == j.file
        before == Or(logical[f], 0)
    IN /\ j.at = "store"
       /\ row' = IF stored[f] = None THEN [row EXCEPT ![f] = 0] ELSE row
       /\ \/ /\ stored' = [stored EXCEPT ![f] = Holds(f) \cup j.missing]
             /\ touch(f, before, Cardinality(j.missing))
             /\ total' = total + logical'[f] - before
             /\ UNCHANGED faults
          \/ /\ Fault
             /\ \E kept \in SUBSET j.missing : stored' = [stored EXCEPT ![f] = Holds(f) \cup kept]
             /\ UNCHANGED <<logical, pending, total>>
       /\ Settle(j.cell, TRUE)
       /\ job' = [job EXCEPT ![t] = [at |-> "joined", file |-> f, cell |-> j.cell]]
       /\ UNCHANGED <<orphans, counts, inflight, stuck>>
       /\ maybe_evict

\* Mutant: a joiner forgets the fetch before it is done with.
Drop_all(c) == inflight' = [k \in Keys |-> None]

\* Each joiner takes the answer and drops the fetch, if it is still the one to join.
Drop(c) ==
    inflight' = [k \in Keys |-> IF inflight[k] = c THEN None ELSE inflight[k]]

Answer(t) ==
    LET c == job[t].cell
    IN /\ job[t].at = "joined" /\ cells[c].at = "done"
       /\ Drop(c)
       /\ cells' = IF \E u \in Threads \ {t} : job[u].at \notin {"closed", "open"} /\ job[u].cell = c THEN cells
                   ELSE [cells EXCEPT ![c] = None]
       /\ job' = [job EXCEPT ![t] = [at |-> "open", file |-> job[t].file]]
       /\ UNCHANGED <<cache, counts, ev, stuck, faults>>

\* Batched access times reach the catalog; a minute has passed, and ends a back-off.
commit_access ==
    /\ \E f \in Files : pending[f] # None
    /\ row' = [f \in Files |-> Or(pending[f], row[f])]
    /\ pending' = [f \in Files |-> None]
    /\ stuck' = FALSE
    /\ UNCHANGED <<stored, logical, total, orphans, counts, cells, inflight, job, ev, faults>>

(***************************************************************************)
(* Eviction                                                                *)
(***************************************************************************)
\* The rows under the access log's; within the budget, the running total is set to their sum.
budget_snapshot ==
    LET sum == MapThenSumSet(Counted, Files)
        rowed == {f \in Files : row[f] # None \/ pending[f] # None}
    IN /\ ev.at = "snapshot"
       /\ IF sum <= MaxBytes
          THEN total' = sum /\ ev' = Idle
          ELSE /\ ev' = [at |-> "loop", left |-> rowed, recs |-> [f \in rowed |-> Counted(f)], total |-> sum]
               /\ UNCHANGED total
       /\ UNCHANGED <<stored, row, pending, logical, orphans, counts, cells, inflight, job, stuck, faults>>

\* Mutant: the batched access stays and brings the row back.
remove_cache_row_pending(f) ==
    /\ row' = [row EXCEPT ![f] = None]
    /\ logical' = [logical EXCEPT ![f] = None]
    /\ UNCHANGED pending

remove_cache_row(f) ==
    /\ row' = [row EXCEPT ![f] = None]
    /\ pending' = [pending EXCEPT ![f] = None]
    /\ logical' = [logical EXCEPT ![f] = None]

\* Mutant: open files are evicted too.
EvictFile_open(f) ==
    /\ ev.at = "loop" /\ ev.total > Target /\ f \in ev.left
    /\ remove_cache_row(f)
    /\ ev' = [ev EXCEPT !.at = "sub", !.left = @ \ {f}, !.total = Monus(@, ev.recs[f])]
                @@ [held |-> Or(logical[f], ev.recs[f])]
    /\ \/ stored' = [stored EXCEPT ![f] = None] /\ orphans' = orphans \ {f} /\ UNCHANGED faults
       \/ Fault /\ orphans' = orphans \cup {f} /\ UNCHANGED stored
    /\ UNCHANGED <<total, counts, cells, inflight, job, stuck>>

\* The next file: left alone when open, else its row goes, then its data.
EvictFile(f) ==
    /\ ev.at = "loop" /\ ev.total > Target /\ f \in ev.left
    /\ IF counts[f] > 0
       THEN ev' = [ev EXCEPT !.left = @ \ {f}] /\ UNCHANGED <<cache, faults>>
       ELSE /\ remove_cache_row(f)
            /\ ev' = [ev EXCEPT !.at = "sub", !.left = @ \ {f}, !.total = Monus(@, ev.recs[f])]
                        @@ [held |-> Or(logical[f], ev.recs[f])]
            /\ \/ stored' = [stored EXCEPT ![f] = None] /\ orphans' = orphans \ {f} /\ UNCHANGED faults
               \/ Fault /\ orphans' = orphans \cup {f} /\ UNCHANGED stored
            /\ UNCHANGED total
    /\ UNCHANGED <<counts, cells, inflight, job, stuck>>

\* What the file held is taken off the total, after the locks are let go.
sub_logical ==
    /\ ev.at = "sub"
    /\ total' = Monus(total, ev.held)
    /\ ev' = [at |-> "loop", left |-> ev.left, recs |-> ev.recs, total |-> ev.total]
    /\ UNCHANGED <<stored, row, pending, logical, orphans, counts, cells, inflight, job, stuck, faults>>

EvictEnd ==
    /\ ev.at = "loop" /\ (ev.total <= Target \/ ev.left = {})
    /\ ev' = Idle /\ stuck' = (ev.total > Target)
    /\ UNCHANGED <<cache, counts, cells, inflight, job, faults>>

enforce_cache_budget == budget_snapshot \/ sub_logical \/ EvictEnd \/ \E f \in Files : EvictFile(f)

Next ==
    \/ \E t \in Threads : \/ close(t) \/ stored_span(t) \/ source_read(t) \/ fetch_store(t) \/ Answer(t)
                          \/ \E f \in Files : open(t, f)
                          \/ \E b \in Blocks : block(t, b)
    \/ commit_access \/ enforce_cache_budget

Spec == Init /\ [][Next]_vars

(***************************************************************************)
(* Properties                                                              *)
(***************************************************************************)
\* Handles are counted exactly, and a fetch is kept only while someone waits on it.
TypeOK ==
    /\ \A f \in Files : counts[f] = Cardinality({t \in Threads : job[t] # Closed /\ job[t].file = f})
    /\ \A k \in Keys : inflight[k] # None => cells[inflight[k]] # None /\ cells[inflight[k]].key = k

\* The running total is the sum the rows and the access log give, what an eviction has removed and
\* not yet subtracted aside.
TotalExact == total = MapThenSumSet(Counted, Files) + (IF ev.at = "sub" THEN ev.held ELSE 0)

\* No block is counted twice: a file never counts more than the store holds of it.
CountedIsStored == \A f \in Files : Counted(f) <= Cardinality(Holds(f))

\* A store file without a row is one whose delete failed.
RowsFirst == \A f \in Files : stored[f] # None => row[f] # None \/ pending[f] # None \/ f \in orphans

\* Concurrent misses of one unit wait on one fetch: the source is never read twice at once for it.
OneFetch ==
    \A t, u \in Threads : t # u /\ job[t].at \in {"source", "store"} /\ job[u].at \in {"source", "store"}
                          => cells[job[t].cell].key # cells[job[u].cell].key

OpenKeptStep ==
    \A f \in Files : counts[f] > 0 => Holds(f) \subseteq IF stored'[f] = None THEN {} ELSE stored'[f]

\* A file with an open handle keeps its blocks.
OpenKept == [][OpenKeptStep]_vars

===============================================================================
