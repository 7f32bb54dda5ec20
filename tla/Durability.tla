----------------------------- MODULE Durability -----------------------------
(***************************************************************************)
(* aether-storage keeps two stores that commit separately: the block store *)
(* (file data under a GUID) and the catalog (rows: path to GUID and        *)
(* length).  This module models how the two are kept in step: the          *)
(* operations of a layer provider, the durability gate, durable points and *)
(* their policy, the deferred store deletes, crashes, the clean close with *)
(* its token, and reconciliation at open.                                  *)
(*                                                                         *)
(* A file's data is a version number and whether all its blocks are there: *)
(* a commit resizes the file, which leaves a hole, and then writes the     *)
(* blocks.  A row's length is the version it describes.  The volatile      *)
(* state of each store is what its non-durable commits reached, and the    *)
(* durable state is what a crash leaves.                                   *)
(***************************************************************************)
EXTENDS Naturals

CONSTANTS
  Threads,     \* threads calling into the provider, one operation each
  Paths,       \* paths of regular files in the layer
  Scratch,     \* the paths inside a scratch directory
  Guids,       \* file GUIDs; one that is nowhere any more stands for a new one
  None,        \* no row, no store file, no handle
  Tokens,      \* random clean-close tokens
  MaxVer,      \* bound: versions of one file
  Policies,    \* the Durability an open may ask for
  LeavesHandles,     \* BOOLEAN: the provider may be dropped with open handles
  OrphanDeleteFails, \* BOOLEAN: reconciliation's store delete may fail
  IOErrors           \* BOOLEAN: every other store or catalog call may fail

Row  == [guid : Guids, ver : 0..MaxVer]
Data == [ver : 0..MaxVer, whole : BOOLEAN]

ASSUME DurabilityAssumption ==
  /\ Scratch \subseteq Paths
  /\ Policies \subseteq {"OnEveryClose", "Deferred"}
  /\ None \notin Guids \cup Paths \cup Threads \cup Row \cup Data
  /\ MaxVer \in Nat
  /\ Tokens \cap {0, 1} = {}
  /\ {LeavesHandles, OrphanDeleteFails, IOErrors} \subseteq BOOLEAN

VARIABLES
  phase,   \* of the process: closed, store, reconcile, recflush, reccommit, skip, up
  rows,    \* catalog rows, volatile
  drows,   \* catalog rows, durable
  store,   \* block store files, volatile
  dstore,  \* block store files, durable
  doomed,  \* Storage::doomed
  fresh,   \* FreshFiles of the current epoch: a durable point empties it
  dirty,   \* Storage::dirty
  mark,    \* the catalog's clean-close token, 0 for none (always durable)
  token,   \* the block store's shutdown token (always durable)
  policy,  \* Storage::durability of this open, None while closed
  held,    \* the token this open found in the block store
  pc,      \* per thread: where in its operation it is
  hg,      \* per thread: the file its handle has open
  wrote,   \* per thread: OpenFile::wrote of that handle
  file,    \* per thread: the file the running operation is about
  path,    \* per thread: the path a create or put_files is about
  taken,   \* per thread: the doomed files its durable point took
  closer,  \* the thread running Storage::close, or None
  failed,  \* ghost: files whose last commit, or whose repair, failed
  owed     \* ghost: rewritten files whose close reported a failed point

session == <<phase, policy, held, closer>>
disk    == <<drows, dstore, mark, token>>
layer   == <<rows, store, doomed, fresh, dirty>>
threads == <<pc, hg, wrote, file, path, taken>>
ghosts  == <<failed, owed>>
vars    == <<session, disk, layer, threads, ghosts>>

PathOf(g)   == {p \in Paths : rows[p] # None /\ rows[p].guid = g}
RowOf(p, g) == rows[p] # None /\ rows[p].guid = g
Opens(g)    == {t \in Threads : hg[t] = g}
At(label)   == {t \in Threads : pc[t] \in label}

\* A GUID that no store, catalog, list or thread knows: new_guid() returns it.
Unused == {g \in Guids :
             /\ store[g] = None /\ dstore[g] = None
             /\ \A p \in Paths : /\ rows[p] # None => rows[p].guid # g
                                 /\ drows[p] # None => drows[p].guid # g
             /\ g \notin doomed
             /\ \A t \in Threads : g \notin {hg[t], file[t]} \cup taken[t]}

\* The durability gate: who holds it shared and exclusive.  The layer's ns
\* lock and a cell's state lock: who holds them between two steps.
GateShared    == At({"create", "blocks", "row", "putrows"})
GateExclusive == At({"flush", "commit"})
NsFree        == At({"create", "doom"}) = {}
StateFree(g)  == \A t \in At({"blocks", "row"}) : file[t] # g

Init ==
  /\ phase = "up" /\ policy \in Policies /\ held = 0 /\ closer = None
  /\ rows = [p \in Paths |-> None] /\ drows = rows
  /\ store = [g \in Guids |-> None] /\ dstore = store
  /\ doomed = {} /\ fresh = {} /\ dirty = FALSE
  /\ mark = 0 /\ token = 0
  /\ pc = [t \in Threads |-> "idle"]
  /\ hg = [t \in Threads |-> None] /\ wrote = [t \in Threads |-> FALSE]
  /\ file = [t \in Threads |-> None] /\ path = [t \in Threads |-> None]
  /\ taken = [t \in Threads |-> {}]
  /\ failed = {} /\ owed = {}

-----------------------------------------------------------------------------
(* Control of one thread. *)

Goto(t, label) == pc' = [pc EXCEPT ![t] = label]

\* The operation returns: to the open handle, or to none.
Return(t) ==
  /\ Goto(t, IF hg[t] # None THEN "opened" ELSE "idle")
  /\ file' = [file EXCEPT ![t] = None]

Start(t) == phase = "up" /\ closer = None /\ pc[t] = "idle"

-----------------------------------------------------------------------------
(* Opening and creating. *)

\* open of a file that exists: acquire compares the row with the store.
open(t, p) ==
  /\ Start(t) /\ NsFree /\ rows[p] # None
  /\ hg' = [hg EXCEPT ![t] = rows[p].guid]
  /\ wrote' = [wrote EXCEPT ![t] = FALSE]
  /\ Goto(t, "opened")
  /\ LET d == store[rows[p].guid] IN
     dirty' = (dirty \/ (Opens(rows[p].guid) = {}
                         /\ (IF d = None THEN TRUE ELSE d.ver # rows[p].ver)))
  /\ UNCHANGED <<session, disk, rows, store, doomed, fresh,
                 file, path, taken, ghosts>>

\* open with OPEN_CREATE: the row first, then the store file, under the shared
\* gate and ns.
create(t, p) ==
  /\ Start(t) /\ GateExclusive = {} /\ NsFree /\ rows[p] = None
  /\ \E g \in Unused :
       /\ rows' = [rows EXCEPT ![p] = [guid |-> g, ver |-> 0]]
       /\ file' = [file EXCEPT ![t] = g]
  /\ path' = [path EXCEPT ![t] = p]
  /\ Goto(t, "create")
  /\ UNCHANGED <<session, disk, store, doomed, fresh, dirty,
                 hg, wrote, taken, ghosts>>

create_stored(t) ==
  /\ pc[t] = "create"
  /\ store' = [store EXCEPT ![file[t]] = [ver |-> 0, whole |-> TRUE]]
  /\ fresh' = fresh \cup {file[t]}
  /\ hg' = [hg EXCEPT ![t] = file[t]]
  /\ wrote' = [wrote EXCEPT ![t] = TRUE]
  /\ file' = [file EXCEPT ![t] = None]
  /\ path' = [path EXCEPT ![t] = None]
  /\ Goto(t, "opened")
  /\ UNCHANGED <<session, disk, rows, doomed, dirty, taken, ghosts>>

\* The store refuses: the row is rolled back.
create_failed(t) ==
  /\ IOErrors /\ pc[t] = "create"
  /\ rows' = [rows EXCEPT ![path[t]] = None]
  /\ path' = [path EXCEPT ![t] = None]
  /\ Return(t)
  /\ UNCHANGED <<session, disk, store, doomed, fresh, dirty,
                 hg, wrote, taken, ghosts>>

-----------------------------------------------------------------------------
(* Writing: a commit resizes the store file, writes its blocks and updates  *)
(* the row, under one shared hold of the gate.                              *)

commit_resize(t) ==
  /\ phase = "up" /\ closer = None /\ pc[t] = "opened"
  /\ LET g == hg[t] IN
     /\ GateExclusive = {} /\ StateFree(g)
     /\ store[g] # None /\ store[g].ver < MaxVer
     /\ store' = [store EXCEPT ![g] = [ver |-> @.ver + 1, whole |-> FALSE]]
     /\ file' = [file EXCEPT ![t] = g]
  /\ wrote' = [wrote EXCEPT ![t] = TRUE]
  /\ Goto(t, "blocks")
  /\ UNCHANGED <<session, disk, rows, doomed, fresh, dirty,
                 hg, path, taken, ghosts>>

commit_blocks(t) ==
  /\ pc[t] = "blocks"
  /\ store' = [store EXCEPT ![file[t]].whole = TRUE]
  /\ failed' = failed \ {file[t]}
  /\ Goto(t, "row")
  /\ UNCHANGED <<session, disk, rows, doomed, fresh, dirty,
                 hg, wrote, file, path, taken, owed>>

\* A block write fails: what was captured is restored, or that fails too.
\* Either way the session is dirty, and the handle may go on.
commit_failed(t) ==
  /\ IOErrors /\ pc[t] = "blocks"
  /\ \/ /\ store' = [store EXCEPT ![file[t]] =
                       [ver |-> @.ver - 1, whole |-> file[t] \notin failed]]
        /\ UNCHANGED failed
     \/ failed' = failed \cup {file[t]} /\ UNCHANGED store
  /\ dirty' = TRUE
  /\ Goto(t, "failed")
  /\ UNCHANGED <<session, disk, rows, doomed, fresh,
                 hg, wrote, file, path, taken, owed>>

\* Mutant: a commit does not update the row.
update_row_skipped(t) ==
  /\ pc[t] = "row" /\ NsFree
  /\ Return(t)
  /\ UNCHANGED <<session, disk, rows, store, doomed, fresh, dirty,
                 hg, wrote, path, taken, ghosts>>

\* update_row: only if the row is still this file's.
update_row(t) ==
  /\ pc[t] = "row" /\ NsFree
  /\ rows' = [p \in Paths |-> IF RowOf(p, file[t])
                              THEN [rows[p] EXCEPT !.ver = store[file[t]].ver]
                              ELSE rows[p]]
  /\ Return(t)
  /\ UNCHANGED <<session, disk, store, doomed, fresh, dirty,
                 hg, wrote, path, taken, ghosts>>

-----------------------------------------------------------------------------
(* Closing, removing, renaming.                                             *)

\* The last open of a removed file dooms it.
LastOfRemoved(t, g) == Opens(g) = {t} /\ PathOf(g) = {}

release(t) ==
  /\ hg' = [hg EXCEPT ![t] = None]
  /\ wrote' = [wrote EXCEPT ![t] = FALSE]
  /\ doomed' = IF LastOfRemoved(t, hg[t]) THEN doomed \cup {hg[t]} ELSE doomed

close(t) ==
  /\ phase = "up" /\ closer = None /\ pc[t] = "opened" /\ NsFree
  /\ release(t)
  /\ file' = [file EXCEPT ![t] = IF wrote[t] THEN hg[t] ELSE None]
  /\ Goto(t, IF wrote[t] \/ LastOfRemoved(t, hg[t]) THEN "changed" ELSE "idle")
  /\ UNCHANGED <<session, disk, rows, store, fresh, dirty,
                 path, taken, ghosts>>

\* After a failed commit: write_at returns the error and the handle stays, or
\* it was close's commit, which returns the error without a durable point.
commit_error(t) ==
  /\ pc[t] = "failed"
  /\ \/ Return(t) /\ UNCHANGED <<hg, wrote, doomed, owed>>
     \/ /\ NsFree /\ release(t)
        /\ owed' = owed \cup {hg[t]}
        /\ Goto(t, "idle") /\ file' = [file EXCEPT ![t] = None]
  /\ UNCHANGED <<session, disk, rows, store, fresh, dirty,
                 path, taken, failed>>

\* flush of a handle.
flush(t) ==
  /\ phase = "up" /\ closer = None /\ pc[t] = "opened"
  /\ file' = [file EXCEPT ![t] = IF wrote[t] THEN hg[t] ELSE None]
  /\ Goto(t, "changed")
  /\ UNCHANGED <<session, disk, layer, hg, wrote, path, taken,
                 ghosts>>

\* remove, and rename_rows: the catalog's half, under ns.
remove(t, p) ==
  /\ Start(t) /\ NsFree /\ rows[p] # None
  /\ rows' = [rows EXCEPT ![p] = None]
  /\ file' = [file EXCEPT ![t] = rows[p].guid]
  /\ Goto(t, "doom")
  /\ UNCHANGED <<session, disk, store, doomed, fresh, dirty,
                 hg, wrote, path, taken, ghosts>>

rename_rows(t, p, q) ==
  /\ Start(t) /\ NsFree /\ p # q /\ rows[p] # None
  /\ rows' = [rows EXCEPT ![q] = rows[p], ![p] = None]
  /\ file' = [file EXCEPT ![t] = IF rows[q] = None THEN None ELSE rows[q].guid]
  /\ Goto(t, "doom")
  /\ UNCHANGED <<session, disk, store, doomed, fresh, dirty,
                 hg, wrote, path, taken, ghosts>>

\* Mutant: an open file is doomed at once.
Doomed_open(g) == IF g = None THEN {} ELSE {g}

\* doom: the store data of a removed or replaced file goes at a durable point,
\* unless a handle has the file open.
Doomed(g) == IF g = None \/ Opens(g) # {} THEN {} ELSE {g}

\* Mutant: remove and rename return without after_change.
doom_returns(t) ==
  /\ pc[t] = "doom"
  /\ doomed' = doomed \cup Doomed(file[t])
  /\ Return(t)
  /\ UNCHANGED <<session, disk, rows, store, fresh, dirty,
                 hg, wrote, path, taken, ghosts>>

doom(t) ==
  /\ pc[t] = "doom"
  /\ doomed' = doomed \cup Doomed(file[t])
  /\ file' = [file EXCEPT ![t] = None]
  /\ Goto(t, "changed")
  /\ UNCHANGED <<session, disk, rows, store, fresh, dirty,
                 hg, wrote, path, taken, ghosts>>

\* put_files with one file: the data, then the row, under the shared gate.
put_files(t, p) ==
  /\ Start(t) /\ GateExclusive = {}
  /\ \E g \in Unused :
       /\ store' = [store EXCEPT ![g] = [ver |-> 0, whole |-> TRUE]]
       /\ file' = [file EXCEPT ![t] = g]
  /\ path' = [path EXCEPT ![t] = p]
  /\ Goto(t, "putrows")
  /\ UNCHANGED <<session, disk, rows, doomed, fresh, dirty,
                 hg, wrote, taken, ghosts>>

put_rows(t) ==
  /\ pc[t] = "putrows" /\ NsFree
  /\ LET p == path[t] IN
     /\ rows' = [rows EXCEPT ![p] = [guid |-> file[t], ver |-> 0]]
     /\ doomed' = doomed \cup
                    (IF rows[p] = None THEN {} ELSE Doomed(rows[p].guid))
  /\ fresh' = fresh \cup {file[t]}
  /\ file' = [file EXCEPT ![t] = None]
  /\ path' = [path EXCEPT ![t] = None]
  /\ Goto(t, "changed")
  /\ UNCHANGED <<session, disk, store, dirty, hg, wrote, taken,
                 ghosts>>

\* The rows fail: the data is deleted, or left for reconciliation.
put_failed(t) ==
  /\ IOErrors /\ pc[t] = "putrows"
  /\ \/ store' = [store EXCEPT ![file[t]] = None] /\ UNCHANGED dirty
     \/ dirty' = TRUE /\ UNCHANGED store
  /\ path' = [path EXCEPT ![t] = None]
  /\ Return(t)
  /\ UNCHANGED <<session, disk, rows, doomed, fresh, hg, wrote,
                 taken, ghosts>>

-----------------------------------------------------------------------------
(* The policy and the durable point.                                        *)

\* A rewrite in place of a file whose row is durable, outside the scratch
\* directories.
is_scratch(g) == PathOf(g) \cap Scratch # {}
MustSync(t)   == file[t] # None /\ file[t] \notin fresh /\ ~is_scratch(file[t])

\* after_change: whether a deferred point is due is left open.
after_change(t) ==
  /\ pc[t] = "changed"
  /\ \/ Goto(t, "point") /\ UNCHANGED file
     \/ policy # "OnEveryClose" /\ ~MustSync(t) /\ Return(t)
  /\ UNCHANGED <<session, disk, layer, hg, wrote, path, taken,
                 ghosts>>

\* Storage::sync.
sync(t) ==
  /\ Start(t)
  /\ Goto(t, "point")
  /\ UNCHANGED <<session, disk, layer, hg, wrote, file, path,
                 taken, ghosts>>

\* Mutant: the point does not wait for the shared holders of the gate.
point_begin_shared(t) ==
  /\ pc[t] = "point" /\ GateExclusive = {}
  /\ taken' = [taken EXCEPT ![t] = doomed]
  /\ doomed' = {}
  /\ Goto(t, "flush")
  /\ UNCHANGED <<session, disk, rows, store, fresh, dirty,
                 hg, wrote, file, path, ghosts>>

\* Mutant: two points may run at once.
point_begin_any(t) ==
  /\ pc[t] = "point" /\ GateShared = {}
  /\ taken' = [taken EXCEPT ![t] = doomed]
  /\ doomed' = {}
  /\ Goto(t, "flush")
  /\ UNCHANGED <<session, disk, rows, store, fresh, dirty,
                 hg, wrote, file, path, ghosts>>

\* durable_point: takes the exclusive gate and the doomed list.
point_begin(t) ==
  /\ pc[t] = "point" /\ GateShared = {} /\ GateExclusive = {}
  /\ taken' = [taken EXCEPT ![t] = doomed]
  /\ doomed' = {}
  /\ Goto(t, "flush")
  /\ UNCHANGED <<session, disk, rows, store, fresh, dirty,
                 hg, wrote, file, path, ghosts>>

point_flush(t) ==
  /\ pc[t] = "flush"
  /\ dstore' = store
  /\ Goto(t, "commit")
  /\ UNCHANGED <<session, drows, mark, token, layer,
                 hg, wrote, file, path, taken, ghosts>>

\* Mutant: the epoch stays, so published files still count as fresh.
point_commit_keeps(t) ==
  /\ pc[t] = "commit"
  /\ drows' = rows
  /\ owed' = {}
  /\ Goto(t, "delete")
  /\ UNCHANGED <<session, dstore, mark, token, rows, store, doomed,
                 fresh, dirty, hg, wrote, file, path, taken, failed>>

\* commit_durable and DurableClock::reached; the gate is released.
point_commit(t) ==
  /\ pc[t] = "commit"
  /\ drows' = rows
  /\ fresh' = {}
  /\ owed' = {}
  /\ Goto(t, "delete")
  /\ UNCHANGED <<session, dstore, mark, token, rows, store, doomed,
                 dirty, hg, wrote, file, path, taken, failed>>

\* The flush or the commit fails: the list is put back and the error returned.
\* At a close the storage is dropped as it is.
point_failed(t) ==
  /\ IOErrors /\ pc[t] \in {"flush", "commit"} /\ closer = None
  /\ doomed' = doomed \cup taken[t]
  /\ taken' = [taken EXCEPT ![t] = {}]
  /\ owed' = owed \cup ({file[t]} \ {None})
  /\ Return(t)
  /\ UNCHANGED <<session, disk, rows, store, fresh, dirty,
                 hg, wrote, path, failed>>

\* The store deletes, outside the gate: one file, which may fail.
point_delete(t, g) ==
  /\ pc[t] = "delete" /\ g \in taken[t]
  /\ taken' = [taken EXCEPT ![t] = @ \ {g}]
  /\ \/ store' = [store EXCEPT ![g] = None] /\ UNCHANGED dirty
     \/ IOErrors /\ dirty' = TRUE /\ UNCHANGED store
  /\ UNCHANGED <<session, disk, rows, doomed, fresh,
                 pc, hg, wrote, file, path, ghosts>>

point_end(t) ==
  /\ pc[t] = "delete" /\ taken[t] = {}
  /\ IF closer = t
       THEN Goto(t, "shutdown") /\ UNCHANGED file
       ELSE Return(t)
  /\ UNCHANGED <<session, disk, layer, hg, wrote, path, taken,
                 ghosts>>

\* The block store's own auto-flush and compaction commits, at any time.
auto_flush ==
  /\ phase = "up" /\ dstore # store
  /\ dstore' = store
  /\ UNCHANGED <<session, drows, mark, token, layer, threads,
                 ghosts>>

-----------------------------------------------------------------------------
(* Closing, crashing and opening the storage.                               *)

\* Everything the process held goes; the durable states are what is left.
Gone ==
  /\ phase' = "closed" /\ policy' = None /\ held' = 0 /\ closer' = None
  /\ rows' = drows' /\ store' = dstore'
  /\ doomed' = {} /\ fresh' = {} /\ dirty' = FALSE
  /\ pc' = [t \in Threads |-> "idle"]
  /\ hg' = [t \in Threads |-> None] /\ wrote' = [t \in Threads |-> FALSE]
  /\ file' = [t \in Threads |-> None] /\ path' = [t \in Threads |-> None]
  /\ taken' = [t \in Threads |-> {}]

\* Storage::close, after the providers' drops, whose handles left open are
\* committed but not released.
close_begin(t) ==
  /\ Start(t)
  /\ \A u \in Threads : pc[u] \in {"idle", "opened"}
  /\ LeavesHandles \/ \A u \in Threads : hg[u] = None
  /\ closer' = t
  /\ Goto(t, "point")
  /\ UNCHANGED <<phase, policy, held, disk, layer, hg, wrote, file, path, taken, ghosts>>

\* Mutant: a dirty session leaves the mark too.
close_shutdown_dirty(t) ==
  /\ pc[t] = "shutdown"
  /\ dstore' = store
  /\ \E k \in Tokens \ {mark, token} : token' = k
  /\ Goto(t, "mark")
  /\ UNCHANGED <<session, drows, mark, layer,
                 hg, wrote, file, path, taken, ghosts>>

\* close_cleanly: the store's shutdown, with a fresh token unless dirty.
close_shutdown(t) ==
  /\ pc[t] = "shutdown"
  /\ dstore' = store
  /\ IF dirty
       THEN token' = 1 /\ UNCHANGED <<drows, mark, ghosts>> /\ Gone
       ELSE /\ \E k \in Tokens \ {mark, token} : token' = k
            /\ Goto(t, "mark")
            /\ UNCHANGED <<session, drows, mark, layer,
                           hg, wrote, file, path, taken, ghosts>>

\* mark_clean_close.
close_mark(t) ==
  /\ pc[t] = "mark"
  /\ mark' = token
  /\ drows' = rows
  /\ UNCHANGED <<dstore, token, ghosts>>
  /\ Gone

crash ==
  /\ phase # "closed"
  /\ UNCHANGED <<disk, ghosts>>
  /\ Gone

\* BlockStore::open: reports the token of the last shutdown and overwrites it.
open_store ==
  /\ phase = "closed"
  /\ policy' \in Policies
  /\ held' = token /\ token' = 0
  /\ phase' = "store"
  /\ UNCHANGED <<closer, drows, dstore, mark, layer, threads, ghosts>>

\* take_clean_close, and the decision to skip reconciliation.
take_clean_close ==
  /\ phase = "store"
  /\ mark' = 0 /\ held' = 0
  /\ phase' = IF mark # 0 /\ mark = held THEN "skip" ELSE "reconcile"
  /\ UNCHANGED <<policy, closer, drows, dstore, token, layer, threads, ghosts>>

open_skip ==
  /\ phase = "skip"
  /\ phase' = "up"
  /\ failed' = {} /\ owed' = {}
  /\ UNCHANGED <<policy, held, closer, disk, layer, threads>>

\* reconcile: a row without data gets an empty file, a hole is filled and the
\* row takes the store's length.  A corrupt file, or one whose repair fails,
\* stays as it is and makes the session dirty.  A store file no row names is
\* deleted; if that fails it is kept.
Damaged(p) == /\ rows[p] # None
              /\ store[rows[p].guid] # [ver |-> rows[p].ver, whole |-> TRUE]
MayStay(p) == IOErrors \/ (store[rows[p].guid] # None /\ ~store[rows[p].guid].whole)
Orphans    == {g \in Guids : store[g] # None /\ PathOf(g) = {}}

reconcile ==
  /\ phase = "reconcile"
  /\ \E bad \in SUBSET {p \in Paths : Damaged(p) /\ MayStay(p)},
        kept \in IF OrphanDeleteFails THEN SUBSET Orphans ELSE {{}} :
       /\ store' = [g \in Guids |->
            IF g \in Orphans \ kept THEN None
            ELSE IF PathOf(g) \ bad = {} THEN store[g]
            ELSE IF store[g] = None THEN [ver |-> 0, whole |-> TRUE]
            ELSE [store[g] EXCEPT !.whole = TRUE]]
       /\ rows' = [p \in Paths |->
            IF rows[p] = None \/ p \in bad THEN rows[p]
            ELSE [rows[p] EXCEPT !.ver = store'[rows[p].guid].ver]]
       /\ dirty' = (bad # {})
       /\ failed' = {rows[p].guid : p \in bad}
  /\ owed' = {}
  /\ phase' = "recflush"
  /\ UNCHANGED <<policy, held, closer, disk, doomed, fresh, threads>>

\* Its end: the store's half, then the catalog's.
reconcile_flush ==
  /\ phase = "recflush"
  /\ dstore' = store
  /\ phase' = "reccommit"
  /\ UNCHANGED <<policy, held, closer, drows, mark, token, layer, threads, ghosts>>

reconcile_commit ==
  /\ phase = "reccommit"
  /\ drows' = rows
  /\ phase' = "up"
  /\ UNCHANGED <<policy, held, closer, dstore, mark, token, layer, threads, ghosts>>

-----------------------------------------------------------------------------

Provider(t) ==
  \/ \E p \in Paths : open(t, p) \/ create(t, p) \/ remove(t, p) \/ put_files(t, p)
  \/ \E p, q \in Paths : rename_rows(t, p, q)
  \/ create_stored(t) \/ create_failed(t)
  \/ commit_resize(t) \/ commit_blocks(t) \/ commit_failed(t) \/ update_row(t)
  \/ close(t) \/ commit_error(t) \/ flush(t) \/ doom(t)
  \/ put_rows(t) \/ put_failed(t)

Point(t) ==
  \/ after_change(t) \/ sync(t)
  \/ point_begin(t) \/ point_flush(t) \/ point_commit(t) \/ point_failed(t)
  \/ \E g \in Guids : point_delete(t, g)
  \/ point_end(t)

Process ==
  \/ \E t \in Threads : close_begin(t) \/ close_shutdown(t) \/ close_mark(t)
  \/ auto_flush \/ crash
  \/ open_store \/ take_clean_close \/ open_skip
  \/ reconcile \/ reconcile_flush \/ reconcile_commit

Next == Process \/ \E t \in Threads : Provider(t) \/ Point(t)

Spec == Init /\ [][Next]_vars

-----------------------------------------------------------------------------
(* Properties.                                                              *)

\* Every variable stays in its range; the exclusive gate has one holder and
\* excludes the shared ones, and ns and each cell's state have one holder.
TypeOK ==
  /\ phase \in {"closed", "store", "reconcile", "recflush", "reccommit",
                "skip", "up"}
  /\ rows \in [Paths -> Row \cup {None}] /\ drows \in [Paths -> Row \cup {None}]
  /\ store \in [Guids -> Data \cup {None}] /\ dstore \in [Guids -> Data \cup {None}]
  /\ doomed \subseteq Guids /\ fresh \subseteq Guids /\ dirty \in BOOLEAN
  /\ policy \in Policies \cup {None}
  /\ {mark, token, held} \subseteq {0, 1} \cup Tokens
  /\ pc \in [Threads -> {"idle", "opened", "create", "blocks", "row", "failed",
                         "doom", "putrows", "changed", "point", "flush",
                         "commit", "delete", "shutdown", "mark"}]
  /\ hg \in [Threads -> Guids \cup {None}] /\ wrote \in [Threads -> BOOLEAN]
  /\ file \in [Threads -> Guids \cup {None}]
  /\ path \in [Threads -> Paths \cup {None}]
  /\ taken \in [Threads -> SUBSET Guids]
  /\ closer \in Threads \cup {None}
  /\ failed \subseteq Guids /\ owed \subseteq Guids
  /\ \A t, u \in GateExclusive : t = u
  /\ GateExclusive # {} => GateShared = {}
  /\ \A t, u \in At({"create", "doom"}) : t = u

\* Every durable catalog row references durable store data: whatever step a
\* crash follows, no file of the last durable point is found without its data
\* (durable_point's order of flush, commit and deletes, and the gate).
RowsHaveData ==
  \A p \in Paths : drows[p] # None => dstore[drows[p].guid] # None

\* The store data of a file that a handle has open is never deleted, removed
\* or replaced as the file may be (doom, release and durable_point).
OpenFilesStay ==
  \A t \in Threads : hg[t] # None => store[hg[t]] # None

\* At every moment a crash would bring each file back exactly as its row of
\* the last durable point describes it.  Only a file that a handle is still
\* rewriting, or whose last close or commit reported an error, may differ
\* (after_change's rewrite-in-place rule, the fresh files and the gate).
CrashSafe ==
  phase = "up" =>
    \A p \in Paths \ Scratch :
      LET g == drows[p].guid IN
      \/ drows[p] = None
      \/ g \in failed \cup owed
      \/ \E t \in Threads : g = file[t] \/ (g = hg[t] /\ wrote[t])
      \/ dstore[g] = [ver |-> drows[p].ver, whole |-> TRUE]

\* Under OnEveryClose a crash loses only the writes of handles still open:
\* while no operation runs and no handle is open, both durable states are the
\* volatile ones, for every file a row names (changed, after every operation).
EveryCloseDurable ==
  (/\ phase = "up" /\ policy = "OnEveryClose"
   /\ \A t \in Threads : pc[t] = "idle") =>
    /\ drows = rows
    /\ \A p \in Paths : rows[p] # None => dstore[rows[p].guid] = store[rows[p].guid]

\* An open that skips reconciliation finds nothing to repair: every row has
\* its whole data at the row's length, and every store file has a row
\* (close_cleanly's order, needs_reconcile and the two tokens).
CleanSkip ==
  phase = "skip" => Orphans = {} /\ \A p \in Paths : ~Damaged(p)
=============================================================================
