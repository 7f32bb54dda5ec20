------------------------------ MODULE LayerData ------------------------------
(***************************************************************************)
(* A layer: the blocks of an open file, and the rows of its tree. Each     *)
(* section is a state machine of its own; they share no state.             *)
(***************************************************************************)
EXTENDS Integers, Sequences, FiniteSets, TLC, Functions, FiniteSetsExt, SequencesExt

CONSTANTS
    \* file
    BS,   \* block_size
    MaxLen,   \* bound: length of the file
    RUN_BLOCKS, MAX_CAPTURE_BLOCKS,
    Readers,   \* threads that only read
    MaxDirty,   \* dirty blocks a write leaves uncommitted (4 in the code)
    FlushFails,   \* whether the auto-flush after a resize can fail
    \* tree
    Names,   \* names as spelled, tuples of bytes without Slash
    FoldName,   \* their folded spelling
    Paths,   \* the paths callers use: tuples of names
    Batches,   \* the put_files calls: tuples of paths
    Threads, MaxGuid, MaxFaults,
    MaxOpens,   \* bound on the handles of one file
    MaxOps,   \* bound on opens, mkdirs, removes, renames and batches
    None

VARIABLES
    \* file
    len, committed_len, valid_len, dirty,   \* FileState
    store,   \* the block store: [len, blk], a block is None when it is missing
    ram,   \* this file's blocks in the RAM tier
    locked,   \* the state lock is held on for the commit that ends the call
    reading,   \* each reader: None or the block it has read and will fill the tier with
    ref,   \* the file's bytes as handles must see them
    \* tree
    rows,   \* ENTRIES: key -> [name, kind, guid]
    cells,   \* guid -> [path, opens]
    doomed,   \* guids whose rows are gone and that no handle has open
    stored,   \* guids the block store holds
    batch,   \* thread -> the put_files under way, None or [paths, guids]
    guids,   \* guids handed out
    faults, ops,
    listing   \* the last readdir: [dir, names]

(***************************************************************************)
(* One layer file of aether-storage (layer_io.rs): the buffer of dirty     *)
(* blocks, the lengths it keeps beside the block store's, the order in     *)
(* which a commit writes and resizes so that a failure leaves no hole, and *)
(* the RAM tier that reads fill and commits replace.  Bytes and lengths    *)
(* are modelled one by one over tiny blocks: the hazards are boundaries.   *)
(***************************************************************************)
Blocks == 0 .. (MaxLen - 1) \div BS
Bytes == {0, 1}

state == <<len, committed_len, valid_len, dirty>>
fileVars == <<len, committed_len, valid_len, dirty, store, ram, locked, reading, ref>>

Padded(s, n) == [i \in 1 .. n |-> IF i <= Len(s) THEN s[i] ELSE 0]
ByteOf(s, i) == IF i < Len(s) THEN s[i + 1] ELSE 0

block_len(n, b) == Min({n - b * BS, BS})
block_count(n) == (n + BS - 1) \div BS
NoRam == [b \in Blocks |-> None]

FileInit ==
    /\ len = 0 /\ committed_len = 0 /\ valid_len = 0 /\ dirty = <<>>
    /\ store = [len |-> 0, blk |-> [b \in Blocks |-> None]]
    /\ ram = NoRam
    /\ locked = FALSE
    /\ reading = [r \in Readers |-> None]
    /\ ref = <<>>

\* Mutant: bytes a shrink cut, when the length has come back, are not a reason to commit.
is_dirty_len == DOMAIN dirty # {} \/ len # committed_len

is_dirty == DOMAIN dirty # {} \/ len # committed_len \/ valid_len < committed_len
committed_valid == Min({committed_len, valid_len})
\* The state lock, exclusive: no read is under way.
Exclusive == ~locked /\ \A r \in Readers : reading[r] = None

(***************************************************************************)
(* Reading                                                                 *)
(***************************************************************************)
\* A committed block, from the RAM tier or the store; None is ST_IO_ERROR.
committed_block(st, b) == IF ram[b] # None THEN ram[b] ELSE st.blk[b]

\* The byte a read returns for position `p` below the length.
ReadByte(p) ==
    LET b == p \div BS
        c == committed_block(store, b)
    IN IF b \in DOMAIN dirty THEN ByteOf(dirty[b], p % BS)
       ELSE IF b * BS >= committed_valid THEN 0
       ELSE IF c = None THEN None
       ELSE IF p % BS < Min({committed_valid - b * BS, Len(c)}) THEN ByteOf(c, p % BS) ELSE 0

\* A reader misses the RAM tier and reads the store ...
ReadStore(r, b) ==
    /\ ~locked /\ reading[r] = None
    /\ b \notin DOMAIN dirty /\ b * BS < committed_valid /\ ram[b] = None /\ store.blk[b] # None
    /\ reading' = [reading EXCEPT ![r] = [block |-> b, data |-> store.blk[b]]]
    /\ UNCHANGED <<state, store, ram, locked, ref>>

\* ... then fills the tier, which keeps a block another reader put there meanwhile.
fill(r) ==
    /\ reading[r] # None
    /\ ram' = [ram EXCEPT ![reading[r].block] = IF @ = None THEN reading[r].data ELSE @]
    /\ reading' = [reading EXCEPT ![r] = None]
    /\ UNCHANGED <<state, store, locked, ref>>

\* Other files push a block out of the tier.
RamEvicts(b) ==
    /\ ram[b] # None /\ ram' = [ram EXCEPT ![b] = None]
    /\ UNCHANGED <<state, store, locked, reading, ref>>

(***************************************************************************)
(* Changing the buffer                                                     *)
(***************************************************************************)
\* The dirty buffer with block `b` loaded.
make_dirty(d, b) ==
    LET c == committed_block(store, b)
    IN IF b \in DOMAIN d THEN d
       ELSE (b :> IF b * BS < committed_valid
                  THEN SubSeq(c, 1, Min({committed_valid - b * BS, Len(c)}))
                  ELSE <<>>) @@ d

Loadable(b) == b \in DOMAIN dirty \/ b * BS >= committed_valid \/ committed_block(store, b) # None

write(offset, n, v) ==
    LET end == offset + n
        touched == {b \in Blocks : b * BS < end /\ (b + 1) * BS > offset}
        loaded(b) == make_dirty(dirty, b)[b]
        patched(b) == LET to == Min({end - b * BS, BS})
                      IN [i \in 1 .. Max({to, Len(loaded(b))}) |->
                            LET p == b * BS + i - 1
                            IN IF p >= offset /\ p < end THEN v ELSE ByteOf(loaded(b), i - 1)]
    IN /\ Exclusive /\ end <= MaxLen /\ \A b \in touched : Loadable(b)
       /\ dirty' = [b \in touched |-> patched(b)] @@ dirty
       /\ len' = Max({len, end})
       /\ ref' = [i \in 1 .. Max({len, end}) |-> IF i > offset /\ i <= end THEN v ELSE ByteOf(ref, i - 1)]
       /\ locked' = (Cardinality(DOMAIN dirty') > MaxDirty)
       /\ UNCHANGED <<committed_len, valid_len, store, ram, reading>>

\* Mutant: the dirty blocks past the new end stay.
truncate_keeps(n) ==
    /\ valid_len' = Min({valid_len, n}) /\ len' = n
    /\ ref' = Padded(SubSeq(ref, 1, Min({n, Len(ref)})), n)
    /\ UNCHANGED dirty

\* Mutant: what the shrink cut off is not remembered.
truncate_valid(n) ==
    /\ dirty' = Restrict(dirty, {b \in DOMAIN dirty : b < block_count(n)})
    /\ len' = n
    /\ ref' = Padded(SubSeq(ref, 1, Min({n, Len(ref)})), n)
    /\ UNCHANGED valid_len

\* The state after a truncate; a shrink cuts the dirty blocks and holds the new tail block dirty.
truncate(n) ==
    LET tail == n \div BS
        kept == Restrict(dirty, {b \in DOMAIN dirty : b < block_count(n)})
        cuts == n < len /\ n % BS # 0 /\ (tail \in DOMAIN kept \/ tail * BS < committed_valid)
        held == make_dirty(kept, tail)
    IN /\ cuts => Loadable(tail)
       /\ dirty' = IF n >= len THEN dirty
                   ELSE IF cuts THEN [held EXCEPT ![tail] = SubSeq(@, 1, Min({n % BS, Len(@)}))]
                   ELSE kept
       /\ valid_len' = Min({valid_len, n})
       /\ len' = n
       /\ ref' = Padded(SubSeq(ref, 1, Min({n, Len(ref)})), n)

\* A resize, by set_len or a truncating open, commits before it lets go of the lock.
resize(n) ==
    /\ Exclusive /\ truncate(n) /\ locked' = TRUE
    /\ UNCHANGED <<committed_len, store, ram, reading>>

(***************************************************************************)
(* Committing                                                              *)
(***************************************************************************)
\* The store keeps the blocks whose length the new length does not change.
set_len(st, n) ==
    [len |-> n,
     blk |-> [b \in Blocks |->
                IF b * BS < Min({n, st.len}) /\ block_len(n, b) = block_len(st.len, b)
                THEN st.blk[b] ELSE None]]

write_blocks(st, bs, n, src) ==
    [st EXCEPT !.blk = [b \in Blocks |->
        IF b \in bs THEN Padded(IF b \in DOMAIN src THEN src[b] ELSE <<>>, block_len(n, b)) ELSE @[b]]]

\* Blocks go out in runs of consecutive ones; any prefix of the runs may be all that is written
\* before an error, the whole of them included (an auto-flush after the last one fails).
Starts(bs) ==
    {b \in bs : LET first == Min({c \in bs : c .. b \subseteq bs}) IN (b - first) % RUN_BLOCKS = 0}
RunOf(bs, b) == Cardinality({c \in Starts(bs) : c <= b})
write_runs(st, bs, n, src) ==
    {[st |-> write_blocks(st, bs, n, src), ok |-> TRUE]} \cup
    {[st |-> write_blocks(st, {b \in bs : RunOf(bs, b) <= k}, n, src), ok |-> FALSE] :
        k \in IF bs = {} THEN {} ELSE 0 .. Cardinality(Starts(bs))}

\* What a `set_len` that returns an error leaves: nothing changed, or only its auto-flush failed.
SetLenFailed(st, n) == {st} \cup IF FlushFails THEN {set_len(st, n)} ELSE {}

Outcome(st, d, clen, ok) == [store |-> st, dirty |-> d, clen |-> clen, ok |-> ok]

\* Mutant: only the length is put back.
Restore_length(st, cur, captured, d) == {Outcome(set_len(st, cur), d, cur, FALSE)}

\* Step 4 (it is taken to work): the store is resized back to `cur` and the captured blocks are rewritten.
Restore(st, cur, captured, d) ==
    {Outcome(w.st, d, cur, FALSE) :
        w \in {x \in write_runs(set_len(st, cur), DOMAIN captured, cur, captured) : x.ok}}

\* Steps 2 and 3 from `st`, once the blocks below the resized region are written.
ResizeAndWrite(st, d, gap, new) ==
    LET above == block_count(new) * BS
        early == gap # {} /\ new < committed_len /\ above < committed_len
                 /\ block_count(committed_len) - new \div BS > MAX_CAPTURE_BLOCKS
        cur == IF early THEN above ELSE committed_len
        from == IF early THEN set_len(st, above) ELSE st
        dropped == IF gap = {} THEN {}
                   ELSE IF new > cur THEN IF cur % BS = 0 THEN {} ELSE {cur \div BS}
                   ELSE (new \div BS) .. (block_count(cur) - 1)
        captured == [b \in {c \in dropped : committed_block(from, c) # None} |-> committed_block(from, b)]
        written == write_runs(set_len(from, new), gap, new, d)
    IN (IF early THEN {Outcome(f, d, committed_len, FALSE) : f \in SetLenFailed(st, above)} ELSE {})
       \cup {Outcome(f, d, cur, FALSE) : f \in SetLenFailed(from, new)}
       \cup {Outcome(w.st, d, new, TRUE) : w \in {x \in written : x.ok}}
       \cup UNION {Restore(w.st, cur, captured, d) : w \in {x \in written : ~x.ok}}

\* Every outcome of the store writes of a commit, a failure at each step included.
commit_blocks ==
    LET new == len
        cut == Min({committed_valid, new})
        rewrite == new # committed_len \/ committed_valid < committed_len
        capture == rewrite /\ cut % BS # 0 /\ (cut \div BS) * BS < committed_valid
        loaded == IF capture THEN make_dirty(dirty, cut \div BS) ELSE dirty
        d == Restrict(loaded, {b \in DOMAIN loaded : b < block_count(new)})
        gap == (cut \div BS) .. (block_count(new) - 1)
        below == {b \in DOMAIN d : b < cut \div BS}
        Plain(runs) == {Outcome(w.st, d, committed_len, w.ok) : w \in runs}
        first == write_runs(store, below, new, d)
    IN IF capture /\ ~Loadable(cut \div BS) THEN {Outcome(store, dirty, committed_len, FALSE)}
       ELSE IF ~rewrite THEN Plain(write_runs(store, DOMAIN d, new, d))
       ELSE Plain({w \in first : ~w.ok})
            \cup UNION {IF new = committed_len THEN Plain(write_runs(w.st, gap, new, d))
                        ELSE ResizeAndWrite(w.st, d, gap, new) : w \in {x \in first : x.ok}}

\* Mutant: the commit does not wait for reads under way.
commit_shared ==
    /\ locked \/ ~locked
    /\ locked' = FALSE
    /\ IF ~is_dirty THEN UNCHANGED <<committed_len, valid_len, dirty, store, ram>>
       ELSE \E o \in commit_blocks :
           /\ store' = o.store
           /\ committed_len' = IF o.ok THEN len ELSE o.clen
           /\ valid_len' = IF o.ok THEN len ELSE valid_len
           /\ dirty' = IF o.ok THEN <<>> ELSE o.dirty
           /\ ram' = [b \in Blocks |->
                        IF o.ok /\ b \in DOMAIN o.dirty THEN Padded(o.dirty[b], block_len(len, b)) ELSE None]
    /\ UNCHANGED <<len, reading, ref>>

\* A commit, by a call that holds the lock on for it or by a flush or close.  The whole file leaves
\* the RAM tier; a commit that succeeded puts back what it wrote.
commit ==
    /\ locked \/ Exclusive
    /\ locked' = FALSE
    /\ IF ~is_dirty THEN UNCHANGED <<committed_len, valid_len, dirty, store, ram>>
       ELSE \E o \in commit_blocks :
           /\ store' = o.store
           /\ committed_len' = IF o.ok THEN len ELSE o.clen
           /\ valid_len' = IF o.ok THEN len ELSE valid_len
           /\ dirty' = IF o.ok THEN <<>> ELSE o.dirty
           /\ ram' = [b \in Blocks |->
                        IF o.ok /\ b \in DOMAIN o.dirty THEN Padded(o.dirty[b], block_len(len, b)) ELSE None]
    /\ UNCHANGED <<len, reading, ref>>

FileNext ==
    \/ \E r \in Readers : fill(r) \/ \E b \in Blocks : ReadStore(r, b)
    \/ \E b \in Blocks : RamEvicts(b)
    \/ \E o \in 0 .. MaxLen - 1, n \in 1 .. 2, v \in Bytes : write(o, n, v)
    \/ \E n \in 0 .. MaxLen : resize(n)
    \/ commit

FileSpec == FileInit /\ [][FileNext]_fileVars

(***************************************************************************)
(* Properties                                                              *)
(***************************************************************************)
\* Dirty blocks lie below the length and hold at most a block.
FileTypeOK ==
    /\ len \in 0 .. MaxLen /\ Len(ref) = len
    /\ \A b \in DOMAIN dirty : b \in Blocks /\ Len(dirty[b]) <= BS /\ b * BS < len

\* Every read returns the bytes written last, zeros where nothing was, and never bytes a shrink cut
\* off, whatever commits failed in between.
ReadsAreFile == \A p \in 0 .. len - 1 : ReadByte(p) = ref[p + 1]

\* No failure of a commit leaves the store with a missing block below its length, and the length
\* remembered is the one the store holds.
NoHoles ==
    /\ committed_len = store.len
    /\ \A b \in Blocks : b * BS < store.len => store.blk[b] # None /\ Len(store.blk[b]) = block_len(store.len, b)

\* The RAM tier never holds a block other than the store's: no read puts back what it read before a
\* commit.
RamIsStore == \A b \in Blocks : ram[b] # None => ram[b] = store.blk[b]

\* A file with nothing left to commit is in the store byte for byte.
CommittedIsFile ==
    ~is_dirty => store.len = len /\ \A p \in 0 .. len - 1 : store.blk[p \div BS][(p % BS) + 1] = ref[p + 1]

(***************************************************************************)
(* A layer's namespace: the catalog's rows, keyed by folded path in byte    *)
(* order, and the provider operations that read and change them under the   *)
(* layer's `ns` lock.  A name is the tuple of its bytes and a key joins     *)
(* folded names with Slash, because children and has_children work on the   *)
(* order of the keys.  File data is a guid in `stored`; opens and removed   *)
(* files are in `cells` and `doomed`.                                       *)
(***************************************************************************)
treeVars == <<rows, cells, doomed, stored, batch, guids, faults, ops, listing>>

Slash == 47

Key(p) ==
  IF p = <<>> THEN <<>>
  ELSE FoldName[p[1]] \o FlattenSeq([i \in 1..(Len(p) - 1) |-> <<Slash>> \o FoldName[p[i + 1]]])

dir_prefix(k) == IF k = <<>> THEN <<>> ELSE k \o <<Slash>>

Less(s, t) ==
  \/ Len(s) < Len(t) /\ IsPrefix(s, t)
  \/ \E i \in DOMAIN s : /\ i <= Len(t) /\ s[i] < t[i]
                         /\ SubSeq(s, 1, i - 1) = SubSeq(t, 1, i - 1)

(* redb's range: the keys from k on, in order.                              *)
Sorted(S) == [i \in 1..Cardinality(S) |-> CHOOSE x \in S : Cardinality({y \in S : Less(y, x)}) = i - 1]

Range_(R, k) == Sorted({x \in DOMAIN R : x = k \/ Less(k, x)})

Drop(R, K) == [k \in DOMAIN R \ K |-> R[k]]
Put(R, k, rec) == [x \in DOMAIN R \cup {k} |-> IF x = k THEN rec ELSE R[x]]
Dir(name) == [name |-> name, kind |-> "dir", guid |-> 0]
File(name, g) == [name |-> name, kind |-> "file", guid |-> g]

(* Whether a row exists under k/: one probe past the prefix.                *)
has_children(R, k) ==
  LET r == SelectSeq(Range_(R, dir_prefix(k)), LAMBDA x : x # dir_prefix(k))
  IN r # <<>> /\ IsPrefix(dir_prefix(k), r[1])

subtree(R, k) == {x \in DOMAIN R : x = k \/ IsPrefix(dir_prefix(k), x)}

(* Catalog::create_layer: a layer starts with its root row.                 *)
TreeInit ==
  /\ rows = (<<>> :> Dir(<<>>))
  /\ cells = <<>> /\ doomed = {} /\ stored = {} /\ guids = 0 /\ faults = 0 /\ ops = 0
  /\ batch = [t \in Threads |-> None]
  /\ listing = None

Tick == ops < MaxOps /\ ops' = ops + 1

remove_row_any(R, k) ==
  IF k = <<>> \/ k \notin DOMAIN R THEN R ELSE Drop(R, {k})

(* Catalog::remove: a file or an empty directory.                           *)
remove_row(R, k) ==
  IF k = <<>> \/ k \notin DOMAIN R \/ has_children(R, k) THEN R ELSE Drop(R, {k})

(* The missing parent directories of p, outermost first, in the caller's    *)
(* spelling; `ok` is FALSE, and nothing stays, when one is a file.          *)
ensure_parents(R, p) ==
  LET up == [i \in 1..(Len(p) - 1) |-> SubSeq(p, 1, i)]
      bad == \E i \in DOMAIN up : Key(up[i]) \in DOMAIN R /\ R[Key(up[i])].kind # "dir"
      missing == SelectSeq(up, LAMBDA q : Key(q) \notin DOMAIN R)
  IN IF bad THEN [ok |-> FALSE, rows |-> R, made |-> <<>>]
     ELSE [ok |-> TRUE, made |-> missing,
           rows |-> FoldLeft(LAMBDA S, q : Put(S, Key(q), Dir(Last(q))), R, missing)]

rollback(R, made) ==
  FoldLeft(LAMBDA S, q : remove_row(S, Key(q)), R, Reverse(made))

Opens(g) == IF g \in DOMAIN cells THEN cells[g].opens ELSE 0

(* acquire and release of a file's cell.                                    *)
acquire(C, g, k) ==
  [x \in DOMAIN C \cup {g} |->
     IF x # g THEN C[x]
     ELSE [path |-> IF g \in DOMAIN C THEN C[g].path ELSE k, opens |-> 1 + (IF g \in DOMAIN C THEN C[g].opens ELSE 0)]]

(* doom: a row of g is gone.  An open file is doomed by its last release.   *)
doom(C, D, G) ==
  [cells |-> [x \in DOMAIN C |-> IF x \in G THEN [C[x] EXCEPT !.path = None] ELSE C[x]],
   doomed |-> D \cup {g \in G : g \notin DOMAIN C}]

(* Provider::open: a file is acquired; a missing one is created with its    *)
(* parents, its row before its store file, all undone when the store fails. *)
open(p, create) ==
  LET k == Key(p) IN
  /\ p # <<>>
  /\ IF k \in DOMAIN rows
     THEN /\ rows[k].kind = "file" /\ Opens(rows[k].guid) < MaxOpens
          /\ cells' = acquire(cells, rows[k].guid, k)
          /\ UNCHANGED <<rows, stored, guids, faults>>
     ELSE /\ create /\ guids < MaxGuid
          /\ LET up == ensure_parents(rows, p) IN
             /\ up.ok
             /\ guids' = guids + 1
             /\ \/ /\ rows' = Put(up.rows, k, File(Last(p), guids + 1))
                   /\ stored' = stored \cup {guids + 1}
                   /\ cells' = acquire(cells, guids + 1, k)
                   /\ UNCHANGED faults
                \/ /\ faults < MaxFaults /\ faults' = faults + 1
                   /\ rows' = rollback(remove_row(Put(up.rows, k, File(Last(p), guids + 1)), k), up.made)
                   /\ UNCHANGED <<stored, cells>>
  /\ Tick
  /\ UNCHANGED <<doomed, batch, listing>>

(* close: the last release of a file whose row is gone dooms it.            *)
close(g) ==
  /\ g \in DOMAIN cells
  /\ IF cells[g].opens > 1
     THEN cells' = [cells EXCEPT ![g].opens = @ - 1] /\ UNCHANGED doomed
     ELSE /\ cells' = Drop(cells, {g})
          /\ doomed' = IF cells[g].path = None THEN doomed \cup {g} ELSE doomed
  /\ UNCHANGED <<rows, stored, batch, guids, faults, listing, ops>>

mkdir(p) ==
  /\ p # <<>> /\ Key(p) \notin DOMAIN rows
  /\ LET up == ensure_parents(rows, p)
     IN up.ok /\ rows' = Put(up.rows, Key(p), Dir(Last(p)))
  /\ Tick
  /\ UNCHANGED <<cells, doomed, stored, batch, guids, faults, listing>>

remove(p) ==
  LET k == Key(p) IN
  /\ p # <<>> /\ k \in DOMAIN rows
  /\ rows' = remove_row(rows, k) /\ rows' # rows
  /\ LET d == doom(cells, doomed, IF rows[k].kind = "file" THEN {rows[k].guid} ELSE {})
     IN cells' = d.cells /\ doomed' = d.doomed
  /\ Tick
  /\ UNCHANGED <<stored, batch, guids, faults, listing>>

(* Catalog::rename: the row and every row under it, in one transaction; a   *)
(* file or empty directory in the way is replaced.                          *)
rename_catalog(R, f, t, name) ==
  IF f = t THEN [ok |-> TRUE, rows |-> [R EXCEPT ![f].name = name], replaced |-> {}]
  ELSE IF has_children(R, t) THEN [ok |-> FALSE, rows |-> R, replaced |-> {}]
  ELSE LET moved == subtree(R, f)
           base == Drop(R, moved \cup {t})
           to(k) == t \o SubSeq(k, Len(f) + 1, Len(k))
           new == {to(k) : k \in moved}
           from(k) == CHOOSE x \in moved : to(x) = k
       IN [ok |-> TRUE,
           rows |-> [k \in DOMAIN base \cup new |->
                       IF k \notin new THEN base[k]
                       ELSE IF k = t THEN [R[f] EXCEPT !.name = name] ELSE R[from(k)]],
           replaced |-> IF t \in DOMAIN R /\ R[t].kind = "file" THEN {R[t].guid} ELSE {}]

(* LayerProvider::rename and rename_rows: a directory moves only onto a     *)
(* free name, nothing replaces a directory, and open files follow.          *)
rename(p, q) ==
  LET f == Key(p)
      t == Key(q)
      follow(x) == IF x = None THEN None
                   ELSE IF x = f \/ IsPrefix(dir_prefix(f), x) THEN t \o SubSeq(x, Len(f) + 1, Len(x)) ELSE x
  IN
  /\ p # <<>> /\ q # <<>> /\ ~IsPrefix(dir_prefix(f), t)
  /\ f \in DOMAIN rows
  /\ f # t /\ t \in DOMAIN rows => rows[f].kind # "dir" /\ rows[t].kind # "dir"
  /\ LET up == IF f = t THEN [ok |-> TRUE, rows |-> rows, made |-> <<>>] ELSE ensure_parents(rows, q)
         r == rename_catalog(up.rows, f, t, Last(q))
         d == doom(cells, doomed, r.replaced)
     IN /\ up.ok
        /\ rows' = IF r.ok THEN r.rows ELSE rollback(up.rows, up.made)
        /\ doomed' = IF r.ok THEN d.doomed ELSE doomed
        /\ cells' = IF r.ok THEN [g \in DOMAIN cells |-> [d.cells[g] EXCEPT !.path = follow(@)]] ELSE cells
  /\ Tick
  /\ UNCHANGED <<stored, batch, guids, faults, listing>>

(* put_files, first hold of `ns`: no path may be a directory; then the data *)
(* of the whole batch goes into the store under new guids.                  *)
put_files(t, b) ==
  /\ batch[t] = None /\ guids + Len(b) <= MaxGuid
  /\ \A i, j \in DOMAIN b : i # j => Key(b[i]) # Key(b[j])
  /\ \A i \in DOMAIN b : Key(b[i]) \in DOMAIN rows => rows[Key(b[i])].kind # "dir"
  /\ batch' = [batch EXCEPT ![t] = [paths |-> b, guids |-> [i \in DOMAIN b |-> guids + i]]]
  /\ stored' = stored \cup (guids + 1)..(guids + Len(b))
  /\ guids' = guids + Len(b)
  /\ Tick
  /\ UNCHANGED <<rows, cells, doomed, faults, listing>>

(* Second hold: parents path by path, then every row in one commit; the     *)
(* files replaced are doomed.  An error before the commit deletes the data. *)
put_rows(t) ==
  /\ batch[t] # None
  /\ LET b == batch[t]
         one(s, i) ==
           IF ~s.ok THEN s
           ELSE LET up == ensure_parents(s.rows, b.paths[i])
                    k == Key(b.paths[i])
                IN IF ~up.ok THEN [s EXCEPT !.ok = FALSE]
                   ELSE IF k \in DOMAIN up.rows /\ up.rows[k].kind = "dir"
                   THEN [s EXCEPT !.ok = FALSE, !.rows = up.rows]
                   ELSE [s EXCEPT !.rows = up.rows,
                                  !.replaced = @ \cup (IF k \in DOMAIN up.rows THEN {up.rows[k].guid} ELSE {})]
         s == FoldLeft(one, [ok |-> TRUE, rows |-> rows, replaced |-> {}], [i \in DOMAIN b.paths |-> i])
         d == doom(cells, doomed, s.replaced)
     IN IF s.ok
        THEN /\ rows' = FoldLeft(LAMBDA R, i : Put(R, Key(b.paths[i]), File(Last(b.paths[i]), b.guids[i])),
                                 s.rows, [i \in DOMAIN b.paths |-> i])
             /\ cells' = d.cells /\ doomed' = d.doomed
             /\ UNCHANGED stored
        ELSE /\ rows' = s.rows
             /\ stored' = stored \ ToSet(b.guids)
             /\ UNCHANGED <<cells, doomed>>
  /\ batch' = [batch EXCEPT ![t] = None]
  /\ UNCHANGED <<guids, faults, listing, ops>>

(* What a durable point does here: the doomed files' data is deleted.       *)
durable_point ==
  /\ doomed # {}
  /\ stored' = stored \ doomed /\ doomed' = {}
  /\ UNCHANGED <<rows, cells, batch, guids, faults, listing, ops>>

(* Catalog::children: a scan from the prefix that, on meeting a grandchild, *)
(* jumps past the child's whole subtree.                                    *)
RECURSIVE Scan(_, _, _, _)
Scan(R, prefix, start, got) ==
  LET ks == SelectSeq(Range_(R, start), LAMBDA k : TRUE)
      stop == {i \in DOMAIN ks : ~IsPrefix(prefix, ks[i])}
      rest(i) == SubSeq(ks[i], Len(prefix) + 1, Len(ks[i]))
      deep == {i \in DOMAIN ks : IsPrefix(prefix, ks[i]) /\ Slash \in ToSet(rest(i))}
      least(S) == CHOOSE i \in S : \A j \in S : i <= j
      end == IF stop \cup deep = {} THEN Len(ks) ELSE least(stop \cup deep) - 1
      seen == SelectSeq([i \in 1..end |-> i], LAMBDA i : rest(i) # <<>>)
      out == got \o [i \in DOMAIN seen |-> R[ks[seen[i]]].name]
  IN IF end < Len(ks) /\ (end + 1) \in deep
     THEN LET r == rest(end + 1)
              slash == least({i \in DOMAIN r : r[i] = Slash})
          IN Scan(R, prefix, prefix \o SubSeq(r, 1, slash - 1) \o <<Slash + 1>>, out)
     ELSE out

children(R, k) == Scan(R, dir_prefix(k), dir_prefix(k), <<>>)

readdir(p) ==
  /\ Key(p) \in DOMAIN rows /\ rows[Key(p)].kind = "dir"
  /\ listing' = [dir |-> Key(p), names |-> children(rows, Key(p)), rows |-> DOMAIN rows]
  /\ UNCHANGED <<rows, cells, doomed, stored, batch, guids, faults, ops>>

Changes ==
  \/ \E p \in Paths : open(p, TRUE) \/ open(p, FALSE) \/ mkdir(p) \/ remove(p)
  \/ \E p, q \in Paths : rename(p, q)
  \/ \E g \in DOMAIN cells : close(g)
  \/ \E t \in Threads : put_rows(t) \/ \E b \in Batches : put_files(t, b)
  \/ durable_point

TreeNext == (listing = None /\ Changes) \/ (listing = None /\ \E p \in Paths \cup {<<>>} : readdir(p))
        \/ (listing # None /\ UNCHANGED treeVars)

TreeSpec == TreeInit /\ [][TreeNext]_treeVars

Parent(k) ==
  LET at == {i \in DOMAIN k : k[i] = Slash} IN
  IF at = {} THEN <<>> ELSE SubSeq(k, 1, (CHOOSE i \in at : \A j \in at : j <= i) - 1)

RowGuids == {rows[k].guid : k \in {x \in DOMAIN rows : rows[x].kind = "file"}}
Pending == UNION {IF batch[t] = None THEN {} ELSE ToSet(batch[t].guids) : t \in Threads}

(* Type invariant.                                                          *)
TreeTypeOK ==
  /\ <<>> \in DOMAIN rows
  /\ \A k \in DOMAIN rows : rows[k].kind \in {"dir", "file"} /\ rows[k].guid \in 0..MaxGuid
  /\ stored \subseteq 1..MaxGuid /\ doomed \subseteq 1..MaxGuid
  /\ \A g \in DOMAIN cells : cells[g].opens \in 1..MaxOpens

(* Catalog::remove's doc: no operation leaves a row whose parent is missing *)
(* or is a file; such a row would be invisible and come back when the       *)
(* directory is created again.                                              *)
TreeRooted == \A k \in DOMAIN rows \ {<<>>} : Parent(k) \in DOMAIN rows /\ rows[Parent(k)].kind = "dir"

(* layer/mod.rs release, namespace.rs doom: a handle's cell names the row   *)
(* with its guid, or no path once that row is gone; and all data in the     *)
(* store is a row's, waits for a durable point, is still open, or belongs   *)
(* to a batch not yet in the catalog.                                       *)
DataOwned ==
  /\ \A g \in DOMAIN cells :
       IF cells[g].path = None THEN g \notin RowGuids
       ELSE cells[g].path \in DOMAIN rows /\ rows[cells[g].path].guid = g
  /\ RowGuids \subseteq stored
  /\ doomed \cap (RowGuids \cup DOMAIN cells) = {}
  /\ stored = RowGuids \cup doomed \cup {g \in DOMAIN cells : cells[g].path = None} \cup Pending

(* Catalog::children's doc: whatever sorts between a directory's children   *)
(* and their subtrees, the jump past a subtree skips no child and lists no  *)
(* grandchild.                                                              *)
ListedIsChildren ==
  listing # None =>
    LET kids == {k \in DOMAIN rows \ {<<>>} : Parent(k) = listing.dir} IN
    listing.names = [i \in 1..Cardinality(kids) |-> rows[Sorted(kids)[i]].name]
==============================================================================
