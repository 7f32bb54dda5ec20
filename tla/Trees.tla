-------------------------------- MODULE Trees --------------------------------
(***************************************************************************)
(* The providers that hold a tree: the one in memory and the one on disk.  *)
(* Each section is a state machine of its own; they share no state.        *)
(***************************************************************************)
EXTENDS Integers, Sequences, FiniteSets

CONSTANTS
    \* mem
    Names,   \* spelled names
    FoldName,   \* [Names -> Names], the fold of a name
    Rank,   \* [Names -> Int], their order as strings
    Paths,   \* the paths used
    Start,   \* files there at first
    Handles,
    MaxBody,   \* bodies written
    Odd,   \* what callers do beyond the usual: "replace", a rename onto
                  \* what exists; "over", a file where a directory is and back;
                  \* "late", a write through a handle whose file is gone
    \* disk
    Threads,
    MaxOps,
    None

VARIABLES
    \* mem
    files, dirs, by_fold, opens, body,
    \* disk
    disk,   \* [Paths -> {"file", "dir", None}]
    call,   \* [Threads -> a call that has resolved, or None]
    ops

(***************************************************************************)
(* MemoryProvider (vfs-compose's memory.rs): a writable tree in memory,    *)
(* keyed by whole paths as they were spelled, looked up without regard to  *)
(* case.  A directory is stored only when mkdir made it; any other exists  *)
(* because something is kept below it.  `by_fold` finds a key by its       *)
(* folded path.  Every operation holds the three maps' locks throughout,   *)
(* so each is one step.                                                    *)
(*                                                                         *)
(* A path is a sequence of names.  A file's bytes are a number.            *)
(***************************************************************************)
memVars == <<files, dirs, by_fold, opens, body>>

fold(p) == [i \in DOMAIN p |-> FoldName[p[i]]]
Under(k, p) == Len(k) > Len(p) /\ SubSeq(k, 1, Len(p)) = p
Live == {p \in Paths : files[p] # None} \cup dirs

MemInit ==
    /\ files = [p \in Paths |-> IF p \in Start THEN 0 ELSE None]
    /\ dirs = {}
    /\ by_fold = [f \in {fold(p) : p \in Paths} |->
                    IF \E p \in Start : fold(p) = f
                    THEN CHOOSE p \in Start : fold(p) = f ELSE None]
    /\ opens = [h \in Handles |-> None]
    /\ body = 0

\* stat_of: a file wins over a stored directory, which wins over an implied one.
stat_of(p) ==
    IF p = <<>> THEN "dir"
    ELSE IF files[p] # None THEN "file"
    ELSE IF p \in dirs \/ \E k \in Live : Under(k, p) THEN "dir"
    ELSE None

\* The names of what lies directly in directory p (direct_child).
Children(p) == {k[Len(p) + 1] : k \in {q \in Live : Under(q, p)}}

(***************************************************************************)
(* canonical_in: a stored key as spelled; the stored key of the same fold; *)
(* else name by name, the spelling that is there, or the least of those    *)
(* equal in fold, and from the first name nothing matches, as given.       *)
(***************************************************************************)
WalkStep(cur, n) ==
    LET same == {m \in Children(cur) : FoldName[m] = FoldName[n]}
    IN  IF n \in same \/ same = {}
        THEN Append(cur, n)
        ELSE Append(cur, CHOOSE m \in same : \A k \in same : Rank[m] <= Rank[k])

canonical_in(p) ==
    IF p = <<>> \/ p \in Live THEN p
    ELSE IF by_fold[fold(p)] # None THEN by_fold[fold(p)]
    ELSE LET walk[i \in 0..Len(p)] ==
               IF i = 0 THEN <<>> ELSE WalkStep(walk[i - 1], p[i])
         IN  walk[Len(p)]

index_insert(k) == [by_fold EXCEPT ![fold(k)] = k]
index_remove(k) == [by_fold EXCEPT ![fold(k)] = None]

(***************************************************************************)
(* What the caller is taken to do: without "over" it never opens a        *)
(* file where a directory is, makes a directory where a file is, or puts   *)
(* anything below a file.                                                  *)
(***************************************************************************)
Fits(c, kind) ==
    \/ "over" \in Odd
    \/ /\ stat_of(c) \in {kind, None}
       /\ \A i \in 1..(Len(c) - 1) : stat_of(SubSeq(c, 1, i)) # "file"

open(h, p, create, excl, trunc) ==
    LET c == canonical_in(p)
        there == files[c] # None
    IN  /\ opens[h] = None /\ c \in Paths /\ Fits(c, "file")
        /\ ~(excl /\ there) /\ (create \/ there)
        /\ files' = [files EXCEPT ![c] = IF ~there \/ trunc THEN 0 ELSE @]
        /\ by_fold' = IF there THEN by_fold ELSE index_insert(c)
        /\ opens' = [opens EXCEPT ![h] = c]
        /\ UNCHANGED <<dirs, body>>

close(h) ==
    /\ opens[h] # None /\ opens' = [opens EXCEPT ![h] = None]
    /\ UNCHANGED <<files, dirs, by_fold, body>>

\* write_at and set_len: an entry removed since the open comes back.
write_at(h) ==
    LET c == opens[h] IN
    /\ c # None /\ (files[c] # None \/ "late" \in Odd) /\ Fits(c, "file")
    /\ body < MaxBody /\ body' = body + 1
    /\ files' = [files EXCEPT ![c] = body + 1]
    /\ by_fold' = IF files[c] # None THEN by_fold ELSE index_insert(c)
    /\ UNCHANGED <<dirs, opens>>

mkdir(p) ==
    LET c == canonical_in(p) IN
    /\ c \in Paths /\ Fits(c, "dir")
    /\ dirs' = dirs \cup {c}
    /\ by_fold' = IF c \in dirs THEN by_fold ELSE index_insert(c)
    /\ UNCHANGED <<files, opens, body>>

remove(p) ==
    LET c == canonical_in(p)
        file == files[c] # None
    IN  /\ c \in Paths
        /\ \/ file
           \/ c \in dirs /\ ~\E k \in Live : Under(k, c)
        /\ files' = [files EXCEPT ![c] = None]
        /\ dirs' = IF file THEN dirs ELSE dirs \ {c}
        /\ by_fold' = index_remove(c)
        /\ UNCHANGED <<opens, body>>

\* `old` rewritten from below `from` to below `to`.
rewrite(old, from, to) == to \o SubSeq(old, Len(from) + 1, Len(old))

rename_file(from_c, to_c, base) ==
    /\ stat_of(to_c) # "dir" \/ to_c = from_c
    /\ files' = [p \in Paths |->
          IF p = base THEN files[from_c]
          ELSE IF p = from_c \/ (p = to_c /\ stat_of(to_c) # None) THEN None
          ELSE files[p]]
    /\ LET cleared == IF stat_of(to_c) # None /\ to_c # from_c
                      THEN index_remove(to_c) ELSE by_fold
       IN  by_fold' = [cleared EXCEPT ![fold(from_c)] = None, ![fold(base)] = base]
    /\ UNCHANGED dirs

rename_dir(from_c, to_p, to_c, base) ==
    LET moving == {k \in Live : k = from_c \/ Under(k, from_c)}
        New(k) == rewrite(k, from_c, base)
    IN  /\ moving # {} /\ ~Under(fold(to_p), fold(from_c))
        /\ stat_of(to_c) = None \/ to_c = from_c
        /\ \A k \in moving : New(k) \in Paths
        /\ files' = [p \in Paths |->
              IF \E k \in moving : New(k) = p
              THEN files[CHOOSE k \in moving : New(k) = p]
              ELSE IF p \in moving THEN None ELSE files[p]]
        /\ dirs' = (dirs \ moving) \cup {New(k) : k \in moving \cap dirs}
        /\ by_fold' = [f \in DOMAIN by_fold |->
              IF \E k \in moving : fold(New(k)) = f
              THEN New(CHOOSE k \in moving : fold(New(k)) = f)
              ELSE IF \E k \in moving : fold(k) = f THEN None ELSE by_fold[f]]

(***************************************************************************)
(* rename: what is found under either spelling.  The new key is the        *)
(* caller's own spelling when the destination exists, else the destination *)
(* with its ancestors as they are spelled.                                 *)
(***************************************************************************)
rename(p, q) ==
    LET from_c == canonical_in(p)
        to_c == canonical_in(q)
        base == IF stat_of(to_c) # None THEN q ELSE to_c
    IN  /\ p # q /\ from_c \in Paths /\ to_c \in Paths
        /\ "replace" \in Odd \/ stat_of(to_c) = None
        /\ \A i \in 1..(Len(to_c) - 1) :
              "over" \in Odd \/ (stat_of(SubSeq(to_c, 1, i)) # "file" /\ SubSeq(to_c, 1, i) # from_c)
        /\ IF files[from_c] # None THEN rename_file(from_c, to_c, base)
           ELSE rename_dir(from_c, q, to_c, base)
        /\ UNCHANGED <<opens, body>>

MemNext ==
    \/ \E h \in Handles, p \in Paths, create, excl, trunc \in BOOLEAN :
          open(h, p, create, excl, trunc)
    \/ \E h \in Handles : close(h) \/ write_at(h)
    \/ \E p \in Paths : mkdir(p) \/ remove(p)
    \/ \E p, q \in Paths : rename(p, q)

MemSpec == MemInit /\ [][MemNext]_memVars

-----------------------------------------------------------------------------
\* Every variable keeps its type.
MemTypeOK ==
    /\ files \in [Paths -> 0..MaxBody \cup {None}]
    /\ dirs \subseteq Paths
    /\ \A f \in DOMAIN by_fold : by_fold[f] \in Paths \cup {None}
    /\ opens \in [Handles -> Paths \cup {None}]

(***************************************************************************)
(* by_fold never names a key that is gone: a stale entry would resolve a   *)
(* name to a file that no longer exists, and hide the one that does.       *)
(***************************************************************************)
IndexLive ==
    \A f \in DOMAIN by_fold :
        by_fold[f] # None => by_fold[f] \in Live /\ fold(by_fold[f]) = f

(***************************************************************************)
(* Whatever the spelling, a path that folds like something in the tree is  *)
(* found, as something of that kind, and by its own spelling as itself.    *)
(***************************************************************************)
FoundByAnySpelling ==
    \A k \in Live : \A p \in Paths :
        fold(p) = fold(k) =>
            LET c == canonical_in(p)
            IN  c \in Live /\ fold(c) = fold(k) /\ (p = k => c = k)

(***************************************************************************)
(* No directory holds two names equal in fold: a create or a move into     *)
(* `data` lands in the `Data` that is there, never in a second directory   *)
(* beside it which only one spelling lists.                                *)
(***************************************************************************)
NoForks ==
    \A d \in {<<>>} \cup {SubSeq(p, 1, i) : p \in Live, i \in 1..1} :
        \A m, n \in Children(d) : FoldName[m] = FoldName[n] => m = n

\* Nothing is at once a file and a directory, so getattr, which lets the file
\* win, and a listing, which takes whichever it meets first, agree.
OneKind == \A p \in Paths : files[p] # None => p \notin dirs /\ ~\E k \in Live : Under(k, p)

(***************************************************************************)
(* DiskProvider (vfs-compose's disk.rs) over a case-sensitive file system: *)
(* names are matched by their fold all the same.  A call first resolves    *)
(* the path it was given against what is on disk and then acts on the      *)
(* result; calls of other threads may come in between.                     *)
(*                                                                         *)
(* A path is a sequence of names; disk says what is at it.                 *)
(***************************************************************************)
diskVars == <<disk, call, ops>>

disk_fold(p) == [i \in DOMAIN p |-> FoldName[p[i]]]
Parent(p) == SubSeq(p, 1, Len(p) - 1)
At(p) == IF p = <<>> THEN "dir" ELSE IF p \in Paths THEN disk[p] ELSE None
DiskChildren(p) == {q[Len(q)] : q \in {r \in Paths : disk[r] # None /\ r # <<>> /\ Parent(r) = p}}

DiskInit ==
    /\ disk = [p \in Paths |-> IF p \in Start THEN "dir" ELSE None]
    /\ call = [t \in Threads |-> None]
    /\ ops = 0

(***************************************************************************)
(* resolve_fold_equal: the path as spelled if it is there; else name by    *)
(* name, the spelling that is there, or the least equal in fold, and from  *)
(* the first name with no match, as given.                                 *)
(***************************************************************************)
Step(cur, n) ==
    LET same == {m \in DiskChildren(cur) : FoldName[m] = FoldName[n]}
    IN  IF n \in same \/ same = {} THEN Append(cur, n)
        ELSE Append(cur, CHOOSE m \in same : \A k \in same : Rank[m] <= Rank[k])

resolve_fold_equal(p) ==
    IF At(p) # None THEN p
    ELSE LET walk[i \in 0..Len(p)] == IF i = 0 THEN <<>> ELSE Step(walk[i - 1], p[i])
         IN  walk[Len(p)]

\* getattr, readdir and reading opens: the path as spelled, then the fold.
getattr(p) == IF At(p) # None THEN At(p) ELSE At(resolve_fold_equal(p))

\* A call that creates, removes or renames resolves first (resolve_case_aware).
resolve_case_aware(t, op, p, q) ==
    /\ call[t] = None /\ ops < MaxOps /\ ops' = ops + 1
    /\ op = "rename" \/ q = p
    /\ call' = [call EXCEPT ![t] =
                 [op |-> op, path |-> resolve_fold_equal(p), to |-> resolve_fold_equal(q)]]
    /\ UNCHANGED disk

Return(t) == call' = [call EXCEPT ![t] = None]

\* create_dir_all: every directory on the way, unless a file is in it.
Dirs(p) == {SubSeq(p, 1, i) : i \in 1..Len(p)}
create_dir_all(p) ==
    IF \E d \in Dirs(p) : disk[d] = "file" THEN disk
    ELSE [d \in Paths |-> IF d \in Dirs(p) THEN "dir" ELSE disk[d]]

\* open with OPEN_CREATE: the parents, then the file.
open_parents(t) ==
    /\ call[t] # None /\ call[t].op = "create"
    /\ disk' = create_dir_all(Parent(call[t].path))
    /\ call' = [call EXCEPT ![t].op = "open"]
    /\ UNCHANGED ops

disk_open(t) ==
    LET p == call[t].path IN
    /\ call[t] # None /\ call[t].op = "open"
    /\ disk' = IF At(Parent(p)) = "dir" /\ disk[p] = None
               THEN [disk EXCEPT ![p] = "file"] ELSE disk
    /\ Return(t) /\ UNCHANGED ops

disk_mkdir(t) ==
    /\ call[t] # None /\ call[t].op = "mkdir"
    /\ disk' = create_dir_all(call[t].path)
    /\ Return(t) /\ UNCHANGED ops

\* remove: a file, or a directory with nothing in it.
disk_remove(t) ==
    LET p == call[t].path IN
    /\ call[t] # None /\ call[t].op = "remove"
    /\ disk' = IF DiskChildren(p) = {} THEN [disk EXCEPT ![p] = None] ELSE disk
    /\ Return(t) /\ UNCHANGED ops

\* rename: a file over nothing or a file, a directory over nothing or an empty
\* directory, never into itself.
disk_rename(t) ==
    LET p == call[t].path
        q == call[t].to
        Moved(d) == q \o SubSeq(d, Len(p) + 1, Len(d))
        Below(d) == Len(d) >= Len(p) /\ SubSeq(d, 1, Len(p)) = p
        moving == {d \in Paths : disk[d] # None /\ Below(d)}
        ok == /\ disk[p] # None /\ p # q /\ ~Below(q)
              /\ At(Parent(q)) = "dir"
              /\ disk[q] \in {None, disk[p]} /\ DiskChildren(q) = {}
              /\ \A d \in moving : Moved(d) \in Paths
    IN  /\ call[t] # None /\ call[t].op = "rename"
        /\ disk' = IF ~ok THEN disk
                   ELSE [d \in Paths |->
                           IF \E m \in moving : Moved(m) = d
                           THEN disk[CHOOSE m \in moving : Moved(m) = d]
                           ELSE IF d \in moving THEN None ELSE disk[d]]
        /\ Return(t) /\ UNCHANGED ops

DiskNext ==
    \E t \in Threads :
        \/ \E op \in {"create", "mkdir", "remove", "rename"}, p, q \in Paths :
              resolve_case_aware(t, op, p, q)
        \/ open_parents(t) \/ disk_open(t) \/ disk_mkdir(t) \/ disk_remove(t) \/ disk_rename(t)

DiskSpec == DiskInit /\ [][DiskNext]_diskVars

-----------------------------------------------------------------------------
\* Every variable keeps its type, and what exists is in a directory.
DiskTypeOK ==
    /\ disk \in [Paths -> {"file", "dir", None}]
    /\ \A t \in Threads : call[t] # None => call[t].path \in Paths /\ call[t].to \in Paths
    /\ \A p \in Paths : disk[p] # None => At(Parent(p)) = "dir"

\* No directory comes to hold two names equal in fold: creating or moving under
\* another spelling of a directory lands in that directory.
DiskNoForks ==
    \A d \in {<<>>} \cup Paths : \A m, n \in DiskChildren(d) : FoldName[m] = FoldName[n] => m = n

\* Every spelling of what is on disk finds it, and its own spelling finds it
\* itself.
DiskFoundByAnySpelling ==
    \A k, p \in Paths : disk[k] # None /\ disk_fold(p) = disk_fold(k) => getattr(p) = disk[k]
==============================================================================
