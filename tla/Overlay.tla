------------------------------- MODULE Overlay -------------------------------
(***************************************************************************)
(* The write overlay of vfs-compose (overlay/mod.rs, whiteout.rs,          *)
(* copy_up.rs): an upper disk tree over a base that is never written,      *)
(* `.wh.` markers that hide base names, an in-memory index of the markers, *)
(* and whole-file copy-up.  Every call into the upper is a step of its own,*)
(* because no lock is held across it.                                      *)
(***************************************************************************)
EXTENDS Naturals, FiniteSets, Sequences

CONSTANTS
    Threads,
    Paths,       \* every path, the root excluded
    Parent,      \* Parent[p]: its directory, Root for a top-level path
    Root,
    Base,        \* Base[p]: "dir", "file" or None; never changes
    Exclusive,   \* a remove, rename, mkdir or create over a marker overlaps no other write there
    RenameDirs,  \* directories are renamed too
    Faults,      \* a call into the upper may fail
    MaxMarks,    \* bound on marker changes: the index generation
    None

VARIABLES
    upper,       \* Paths -> None, "dir", "copy" (of the base's file) or "new"
    markers,     \* the paths whose `.wh.` sibling exists in the upper
    temps,       \* the paths for which a `.cu.` file exists, one per copying thread
    scanned,     \* WhiteoutIndex::dirs: the directories with an entry ...
    hidden,      \* ... and the paths their entries hold
    generation,  \* WhiteoutIndex::generation
    copying,     \* InFlight::keys
    call,        \* each thread's operation
    replaced,    \* history: some copy-up's rename replaced a file of the upper
    gone         \* history: the paths removed and not created again since

vars == <<upper, markers, temps, scanned, hidden, generation, copying, call, replaced, gone>>
tree == <<upper, markers, temps>>
index == <<scanned, hidden, generation>>

Idle == [pc |-> "idle"]
Dirs == {Root} \cup {p \in Paths : \E c \in Paths : Parent[c] = p}
Under(p) == {c \in Paths : c = p \/ Parent[c] = p}
InDir(d) == {p \in Paths : Parent[p] = d}

TypeOK ==
    /\ upper \in [Paths -> {None, "dir", "copy", "new"}]
    /\ \A p \in Paths : upper[p] # None \/ p \in markers \/ (\E t \in Threads : <<t, p>> \in temps)
         => Parent[p] = Root \/ upper[Parent[p]] = "dir"
    /\ scanned \subseteq Dirs /\ \A p \in hidden : Parent[p] \in scanned
    /\ generation \in 0 .. MaxMarks + Cardinality(Threads)
    /\ copying \subseteq Paths

(* A new overlay over an upper that an earlier one may have left markers in. *)
Init ==
    /\ markers \in SUBSET {p \in Paths : Base[p] # None}
    /\ \A p \in markers : Parent[p] \notin markers
    /\ upper = [p \in Paths |-> IF \E c \in markers : Parent[c] = p THEN "dir" ELSE None]
    /\ temps = {}
    /\ scanned = {} /\ hidden = {} /\ generation = 0
    /\ copying = {} /\ replaced = FALSE /\ gone = {}
    /\ call = [t \in Threads |-> Idle]
-----------------------------------------------------------------------------
(* The disk provider the upper is. *)
ParentsCanBe(p) == Parent[p] = Root \/ upper[Parent[p]] \in {None, "dir"}
WithParents(p) == IF Parent[p] = Root THEN upper ELSE [upper EXCEPT ![Parent[p]] = "dir"]
EmptyDir(d) ==
    /\ \A p \in InDir(d) : upper[p] = None /\ p \notin markers
    /\ \A x \in temps : Parent[x[2]] # d
CanRename(p, q) ==
    /\ upper[p] # None
    /\ q \notin Under(p)
    /\ Parent[q] = Root \/ upper[Parent[q]] = "dir"
    /\ IF upper[p] = "dir" THEN upper[q] \in {None, "dir"} /\ EmptyDir(q) ELSE upper[q] # "dir"
(* The path that x, under p, has once p is called q; a child keeps its name. *)
Moved(p, q, x) == IF x = p THEN q ELSE CHOOSE c \in InDir(q) : TRUE
-----------------------------------------------------------------------------
Goto(t, pc) == call' = [call EXCEPT ![t].pc = pc]
Return(t) == call' = [call EXCEPT ![t] = Idle]
Mutates(c) == c.pc # "idle" /\ (c.op \in {"remove", "rename", "mkdir"} \/ c.over)
Touches(c) == IF c.pc = "idle" \/ c.op = "lookup" THEN {} ELSE Under(c.p) \cup Under(c.q)
MayStart(op, p, q) ==
    Exclusive =>
        \A u \in Threads :
            Mutates(call[u]) \/ op \in {"remove", "rename", "mkdir"} \/ p \in markers =>
                /\ (Under(p) \cup Under(q)) \cap Touches(call[u]) = {}
                /\ \A x \in {p, q} : Parent[x] \notin Touches(call[u])

(* One of getattr, a read-only open or readdir (lookup), open for writing with
   or without OPEN_CREATE, mkdir, remove, rename and set_attr.  Opening for
   writing looks at the upper first; the others start with the whiteout walk. *)
Begin(t, op, p, q, create) ==
    /\ call[t] = Idle
    /\ generation < MaxMarks
    /\ op = "lookup" \/ MayStart(op, p, q)
    /\ op # "rename" => q = p
    /\ op = "rename" => q # p /\ (RenameDirs \/ (upper[p] # "dir" /\ Base[p] # "dir"))
    /\ call' = [call EXCEPT ![t] =
         [op |-> op, p |-> p, q |-> q, create |-> create, over |-> p \in markers,
          own |-> op \notin {"mkdir", "open"}, anc |-> TRUE, scan |-> None, dir |-> None, gen |-> 0,
          pc |-> IF op = "open" /\ upper[p] # None THEN "open" ELSE "walk"]]
    /\ gone' = IF create \/ op \in {"mkdir", "rename"} THEN gone \ (Under(p) \cup Under(q)) ELSE gone
    /\ UNCHANGED <<tree, index, copying, replaced>>

(* The paths a walk asks about, from the path outwards. *)
Chain(c) ==
    (IF c.own THEN <<c.p>> ELSE <<>>) \o
    (IF c.anc /\ Parent[c.p] # Root THEN <<Parent[c.p]>> ELSE <<>>)
Stops(c) == {i \in 1 .. Len(Chain(c)) : Parent[Chain(c)[i]] \notin scanned \/ Chain(c)[i] \in hidden}
FirstStop(c) == Chain(c)[CHOOSE i \in Stops(c) : \A j \in Stops(c) : i <= j]

AfterWalk(c, isHidden) ==
    CASE c.op = "lookup" -> "done"
      [] c.op = "open" /\ ~c.own -> IF isHidden THEN "done" ELSE "own"
      [] c.op = "open" /\ c.own ->
            IF isHidden THEN IF c.create THEN "clear" ELSE "done"
            ELSE IF Base[c.p] = "dir" THEN "done" ELSE "copy"
      [] c.op = "mkdir" -> IF isHidden THEN "done" ELSE "clear"
      [] c.op = "remove" -> IF isHidden THEN "done" ELSE "remove"
      [] OTHER -> IF isHidden THEN "done" ELSE "copy"

(* Under the index's shared lock: an answer, or the first directory not scanned. *)
whiteout_walk(t) ==
    /\ call[t].pc = "walk"
    /\ LET c == call[t] IN
       IF Stops(c) # {} /\ Parent[FirstStop(c)] \notin scanned
       THEN call' = [call EXCEPT ![t].pc = "scan", ![t].dir = Parent[FirstStop(c)],
                                 ![t].gen = generation]
       ELSE LET to == AfterWalk(c, Stops(c) # {})
            IN call' = [call EXCEPT ![t] =
                 IF to = "done" THEN Idle
                 ELSE IF to = "own" THEN [c EXCEPT !.own = TRUE, !.anc = FALSE]
                 ELSE [c EXCEPT !.pc = to]]
    /\ UNCHANGED <<tree, index, copying, replaced, gone>>

scan_whiteouts(t) ==
    /\ call[t].pc = "scan"
    /\ call' = [call EXCEPT ![t].pc = "store", ![t].scan = markers \cap InDir(call[t].dir)]
    /\ UNCHANGED <<tree, index, copying, replaced, gone>>

\* Mutant: a scan is stored although a marker changed while it ran.
StoreScan_always(t) ==
    /\ call[t].pc = "store"
    /\ scanned' = scanned \cup {call[t].dir}
    /\ hidden' = (hidden \ InDir(call[t].dir)) \cup call[t].scan
    /\ call' = [call EXCEPT ![t].pc = "walk", ![t].scan = None, ![t].dir = None, ![t].gen = 0]
    /\ UNCHANGED <<tree, generation, copying, replaced, gone>>

\* Mutant: the names a scan found are stored, the directory is not marked scanned.
StoreScan_unlisted(t) ==
    /\ call[t].pc = "store"
    /\ hidden' = hidden \cup call[t].scan
    /\ call' = [call EXCEPT ![t].pc = "walk", ![t].scan = None, ![t].dir = None, ![t].gen = 0]
    /\ UNCHANGED <<tree, scanned, generation, copying, replaced, gone>>

(* The scan is kept only if no marker changed since the walk released the lock. *)
StoreScan(t) ==
    /\ call[t].pc = "store"
    /\ IF generation = call[t].gen
       THEN /\ scanned' = scanned \cup {call[t].dir}
            /\ hidden' = (hidden \ InDir(call[t].dir)) \cup call[t].scan
       ELSE UNCHANGED <<scanned, hidden>>
    /\ call' = [call EXCEPT ![t].pc = "walk", ![t].scan = None, ![t].dir = None, ![t].gen = 0]
    /\ UNCHANGED <<tree, generation, copying, replaced, gone>>

note_whiteout(p, isHidden) ==
    /\ generation' = generation + 1
    /\ hidden' = IF Parent[p] \notin scanned THEN hidden
                 ELSE IF isHidden THEN hidden \cup {p} ELSE hidden \ {p}
    /\ UNCHANGED scanned

(* Whose marker an operation clears. *)
Cleared(c) == IF c.op = "rename" THEN c.q ELSE c.p

clear_whiteout(t) ==
    /\ call[t].pc = "clear"
    /\ markers' = markers \ {Cleared(call[t])}
    /\ Goto(t, "noteClear")
    /\ UNCHANGED <<upper, temps, index, copying, replaced, gone>>

NoteCleared(t) ==
    /\ call[t].pc = "noteClear"
    /\ note_whiteout(Cleared(call[t]), FALSE)
    /\ LET c == call[t] IN
       call' = [call EXCEPT ![t] =
         CASE c.op = "open" -> [c EXCEPT !.pc = "open"]
           [] c.op = "mkdir" -> [c EXCEPT !.pc = "mkdir"]
           [] OTHER -> IF Base[c.p] # None THEN [c EXCEPT !.pc = "mark"] ELSE Idle]
    /\ UNCHANGED <<tree, copying, replaced, gone>>

(* The marker file is created, with its parents; the index hears of it next. *)
write_whiteout(t) ==
    /\ call[t].pc = "mark"
    /\ IF ParentsCanBe(call[t].p)
       THEN /\ markers' = markers \cup {call[t].p}
            /\ upper' = WithParents(call[t].p)
            /\ Goto(t, "noteMark")
       ELSE Return(t) /\ UNCHANGED <<upper, markers>>
    /\ UNCHANGED <<temps, index, copying, replaced, gone>>

NoteMarked(t) ==
    /\ call[t].pc = "noteMark"
    /\ note_whiteout(call[t].p, TRUE)
    /\ gone' = IF call[t].op = "remove" THEN gone \cup Under(call[t].p) ELSE gone
    /\ Return(t)
    /\ UNCHANGED <<tree, copying, replaced>>
-----------------------------------------------------------------------------
AfterCopy(c) == CASE c.op = "open" -> "open" [] c.op = "rename" -> "rename" [] OTHER -> "attr"

copy_up_if_needed(t) ==
    /\ call[t].pc = "copy"
    /\ Goto(t, IF upper[call[t].p] # None \/ Base[call[t].p] # "file"
               THEN AfterCopy(call[t]) ELSE "claim")
    /\ UNCHANGED <<tree, index, copying, replaced, gone>>

claim(t) ==
    /\ call[t].pc = "claim"
    /\ call[t].p \notin copying
    /\ copying' = copying \cup {call[t].p}
    /\ Goto(t, "recheck")
    /\ UNCHANGED <<tree, index, replaced, gone>>

\* Mutant: the winner does not look at the upper again.
Recheck_skipped(t) ==
    /\ call[t].pc = "recheck"
    /\ Goto(t, "fill")
    /\ UNCHANGED <<tree, index, copying, replaced, gone>>

Recheck(t) ==
    /\ call[t].pc = "recheck"
    /\ IF upper[call[t].p] # None
       THEN copying' = copying \ {call[t].p} /\ Goto(t, AfterCopy(call[t]))
       ELSE Goto(t, "fill") /\ UNCHANGED copying
    /\ UNCHANGED <<tree, index, replaced, gone>>

(* The `.cu.` file is created and filled; a failure removes it, frees the claim. *)
copy_bytes(t) ==
    /\ call[t].pc = "fill"
    /\ \/ /\ ParentsCanBe(call[t].p)
          /\ temps' = temps \cup {<<t, call[t].p>>}
          /\ upper' = WithParents(call[t].p)
          /\ Goto(t, "place") /\ UNCHANGED copying
       \/ /\ Faults \/ ~ParentsCanBe(call[t].p)
          /\ upper' = IF ParentsCanBe(call[t].p) THEN WithParents(call[t].p) ELSE upper
          /\ copying' = copying \ {call[t].p}
          /\ Return(t) /\ UNCHANGED temps
    /\ UNCHANGED <<markers, index, replaced, gone>>

(* Renamed over the path; a failed rename removes the temporary. *)
copy_file_up(t) ==
    /\ call[t].pc = "place"
    /\ temps' = temps \ {<<t, call[t].p>>}
    /\ copying' = copying \ {call[t].p}
    /\ \/ /\ upper[call[t].p] # "dir"
          /\ upper' = [upper EXCEPT ![call[t].p] = "copy"]
          /\ replaced' = (replaced \/ upper[call[t].p] # None)
          /\ Goto(t, AfterCopy(call[t]))
       \/ /\ Faults \/ upper[call[t].p] = "dir"
          /\ Return(t) /\ UNCHANGED <<upper, replaced>>
    /\ UNCHANGED <<markers, index, gone>>

(* open_for_write's upper.open: the handle is then written through. *)
open_for_write(t) ==
    /\ call[t].pc = "open"
    /\ LET c == call[t] IN
       IF upper[c.p] \in {"copy", "new"} \/ (c.create /\ upper[c.p] = None /\ ParentsCanBe(c.p))
       THEN /\ upper' = [WithParents(c.p) EXCEPT ![c.p] = IF upper[c.p] = None THEN "new" ELSE upper[c.p]]
            /\ Goto(t, "write")
       ELSE Return(t) /\ UNCHANGED upper
    /\ UNCHANGED <<markers, temps, index, copying, replaced, gone>>

write_at(t) ==
    /\ call[t].pc = "write"
    /\ upper' = [upper EXCEPT ![call[t].p] = IF @ = "copy" THEN "new" ELSE @]
    /\ Return(t)
    /\ UNCHANGED <<markers, temps, index, copying, replaced, gone>>

mkdir(t) ==
    /\ call[t].pc = "mkdir"
    /\ upper' = IF upper[call[t].p] \in {None, "dir"} /\ ParentsCanBe(call[t].p)
                THEN [WithParents(call[t].p) EXCEPT ![call[t].p] = "dir"] ELSE upper
    /\ Return(t)
    /\ UNCHANGED <<markers, temps, index, copying, replaced, gone>>

\* Mutant: a removed copy is taken to have been the only version.
remove_upper(t) ==
    /\ call[t].pc = "remove"
    /\ LET p == call[t].p IN
       IF upper[p] = "dir" /\ ~EmptyDir(p) THEN Return(t) /\ UNCHANGED <<upper, gone>>
       ELSE /\ upper' = [upper EXCEPT ![p] = None]
            /\ gone' = IF upper[p] # None THEN gone \cup {p} ELSE gone
            /\ call' = [call EXCEPT ![t] =
                 IF upper[p] = None /\ Base[p] # None THEN [@ EXCEPT !.pc = "mark"] ELSE Idle]
    /\ UNCHANGED <<markers, temps, index, copying, replaced>>

(* The upper's entry goes, if there is one; then the base's is marked. *)
remove(t) ==
    /\ call[t].pc = "remove"
    /\ LET p == call[t].p IN
       IF upper[p] = "dir" /\ ~EmptyDir(p) THEN Return(t) /\ UNCHANGED <<upper, gone>>
       ELSE /\ upper' = [upper EXCEPT ![p] = None]
            /\ gone' = IF upper[p] # None /\ Base[p] = None THEN gone \cup {p} ELSE gone
            /\ call' = [call EXCEPT ![t] = IF Base[p] # None THEN [@ EXCEPT !.pc = "mark"] ELSE Idle]
    /\ UNCHANGED <<markers, temps, index, copying, replaced>>

(* upper.rename: a directory takes its entries and their markers along. *)
rename(t) ==
    /\ call[t].pc = "rename"
    /\ LET p == call[t].p
           q == call[t].q
           down == IF upper[p] = "dir" /\ InDir(q) # {} THEN Under(p) ELSE {p}
           to(x) == Moved(p, q, x)
       IN IF ~CanRename(p, q) \/ (upper[p] = "dir" /\ \E x \in temps : Parent[x[2]] = p)
          THEN Return(t) /\ UNCHANGED tree
          ELSE /\ upper' = [x \in Paths |->
                     IF \E y \in down : to(y) = x THEN upper[CHOOSE y \in down : to(y) = x]
                     ELSE IF x \in Under(p) THEN None ELSE upper[x]]
               /\ markers' = (markers \ (Under(p) \ {p})) \cup {to(y) : y \in (down \ {p}) \cap markers}
               /\ Goto(t, "clear") /\ UNCHANGED temps
    /\ UNCHANGED <<index, copying, replaced, gone>>

set_attr(t) ==
    /\ call[t].pc = "attr"
    /\ upper' = [upper EXCEPT ![call[t].p] = IF @ = "copy" THEN "new" ELSE @]
    /\ Return(t)
    /\ UNCHANGED <<markers, temps, index, copying, replaced, gone>>

(* A call that changes the upper fails; the operation returns its error. *)
UpperFails(t) ==
    /\ Faults
    /\ call[t].pc \in {"clear", "mark", "scan", "open", "mkdir", "remove", "rename", "attr"}
    /\ Return(t)
    /\ UNCHANGED <<tree, index, copying, replaced, gone>>

Step(t) ==
    \/ whiteout_walk(t) \/ scan_whiteouts(t) \/ StoreScan(t)
    \/ clear_whiteout(t) \/ NoteCleared(t) \/ write_whiteout(t) \/ NoteMarked(t)
    \/ copy_up_if_needed(t) \/ claim(t) \/ Recheck(t) \/ copy_bytes(t) \/ copy_file_up(t)
    \/ open_for_write(t) \/ write_at(t) \/ mkdir(t) \/ remove(t) \/ rename(t) \/ set_attr(t)
    \/ UpperFails(t)

Next ==
    \E t \in Threads :
        \/ Step(t)
        \/ \E op \in {"lookup", "open", "mkdir", "remove", "rename", "set_attr"}, p, q \in Paths,
              create \in BOOLEAN : (create => op = "open") /\ Begin(t, op, p, q, create)

Spec == Init /\ [][Next]_vars
-----------------------------------------------------------------------------
Quiet == \A t \in Threads : call[t] = Idle
Noting(d) == \E t \in Threads : call[t].pc \in {"noteMark", "noteClear"}
                 /\ Parent[IF call[t].pc = "noteMark" THEN call[t].p ELSE Cleared(call[t])] = d

(* The index is the markers: a directory with an entry in the whiteout index
   holds there exactly the names its `.wh.` files hide, whenever no thread is
   between changing a marker and noting it, so getattr and open, which ask the
   index, never disagree with readdir, which reads the markers. *)
IndexAgrees == \A d \in scanned : Noting(d) \/ hidden \cap InDir(d) = markers \cap InDir(d)

(* A path copies up once: the rename that ends a copy-up never replaces a file
   of the upper, which another caller may already have opened and written. *)
CopyNeverReplaces == ~replaced

(* What getattr answers for a path, from the index where its directory is
   scanned and from the markers its first scan will find where it is not. *)
Hides(p) == IF Parent[p] \in scanned THEN p \in hidden ELSE p \in markers
Visible(p) ==
    /\ ~Hides(p) /\ (Parent[p] = Root \/ ~Hides(Parent[p]))
    /\ upper[p] # None \/ Base[p] # None

(* A path that was removed does not come back by itself, the base's version of
   it least of all, however lookups and copy-ups of its neighbours interleave:
   it is seen again only after a call that creates it, or its directory. *)
RemovedStaysHidden == \A p \in gone : ~Visible(p)
=============================================================================
