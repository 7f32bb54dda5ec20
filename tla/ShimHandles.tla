----------------------------- MODULE ShimHandles -----------------------------
(***************************************************************************)
(* The names behind the handles of an injected process: opening, deleting, *)
(* renaming, linking and closing files through the hooked NT calls         *)
(* (vfs-shim hook/file_open.rs, hook/file_mutate.rs, hook/close.rs,        *)
(* hook/handles.rs, synth_file.rs).  A path under a managed root is the    *)
(* director's, reached by ring requests between which other threads run; a *)
(* path outside every root is the real filesystem's.  Two tables remember  *)
(* handles: `synth` (synth_file's TABLE, the synthetic handles) and `table` *)
(* (HANDLES, what any handle was opened as).                               *)
(***************************************************************************)
EXTENDS Naturals, FiniteSets, Functions

CONSTANTS
    Threads,         \* threads of the process
    Paths,           \* full paths, managed or not
    RootOf,          \* RootOf[p]: the root FuseClient::route puts p under, or None
    RealHandles,     \* values the OS gives real handles, reused after a close
    Inherited,       \* Inherited[h]: what a handle opened before injection targets, or None
    HandlePathsMax,  \* HANDLE_PATHS_MAX
    Writable,        \* roots with a ReadWrite provider
    MaxSynth,        \* bound on synthetic handles issued
    MaxLost,         \* bound on ring requests that fail, their effect done or not
    OneUser,         \* a handle is used by one thread at a time, as a synchronous file object is
    None             \* no path, no object, no root

VARIABLES
    tree,     \* what the director serves at each managed path: "file", "dir" or None
    fhs,      \* open file handles at the director
    lost,     \* those whose open answer, or whose close, was lost
    failed,   \* ring requests failed so far
    synth,    \* TABLE: synthetic handle -> [fh, path, doc], and `gone`: deleted through it
    issued,   \* NEXT: synthetic handles issued
    os,       \* the kernel's real handles: [target, seen], or None
    real,     \* paths with a real file
    table,    \* HANDLES: [map: handle -> [opened_as, under_root], opened: count]
    call      \* each thread's hooked call in progress

vars == <<tree, fhs, lost, failed, synth, issued, os, real, table, call>>
director == <<tree, fhs, lost, failed>>
kernel == <<os, real>>

Managed == {p \in Paths : RootOf[p] # None}
path_is_ours(p) == p \in Managed
Handles == (1 .. MaxSynth) \cup RealHandles
is_fuse_synth(h) == h \in 1 .. MaxSynth
Idle == [op |-> "idle", pc |-> "idle"]
NoRecord == [opened_as |-> None, under_root |-> None]

(* A handle the process may use: a synthetic one it was given, or a real one. *)
Live == DOMAIN synth \cup {h \in RealHandles : os[h] # None}
Using(h) == {t \in Threads : call[t].op \in {"close", "setinfo"} /\ call[t].h = h}
(* A handle whose open has not returned, or whose close has begun, is not the process's to use. *)
Opening(h) == \E t \in Threads : call[t].op = "open" /\ call[t].pc = "record" /\ call[t].h = h
Closing(h) == \E t \in Using(h) : call[t].op = "close"
MayUse(h) == h \in Live /\ ~Opening(h) /\ ~Closing(h) /\ (OneUser => Using(h) = {})

TypeOK ==
    /\ tree \in [Managed -> {"file", "dir", None}]
    /\ lost \subseteq fhs
    /\ failed \in 0 .. MaxLost
    /\ issued \in 0 .. MaxSynth
    /\ DOMAIN synth \subseteq 1 .. issued
    /\ \A h \in DOMAIN synth : synth[h].path \in Managed \cup {None}
    /\ os \in [RealHandles -> [target : Paths, seen : BOOLEAN] \cup {None}]
    /\ real \subseteq Paths
    /\ DOMAIN table.map \subseteq Handles
    /\ \A h \in DOMAIN table.map : /\ table.map[h].opened_as \in Paths \cup {None}
                                   /\ table.map[h].under_root \in Managed \cup {None}
    /\ table.opened \in 0 .. HandlePathsMax

Init ==
    /\ tree \in [Managed -> {"file", None}]
    /\ fhs = {} /\ lost = {} /\ failed = 0
    /\ synth = <<>> /\ issued = 0
    /\ os = [h \in RealHandles |->
               IF Inherited[h] = None THEN None ELSE [target |-> Inherited[h], seen |-> FALSE]]
    /\ real = Paths
    /\ table = [map |-> <<>>, opened |-> 0]
    /\ call = [t \in Threads |-> Idle]

(* HandleTable: one field set at a time, a whole record dropped at once. *)
Record(tab, h) == IF h \in DOMAIN tab.map THEN tab.map[h] ELSE NoRecord
Put(tab, h, r) == [k \in DOMAIN tab.map \cup {h} |-> IF k = h THEN r ELSE tab.map[k]]

\* Mutant: the bound on recorded names is not applied.
set_opened_as_unbounded(tab, h, p) ==
    [map |-> Put(tab, h, [Record(tab, h) EXCEPT !.opened_as = p]),
     opened |-> tab.opened + (IF Record(tab, h).opened_as = None THEN 1 ELSE 0)]

set_opened_as(tab, h, p) ==
    IF tab.opened >= HandlePathsMax THEN tab
    ELSE [map |-> Put(tab, h, [Record(tab, h) EXCEPT !.opened_as = p]),
          opened |-> tab.opened + (IF Record(tab, h).opened_as = None THEN 1 ELSE 0)]

set_under_root(tab, h, p) ==
    [tab EXCEPT !.map = Put(tab, h, [Record(tab, h) EXCEPT !.under_root = p])]

\* Mutant: dropping a record does not give back its place.
remove_uncounted(tab, h) ==
    [tab EXCEPT !.map = Restrict(tab.map, DOMAIN tab.map \ {h})]

remove(tab, h) ==
    [map |-> Restrict(tab.map, DOMAIN tab.map \ {h}),
     opened |-> tab.opened - (IF Record(tab, h).opened_as = None THEN 0 ELSE 1)]

(* What a successful open of p records: tag_under_root, record_path. *)
tag_under_root(tab, h, p) == set_opened_as(tab, h, p)
record_path(tab, h, p) == IF path_is_ours(p) THEN set_under_root(tab, h, p) ELSE tab

(* NT dispositions: which are write opens, what they ask of the director, and
   which give back an existing directory when a write open of it is refused. *)
Dispositions == {"SUPERSEDE", "OPEN", "CREATE", "OPEN_IF", "OVERWRITE", "OVERWRITE_IF"}
is_write_open(write, disp) == write \/ disp # "OPEN"
open_create_flags(disp) == [create |-> disp \notin {"OPEN", "OVERWRITE"}, excl |-> disp = "CREATE"]
dir_open_downgrades(disp) == disp \in {"OPEN", "OPEN_IF"}

(* A ring request either is answered, or fails: its deadline passed, or the provider broke. *)
Answered == UNCHANGED failed
Unanswered == failed < MaxLost /\ failed' = failed + 1

Return(t) == call' = [call EXCEPT ![t] = Idle]
Goto(t, pc) == call' = [call EXCEPT ![t].pc = pc]

(* Director::open_info as a request: the status, and for a success the object opened. *)
OpenStatus(p, flags, write) ==
    IF tree[p] = None
    THEN IF write /\ flags.create /\ RootOf[p] \in Writable THEN "created" ELSE
         IF write /\ RootOf[p] \notin Writable THEN "ST_READ_ONLY" ELSE "ST_NOT_FOUND"
    ELSE IF ~write THEN "ok"
    ELSE IF RootOf[p] \notin Writable THEN "ST_READ_ONLY"
    ELSE IF flags.excl THEN "ST_EXISTS"
    ELSE IF tree[p] = "dir" THEN "ST_IS_DIR" ELSE "ok"

FreshFh == CHOOSE f \in 1 .. Cardinality(fhs) + 1 : f \notin fhs
Opened(t, pc, fh, dir) ==
    call' = [call EXCEPT ![t] = [op |-> "open", pc |-> pc, p |-> call[t].p, doc |-> call[t].doc,
                                 fh |-> fh, dir |-> dir]]

(* NtCreateFile or NtOpenFile enters: route_open sends a directory create under
   a root to try_fuse_mkdir, any other open under one to try_fuse_create, and
   the rest to the real call.  A name that does not decode is only opened
   outside the roots here, and only two dispositions are, one that creates. *)
route_open(t) ==
    /\ call[t] = Idle
    /\ \E p \in Paths, write \in BOOLEAN, disp \in Dispositions, directory, doc, decoded \in BOOLEAN :
         /\ IF path_is_ours(p)
            THEN decoded /\ issued + Cardinality({u \in Threads : call[u].op = "open"}) < MaxSynth
            ELSE disp \in {"OPEN", "OPEN_IF"} /\ ~doc
         /\ directory => disp \in {"CREATE", "OPEN_IF"} /\ ~doc /\ ~write
         /\ call' = [call EXCEPT ![t] =
              [op |-> "open", p |-> p, write |-> is_write_open(write, disp), disp |-> disp,
               doc |-> doc, decoded |-> decoded,
               pc |-> IF ~path_is_ours(p) THEN "real" ELSE IF directory THEN "mkdir" ELSE "open"]]
    /\ UNCHANGED <<director, kernel, synth, issued, table>>

(* try_fuse_create's OP_OPEN.  A refused write open of a directory is re-issued as a read open. *)
try_fuse_create(t) ==
    LET c == call[t]
        st == OpenStatus(c.p, open_create_flags(c.disp), c.write)
        opens == st \in {"ok", "created"}
        obj == IF st = "created" THEN "file" ELSE tree[c.p]
    IN /\ c.op = "open" /\ c.pc = "open"
       /\ \/ /\ opens /\ (Answered \/ Unanswered)
             /\ tree' = [tree EXCEPT ![c.p] = obj]
             /\ fhs' = fhs \cup {FreshFh}
             /\ IF failed' = failed
                THEN Opened(t, "install", FreshFh, obj = "dir") /\ UNCHANGED lost
                ELSE lost' = lost \cup {FreshFh} /\ Return(t)
          \/ /\ (~opens /\ Answered) \/ Unanswered
             /\ IF c.write /\ dir_open_downgrades(c.disp) THEN Goto(t, "probe") ELSE Return(t)
             /\ UNCHANGED <<tree, fhs, lost>>
       /\ UNCHANGED <<kernel, synth, issued, table>>

(* The OP_GETATTR that follows a failure: is a directory there? *)
getattr(t) ==
    LET c == call[t]
    IN /\ c.op = "open" /\ c.pc \in {"probe", "probe_dir"}
       /\ CASE tree[c.p] # "dir" -> Return(t)
            [] tree[c.p] = "dir" /\ c.pc = "probe" -> Goto(t, "downgrade")
            [] tree[c.p] = "dir" /\ c.pc = "probe_dir" ->
                 IF c.disp = "CREATE" THEN Return(t) ELSE Opened(t, "install_dir", 0, TRUE)
       /\ UNCHANGED <<director, kernel, synth, issued, table>>

Downgrade(t) ==
    /\ call[t].op = "open" /\ call[t].pc = "downgrade"
    /\ IF tree[call[t].p] = None
       THEN Return(t) /\ UNCHANGED fhs
       ELSE /\ fhs' = fhs \cup {FreshFh}
            /\ Opened(t, "install", FreshFh, tree[call[t].p] = "dir")
    /\ UNCHANGED <<tree, lost, failed, kernel, synth, issued, table>>

(* try_fuse_mkdir's OP_MKDIR. *)
try_fuse_mkdir(t) ==
    LET c == call[t]
    IN /\ c.op = "open" /\ c.pc = "mkdir"
       /\ \/ /\ tree[c.p] = None /\ RootOf[c.p] \in Writable
             /\ tree' = [tree EXCEPT ![c.p] = "dir"]
             /\ Answered
             /\ Opened(t, "install_dir", 0, TRUE)
          \/ /\ ((tree[c.p] # None \/ RootOf[c.p] \notin Writable) /\ Answered) \/ Unanswered
             /\ Goto(t, "probe_dir")
             /\ UNCHANGED tree
       /\ UNCHANGED <<fhs, lost, kernel, synth, issued, table>>

(* The open succeeded: a new synthetic handle and its record, then the caller
   has the handle.  A directory try_fuse_mkdir made has fh 0 and no path of its
   own, and is never delete-on-close. *)
open_fuse_at_ex(t) ==
    LET c == call[t]
        h == issued + 1
        mkdir == c.pc = "install_dir"
        fresh == record_path(remove(table, h), h, c.p)
    IN /\ c.op = "open" /\ c.pc \in {"install", "install_dir"}
       /\ issued' = h
       /\ synth' = [k \in DOMAIN synth \cup {h} |->
                      IF k # h THEN synth[k]
                      ELSE [fh |-> c.fh, path |-> IF mkdir THEN None ELSE c.p,
                            doc |-> c.doc /\ ~mkdir, gone |-> FALSE]]
       /\ table' = IF c.dir THEN tag_under_root(fresh, h, c.p) ELSE fresh
       /\ Return(t)
       /\ UNCHANGED <<director, kernel>>

(* An open outside every root: the real call, on a handle value the OS picks. *)
RealOpen(t) ==
    LET c == call[t]
        creates == open_create_flags(c.disp).create
    IN /\ c.op = "open" /\ c.pc = "real"
       /\ \/ /\ c.p \in real \/ creates
             /\ \E h \in RealHandles :
                  /\ os[h] = None
                  /\ os' = [os EXCEPT ![h] = [target |-> c.p, seen |-> c.decoded]]
                  /\ call' = [call EXCEPT ![t] = [op |-> "open", pc |-> "record", h |-> h, p |-> c.p,
                                                   decoded |-> c.decoded]]
             /\ real' = real \cup {c.p}
          \/ Return(t) /\ UNCHANGED kernel
       /\ UNCHANGED <<director, synth, issued, table>>

\* Mutant: an open records its name over whatever the value's last use left.
reset_handle_adds(t) ==
    LET c == call[t]
    IN /\ c.op = "open" /\ c.pc = "record"
       /\ IF c.decoded
          THEN table' = record_path(tag_under_root(table, c.h, c.p), c.h, c.p)
          ELSE table' \in {remove(table, c.h), table}
       /\ Return(t)
       /\ UNCHANGED <<director, kernel, synth, issued>>

(* reset_handle, tag_under_root and record_path.  With no decoded path nothing
   is recorded and the reset is a try_lock that may lose. *)
reset_handle(t) ==
    LET c == call[t]
    IN /\ c.op = "open" /\ c.pc = "record"
       /\ IF c.decoded
          THEN table' = record_path(tag_under_root(remove(table, c.h), c.h, c.p), c.h, c.p)
          ELSE table' \in {remove(table, c.h), table}
       /\ Return(t)
       /\ UNCHANGED <<director, kernel, synth, issued>>

(* NtClose.  A synthetic handle leaves TABLE first; a real one only loses its record. *)
close_hook_body(t, h) ==
    /\ call[t] = Idle
    /\ MayUse(h) /\ Using(h) = {}
    /\ IF is_fuse_synth(h)
       THEN /\ synth' = Restrict(synth, DOMAIN synth \ {h})
            /\ call' = [call EXCEPT ![t] = [op |-> "close", pc |-> "release", h |-> h,
                                            fh |-> synth[h].fh, gone |-> synth[h].gone,
                                            p |-> IF synth[h].doc THEN synth[h].path ELSE None]]
       ELSE /\ call' = [call EXCEPT ![t] = [op |-> "close", pc |-> "forget", h |-> h, fh |-> 0,
                                            gone |-> FALSE, p |-> None]]
            /\ UNCHANGED synth
    /\ UNCHANGED <<director, kernel, issued, table>>

\* Mutant: a delete-on-close handle is deleted and its file handle left open.
ReleaseFh_deletes(t) ==
    LET c == call[t]
    IN /\ c.op = "close" /\ c.pc = "release"
       /\ Answered /\ fhs' = (IF c.p # None THEN fhs ELSE fhs \ {c.fh})
       /\ Goto(t, IF c.p # None THEN "delete" ELSE "forget")
       /\ UNCHANGED <<tree, lost, kernel, synth, issued, table>>

ReleaseFh(t) ==
    LET c == call[t]
        next == IF c.p # None THEN "delete" ELSE "forget"
    IN /\ c.op = "close" /\ c.pc = "release"
       /\ \/ Answered /\ fhs' = fhs \ {c.fh} /\ UNCHANGED lost
          \/ Unanswered /\ lost' = lost \cup ({c.fh} \ {0}) /\ UNCHANGED fhs
       /\ Goto(t, next)
       /\ UNCHANGED <<tree, kernel, synth, issued, table>>

(* OP_DELETE of p: what the director may answer, and whether p is gone then. *)
Delete(p, ok, done) ==
    /\ \/ /\ Answered /\ ok = done
          /\ IF tree[p] = None \/ RootOf[p] \notin Writable THEN ~done ELSE done \/ tree[p] = "dir"
       \/ Unanswered /\ ~ok /\ (done => RootOf[p] \in Writable)
    /\ tree' = IF done THEN [tree EXCEPT ![p] = None] ELSE tree
    /\ UNCHANGED <<fhs, lost>>

DeleteOnClose(t) ==
    /\ call[t].op = "close" /\ call[t].pc = "delete"
    /\ \E ok, done \in BOOLEAN : Delete(call[t].p, ok, done)
    /\ Goto(t, "forget")
    /\ UNCHANGED <<kernel, synth, issued, table>>

(* forget_handle's try_lock may lose; a real handle is then closed for real. *)
forget_handle(t) ==
    LET c == call[t]
    IN /\ c.op = "close" /\ c.pc = "forget"
       /\ table' \in {remove(table, c.h), table}
       /\ IF is_fuse_synth(c.h) THEN Return(t) ELSE Goto(t, "tramp")
       /\ UNCHANGED <<director, kernel, synth, issued>>

TrampClose(t) ==
    /\ call[t].op = "close" /\ call[t].pc = "tramp"
    /\ os' = [os EXCEPT ![call[t].h] = None]
    /\ Return(t)
    /\ UNCHANGED <<director, real, synth, issued, table>>

\* Mutant: a handle in no table is taken to be outside every root.
setinfo_source_path_tables(h) ==
    LET rec == Record(table, h)
    IN IF rec.under_root # None THEN rec.under_root ELSE rec.opened_as

(* What a delete, rename or link through h acts on.  A recorded name wins; for a
   handle the shim never saw opened the OS is asked. *)
setinfo_source_path(h) ==
    LET rec == Record(table, h)
    IN IF rec.under_root # None THEN rec.under_root
       ELSE IF rec.opened_as # None THEN rec.opened_as ELSE os[h].target

(* NtSetInformationFile with a delete, rename or link class.  A synthetic handle
   without a recorded name is a soft no-op, and a link through one is refused. *)
setinfo_hook_body(t, h, class, q) ==
    LET src == IF is_fuse_synth(h) THEN Record(table, h).under_root ELSE setinfo_source_path(h)
        routed == src # None /\ path_is_ours(src)
    IN /\ call[t] = Idle
       /\ MayUse(h)
       /\ is_fuse_synth(h) => src # None /\ class # "link"
       /\ class = "link" => ~routed
       /\ call' = [call EXCEPT ![t] = [op |-> "setinfo", h |-> h, class |-> class, p |-> src, q |-> q,
                                       pc |-> IF routed THEN "director" ELSE "kernel"]]
       /\ UNCHANGED <<director, kernel, synth, issued, table>>

(* director_delete_or_rename, a delete: once the director has deleted, the
   handle is no longer delete-on-close. *)
director_delete(t) ==
    LET c == call[t]
    IN /\ c.op = "setinfo" /\ c.pc = "director" /\ c.class = "delete"
       /\ \E ok, done \in BOOLEAN :
            /\ Delete(c.p, ok, done)
            /\ IF ok THEN Goto(t, "undoc") ELSE Return(t)
            /\ synth' = IF ok /\ c.h \in DOMAIN synth THEN [synth EXCEPT ![c.h].gone = TRUE] ELSE synth
       /\ UNCHANGED <<kernel, issued, table>>

\* Mutant: the delete-on-close flag outlives a delete through the handle.
set_delete_on_close_kept(t) ==
    /\ call[t].op = "setinfo" /\ call[t].pc = "undoc"
    /\ Return(t)
    /\ UNCHANGED <<director, kernel, synth, issued, table>>

set_delete_on_close(t) ==
    LET c == call[t]
    IN /\ c.op = "setinfo" /\ c.pc = "undoc"
       /\ synth' = IF c.h \in DOMAIN synth THEN [synth EXCEPT ![c.h].doc = FALSE] ELSE synth
       /\ Return(t)
       /\ UNCHANGED <<director, kernel, issued, table>>

(* A rename: OP_RENAME inside one root, OP_RENAME_X (a copy and a removal, never
   of a directory) between two, refused when the target is outside every root. *)
Moved(src, q) == [[tree EXCEPT ![src] = None] EXCEPT ![q] = tree[src]]
director_rename(t) ==
    LET c == call[t]
        across == RootOf[c.q] # RootOf[c.p]
        can == /\ path_is_ours(c.q) /\ tree[c.p] # None
               /\ {RootOf[c.p], RootOf[c.q]} \subseteq Writable
               /\ across => tree[c.p] = "file"
    IN /\ c.op = "setinfo" /\ c.pc = "director" /\ c.class = "rename"
       /\ \/ /\ can
             /\ Answered \/ Unanswered
             /\ tree' = Moved(c.p, c.q)
             /\ IF failed' = failed THEN Goto(t, "under_root") ELSE Return(t)
          \/ /\ can /\ across
             /\ Unanswered
             /\ tree' = [tree EXCEPT ![c.q] = "file"]
             /\ Return(t)
          \/ /\ (~can /\ Answered) \/ (path_is_ours(c.q) /\ Unanswered)
             /\ Return(t)
             /\ UNCHANGED tree
       /\ UNCHANGED <<fhs, lost, kernel, synth, issued, table>>

(* The handle follows the file, in HANDLES and then in TABLE. *)
RecordRename(t) ==
    /\ call[t].op = "setinfo" /\ call[t].pc = "under_root"
    /\ table' = set_under_root(table, call[t].h, call[t].q)
    /\ Goto(t, "abs_path")
    /\ UNCHANGED <<director, kernel, synth, issued>>

\* Mutant: only HANDLES follows a rename.
set_abs_path_stale(t) ==
    /\ call[t].op = "setinfo" /\ call[t].pc = "abs_path"
    /\ Return(t)
    /\ UNCHANGED <<director, kernel, synth, issued, table>>

set_abs_path(t) ==
    LET c == call[t]
    IN /\ c.op = "setinfo" /\ c.pc = "abs_path"
       /\ synth' = IF c.h \in DOMAIN synth THEN [synth EXCEPT ![c.h].path = c.q] ELSE synth
       /\ Return(t)
       /\ UNCHANGED <<director, kernel, issued, table>>

(* A real handle whose source is outside every root: the real call runs, unless
   a rename or a link would land under a root. *)
refuses(class, q) == class \in {"rename", "link"} /\ path_is_ours(q)
TrampSetInfo(t) ==
    LET c == call[t]
        target == os[c.h].target
    IN /\ c.op = "setinfo" /\ c.pc = "kernel"
       /\ IF refuses(c.class, c.q)
          THEN UNCHANGED kernel
          ELSE /\ real' = CASE c.class = "delete" -> real \ {target}
                            [] c.class = "rename" -> (real \ {target}) \cup {c.q}
                            [] OTHER -> real \cup {c.q}
               /\ os' = [os EXCEPT ![c.h].target = IF c.class = "rename" THEN c.q ELSE @]
       /\ Return(t)
       /\ UNCHANGED <<director, synth, issued, table>>

(* NtDeleteFile: by path, to the director or to the real call. *)
delete_hook_body(t, p) ==
    /\ call[t] = Idle
    /\ IF path_is_ours(p)
       THEN (\E ok, done \in BOOLEAN : Delete(p, ok, done)) /\ UNCHANGED kernel
       ELSE real' = real \ {p} /\ UNCHANGED <<director, os>>
    /\ UNCHANGED <<synth, issued, table, call>>

Next ==
    \E t \in Threads :
      \/ route_open(t) \/ try_fuse_create(t) \/ getattr(t) \/ Downgrade(t) \/ try_fuse_mkdir(t)
      \/ open_fuse_at_ex(t) \/ RealOpen(t) \/ reset_handle(t)
      \/ ReleaseFh(t) \/ DeleteOnClose(t) \/ forget_handle(t) \/ TrampClose(t)
      \/ director_delete(t) \/ set_delete_on_close(t)
      \/ director_rename(t) \/ RecordRename(t) \/ set_abs_path(t) \/ TrampSetInfo(t)
      \/ \E h \in Handles :
           \/ close_hook_body(t, h)
           \/ setinfo_hook_body(t, h, "delete", None)
           \/ \E q \in Paths : setinfo_hook_body(t, h, "rename", q) \/ setinfo_hook_body(t, h, "link", q)
      \/ \E p \in Paths : delete_hook_body(t, p)

Spec == Init /\ [][Next]_vars
-----------------------------------------------------------------------------
(* Every file handle the director has open belongs to one synthetic handle, to
   one open or close in progress, or to a request whose answer was lost: a
   close frees what its open took, whatever other calls run between. *)
HandlesAccounted ==
    LET inCalls == {call[t].fh : t \in {u \in Threads : call[u].pc \in {"install", "release"}}} \ {0}
        inTable == {synth[h].fh : h \in DOMAIN synth} \ {0}
    IN /\ fhs = lost \cup inCalls \cup inTable
       /\ \A h, k \in DOMAIN synth : h # k => synth[h].fh = 0 \/ synth[h].fh # synth[k].fh
       /\ inCalls \cap inTable = {} /\ lost \cap inTable = {}

(* A file already deleted through a handle is not deleted again when that handle
   closes, so a file created at the name since then survives the close. *)
NoSecondDelete ==
    \A t \in Threads : call[t].op = "close" /\ call[t].gone => call[t].p = None

(* HANDLES and TABLE name a director-served handle by the same path, so that
   what a set-info through it acts on is what its close and its name queries
   use, except while a rename through it is under way. *)
NamesAgree ==
    \A h \in DOMAIN synth :
        synth[h].path # None =>
            \/ Record(table, h).under_root = synth[h].path
            \/ \E t \in Using(h) : call[t].pc = "abs_path" /\ call[t].q = Record(table, h).under_root

SealedRootsStep ==
    (real' \cap Managed) = (real \cap Managed)

(* No call changes what the real filesystem holds under a managed root. *)
SealedRoots == [][SealedRootsStep]_vars

(* A real handle the shim saw opened outside every root is recorded under its
   own name and never under a root, however its value was used before. *)
RecordsOwn ==
    \A h \in RealHandles :
        os[h] # None /\ os[h].seen /\ ~Opening(h) =>
            /\ Record(table, h).under_root = None
            /\ Using(h) = {} /\ HandlePathsMax > Cardinality(Handles) => Record(table, h).opened_as # None

(* The count that bounds HANDLES' recorded names is exact, so the bound neither
   leaks away nor is overrun. *)
OpenedCountExact ==
    /\ table.opened = Cardinality({h \in DOMAIN table.map : table.map[h].opened_as # None})
    /\ table.opened <= HandlePathsMax
=============================================================================
