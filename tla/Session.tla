------------------------------- MODULE Session -------------------------------
(***************************************************************************)
(* The host session: the composition of its roots, and the images it       *)
(* stages for a launch. Each section is a state machine of its own; they   *)
(* share no state.                                                         *)
(***************************************************************************)
EXTENDS Integers, Sequences, FiniteSets

CONSTANTS
    \* compose
    Threads,
    Roots,   \* ids, as numbers
    Mounts,   \* what is mounted
    Sequential,   \* those of them that declare SeqRead
    BadPrefix,   \* those whose prefix does not normalise
    MaxMounts,
    MaxCalls,
    Locations,   \* the placings of the roots tried: [Roots -> Seq(names)]
    OnDisk,   \* the directories that exist, as sequences of names
    \* staging
    Dirs, Names,   \* directories of the root, names of files
    Top,   \* the root's own directory, always there
    Shim,   \* SHIM_IMPORT_DLL
    Served,   \* the paths the provider graph holds
    NotPE,   \* names whose bytes are not a PE image
    Unpatchable,   \* EXEs add_first_import refuses
    Imports,   \* [Names -> SUBSET Names], the import tables
    System,   \* is_system_import_dll
    Proxies,   \* PROXY_DLL_NAMES \ KNOWN_DLLS
    Fallback,   \* names found in fallback_dirs
    MAX_STAGED_FILES,
    Theirs,   \* paths where the caller has a file of its own
    Launches,   \* pairs of an image and the images staged with it
    Programs,   \* paths the launched program may start
    Workers,   \* director threads
    MaxLaunches, MaxFaults,
    None

VARIABLES
    \* compose
    roots,   \* [Roots -> the session's composition, or None]
    kernel,   \* [Roots -> what the director serves, or None]
    call,   \* [Threads -> the call being made, or None]
    location,   \* where each root is
    hidden,   \* the hidden roots of the last launch: [location -> chains]
    calls,
    \* staging
    disk,   \* [Paths -> {"none", "theirs", "staged"}]
    dirs,   \* directories that exist
    job,   \* per thread, the staging under way
    staged,   \* Session.staged
    held,   \* WindowsSession.exec_staged
    phase,   \* of the launch: "idle", "staging", "resolved", "running"
    started,   \* images handed out to CreateProcess by this launch
    launches, faults

(***************************************************************************)
(* How a session's roots become what the director serves (vfs-embed's      *)
(* session/compose.rs, and prepare_locations of session/windows).  A call  *)
(* records its part of a root's composition under the session's lock,      *)
(* reads the whole of it back under the lock again, and then gives the     *)
(* composed provider to the director, under the director's own lock.       *)
(*                                                                         *)
(* A composed provider is the composition it was made from, its mounts     *)
(* lowest first; Direct is a provider something else mounted.              *)
(***************************************************************************)
composeVars == <<roots, kernel, call, location, hidden, calls>>

Empty == [stubs |-> {}, staging |-> FALSE, mounts |-> <<>>, write |-> FALSE]
Direct == [Empty EXCEPT !.mounts = <<"direct">>]

ComposeInit ==
    /\ roots = [r \in Roots |-> None]
    /\ kernel = [r \in Roots |-> None]
    /\ call = [t \in Threads |-> None]
    /\ location \in Locations
    /\ hidden = [l \in {} |-> {}]
    /\ calls = 0

\* A rejected call returns at once, or after its record was made.
Enter == calls < MaxCalls /\ calls' = calls + 1
Elsewhere == UNCHANGED <<location, hidden>>

\* claim: a root the session never composed and the director serves is not ours.
claimable(r) == roots[r] # None \/ kernel[r] = None
Claimed(r) == IF roots[r] = None THEN Empty ELSE roots[r]

\* The record a call makes, before it recomposes.
record(t, r, c, todo) ==
    /\ call[t] = None /\ Enter /\ claimable(r)
    /\ roots' = [roots EXCEPT ![r] = c]
    /\ call' = [call EXCEPT ![t] = [at |-> "recompose", root |-> r, was |-> roots[r],
                                    got |-> None, todo |-> todo]]
    /\ UNCHANGED kernel /\ Elsewhere

\* reject_sequential and claim refuse before anything is recorded.
mount_at(t, r, m) ==
    /\ m \notin Sequential /\ Len(Claimed(r).mounts) < MaxMounts
    /\ record(t, r, [Claimed(r) EXCEPT !.mounts = Append(@, m)], {})

set_root_mounts(t, r, ms) ==
    /\ \A i \in DOMAIN ms : ms[i] \notin Sequential
    /\ record(t, r, [Claimed(r) EXCEPT !.mounts = ms], {})

set_write_layer_at(t, r) == record(t, r, [Claimed(r) EXCEPT !.write = TRUE], {})

\* stage_launch's part of the composition, on root 0.
stage_launch(t, r) == record(t, r, [Claimed(r) EXCEPT !.staging = TRUE], {})

(***************************************************************************)
(* recompose: a copy of the composition, and then compose_root, which      *)
(* MountGraph::new refuses when a prefix does not normalise.               *)
(***************************************************************************)
recompose(t) ==
    LET c == call[t] IN
    /\ c # None /\ c.at = "recompose"
    /\ call' = [call EXCEPT ![t] = [c EXCEPT !.at = "mount", !.got = Claimed(c.root)]]
    /\ UNCHANGED <<roots, kernel, calls>> /\ Elsewhere

Composes(c) == \A i \in DOMAIN c.mounts : c.mounts[i] \notin BadPrefix

kernel_mount(t) ==
    LET c == call[t] IN
    /\ c # None /\ c.at = "mount" /\ Composes(c.got)
    /\ kernel' = [kernel EXCEPT ![c.root] = c.got]
    /\ call' = [call EXCEPT ![t] = IF c.todo = {} THEN None ELSE [c EXCEPT !.at = "stubs"]]
    /\ UNCHANGED <<roots, calls>> /\ Elsewhere

compose_fails(t) ==
    LET c == call[t] IN
    /\ c # None /\ c.at = "mount" /\ ~Composes(c.got)
    /\ call' = [call EXCEPT ![t] = [c EXCEPT !.at = "failed"]]
    /\ UNCHANGED <<roots, kernel, calls>> /\ Elsewhere

return_error(t) ==
    /\ call[t] # None /\ call[t].at = "failed"
    /\ call' = [call EXCEPT ![t] = None]
    /\ UNCHANGED <<roots, kernel, calls>> /\ Elsewhere

\* clear_root: forget the composition, then stop serving the root.
clear_root(t, r) ==
    /\ call[t] = None /\ Enter
    /\ roots' = [roots EXCEPT ![r] = None]
    /\ call' = [call EXCEPT ![t] = [at |-> "unmount", root |-> r, was |-> None,
                                    got |-> None, todo |-> {}]]
    /\ UNCHANGED kernel /\ Elsewhere

unmount(t) ==
    /\ call[t] # None /\ call[t].at = "unmount"
    /\ kernel' = [kernel EXCEPT ![call[t].root] = None]
    /\ call' = [call EXCEPT ![t] = None]
    /\ UNCHANGED <<roots, calls>> /\ Elsewhere

\* A host that composes a root of its own gives it to the director itself.
direct_mount(t, r) ==
    /\ call[t] = None /\ Enter /\ kernel[r] = None /\ roots[r] = None
    /\ kernel' = [kernel EXCEPT ![r] = Direct]
    /\ UNCHANGED <<roots, call>> /\ Elsewhere

(***************************************************************************)
(* prepare_locations.  A root inside another's location is listed by the   *)
(* most specific such root as a chain of folders; for the others, the      *)
(* outermost ancestor that is not on disk becomes a hidden root serving    *)
(* the chains below it.                                                    *)
(***************************************************************************)
Proper(p, q) == Len(p) < Len(q) /\ SubSeq(q, 1, Len(p)) = p
Around(r) == {s \in Roots : Proper(location[s], location[r])}
parent_of(r) == CHOOSE s \in Around(r) : \A u \in Around(r) : Len(location[u]) <= Len(location[s])
From(p, n) == SubSeq(p, n + 1, Len(p))
Chains(r) ==
    {From(location[s], Len(location[r])) : s \in {u \in Roots : Around(u) # {} /\ parent_of(u) = r}}

Missing(r) == {n \in 2..(Len(location[r]) - 1) : SubSeq(location[r], 1, n) \notin OnDisk}
Outermost(r) == CHOOSE n \in Missing(r) : \A m \in Missing(r) : n <= m
Bare == {r \in Roots : Around(r) = {} /\ Missing(r) # {}}
Hidden ==
    [a \in {SubSeq(location[r], 1, Outermost(r)) : r \in Bare} |->
        {From(location[r], Len(a)) : r \in {u \in Bare : SubSeq(location[u], 1, Outermost(u)) = a}}]

\* The chains root by root, and the hidden roots at the end.
NeedsStubs == {r \in Roots : Chains(r) # {} \/ (roots[r] # None /\ roots[r].stubs # {})}
prepare_locations(t) ==
    /\ call[t] = None /\ Enter
    /\ call' = [call EXCEPT ![t] = [at |-> "stubs", root |-> 0, was |-> None,
                                    got |-> None, todo |-> Roots]]
    /\ UNCHANGED <<roots, kernel>> /\ Elsewhere

prepare_root(t) ==
    LET c == call[t]
        r == CHOOSE s \in c.todo : \A u \in c.todo : s <= u
    IN  /\ c # None /\ c.at = "stubs" /\ c.todo # {}
        /\ IF r \notin NeedsStubs
           THEN /\ call' = [call EXCEPT ![t].todo = @ \ {r}]
                /\ UNCHANGED roots
           ELSE IF ~claimable(r)
           THEN /\ call' = [call EXCEPT ![t] = None]
                /\ UNCHANGED roots
           ELSE /\ roots' = [roots EXCEPT ![r] = [Claimed(r) EXCEPT !.stubs = Chains(r)]]
                /\ call' = [call EXCEPT ![t] = [c EXCEPT !.at = "recompose", !.root = r,
                                                  !.was = roots[r], !.todo = @ \ {r}]]
        /\ UNCHANGED <<kernel, calls>> /\ Elsewhere

mount_hidden(t) ==
    /\ call[t] # None /\ call[t].at = "stubs" /\ call[t].todo = {}
    /\ hidden' = Hidden
    /\ call' = [call EXCEPT ![t] = None]
    /\ UNCHANGED <<roots, kernel, calls, location>>

ComposeNext ==
    \E t \in Threads :
        \/ \E r \in Roots :
              \/ \E m \in Mounts : mount_at(t, r, m)
              \/ \E m, n \in Mounts : set_root_mounts(t, r, <<m, n>>)
              \/ set_write_layer_at(t, r) \/ clear_root(t, r) \/ direct_mount(t, r)
        \/ stage_launch(t, 0)
        \/ recompose(t) \/ kernel_mount(t) \/ compose_fails(t) \/ return_error(t)
        \/ unmount(t) \/ prepare_locations(t) \/ prepare_root(t) \/ mount_hidden(t)

ComposeSpec == ComposeInit /\ [][ComposeNext]_composeVars

-----------------------------------------------------------------------------
\* Every variable keeps its type.
ComposeTypeOK ==
    /\ \A r \in Roots : roots[r] # None => roots[r].mounts \in Seq(Mounts)
    /\ DOMAIN kernel = Roots
    /\ \A t \in Threads : call[t] # None => call[t].todo \subseteq Roots

\* Between calls the director serves each root the session composes as the
\* session has it: no mount, write layer or stub is recorded and not served.
ServedIsComposed ==
    (\A t \in Threads : call[t] = None) =>
        \A r \in Roots : roots[r] # None => kernel[r] = roots[r]

\* A root something else mounted on the director is never replaced by the
\* session, which would rebuild it from its own, empty, inputs.
DirectKeptStep ==
    \A r \in Roots : kernel[r] = Direct => kernel'[r] \in {Direct, None}
DirectKept == [][DirectKeptStep]_composeVars

\* A call that is rejected leaves the session as it was.
RejectedLeavesNoTrace ==
    \A t \in Threads :
        call[t] # None /\ call[t].at = "failed" => roots[call[t].root] = call[t].was

\* After a launch every folder between a root's location and the root around it
\* is listed by that root, and every one above a location inside no root is on
\* disk or listed by a hidden root.
Reachable(r) ==
    LET above == {SubSeq(location[r], 1, n) : n \in 2..(Len(location[r]) - 1)}
        Lists(chains, at, a) == \E ch \in chains : Proper(From(a, Len(at)), ch)
    IN  IF Around(r) # {}
        THEN LET p == parent_of(r) IN
             \A a \in above : Proper(location[p], a) => Lists(kernel[p].stubs, location[p], a)
        ELSE \A a \in above : \/ a \in OnDisk \/ a \in DOMAIN hidden
                              \/ \E h \in DOMAIN hidden : Proper(h, a) /\ Lists(hidden[h], h, a)
LocationsReachableStep ==
    \A t \in Threads :
        call[t] # None /\ call'[t] = None /\ call[t].at = "stubs" /\ call[t].todo = {}
        => \A r \in Roots : Reachable(r)'
LocationsReachable == [][LocationsReachableStep]_composeVars

(***************************************************************************)
(* Putting a program of the VFS on real disk (vfs-director's stage.rs):    *)
(* the image, the shim beside it, the proxy DLLs and the static imports,   *)
(* written into the root's backing directory, which the caller owns.       *)
(* Session::stage_launch does so for the launched program and holds the    *)
(* StagedDir in `staged`; the exec stager (windows/mod.rs) does so for     *)
(* programs that one starts, on the director's threads, and holds theirs   *)
(* in `held`.  Dropping a StagedDir deletes what it wrote.                 *)
(*                                                                         *)
(* A path is a pair of a directory and a name.  Contents are abstracted to *)
(* who wrote them.                                                         *)
(***************************************************************************)
Paths == Dirs \X Names
Host == "host"
StagingThreads == Workers \cup {Host}

stagingVars == <<disk, dirs, job, staged, held, phase, started, launches, faults>>

StagingInit ==
    /\ disk = [p \in Paths |-> IF p \in Theirs THEN "theirs" ELSE "none"]
    /\ dirs = {Top} \cup {p[1] : p \in Theirs}
    /\ job = [t \in StagingThreads |-> None]
    /\ staged = None /\ held = {}
    /\ phase = "idle" /\ started = {} /\ launches = 0 /\ faults = 0

StagingOnDisk(p) == disk[p] # "none"

\* A StagedDir with nothing in it yet, and the images still to be added.
new_staged_dir(exe, also) ==
    [exe |-> exe, images |-> <<exe>> \o also, seen |-> {}, todo |-> {},
     files |-> {}, created |-> {}]

(***************************************************************************)
(* The names one image adds: proxies beside it in the VFS, then every      *)
(* import, and theirs, that is not a system DLL and is found beside the    *)
(* image, at the root or in a fallback directory.  A name seen before, for *)
(* whichever image, is not looked at again.                                *)
(***************************************************************************)
ProxiesOf(d, seen) ==
    {n \in (Proxies \ seen) \ NotPE : <<d, n>> \in Served}

Found(d, n) ==
    /\ n \notin NotPE
    /\ <<d, n>> \in Served \/ <<Top, n>> \in Served \/ n \in Fallback

import_walk(d, from, seen) ==
    LET Closed(S) == \A n \in S \cup from : \A i \in Imports[n] :
                        i \in System \cup seen \/ ~Found(d, i) \/ i \in S
    IN  CHOOSE S \in SUBSET Names :
          /\ Closed(S) /\ \A R \in SUBSET S : Closed(R) => R = S

(***************************************************************************)
(* StagedDir::cleanup, for every one of `gone`: the files it wrote, and    *)
(* the directories it made that are then empty.                            *)
(***************************************************************************)
cleanup(gone) ==
    LET files == UNION {s.files : s \in gone}
        after == [p \in Paths |-> IF p \in files THEN "none" ELSE disk[p]]
    IN  /\ disk' = after
        /\ dirs' = {d \in dirs : d \in UNION {s.created : s \in gone} =>
                        \E n \in Names : after[<<d, n>>] # "none"}

(***************************************************************************)
(* stage_into up to the deferred writes.  The directory is made, the image *)
(* is written unless something is there already, and a patched EXE gets    *)
(* the shim beside it, written over whatever has its name.                 *)
(***************************************************************************)
stage_into(t) ==
    LET j == job[t]
        p == Head(j.images)
        d == p[1]
        patched == p[2] \notin Unpatchable
        wrote == (IF StagingOnDisk(p) THEN {} ELSE {p})
                   \cup (IF patched /\ ~StagingOnDisk(<<d, Shim>>) THEN {<<d, Shim>>} ELSE {})
        seen == j.seen \cup {p[2]}
        extra == ProxiesOf(d, seen)
        walked == import_walk(d, {p[2]} \cup extra, seen \cup extra)
        fits == Cardinality(seen \cup extra \cup walked) <= MAX_STAGED_FILES
    IN  /\ j # None /\ j.images # <<>> /\ j.todo = {}
        /\ p \in Served /\ p[2] \notin NotPE /\ fits
        /\ dirs' = dirs \cup {d}
        /\ disk' = [q \in Paths |-> IF q \in wrote THEN "staged" ELSE disk[q]]
        /\ job' = [job EXCEPT ![t] =
              [@ EXCEPT !.images = Tail(@), !.seen = seen \cup extra \cup walked,
                        !.todo = {<<d, n>> : n \in extra \cup walked},
                        !.files = @ \cup wrote,
                        !.created = IF d \in dirs THEN @ ELSE @ \cup {d}]]
        /\ UNCHANGED <<staged, held, phase, started, launches, faults>>

\* write_staged for one of the collected files: what is there is left alone.
write_staged(t) ==
    \E q \in job[t].todo :
        /\ job' = [job EXCEPT ![t].todo = @ \ {q},
                              ![t].files = IF StagingOnDisk(q) THEN @ ELSE @ \cup {q}]
        /\ disk' = [disk EXCEPT ![q] = IF StagingOnDisk(q) THEN @ ELSE "staged"]
        /\ UNCHANGED <<dirs, staged, held, phase, started, launches, faults>>

(***************************************************************************)
(* Any error of a staging (no such image, not a PE, too many imports, a    *)
(* write that fails) drops its StagedDir.                                  *)
(***************************************************************************)
Failing(t) ==
    LET j == job[t] IN
    \/ /\ faults < MaxFaults /\ faults' = faults + 1
    \/ /\ j.images # <<>> /\ j.todo = {} /\ UNCHANGED faults
       /\ LET p == Head(j.images)
              extra == ProxiesOf(p[1], j.seen \cup {p[2]})
              walked == import_walk(p[1], {p[2]} \cup extra, j.seen \cup {p[2]} \cup extra)
          IN  \/ p \notin Served \/ p[2] \in NotPE
              \/ Cardinality(j.seen \cup {p[2]} \cup extra \cup walked) > MAX_STAGED_FILES

stage_fails(t) ==
    /\ job[t] # None /\ Failing(t)
    /\ cleanup({job[t]})
    /\ job' = [job EXCEPT ![t] = None]
    /\ phase' = IF t = Host THEN "idle" ELSE phase
    /\ UNCHANGED <<staged, held, started, launches>>

Written(t) == job[t] # None /\ job[t].images = <<>> /\ job[t].todo = {}

(***************************************************************************)
(* The end of Session::stage_launch: the directory is mounted back below   *)
(* the root's mounts (a failure there is one of stage_fails) and the new   *)
(* StagedDir takes the place of the last one, which is dropped.            *)
(***************************************************************************)
staging_stage_launch ==
    /\ phase = "staging" /\ Written(Host)
    /\ cleanup(IF staged = None THEN {} ELSE {staged})
    /\ staged' = job[Host]
    /\ job' = [job EXCEPT ![Host] = None]
    /\ phase' = "resolved" /\ started' = {job[Host].exe}
    /\ UNCHANGED <<held, launches, faults>>

(***************************************************************************)
(* resolve_launch_image: a file in the backing directory is used as it is, *)
(* an image only the graph holds is staged, anything else is refused.      *)
(***************************************************************************)
launch ==
    \E l \in Launches :
        /\ phase = "idle" /\ launches < MaxLaunches
        /\ \A w \in Workers : job[w] = None
        /\ launches' = launches + 1
        /\ IF StagingOnDisk(l[1])
           THEN phase' = "resolved" /\ started' = {l[1]} /\ UNCHANGED job
           ELSE /\ phase' = IF l[1] \in Served THEN "staging" ELSE "idle"
                /\ job' = IF l[1] \in Served
                          THEN [job EXCEPT ![Host] = new_staged_dir(l[1], l[2])]
                          ELSE job
                /\ started' = {}
        /\ UNCHANGED <<disk, dirs, staged, held, faults>>

\* arm_exec_stager drops what the last launch's programs had staged; then the
\* program is created.
arm_exec_stager ==
    /\ phase = "resolved" /\ phase' = "running"
    /\ cleanup(held) /\ held' = {}
    /\ UNCHANGED <<job, staged, started, launches, faults>>

\* The stager's call: a file already there is used as it is.
exec(w) ==
    \E p \in Programs :
        /\ phase = "running" /\ job[w] = None
        /\ IF StagingOnDisk(p) THEN started' = started \cup {p} /\ UNCHANGED job
           ELSE UNCHANGED started /\ job' = [job EXCEPT ![w] = new_staged_dir(p, <<>>)]
        /\ UNCHANGED <<disk, dirs, staged, held, phase, launches, faults>>

exec_staged(w) ==
    /\ Written(w)
    /\ held' = held \cup {job[w]}
    /\ started' = started \cup {job[w].exe}
    /\ job' = [job EXCEPT ![w] = None]
    /\ UNCHANGED <<disk, dirs, staged, phase, launches, faults>>

\* The launched program and what it started have exited.
exit ==
    /\ phase = "running" /\ \A w \in Workers : job[w] = None
    /\ phase' = "idle" /\ started' = {}
    /\ UNCHANGED <<disk, dirs, job, staged, held, launches, faults>>

\* The session is dropped, and both holders of StagedDirs with it.
drop_session ==
    /\ phase = "idle" /\ launches = MaxLaunches
    /\ staged # None \/ held # {}
    /\ cleanup(held \cup (IF staged = None THEN {} ELSE {staged}))
    /\ staged' = None /\ held' = {}
    /\ UNCHANGED <<job, phase, started, launches, faults>>

StagingNext ==
    \/ \E t \in StagingThreads : stage_into(t) \/ stage_fails(t)
    \/ \E t \in StagingThreads : job[t] # None /\ write_staged(t)
    \/ staging_stage_launch \/ launch \/ arm_exec_stager \/ exit \/ drop_session
    \/ \E w \in Workers : exec(w) \/ exec_staged(w)

StagingSpec == StagingInit /\ [][StagingNext]_stagingVars

-----------------------------------------------------------------------------
\* Every variable keeps its type.
StagingTypeOK ==
    /\ disk \in [Paths -> {"none", "theirs", "staged"}]
    /\ dirs \subseteq Dirs /\ Top \in dirs
    /\ started \subseteq Paths
    /\ phase \in {"idle", "staging", "resolved", "running"}
    /\ launches \in 0..MaxLaunches /\ faults \in 0..MaxFaults

(***************************************************************************)
(* Staging never removes or replaces a file of the caller's: neither one   *)
(* it found while staging nor one a failed staging cleans up after, nor    *)
(* the caller's copy of the shim, which is overwritten and kept.           *)
(***************************************************************************)
TheirFilesKept ==
    /\ \A p \in Theirs : disk[p] = "theirs"
    /\ {p[1] : p \in Theirs} \subseteq dirs

\* What the loader resolves for an image before the shim exists: itself, the
\* proxies and the imports the VFS holds beside it.
Closure(p) ==
    LET extra == ProxiesOf(p[1], {p[2]})
    IN  {p[2]} \cup extra \cup import_walk(p[1], {p[2]} \cup extra, {p[2]} \cup extra)

(***************************************************************************)
(* A staged image that was handed out to be started has its whole import   *)
(* closure on disk beside it, and the shim it imports, for as long as the  *)
(* launch runs, whatever other stagings wrote, skipped or cleaned up.      *)
(***************************************************************************)
ImportsOnDisk ==
    phase = "running" =>
        \A p \in started :
            /\ StagingOnDisk(p)
            /\ disk[p] = "staged" =>
                 /\ \A n \in Closure(p) : StagingOnDisk(<<p[1], n>>)
                 /\ p[2] \notin Unpatchable => StagingOnDisk(<<p[1], Shim>>)

(***************************************************************************)
(* Every staged file has a StagedDir that will delete it: nothing staged   *)
(* outlives the session, and no two drops fight over one file.             *)
(***************************************************************************)
Holders == held \cup ({staged} \ {None}) \cup ({job[t] : t \in StagingThreads} \ {None})

StagedOwned ==
    /\ {p \in Paths : disk[p] = "staged"} = UNION {s.files : s \in Holders}
    /\ \A r, s \in Holders : r # s => r.files \cap s.files = {}
==============================================================================
