------------------------------- MODULE Launch --------------------------------
(***************************************************************************)
(* Launches: a session's, and the processes of one. Each section is a      *)
(* state machine of its own; they share no state.                          *)
(***************************************************************************)
EXTENDS Integers, Sequences, FiniteSets

CONSTANTS
    \* session
    Threads, Stoppers,   \* host threads that launch, and that stop
    Proton,   \* the target: Proton (TRUE) or Windows
    MaxLaunches,   \* bound
    \* tree
    Procs,   \* the processes a launch may come to hold
    First,   \* the launched target
    None

VARIABLES
    \* session
    starting, stop_pending, detached, waiting, latest,   \* ProtonState, WindowsState
    staged,   \* whose image the session's staged directory holds
    lock,   \* the prefix lock: the launch that holds it
    ring,   \* the session serves
    launches,   \* every launch made: its processes, StopInner's flags, its handle
    pc,   \* each thread: [at, kind, id, image]; `saw`: the thread a stop found starting
    \* tree
    st,   \* [Procs -> what the process is doing]
    shim,   \* [Procs -> how far its shim has come]
    job,   \* [Procs -> whether it is in the launch's job]
    parent,   \* [Procs -> the process that made it]
    want,   \* [Procs -> whether its creator asked for it suspended]
    said,   \* [Procs -> the shim's verdict: the ready file or the event]
    turned,   \* how the images the plan refused were named
    tree   \* the host's ProcessTree: "none", "job", "alone", "ended", "dropped"

(***************************************************************************)
(* A session's launches (vfs-embed session/): one at a time, started by    *)
(* any thread that shares the session, stopped by any other, waited for,   *)
(* held by the session or kept by the caller.  On Proton a launch is what  *)
(* runs in the session's Wine prefix, which its lock guards, and stopping  *)
(* it kills everything in the prefix; on Windows it is a job of its own.   *)
(* A handle's `ended` flag is written under the mutex a stop holds while   *)
(* it kills, so both are one step.                                         *)
(***************************************************************************)
state == <<starting, stop_pending, detached, waiting, latest>>
sessionVars == <<state, staged, lock, ring, launches, pc>>

Ids == 1 .. MaxLaunches
NoLaunch == [alive |-> FALSE, requested |-> FALSE, ended |-> FALSE, killed |-> FALSE,
             staged |-> FALSE, handle |-> FALSE, made |-> FALSE]
Idle == [at |-> "idle", kind |-> None, id |-> None, image |-> "real", saw |-> None]

SessionInit ==
    /\ starting = FALSE /\ stop_pending = FALSE
    /\ detached = None /\ waiting = None /\ latest = None
    /\ staged = None /\ lock = None /\ ring = TRUE
    /\ launches = [i \in Ids |-> NoLaunch]
    /\ pc = [t \in Threads \cup Stoppers |-> Idle]

Go(t, at) == pc' = [pc EXCEPT ![t].at = at]
Unmade == {i \in Ids : ~launches[i].made}

(***************************************************************************)
(* Handles                                                                 *)
(***************************************************************************)
\* Mutant: a stopper kept past its launch still kills.
Killed_late(i, L) ==
    [j \in Ids |-> IF (IF Proton THEN L[j].alive ELSE j = i)
                   THEN [L[j] EXCEPT !.alive = FALSE, !.killed = L[j].alive, !.requested = @ \/ j = i]
                   ELSE IF j = i THEN [L[j] EXCEPT !.requested = TRUE] ELSE L[j]]

\* LaunchStopper::stop: nothing once the launch has ended; else everything in the prefix, or in the
\* job, is killed.
Killed(i, L) ==
    IF L[i].ended THEN L
    ELSE [j \in Ids |-> IF (IF Proton THEN L[j].alive ELSE j = i)
                        THEN [L[j] EXCEPT !.alive = FALSE, !.killed = L[j].alive, !.requested = @ \/ j = i]
                        ELSE IF j = i THEN [L[j] EXCEPT !.requested = TRUE] ELSE L[j]]

\* Mutant: a handle dropped by its caller leaves the program running.
Dropped_leaves(i, L) == [L EXCEPT ![i].ended = TRUE, ![i].handle = FALSE]

\* conclude, and Drop of a handle: a launch still running is stopped first; ended is set before the
\* prefix lock goes.
Dropped(i, L) == [(IF L[i].alive THEN Killed(i, L) ELSE L) EXCEPT ![i].ended = TRUE, ![i].handle = FALSE]
Unlocked(i) == IF lock = i THEN None ELSE lock

latest_running == IF latest # None /\ ~launches[latest].ended /\ launches[latest].handle THEN latest ELSE None

(***************************************************************************)
(* Starting                                                                *)
(***************************************************************************)
\* A thread calls launch, waited for or not, or launch_detached and keeps the handle.
call(t) ==
    /\ ring /\ pc[t].at = "idle" /\ Unmade # {}
    /\ \E kind \in {"wait", "hold", "keep"} :
         pc' = [u \in DOMAIN pc |-> IF u = t THEN [Idle EXCEPT !.at = "reap", !.kind = kind]
                                   ELSE IF pc[u].saw = t THEN [pc[u] EXCEPT !.saw = None] ELSE pc[u]]
    /\ UNCHANGED <<state, staged, lock, ring, launches>>

\* Mutant: the last launch's staged files are replaced before it is known that none runs.
reap_detached_stages(t) ==
    /\ pc[t].at = "reap" /\ Go(t, "detached?")
    /\ IF detached # None /\ ~launches[detached].alive
       THEN /\ launches' = Dropped(detached, launches) /\ lock' = Unlocked(detached)
            /\ detached' = None
       ELSE UNCHANGED <<launches, lock, detached>>
    /\ staged' = None
    /\ UNCHANGED <<starting, stop_pending, waiting, latest, ring>>

\* A held launch that has ended is let go of.
reap_detached(t) ==
    /\ pc[t].at = "reap" /\ Go(t, "detached?")
    /\ IF detached # None /\ ~launches[detached].alive
       THEN /\ launches' = Dropped(detached, launches) /\ lock' = Unlocked(detached)
            /\ detached' = None
       ELSE UNCHANGED <<launches, lock, detached>>
    /\ UNCHANGED <<starting, stop_pending, waiting, latest, staged, ring>>

\* Mutant: a launch whose handle the caller kept is not looked for.
begin_launch_slots(t) ==
    /\ \/ pc[t].at = "detached?" /\ Go(t, IF detached # None THEN "idle" ELSE "waiting?") /\ UNCHANGED starting
       \/ pc[t].at = "waiting?" /\ Go(t, IF waiting # None THEN "idle" ELSE "swap") /\ UNCHANGED starting
       \/ pc[t].at = "swap" /\ Go(t, IF starting THEN "idle" ELSE "resolve") /\ starting' = TRUE
    /\ UNCHANGED <<stop_pending, detached, waiting, latest, staged, lock, ring, launches>>

\* Refused while one is held, waited for or known to run, or being started.
begin_launch(t) ==
    /\ \/ pc[t].at = "detached?" /\ Go(t, IF detached # None THEN "idle" ELSE "waiting?") /\ UNCHANGED starting
       \/ pc[t].at = "waiting?" /\ Go(t, IF Proton /\ waiting # None THEN "idle" ELSE "latest?") /\ UNCHANGED starting
       \/ pc[t].at = "latest?" /\ Go(t, IF latest_running # None THEN "idle" ELSE "swap") /\ UNCHANGED starting
       \/ pc[t].at = "swap" /\ Go(t, IF starting THEN "idle" ELSE "resolve") /\ starting' = TRUE
    /\ UNCHANGED <<stop_pending, detached, waiting, latest, staged, lock, ring, launches>>

\* StartingGuard: two stores, in this order, on every way out.
GuardDrop(t) ==
    /\ \/ pc[t].at = "guard" /\ starting' = FALSE /\ Go(t, "guard2") /\ UNCHANGED stop_pending
       \/ /\ pc[t].at = "guard2" /\ stop_pending' = FALSE /\ UNCHANGED starting
          /\ pc' = [pc EXCEPT ![t] = IF @.id = None THEN Idle ELSE [@ EXCEPT !.at = "started"]]
    /\ UNCHANGED <<detached, waiting, latest, staged, lock, ring, launches>>

\* The image is a real file, or is staged in the place of the last one, or is refused.
resolve_launch_image(t) ==
    /\ pc[t].at = "resolve"
    /\ \/ Go(t, "guard") /\ UNCHANGED staged
       \/ Go(t, "prefix") /\ UNCHANGED staged
       \/ pc' = [pc EXCEPT ![t].at = "prefix", ![t].image = "staged"] /\ staged' = None
    /\ UNCHANGED <<state, lock, ring, launches>>

\* Proton: the prefix is locked and set up; a prefix in use refuses the launch.
ensure_prefix(t) ==
    /\ pc[t].at = "prefix"
    /\ Go(t, IF Proton /\ lock # None THEN "guard" ELSE "spawn")
    /\ lock' = IF Proton /\ lock = None THEN t ELSE lock
    /\ UNCHANGED <<state, staged, ring, launches>>

\* The program is started, or is not.
spawn(t) ==
    /\ pc[t].at = "spawn"
    /\ \/ /\ Go(t, "guard") /\ lock' = Unlocked(t)
          /\ UNCHANGED <<launches, staged>>
       \/ \E i \in Unmade :
            /\ \A j \in Unmade : i <= j
            /\ launches' = [launches EXCEPT ![i] = [NoLaunch EXCEPT !.made = TRUE, !.alive = TRUE, !.handle = TRUE,
                                                                  !.staged = (pc[t].image = "staged")]]
            /\ pc' = [pc EXCEPT ![t].at = "latest", ![t].id = i]
            /\ staged' = IF pc[t].image = "staged" THEN i ELSE staged
            /\ lock' = IF Proton THEN i ELSE lock
    /\ UNCHANGED <<state, ring>>

\* The launch is recorded, and only then a stop that came while it started is honoured.
launch_detached(t) ==
    LET i == pc[t].id
    IN /\ \/ /\ pc[t].at = "latest" /\ latest' = i /\ Go(t, "pending")
             /\ UNCHANGED <<stop_pending, launches, lock>>
          \/ /\ pc[t].at = "pending" /\ stop_pending' = FALSE /\ UNCHANGED latest
             /\ IF stop_pending
                THEN /\ launches' = Dropped(i, Killed(i, launches)) /\ lock' = Unlocked(i)
                     /\ pc' = [pc EXCEPT ![t].at = "guard", ![t].id = None]
                ELSE Go(t, "guard") /\ UNCHANGED <<launches, lock>>
       /\ UNCHANGED <<starting, detached, waiting, staged, ring>>

(***************************************************************************)
(* Running                                                                 *)
(***************************************************************************)
\* launch: held by the session, or waited for; launch_detached: kept by the caller.
launch(t) ==
    /\ pc[t].at = "started"
    /\ \/ pc[t].kind = "hold" /\ detached' = pc[t].id /\ pc' = [pc EXCEPT ![t] = Idle] /\ UNCHANGED waiting
       \/ pc[t].kind = "wait" /\ waiting' = (IF Proton THEN pc[t].id ELSE waiting) /\ Go(t, "block") /\ UNCHANGED detached
       \/ pc[t].kind = "keep" /\ pc' = [pc EXCEPT ![t] = Idle] /\ UNCHANGED <<detached, waiting>>
    /\ UNCHANGED <<starting, stop_pending, latest, staged, lock, ring, launches>>

\* The waiting launch ends: its outcome is decided, its slot cleared, and then its handle dropped.
block(t) ==
    LET i == pc[t].id
    IN /\ \/ /\ pc[t].at = "block" /\ ~launches[i].alive /\ Go(t, "clear")
             /\ launches' = [launches EXCEPT ![i].ended = TRUE]
             /\ UNCHANGED <<waiting, lock>>
          \/ pc[t].at = "clear" /\ waiting' = (IF Proton THEN None ELSE waiting) /\ Go(t, "drop") /\ UNCHANGED <<launches, lock>>
          \/ /\ pc[t].at = "drop" /\ pc' = [pc EXCEPT ![t] = Idle]
             /\ launches' = Dropped(i, launches) /\ lock' = Unlocked(i) /\ UNCHANGED waiting
       /\ UNCHANGED <<starting, stop_pending, detached, latest, staged, ring>>

\* The last process of the launch exits.
Exit(i) ==
    /\ launches[i].alive
    /\ launches' = [launches EXCEPT ![i].alive = FALSE]
    /\ UNCHANGED <<state, staged, lock, ring, pc>>

Kept(i) == /\ launches[i].handle /\ detached # i
           /\ \A t \in Threads : pc[t].id # i

\* The caller drops or stops a handle it kept, or polls it and finds it ended.
handle(i) ==
    /\ Kept(i)
    /\ \/ launches' = Dropped(i, launches) /\ lock' = Unlocked(i)
       \/ ~launches[i].alive /\ launches' = [launches EXCEPT ![i].ended = TRUE] /\ UNCHANGED lock
    /\ UNCHANGED <<state, staged, ring, pc>>

\* A stopper someone cloned, used at any time, after its launch too.
LaunchStopper_stop(i) ==
    /\ launches[i].made
    /\ launches' = Killed(i, launches)
    /\ launches' # launches
    /\ UNCHANGED <<state, staged, lock, ring, pc>>

(***************************************************************************)
(* Stopping                                                                *)
(***************************************************************************)
Starting == {t \in Threads : pc[t].at \in {"resolve", "prefix", "spawn", "latest", "pending"}}

stop_call(s) ==
    /\ ring /\ pc[s].at \in {"idle", "stopped"}
    /\ pc' = [pc EXCEPT ![s] = [Idle EXCEPT !.at = "take", !.saw = IF Starting = {} THEN None ELSE CHOOSE t \in Starting : TRUE]]
    /\ UNCHANGED <<state, staged, lock, ring, launches>>

\* The held launch, the waited one, the latest one, or a note for the one being started.
stop_launch(s) ==
    /\ \/ /\ pc[s].at = "take" /\ detached' = None
          /\ IF detached = None THEN Go(s, "waiting") /\ UNCHANGED <<launches, lock>>
             ELSE /\ Go(s, IF launches[detached].alive THEN "stopped" ELSE "waiting")
                  /\ launches' = Dropped(detached, launches) /\ lock' = Unlocked(detached)
          /\ UNCHANGED stop_pending
       \/ /\ pc[s].at = "waiting"
          /\ IF Proton /\ waiting # None THEN launches' = Killed(waiting, launches) /\ Go(s, "stopped")
             ELSE Go(s, "latest") /\ UNCHANGED launches
          /\ UNCHANGED <<stop_pending, detached, lock>>
       \/ /\ pc[s].at = "latest"
          /\ IF latest_running # None THEN launches' = Killed(latest, launches) /\ Go(s, "stopped")
             ELSE Go(s, "starting") /\ UNCHANGED launches
          /\ UNCHANGED <<stop_pending, detached, lock>>
       \/ pc[s].at = "starting" /\ Go(s, IF starting THEN "pend" ELSE "stopped") /\ UNCHANGED <<stop_pending, detached, launches, lock>>
       \/ pc[s].at = "pend" /\ stop_pending' = TRUE /\ Go(s, "stopped") /\ UNCHANGED <<detached, launches, lock>>
    /\ UNCHANGED <<starting, waiting, latest, staged, ring>>

\* Mutant: only the launch the session holds is stopped before the ring goes.
drop_proton_held ==
    /\ ring /\ \A t \in Threads \cup Stoppers : pc[t].at \in {"idle", "stopped"}
    /\ launches' = IF detached = None THEN launches ELSE Dropped(detached, Killed(detached, launches))
    /\ lock' = IF detached # None THEN Unlocked(detached) ELSE lock
    /\ detached' = None /\ ring' = FALSE /\ staged' = None
    /\ UNCHANGED <<starting, stop_pending, waiting, latest, pc>>

\* The session is dropped, when no call is under way: what it holds and what it knows to run is
\* stopped, and then the ring.
drop_proton ==
    LET held == IF detached = None THEN launches ELSE Dropped(detached, Killed(detached, launches))
    IN /\ ring /\ \A t \in Threads \cup Stoppers : pc[t].at \in {"idle", "stopped"}
       /\ launches' = IF latest_running # None /\ latest # detached THEN Killed(latest, held) ELSE held
       /\ lock' = IF detached # None THEN Unlocked(detached) ELSE lock
       /\ detached' = None /\ ring' = FALSE /\ staged' = None
       /\ UNCHANGED <<starting, stop_pending, waiting, latest, pc>>

SessionNext ==
    \/ \E t \in Threads : \/ call(t) \/ reap_detached(t) \/ begin_launch(t) \/ GuardDrop(t)
                          \/ resolve_launch_image(t) \/ ensure_prefix(t) \/ spawn(t)
                          \/ launch_detached(t) \/ launch(t) \/ block(t)
    \/ \E s \in Stoppers : stop_call(s) \/ stop_launch(s)
    \/ \E i \in Ids : Exit(i) \/ handle(i) \/ LaunchStopper_stop(i)
    \/ drop_proton

SessionSpec == SessionInit /\ [][SessionNext]_sessionVars

(***************************************************************************)
(* Properties                                                              *)
(***************************************************************************)
\* A session runs one launch at a time.
OneLaunch == Cardinality({i \in Ids : launches[i].alive}) <= 1

\* A running launch's staged image is not taken from under it by another launch's staging.
StagedKept == \A i \in Ids : launches[i].alive /\ launches[i].staged => staged = i

\* Proton: whatever runs in the prefix holds its lock, and a handle keeps it until it is dropped.
PrefixHeld == Proton => \A i \in Ids : launches[i].alive \/ launches[i].handle => lock = i

\* Only its own stop kills a launch, however long a stopper of another one was kept.
KilledByOwnStop == \A i \in Ids : launches[i].killed => launches[i].requested

\* The ring a program reads through goes after the program.
RingOutlivesLaunch == ~ring => \A i \in Ids : ~launches[i].alive

\* A stop asked for while a launch is being started reaches it: it is stopped, or fails to start,
\* or the note it will find is set.
StopLands ==
    \A s \in Stoppers : pc[s].at = "stopped" /\ pc[s].saw # None =>
        \/ pc[s].saw \in Starting /\ stop_pending
        \/ \A i \in Ids : launches[i].alive => launches[i].requested

(***************************************************************************)
(* Starting a program with the shim in it, and the tree of processes it    *)
(* starts (vfs-inject inject.rs and tree.rs, the shim's DllMain and        *)
(* bootstrap, and its CreateProcessInternalW hook).                        *)
(*                                                                         *)
(* Every process has a maker: the host for the first one, a thread of the  *)
(* parent for the others.  The maker creates it suspended, tells it where  *)
(* it is, patches its imports in memory or loads the shim on a remote      *)
(* thread, and waits for the shim's verdict: the ready file for the first  *)
(* process, a named event for a child.  The loader of the new process runs *)
(* concurrently with its maker.                                            *)
(***************************************************************************)
treeVars == <<st, shim, job, parent, pc, want, said, turned, tree>>

Alive(p) == st[p] \in {"suspended", "loading", "running"}

\* The makers of children die with the parent they run in.
TreeKilled(P) == [p \in Procs |-> IF p \in P THEN "dead" ELSE st[p]]
Orphans(P) == [p \in Procs |-> IF parent[p] \in P /\ pc[p] \notin {"none", "ok", "refused"}
                               THEN "orphan" ELSE pc[p]]
Dies(P) == st' = TreeKilled(P) /\ pc' = Orphans(P)

(* How a caller names an image: by an absolute path or by a bare name, and
   for each place it may be (the path itself; beside the parent's image and
   in the current directory) whether that is under a root and whether the VFS
   has a file there. *)
Place == [root : BOOLEAN, found : BOOLEAN]
Names == [abs : {TRUE}, at : {<<a>> : a \in Place}, staged : BOOLEAN]
         \cup [abs : {FALSE}, at : {<<a, b>> : a, b \in Place}, staged : BOOLEAN]

(* child_start::plan: the first place under a root where the VFS has the
   image is staged and the child made from the copy.  With no copy, an image
   some place of which is under a root is refused; every candidate has been
   made absolute by then. *)
plan(n) ==
    LET held == {i \in DOMAIN n.at : n.at[i].root /\ n.at[i].found}
        app  == held # {} /\ n.staged
    IN  [app |-> app, refuse |-> ~app /\ \E i \in DOMAIN n.at : n.at[i].root]

TreeInit ==
    /\ st = [p \in Procs |-> "none"] /\ shim = [p \in Procs |-> "none"]
    /\ job = [p \in Procs |-> FALSE] /\ parent = [p \in Procs |-> None]
    /\ pc = [p \in Procs |-> "none"] /\ want = [p \in Procs |-> FALSE]
    /\ said = [p \in Procs |-> "none"] /\ turned = {}
    /\ tree = "none"

(***************************************************************************)
(* The host: spawn_target_with_shim.                                       *)
(***************************************************************************)

(* The target is created, suspended, and put in the job if there is one: a
   job that cannot be made or will not take it leaves the tree tracking the
   first process alone.  A target whose file imports the shim goes its own
   way. *)
start_target ==
    /\ pc[First] = "none"
    /\ \E imports, injob \in BOOLEAN :
         /\ shim' = [shim EXCEPT ![First] = IF imports THEN "import" ELSE "none"]
         /\ job' = [job EXCEPT ![First] = injob]
         /\ tree' = IF injob THEN "job" ELSE "alone"
         /\ pc' = [pc EXCEPT ![First] = IF imports THEN "told" ELSE "tell"]
    /\ st' = [st EXCEPT ![First] = "suspended"]
    /\ UNCHANGED <<parent, want, said, turned>>

\* Mutant: the caller's breakaway flag is passed on.
child_creation_flags_asked(breakaway) == [suspended |-> TRUE, breakaway |-> breakaway]

(* CreateProcessInternalW in a running parent: the plan may refuse; otherwise
   the child is made suspended, in the job its parent is in, because the hook
   drops CREATE_BREAKAWAY_FROM_JOB. *)
child_creation_flags(breakaway) == [suspended |-> TRUE, breakaway |-> FALSE]

cpiw_hook(p, c) ==
    /\ st[p] = "running" /\ shim[p] = "up" /\ pc[c] = "none" /\ c # First
    /\ \E n \in Names, susp, breakaway, imports, tell \in BOOLEAN :
         /\ IF plan(n).refuse
            THEN /\ pc' = [pc EXCEPT ![c] = "refused"]
                 /\ turned' = turned \cup {[abs |-> n.abs, found |->
                                             \E i \in DOMAIN n.at : n.at[i].found]}
                 /\ UNCHANGED <<st, shim, job, parent, want>>
            ELSE /\ want' = [want EXCEPT ![c] = susp]
                 /\ UNCHANGED turned
                 /\ st' = [st EXCEPT ![c] =
                             IF child_creation_flags(breakaway).suspended
                             THEN "suspended" ELSE "running"]
                 /\ shim' = [shim EXCEPT ![c] = IF imports THEN "import" ELSE "none"]
                 /\ job' = [job EXCEPT ![c] =
                              job[p] /\ ~child_creation_flags(breakaway).breakaway]
                 /\ parent' = [parent EXCEPT ![c] = p]
                 /\ pc' = [pc EXCEPT ![c] = IF tell THEN "tell" ELSE "told"]
    /\ UNCHANGED <<said, tree>>

(***************************************************************************)
(* Making one process, step by step.                                       *)
(***************************************************************************)

(* fail_closed and refuse_child: the process is killed and its maker reports
   the failure. *)
Refuse(c) ==
    /\ st' = TreeKilled({c}) /\ pc' = [Orphans({c}) EXCEPT ![c] = "refused"]
    /\ tree' = IF c = First THEN "ended" ELSE tree
    /\ UNCHANGED <<shim, job, parent, want, said, turned>>

At(c, at) == pc[c] = at /\ (parent[c] # None => st[parent[c]] = "running")

To(c, at) == pc' = [pc EXCEPT ![c] = at]

\* Its command line and working directory are rewritten, or it is killed.
tell_where(c) ==
    /\ At(c, "tell")
    /\ \/ To(c, "told") /\ UNCHANGED <<st, shim, job, parent, want, said, turned, tree>>
       \/ Refuse(c)

(* The primary thread runs: with the shim up, the program; with the shim among
   its imports, the loader, which loads the shim first. *)
Resumed(c) ==
    IF st[c] # "suspended" THEN st
    ELSE [st EXCEPT ![c] = IF shim[c] = "import" THEN "loading" ELSE "running"]

(* A file-patched target is resumed and its ready file waited for without a
   deadline; a file-patched child is resumed unless it was asked for
   suspended, and nothing is waited for. *)
start_import_activated(c) ==
    /\ At(c, "told") /\ shim[c] = "import"
    /\ IF c = First
       THEN st' = Resumed(c) /\ To(c, "report")
       ELSE st' = (IF want[c] THEN st ELSE Resumed(c)) /\ To(c, "ok")
    /\ UNCHANGED <<shim, job, parent, want, said, turned, tree>>

\* Mutant: only the ready file ends the wait, not the target's exit.
import_reported_ready(c) ==
    /\ At(c, "report") /\ said[c] # "none" /\ To(c, "ok")
    /\ UNCHANGED <<st, shim, job, parent, want, said, turned, tree>>

import_reported(c) ==
    /\ At(c, "report") /\ (said[c] # "none" \/ ~Alive(c)) /\ To(c, "ok")
    /\ UNCHANGED <<st, shim, job, parent, want, said, turned, tree>>

\* Mutant: a patched child is resumed even when its caller wants it suspended.
inject_child_resumes(c) ==
    /\ At(c, "told") /\ shim[c] = "none"
    /\ \/ c # First /\ Refuse(c)
       \/ /\ shim' = [shim EXCEPT ![c] = "import"]
          /\ st' = [st EXCEPT ![c] = "loading"] /\ To(c, "wait")
          /\ UNCHANGED <<job, parent, want, said, turned, tree>>
       \/ To(c, "remote") /\ UNCHANGED <<st, shim, job, parent, want, said, turned, tree>>

(* The in-memory patch: refused under Wine, when forced, or when the image
   cannot be read.  A child its caller wants suspended is left so, with the
   shim first among its imports; any other is resumed and waited for.  A
   32-bit child, or one with no shim to give it, is refused before. *)
inject_child(c) ==
    /\ At(c, "told") /\ shim[c] = "none"
    /\ \/ c # First /\ Refuse(c)
       \/ /\ shim' = [shim EXCEPT ![c] = "import"]
          /\ IF want[c]
             THEN To(c, "ok") /\ UNCHANGED st
             ELSE st' = [st EXCEPT ![c] = "loading"] /\ To(c, "wait")
          /\ UNCHANGED <<job, parent, want, said, turned, tree>>
       \/ To(c, "remote") /\ UNCHANGED <<st, shim, job, parent, want, said, turned, tree>>

(* The remote LoadLibrary: the process's initialisation and the shim's
   bootstrap run on it while the primary thread stays suspended.  Its maker
   waits for the thread, for as long as the ready timeout. *)
inject_dll(c) ==
    /\ At(c, "remote") /\ Alive(c)
    /\ shim' = [shim EXCEPT ![c] = "remote"] /\ To(c, "thread")
    /\ UNCHANGED <<st, job, parent, want, said, turned, tree>>

inject_failed(c) ==
    /\ pc[c] \in {"remote", "thread"} /\ At(c, pc[c])
    /\ Refuse(c)

inject_returned(c) ==
    /\ At(c, "thread") /\ shim[c] \in {"up", "failed"} /\ To(c, "verdict")
    /\ UNCHANGED <<st, shim, job, parent, want, said, turned, tree>>

\* Mutant: a wait that times out releases the process.
wait_ready_released(c) ==
    /\ pc[c] \in {"wait", "verdict"} /\ At(c, pc[c])
    /\ st' = (IF want[c] THEN st ELSE Resumed(c)) /\ To(c, "ok")
    /\ UNCHANGED <<shim, job, parent, want, said, turned, tree>>

(* wait_ready and poll_ready: the verdict if there is one, the process's end
   or the deadline otherwise.  After a remote load the deadline is now: the
   shim has said what it had to say. *)
wait_ready(c) ==
    /\ pc[c] \in {"wait", "verdict"} /\ At(c, pc[c])
    /\ \/ /\ said[c] = "ready"
          /\ st' = (IF want[c] THEN st ELSE Resumed(c)) /\ To(c, "ok")
          /\ UNCHANGED <<shim, job, parent, want, said, turned, tree>>
       \/ /\ said[c] # "ready" \/ (c # First /\ ~Alive(c))
          /\ Refuse(c)

(***************************************************************************)
(* The new process.                                                        *)
(***************************************************************************)

\* Mutant: the verdict told is the shim's state.
bootstrap_state(c, ok) ==
    /\ shim' = [shim EXCEPT ![c] = IF ok THEN "up" ELSE "failed"]
    /\ said' = [said EXCEPT ![c] = IF ok THEN "up" ELSE "failed"]

(* DllMain: the config is read, the director's ring attached, the hooks put
   in.  Success is signalled after the hooks are live, and the ready file
   written; a failure is signalled too, and fails the load.  A panic leaves
   no ready file, and a load that never finds the DLL says nothing. *)
bootstrap(c, ok) ==
    /\ shim' = [shim EXCEPT ![c] = IF ok THEN "up" ELSE "failed"]
    /\ IF ok THEN said' = [said EXCEPT ![c] = "ready"]
       ELSE \E v \in {"failed", "none"} : said' = [said EXCEPT ![c] = v]

\* The loader, from a resumed primary thread: a failed load ends the process.
DllMain_import(c) ==
    /\ st[c] = "loading" /\ shim[c] = "import"
    /\ \E ok \in BOOLEAN :
         /\ bootstrap(c, ok)
         /\ IF ok THEN st' = [st EXCEPT ![c] = "running"] /\ UNCHANGED pc ELSE Dies({c})
    /\ UNCHANGED <<job, parent, want, turned, tree>>

\* The remote thread: a failed load leaves the process suspended.
DllMain_remote(c) ==
    /\ Alive(c) /\ shim[c] = "remote"
    /\ \E ok \in BOOLEAN : bootstrap(c, ok)
    /\ UNCHANGED <<st, job, parent, pc, want, turned, tree>>

\* The program ends; it may also die while the loader runs.
TreeExit(c) ==
    /\ st[c] \in {"running", "loading"} \/ (Alive(c) /\ shim[c] = "remote")
    /\ Dies({c})
    /\ UNCHANGED <<shim, job, parent, want, said, turned, tree>>

\* The caller resumes a child it asked for suspended.
CallerResumes(c) ==
    /\ pc[c] = "ok" /\ want[c] /\ st[c] = "suspended" /\ st[parent[c]] = "running"
    /\ st' = Resumed(c) /\ want' = [want EXCEPT ![c] = FALSE]
    /\ UNCHANGED <<shim, job, parent, pc, said, turned, tree>>

(***************************************************************************)
(* The tree.                                                               *)
(***************************************************************************)

Members == {p \in Procs : job[p]}

(* The launch has ended when the job has no active process, or, without a
   job, when the first process has exited. *)
try_wait ==
    /\ pc[First] = "ok"
    /\ \/ tree = "job" /\ \A p \in Members : ~Alive(p)
       \/ tree = "alone" /\ ~Alive(First)
    /\ tree' = "ended"
    /\ UNCHANGED <<st, shim, job, parent, pc, want, said, turned>>

\* TreeKiller::kill: the whole job, or the first process alone.
kill ==
    /\ pc[First] = "ok" /\ tree \in {"job", "alone"}
    /\ Dies(IF tree = "job" THEN Members ELSE {First})
    /\ UNCHANGED <<shim, job, parent, want, said, turned, tree>>

\* Dropping the tree closes the job, which kills what is left in it.
drop ==
    /\ pc[First] = "ok" /\ tree \in {"job", "alone"}
    /\ Dies(IF tree = "job" THEN Members ELSE {})
    /\ tree' = "dropped"
    /\ UNCHANGED <<shim, job, parent, want, said, turned>>

Make(c) ==
    \/ tell_where(c) \/ start_import_activated(c) \/ import_reported(c)
    \/ inject_child(c) \/ inject_dll(c) \/ inject_failed(c) \/ inject_returned(c)
    \/ wait_ready(c)

Load(c) == DllMain_import(c) \/ DllMain_remote(c)

TreeNext ==
    \/ start_target \/ try_wait \/ kill \/ drop
    \/ \E c \in Procs : Make(c) \/ Load(c) \/ TreeExit(c) \/ CallerResumes(c)
    \/ \E p, c \in Procs : cpiw_hook(p, c)

TreeSpec == TreeInit /\ [][TreeNext]_treeVars

(* A maker's thread runs until its call returns, and the new process's loader
   runs; programs need not end. *)
Fairness == \A c \in Procs : WF_treeVars(Make(c)) /\ WF_treeVars(Load(c))

LiveSpec == TreeSpec /\ Fairness

-----------------------------------------------------------------------------

TreeTypeOK ==
    /\ st \in [Procs -> {"none", "suspended", "loading", "running", "dead"}]
    /\ shim \in [Procs -> {"none", "import", "remote", "up", "failed"}]
    /\ job \in [Procs -> BOOLEAN] /\ want \in [Procs -> BOOLEAN]
    /\ parent \in [Procs -> Procs \cup {None}]
    /\ pc \in [Procs -> {"none", "tell", "told", "report", "wait", "remote", "thread",
                         "verdict", "ok", "refused", "orphan"}]
    /\ said \in [Procs -> {"none", "ready", "failed"}]
    /\ tree \in {"none", "job", "alone", "ended", "dropped"}

(* Fails closed: no process of the launch ever runs the program's code
   without its shim up, and one whose creation failed is not left alive.
   (process.rs: "The child is never released un-virtualised.") *)
FailsClosed ==
    \A p \in Procs : /\ st[p] = "running" => shim[p] = "up"
                     /\ pc[p] = "refused" => ~Alive(p)

(* A launch whose target is in the job is reported ended only when every
   process it started has exited: children cannot break away, so the job
   holds all of them. *)
EndedIsEmpty ==
    tree \in {"ended", "dropped"} /\ job[First] => \A p \in Procs : ~Alive(p)

(* A child its caller asked for suspended has not run when the call returns,
   nor before the caller resumes it, whichever way the shim went in. *)
SuspendedKept == \A p \in Procs : want[p] => st[p] \notin {"loading", "running"}

(* A bare name that the VFS has in none of the places searched is not refused
   on that account: Windows may still find it (a system program).
   (child_start.rs, `refuse`: "The caller named an image under a root that
   the VFS does not have".) *)
BareNamesSearched ==
    \A n \in turned : n.abs \/ n.found

\* Every creation returns to its caller, unless the process making it dies.
StartReturns ==
    \A c \in Procs : (pc[c] \notin {"none", "ok", "refused", "orphan"})
                        ~> (pc[c] \in {"ok", "refused", "orphan"})
==============================================================================
