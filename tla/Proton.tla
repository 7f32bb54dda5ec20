------------------------------- MODULE Proton --------------------------------
(***************************************************************************)
(* The Proton runtime: its installation, and the prefix a session sets up  *)
(* in it. Each section is a state machine of its own; they share no state. *)
(***************************************************************************)
EXTENDS Integers, Sequences, FiniteSets, SequencesExt

CONSTANTS
    \* install
    Installers,   \* processes installing the same release
    MaxFaults,   \* bound on failing steps and kills
    \* prefix
    Sessions, Roots,   \* sessions; the roots each links, shallowest first
    Named,   \* the prefix has a name, and so outlives its session
    Theirs,   \* places that may hold files of the user's own
    Runtimes,
    None

VARIABLES
    \* install
    published,   \* the body the publisher's digest names
    partial,   \* downloads/<tag>.tar.gz.partial: None, "short" or a body
    final,   \* runtimes/<tag>
    tmp, old,   \* .tmp-<tag>-<pid> and .old-<tag>-<pid> of each installer
    left,   \* the directories killed installers left in runtimes/
    proc,   \* each installer: [at, force, had]
    faults,
    \* prefix
    prefix,   \* [exists, runtime, setup]: the directory, what set it up, who is doing so
    server,   \* a wineserver lingers in it
    lock, fs, manifest, newest, sess, ring

(***************************************************************************)
(* Installing a GE-Proton runtime (vfs-proton install.rs): the digest, the *)
(* body streamed to a .partial, verified, extracted beside the real name,  *)
(* gated on being GE-Proton and renamed into place, the previous tree      *)
(* moved aside for it.  Installers are processes; one may be killed        *)
(* between any two steps.  A tree is what body it was unpacked from and    *)
(* whether all of it is there.                                             *)
(***************************************************************************)
installVars == <<published, partial, final, tmp, old, left, proc, faults>>

Bodies == {published, "damaged"}
Tree(body, whole) == [body |-> body, whole |-> whole]
Idle == [at |-> "idle", force |-> FALSE, had |-> FALSE]

InstallInit ==
    /\ published \in {"ge", "stock"}
    /\ partial = None /\ left = {} /\ faults = 0
    /\ final \in {None, Tree("ge", TRUE)}
    /\ tmp = [p \in Installers |-> None]
    /\ old = [p \in Installers |-> None]
    /\ proc = [p \in Installers |-> Idle]

Go(p, at) == proc' = [proc EXCEPT ![p].at = at]
Fault == faults < MaxFaults /\ faults' = faults + 1

\* The version file names GE-Proton; it may be there when the rest of its tree is not.
verify_ge(t) == t # None /\ t.body # "stock"

\* What a launch may be given: every directory of runtimes/ that passes the gate.
installed_dirs == {t \in {final} \cup left \cup {old[p] : p \in Installers} : verify_ge(t)}

\* 1, 2: an installed runtime is kept unless forced; the digest comes before the body.
install_release(p) ==
    /\ proc[p].at = "idle"
    /\ \E force \in BOOLEAN :
         \/ /\ force \/ ~verify_ge(final)
            /\ proc' = [proc EXCEPT ![p] = [at |-> "download", force |-> force, had |-> verify_ge(final)]]
            /\ UNCHANGED faults
         \/ Fault /\ UNCHANGED proc
    /\ UNCHANGED <<partial, final, tmp, old, left>>

\* 3: the body is streamed over whatever is there; a failed download returns at once.
download_to(p) ==
    /\ \/ proc[p].at = "download" /\ partial' = "short" /\ Go(p, "body") /\ UNCHANGED faults
       \/ /\ proc[p].at = "body" /\ partial' \in Bodies
          /\ Go(p, "verify") /\ UNCHANGED faults
       \/ proc[p].at = "body" /\ Fault /\ Go(p, "failed") /\ UNCHANGED partial
    /\ UNCHANGED <<final, tmp, old, left>>

\* Mutant: the digest is not compared.
verify_digest_any(p) ==
    /\ proc[p].at = "verify" /\ Go(p, "unpack")
    /\ UNCHANGED <<final, tmp, old, left, faults, partial>>

\* 4: a mismatch deletes the partial.
verify_digest(p) ==
    /\ proc[p].at = "verify"
    /\ IF partial = published THEN Go(p, "unpack") /\ UNCHANGED partial
       ELSE Go(p, "failed") /\ partial' = None
    /\ UNCHANGED <<final, tmp, old, left, faults>>

\* 5: unpacked into a directory of this process's own, file by file.
extract_tar_gz(p) ==
    /\ \/ /\ proc[p].at = "unpack" /\ tmp' = [tmp EXCEPT ![p] = Tree(partial, FALSE)]
          /\ Go(p, "unpacking") /\ UNCHANGED faults
       \/ /\ proc[p].at = "unpacking" /\ UNCHANGED faults
          /\ IF partial \in Bodies
             THEN tmp' = [tmp EXCEPT ![p] = Tree(partial, TRUE)] /\ Go(p, "gate")
             ELSE Go(p, "cleanup") /\ UNCHANGED tmp
       \/ proc[p].at = "unpacking" /\ Fault /\ Go(p, "cleanup") /\ UNCHANGED tmp
    /\ UNCHANGED <<partial, final, old, left>>

\* Mutant: the tree already there is removed to make room.
install_from_partial_removes(p) ==
    /\ \/ proc[p].at = "gate" /\ Go(p, IF verify_ge(tmp[p]) THEN "aside" ELSE "cleanup") /\ UNCHANGED <<final, tmp, old, faults>>
       \/ proc[p].at = "aside" /\ final' = None /\ Go(p, "place") /\ UNCHANGED <<tmp, old, faults>>
       \/ /\ proc[p].at = "place" /\ final' = tmp[p] /\ tmp' = [tmp EXCEPT ![p] = None]
          /\ Go(p, "sweep") /\ UNCHANGED <<old, faults>>
       \/ proc[p].at = "place" /\ Fault /\ Go(p, "cleanup") /\ UNCHANGED <<final, tmp, old>>
       \/ proc[p].at = "sweep" /\ Go(p, "done") /\ UNCHANGED <<final, tmp, old, faults>>
    /\ UNCHANGED <<partial, left>>

\* 6, 7: gated, the tree already there moved aside, the new one renamed in, and the old one removed
\* or put back.
install_from_partial(p) ==
    /\ \/ proc[p].at = "gate" /\ Go(p, IF verify_ge(tmp[p]) THEN "aside" ELSE "cleanup") /\ UNCHANGED <<final, tmp, old, faults>>
       \/ /\ proc[p].at = "aside"
          /\ old' = [old EXCEPT ![p] = final] /\ final' = None
          /\ Go(p, "place") /\ UNCHANGED <<tmp, faults>>
       \/ proc[p].at = "aside" /\ Fault /\ Go(p, "cleanup") /\ UNCHANGED <<final, tmp, old>>
       \/ /\ proc[p].at = "place" /\ final = None
          /\ final' = tmp[p] /\ tmp' = [tmp EXCEPT ![p] = None]
          /\ Go(p, "sweep") /\ UNCHANGED <<old, faults>>
       \/ /\ proc[p].at = "place" /\ (IF final = None THEN Fault ELSE UNCHANGED faults)
          /\ IF final = None THEN final' = old[p] /\ old' = [old EXCEPT ![p] = None] ELSE UNCHANGED <<final, old>>
          /\ Go(p, "cleanup") /\ UNCHANGED tmp
       \/ /\ proc[p].at = "sweep" /\ old[p] # None /\ old[p].whole
          /\ old' = [old EXCEPT ![p].whole = FALSE] /\ UNCHANGED <<proc, final, tmp, faults>>
       \/ /\ proc[p].at = "sweep" /\ (old[p] # None => ~old[p].whole)
          /\ old' = [old EXCEPT ![p] = None] /\ Go(p, "done") /\ UNCHANGED <<final, tmp, faults>>
    /\ UNCHANGED <<partial, left>>

\* 8: the temporary tree and the partial go, whatever happened to the install.
Cleanup(p) ==
    /\ proc[p].at \in {"cleanup", "done"}
    /\ tmp' = [tmp EXCEPT ![p] = None] /\ partial' = None
    /\ Go(p, IF proc[p].at = "done" THEN "idle" ELSE "failed")
    /\ UNCHANGED <<final, old, left, faults>>

Return(p) ==
    /\ proc[p].at = "failed" /\ proc' = [proc EXCEPT ![p] = Idle]
    /\ UNCHANGED <<partial, final, tmp, old, left, faults>>

\* The process is killed: what it made stays under its own pid's names.
Kill(p) ==
    /\ proc[p].at # "idle" /\ Fault
    /\ proc' = [proc EXCEPT ![p] = Idle]
    /\ left' = left \cup ({old[p], tmp[p]} \ {None})
    /\ tmp' = [tmp EXCEPT ![p] = None] /\ old' = [old EXCEPT ![p] = None]
    /\ UNCHANGED <<partial, final>>

InstallNext == UNCHANGED published /\ \E p \in Installers :
    \/ install_release(p) \/ download_to(p) \/ verify_digest(p) \/ extract_tar_gz(p)
    \/ install_from_partial(p) \/ Cleanup(p) \/ Return(p) \/ Kill(p)

InstallSpec == InstallInit /\ [][InstallNext]_installVars

(***************************************************************************)
(* Properties                                                              *)
(***************************************************************************)
\* What is under the runtime's real name is whole, GE-Proton, and was unpacked from the bytes the
\* digest names, whenever an installer was killed.
InstalledVerified == final # None => final = Tree("ge", TRUE)

\* A forced install that fails leaves the runtime that was there.
ForceKeeps == \A p \in Installers : proc[p].at = "failed" /\ proc[p].had => verify_ge(final)

\* A failed install leaves no download behind.
NothingLeft == \A p \in Installers : proc[p].at = "failed" => partial = None

\* Every runtime a launch may be given is whole.
ListedWhole == \A t \in installed_dirs : t.whole

(***************************************************************************)
(* A Wine prefix that sessions of several processes launch in (vfs-proton  *)
(* prefix/, vfs-embed session/proton/): the per-launch lock, Proton's      *)
(* setup of it, the root links placed in it and the manifest that says     *)
(* which links are ours, what dropping a session takes away again, and     *)
(* the ring file, in memory when it can be.  Root "inner" lies inside root *)
(* "outer", so its link is a file of whatever directory the outer link     *)
(* points at.  Each file operation is a step.                              *)
(***************************************************************************)
prefixVars == <<prefix, server, lock, fs, manifest, newest, sess, ring, faults>>

Places == {<<"c", "outer">>} \cup ((Sessions \cup {"c"}) \X {"inner"})

\* Where a location is on the host: inside whatever the outer link points at.
Place(loc) ==
    IF loc = "outer" THEN <<"c", "outer">>
    ELSE IF fs[<<"c", "outer">>] \in Sessions THEN <<fs[<<"c", "outer">>], "inner">> ELSE <<"c", "inner">>

NewSession == [at |-> "new", i |-> 1, links |-> <<>>, seen |-> {}]

PrefixInit ==
    /\ prefix = [exists |-> Named, runtime |-> None, setup |-> None]
    /\ server = FALSE /\ lock = None /\ faults = 0
    /\ fs \in {f \in [Places -> {None, "real", "user"}] : \A p \in Places \ Theirs : f[p] = None}
    /\ manifest = {}
    /\ newest \in Runtimes
    /\ sess = [s \in Sessions |-> NewSession]
    /\ ring = [s \in Sessions |-> [named |-> None, memory |-> FALSE, backing |-> None]]

PrefixGo(s, at) == sess' = [sess EXCEPT ![s].at = at]
PrefixFault == faults < MaxFaults /\ faults' = faults + 1
prefixed == <<prefix, server, lock, newest>>

(***************************************************************************)
(* Serving                                                                 *)
(***************************************************************************)
\* The old name is unlinked; the ring is made in memory and linked, and again as a plain file if
\* it cannot be started there.
serve(s) ==
    /\ sess[s].at = "new"
    /\ \E made \in {"memory", "plain"}, starts \in BOOLEAN :
         IF made = "memory" /\ starts
         THEN ring' = [ring EXCEPT ![s] = [named |-> "link", memory |-> TRUE, backing |-> "memory"]]
         ELSE ring' = [ring EXCEPT ![s] = [named |-> "file", memory |-> (@.memory /\ made = "plain"), backing |-> None]]
    /\ PrefixGo(s, "serving")
    /\ UNCHANGED <<prefixed, fs, manifest, faults>>

\* The file in memory goes, and its link.
remove_memory_ring(s) ==
    ring' = IF ring[s].backing = None THEN ring
            ELSE [ring EXCEPT ![s] = [named |-> None, memory |-> FALSE, backing |-> None]]

(***************************************************************************)
(* Launching                                                               *)
(***************************************************************************)
\* Mutant: a prefix in use is not refused.
Lock_shared(s) ==
    /\ sess[s].at = "serving"
    /\ lock' = s /\ prefix' = [prefix EXCEPT !.exists = TRUE] /\ PrefixGo(s, "ensure")
    /\ UNCHANGED <<server, newest, fs, manifest, ring, faults>>

\* Prefix::lock: exclusive for the length of a launch.
Lock(s) ==
    /\ sess[s].at = "serving" /\ lock = None
    /\ lock' = s /\ prefix' = [prefix EXCEPT !.exists = TRUE] /\ PrefixGo(s, "ensure")
    /\ UNCHANGED <<server, newest, fs, manifest, ring, faults>>

Unlock(s) == lock' = IF lock = s THEN None ELSE lock

\* ensure_with: set up once, and again when another runtime set it up.
ensure_with(s) ==
    /\ sess[s].at = "ensure"
    /\ IF prefix.runtime = newest
       THEN sess' = [sess EXCEPT ![s].at = "root", ![s].i = 1] /\ UNCHANGED prefix
       ELSE prefix' = [prefix EXCEPT !.setup = s, !.runtime = None] /\ PrefixGo(s, "setup")
    /\ UNCHANGED <<server, lock, newest, fs, manifest, ring, faults>>

\* Proton's own setup runs to its end, or fails and the launch with it.
run_proton_init(s) ==
    /\ sess[s].at = "setup"
    /\ \/ /\ prefix' = [prefix EXCEPT !.setup = None, !.runtime = newest]
          /\ sess' = [sess EXCEPT ![s].at = "root", ![s].i = 1] /\ UNCHANGED <<lock, faults>>
       \/ PrefixFault /\ prefix' = [prefix EXCEPT !.setup = None] /\ Unlock(s) /\ PrefixGo(s, "serving")
    /\ UNCHANGED <<server, newest, fs, manifest, ring>>

Loc(s) == Roots[sess[s].i]

\* Mutant: any symlink is taken for ours.
Ours_any(loc, p) == fs[p] \in Sessions \cup {"user"}

\* A symlink the manifest lists.
Ours(loc, p) == fs[p] \in Sessions /\ loc \in manifest

\* link_location, one file operation at a time: what is there is looked at, our own link removed
\* and delisted, the new one made and listed.
link_location(s) ==
    LET p == Place(Loc(s))
    IN /\ \/ /\ sess[s].at = "root"
             /\ CASE fs[p] = None -> sess' = [sess EXCEPT ![s].at = "link", ![s].seen = manifest] /\ UNCHANGED lock
                  [] Ours(Loc(s), p) ->
                        sess' = [sess EXCEPT ![s].at = "replace", ![s].seen = manifest] /\ UNCHANGED lock
                  [] OTHER -> PrefixGo(s, "serving") /\ Unlock(s)
             /\ UNCHANGED <<fs, manifest, faults>>
          \/ /\ sess[s].at = "replace" /\ fs' = [fs EXCEPT ![p] = None]
             /\ sess' = [sess EXCEPT ![s].at = "delist", ![s].seen = @ \ {Loc(s)}]
             /\ UNCHANGED <<manifest, lock, faults>>
          \/ /\ sess[s].at = "delist" /\ manifest' = sess[s].seen /\ PrefixGo(s, "link")
             /\ UNCHANGED <<fs, lock, faults>>
          \/ /\ sess[s].at = "link"
             /\ IF fs[p] = None THEN fs' = [fs EXCEPT ![p] = s] /\ PrefixGo(s, "list") /\ UNCHANGED lock
                ELSE PrefixGo(s, "serving") /\ Unlock(s) /\ UNCHANGED fs
             /\ UNCHANGED <<manifest, faults>>
          \/ /\ sess[s].at = "list" /\ manifest' = sess[s].seen \cup {Loc(s)} /\ PrefixGo(s, "record")
             /\ UNCHANGED <<fs, lock, faults>>
          \/ /\ sess[s].at = "list" /\ PrefixFault
             /\ fs' = [fs EXCEPT ![p] = None] /\ PrefixGo(s, "serving") /\ Unlock(s) /\ UNCHANGED manifest
       /\ UNCHANGED <<prefix, server, newest, ring>>

\* link_roots: each link is recorded for the drop; the last one starts the program.
link_roots(s) ==
    /\ sess[s].at = "record"
    /\ sess' = [sess EXCEPT ![s].at = IF sess[s].i = Len(Roots) THEN "running" ELSE "root",
                            ![s].i = IF sess[s].i = Len(Roots) THEN @ ELSE @ + 1,
                            ![s].links = Append(Remove(@, Loc(s)), Loc(s))]
    /\ server' = (server \/ sess[s].i = Len(Roots))
    /\ UNCHANGED <<prefix, lock, newest, fs, manifest, ring, faults>>

\* The launch ends and its handle is dropped.
Ended(s) ==
    /\ sess[s].at = "running" /\ PrefixGo(s, "serving") /\ Unlock(s)
    /\ UNCHANGED <<prefix, server, newest, fs, manifest, ring, faults>>

\* A lingering server writes the registry back into the prefix as it exits.
ServerExits ==
    /\ server /\ \A s \in Sessions : sess[s].at # "running"
    /\ server' = FALSE /\ prefix' = [prefix EXCEPT !.exists = TRUE]
    /\ UNCHANGED <<lock, newest, fs, manifest, sess, ring, faults>>

\* The user installs another runtime.
Install ==
    /\ newest' \in Runtimes \ {newest} /\ PrefixFault
    /\ UNCHANGED <<prefix, server, lock, fs, manifest, sess, ring>>

(***************************************************************************)
(* Dropping                                                                *)
(***************************************************************************)
\* The program is stopped, then the ring.
drop_session(s) ==
    /\ sess[s].at \in {"serving", "running"}
    /\ remove_memory_ring(s) /\ Unlock(s) /\ PrefixGo(s, "unlink")
    /\ UNCHANGED <<prefix, server, newest, fs, manifest, faults>>

\* Mutant: links go in the order they were made.
unlink_location_first(s) ==
    LET loc == Head(sess[s].links)
        p == Place(loc)
    IN /\ sess[s].at = "unlink" /\ sess[s].links # <<>>
       /\ sess' = [sess EXCEPT ![s].links = Tail(@)]
       /\ IF loc \in manifest /\ fs[p] \in {s, None}
          THEN fs' = [fs EXCEPT ![p] = None] /\ manifest' = manifest \ {loc} ELSE UNCHANGED <<fs, manifest>>
       /\ UNCHANGED <<prefixed, ring, faults>>

\* unlink_location, innermost first: only a listed link that still points where we pointed it.
unlink_location(s) ==
    LET loc == Last(sess[s].links)
        p == Place(loc)
        done == [sess[s] EXCEPT !.at = "unlink", !.links = Front(@)]
    IN /\ \/ /\ sess[s].at = "unlink" /\ sess[s].links # <<>> /\ UNCHANGED <<fs, manifest>>
             /\ IF loc \in manifest /\ (fs[p] = s \/ fs[p] \notin Sessions \cup {"user"})
                THEN sess' = [sess EXCEPT ![s].at = "unlink2", ![s].seen = manifest \ {loc}]
                ELSE sess' = [sess EXCEPT ![s] = done]
          \/ /\ sess[s].at = "unlink2"
             /\ fs' = (IF fs[p] = s THEN [fs EXCEPT ![p] = None] ELSE fs)
             /\ PrefixGo(s, "unlink3") /\ UNCHANGED manifest
          \/ /\ sess[s].at = "unlink3" /\ manifest' = sess[s].seen
             /\ sess' = [sess EXCEPT ![s] = done] /\ UNCHANGED fs
       /\ UNCHANGED <<prefixed, ring, faults>>

\* Mutant: the anonymous prefix is deleted under its server.
remove_session_running(s) ==
    /\ sess[s].at = "unlink" /\ sess[s].links = <<>> /\ PrefixGo(s, "dropped")
    /\ prefix' = IF Named THEN prefix ELSE [exists |-> FALSE, runtime |-> None, setup |-> None]
    /\ UNCHANGED <<server, lock, newest, fs, manifest, ring, faults>>

\* An anonymous prefix is deleted, its server stopped first.
remove_session(s) ==
    /\ sess[s].at = "unlink" /\ sess[s].links = <<>> /\ PrefixGo(s, "dropped")
    /\ IF Named THEN UNCHANGED <<prefix, server>>
       ELSE prefix' = [exists |-> FALSE, runtime |-> None, setup |-> None] /\ server' = FALSE
    /\ UNCHANGED <<lock, newest, fs, manifest, ring, faults>>

\* The session's process dies; the system lets go of its lock.
Crash(s) ==
    /\ sess[s].at \notin {"new", "dropped", "dead"} /\ PrefixFault
    /\ PrefixGo(s, "dead") /\ Unlock(s)
    /\ prefix' = [prefix EXCEPT !.setup = IF @ = s THEN None ELSE @]
    /\ UNCHANGED <<server, newest, fs, manifest, ring>>

PrefixNext ==
    \/ \E s \in Sessions :
         \/ serve(s) \/ Lock(s) \/ ensure_with(s) \/ run_proton_init(s) \/ link_location(s) \/ link_roots(s)
         \/ Ended(s) \/ drop_session(s) \/ unlink_location(s) \/ remove_session(s) \/ Crash(s)
    \/ ServerExits \/ Install

PrefixSpec == PrefixInit /\ [][PrefixNext]_prefixVars

(***************************************************************************)
(* Properties                                                              *)
(***************************************************************************)
TheirsKeptStep ==
    \A p \in Places : fs[p] \in {"real", "user"} => fs'[p] = fs[p]

\* What the user put at a root's location is never removed or replaced.
TheirsKept == [][TheirsKeptStep]_prefixVars

\* While a program runs its roots are where it was told, whatever other sessions do.
RootsInPlace == \A s \in Sessions : sess[s].at = "running" =>
    \A i \in 1 .. Len(Roots) : fs[Place(Roots[i])] = s

\* A prefix is not set up under a program running in it, and is one runtime's when it runs.
SetUpAlone == \A s \in Sessions : sess[s].at = "running" => prefix.setup = None /\ prefix.runtime # None

\* A dropped session leaves none of its links, and no ring in memory.
PrefixNothingLeft == \A s \in Sessions : sess[s].at = "dropped" =>
    ~ring[s].memory /\ \A p \in Places : fs[p] # s

\* A dropped session's anonymous prefix stays deleted.
AnonymousGone == ~Named => \A s \in Sessions : sess[s].at = "dropped" => ~prefix.exists

\* Every link of ours is listed, so that the next launch replaces it and does not refuse it.
LinksListed == \A s \in Sessions, loc \in {"outer", "inner"} :
    fs[Place(loc)] = s => loc \in manifest \/ \E t \in Sessions : sess[t].at \in {"list", "delist", "unlink3"}
==============================================================================
