---------------------------- MODULE RegistrySaver ----------------------------
(***************************************************************************)
(* RegistryHost (vfs-director registry.rs): the in-memory overlay, the       *)
(* saver thread, `flush`, `durable`, the drop of the host and its reopening. *)
(* The overlay is its version: each successful write makes the next one.     *)
(* The layer's store is a provider with the two files `overlay.reg` and      *)
(* `overlay.reg.tmp`; after a power failure it holds the state it had at     *)
(* some point since the last successful DurableSync (its operations reach    *)
(* the disk in order).  A step is one critical section or one store call.    *)
(***************************************************************************)
EXTENDS Integers, FiniteSets

CONSTANTS
  Callers,     \* ring workers and session threads calling into the host
  MaxVersion,  \* bound on overlay versions
  HasSync      \* whether the host was given a DurableSync hook

VARIABLES
  phase,     \* "open", "closing" (drop under way), "closed"
  overlay,   \* the overlay's version
  base,      \* history: the version this host loaded
  saved,     \* Inner::saved, the version the last good save captured
  holder,    \* who holds the `saved` mutex
  unsynced,  \* Inner::unsynced
  kicked,    \* SaverState::kicked
  stop,      \* SaverState::stop
  rested,    \* SAVE_INTERVAL has passed since the last background save
  syncDue,   \* SYNC_INTERVAL has passed since the last periodic sync
  pc,        \* where each process is
  job,       \* its locals
  file,      \* what overlay.reg holds
  tmp,       \* what overlay.reg.tmp holds
  since,     \* what overlay.reg has held since the last successful sync
  safe,      \* what overlay.reg held at that sync
  aside      \* damaged files moved aside

host == <<phase, overlay, base, saved, holder, unsynced, kicked, stop, rested, syncDue>>
store == <<file, tmp, since, safe, aside>>
vars == <<phase, overlay, base, saved, holder, unsynced, kicked, stop, rested, syncDue, pc, job,
          file, tmp, since, safe, aside>>

Saver == "saver"
Dropper == "dropper"
Procs == Callers \cup {Saver, Dropper}
Nobody == "nobody"
Absent == -1   \* no such file: an empty overlay, version 0
Torn == -2     \* a file not completely written
Versions == 0 .. MaxVersion

(* A caller is neither of the host's own two threads.                       *)
ASSUME SaverAssumption ==
  MaxVersion \in Nat /\ HasSync \in BOOLEAN /\ Callers \cap {Saver, Dropper, Nobody} = {}

NoJob == [call |-> "none", bytes |-> 0, asked |-> 0, sync |-> FALSE, alarm |-> {}]
Jobs == [call : {"none", "flush", "durable"}, bytes : Versions, asked : Versions,
         sync : BOOLEAN, alarm : SUBSET {"save", "sync"}]

Points == {"idle", "kick", "save", "open_tmp", "fill", "rename", "record", "saved_err", "saved_ok",
           "sync", "syncing", "returned", "look", "asleep", "exit"}

(* Each variable has its type; in particular overlay.reg is, in every state *)
(* a crash may leave, absent or one whole save.                             *)
TypeOK ==
  /\ phase \in {"open", "closing", "closed"}
  /\ overlay \in Versions /\ base \in Versions /\ saved \in Versions
  /\ holder \in Procs \cup {Nobody}
  /\ unsynced \in BOOLEAN /\ kicked \in BOOLEAN /\ stop \in BOOLEAN
  /\ rested \in BOOLEAN /\ syncDue \in BOOLEAN
  /\ pc \in [Procs -> Points]
  /\ job \in [Procs -> Jobs]
  /\ file \in Versions \cup {Absent, Torn} /\ tmp \in Versions \cup {Absent, Torn}
  /\ since \subseteq Versions \cup {Absent} /\ safe \in Versions \cup {Absent}
  /\ aside \in SUBSET {Torn}

(* The version a load of overlay.reg gives: an absent file is an empty overlay. *)
VersionOf(f) == IF f = Absent THEN 0 ELSE f

Init ==
  /\ phase = "closed" /\ overlay = 0 /\ base = 0 /\ saved = 0 /\ holder = Nobody
  /\ unsynced = FALSE /\ kicked = FALSE /\ stop = FALSE /\ rested = TRUE /\ syncDue = FALSE
  /\ pc = [p \in Procs |-> IF p = Saver THEN "exit" ELSE "idle"]
  /\ job = [p \in Procs |-> NoJob]
  /\ file = Absent /\ tmp = Absent /\ since = {Absent} /\ safe = Absent /\ aside = {}

Goto(p, point) == pc' = [pc EXCEPT ![p] = point]

(* notify_all on `wake`: the saver, if it waits, looks again.              *)
Notified == [pc EXCEPT ![Saver] = IF @ = "asleep" THEN "look" ELSE @]

---------------------------------------------------------------------------
(***************************************************************************)
(* open_inner: load overlay.reg.  A file that does not decode is moved      *)
(* aside and the session starts empty; when even that rename fails, open    *)
(* fails.  The saver thread starts.                                         *)
(***************************************************************************)
Open ==
  /\ phase = "closed"
  /\ \/ file # Torn /\ UNCHANGED store
     \/ /\ file = Torn
        /\ file' = Absent /\ aside' = {Torn} /\ since' = since \cup {Absent}
        /\ UNCHANGED <<tmp, safe>>
  /\ phase' = "open"
  /\ overlay' = VersionOf(file') /\ base' = VersionOf(file') /\ saved' = VersionOf(file')
  /\ unsynced' = FALSE /\ kicked' = FALSE /\ stop' = FALSE /\ rested' = TRUE /\ syncDue' = FALSE
  /\ Goto(Saver, "look")
  /\ UNCHANGED <<holder, job>>

(* mutate, its first half: the write is applied under the overlay's lock.   *)
Mutate(p) ==
  /\ phase = "open" /\ pc[p] = "idle" /\ overlay < MaxVersion
  /\ overlay' = overlay + 1
  /\ Goto(p, "kick")
  /\ UNCHANGED <<phase, base, saved, holder, unsynced, kicked, stop, rested, syncDue, job, store>>

(* mutate, its end: kick the saver.                                        *)
Kick(p) ==
  /\ pc[p] = "kick"
  /\ kicked' = TRUE
  /\ pc' = [Notified EXCEPT ![p] = "idle"]
  /\ UNCHANGED <<phase, overlay, base, saved, holder, unsynced, stop, rested, syncDue, job, store>>

(* flush and durable: both save; durable then calls the hook.              *)
Call(p) ==
  /\ phase = "open" /\ pc[p] = "idle"
  /\ \E c \in {"flush", "durable"} :
       job' = [job EXCEPT ![p] = [NoJob EXCEPT !.call = c, !.asked = overlay,
                                               !.sync = (c = "durable")]]
  /\ Goto(p, "save")
  /\ UNCHANGED <<host, store>>

---------------------------------------------------------------------------
\* Mutant: does not mark the save as not yet durable.
SaveBegin_unmarked(p) ==
  /\ pc[p] = "save" /\ holder = Nobody
  /\ IF overlay = saved
       THEN Goto(p, "saved_ok") /\ UNCHANGED <<holder, job>>
       ELSE /\ holder' = p
            /\ job' = [job EXCEPT ![p].bytes = overlay]
            /\ Goto(p, "open_tmp")
  /\ UNCHANGED <<phase, overlay, base, saved, unsynced, kicked, stop, rested, syncDue, store>>

\* Mutant: saves without the `saved` lock.
SaveBegin_unlocked(p) ==
  /\ pc[p] = "save"
  /\ unsynced' = TRUE
  /\ job' = [job EXCEPT ![p].bytes = overlay]
  /\ Goto(p, IF overlay = saved THEN "saved_ok" ELSE "open_tmp")
  /\ UNCHANGED <<phase, overlay, base, saved, holder, kicked, stop, rested, syncDue, store>>

(* save_if_dirty: lock `saved`; clean, or encode the overlay as it is now.  *)
(* `unsynced` is set before the store is touched.                           *)
SaveBegin(p) ==
  /\ pc[p] = "save" /\ holder = Nobody
  /\ IF overlay = saved
       THEN /\ Goto(p, "saved_ok")
            /\ UNCHANGED <<holder, unsynced, job>>
       ELSE /\ holder' = p /\ unsynced' = TRUE
            /\ job' = [job EXCEPT ![p].bytes = overlay]
            /\ Goto(p, "open_tmp")
  /\ UNCHANGED <<phase, overlay, base, saved, kicked, stop, rested, syncDue, store>>

(* Any store call of a save may fail: the lock goes, the error is returned. *)
SaveFails(p) ==
  /\ pc[p] \in {"open_tmp", "fill", "rename"}
  /\ holder' = Nobody
  /\ Goto(p, "saved_err")
  /\ UNCHANGED <<phase, overlay, base, saved, unsynced, kicked, stop, rested, syncDue, job, store>>

(* write_whole: create or truncate the temporary file, then fill it.       *)
OpenTmp(p) ==
  /\ pc[p] = "open_tmp"
  /\ tmp' = Torn
  /\ Goto(p, "fill")
  /\ UNCHANGED <<host, job, file, since, safe, aside>>

\* Mutant: takes a short write for the whole.
Fill_short(p) ==
  pc[p] = "fill" /\ Goto(p, "rename") /\ UNCHANGED <<host, job, store>>

Fill(p) ==
  /\ pc[p] = "fill"
  /\ tmp' = job[p].bytes
  /\ Goto(p, "rename")
  /\ UNCHANGED <<host, job, file, since, safe, aside>>

\* Mutant: deletes overlay.reg, then renames.
Rename_replaces(p) ==
  /\ pc[p] = "rename"
  /\ file' = tmp /\ tmp' = Absent /\ since' = since \cup {Absent, tmp}
  /\ Goto(p, "record")
  /\ UNCHANGED <<host, job, safe, aside>>

(* rename over overlay.reg, atomic in the store.                           *)
Rename(p) ==
  /\ pc[p] = "rename"
  /\ file' = tmp /\ tmp' = Absent /\ since' = since \cup {tmp}
  /\ Goto(p, "record")
  /\ UNCHANGED <<host, job, safe, aside>>

(* *saved = version; the lock goes.                                        *)
Record(p) ==
  /\ pc[p] = "record"
  /\ saved' = job[p].bytes /\ holder' = Nobody
  /\ Goto(p, "saved_ok")
  /\ UNCHANGED <<phase, overlay, base, unsynced, kicked, stop, rested, syncDue, job, store>>

(* What follows the save: `?` for a caller, a kick and a retry for the      *)
(* saver, a log line for the drop, which then is over.                      *)
SaveReturns(p) ==
  /\ pc[p] \in {"saved_ok", "saved_err"}
  /\ LET ok == pc[p] = "saved_ok" IN
     \/ /\ p \in Callers
        /\ Goto(p, IF ok /\ job[p].sync THEN "sync" ELSE IF ok THEN "returned" ELSE "idle")
        /\ job' = IF ok THEN job ELSE [job EXCEPT ![p] = NoJob]
        /\ UNCHANGED <<phase, overlay, kicked, syncDue>>
     \/ /\ p = Saver
        /\ kicked' = (kicked \/ ~ok)
        /\ syncDue' = (syncDue /\ ~job[p].sync)
        /\ Goto(p, IF job[p].sync THEN "sync" ELSE "look")
        /\ job' = [job EXCEPT ![p].bytes = 0]
        /\ UNCHANGED <<phase, overlay>>
     \/ /\ p = Dropper
        /\ phase' = "closed" /\ overlay' = VersionOf(file)
        /\ Goto(p, "idle")
        /\ job' = [job EXCEPT ![p] = NoJob]
        /\ UNCHANGED <<kicked, syncDue>>
  /\ UNCHANGED <<base, saved, holder, unsynced, stop, rested, store>>

---------------------------------------------------------------------------
\* Mutant: clears the flag without the `saved` lock.
SyncBegin_unlocked(p) ==
  /\ pc[p] = "sync"
  /\ unsynced' = FALSE
  /\ Goto(p, IF HasSync /\ unsynced THEN "syncing" ELSE IF p = Saver THEN "look" ELSE "returned")
  /\ UNCHANGED <<phase, overlay, base, saved, holder, kicked, stop, rested, syncDue, job, store>>

(* sync_if_unsynced: no hook, or nothing to cover, is Ok at once; otherwise *)
(* the flag is cleared and the hook runs with `saved` held.                 *)
SyncBegin(p) ==
  /\ pc[p] = "sync" /\ (HasSync => holder = Nobody)
  /\ IF HasSync /\ unsynced
       THEN /\ holder' = p /\ unsynced' = FALSE
            /\ Goto(p, "syncing")
            /\ UNCHANGED job
       ELSE /\ Goto(p, IF p = Saver THEN "look" ELSE "returned")
            /\ job' = [job EXCEPT ![p] = IF p = Saver THEN NoJob ELSE @]
            /\ UNCHANGED <<holder, unsynced>>
  /\ UNCHANGED <<phase, overlay, base, saved, kicked, stop, rested, syncDue, store>>

SyncDone(p) ==
  /\ pc[p] = "syncing"
  /\ since' = {file} /\ safe' = file
  /\ holder' = Nobody
  /\ Goto(p, IF p = Saver THEN "look" ELSE "returned")
  /\ job' = [job EXCEPT ![p] = IF p = Saver THEN NoJob ELSE @]
  /\ UNCHANGED <<phase, overlay, base, saved, unsynced, kicked, stop, rested, syncDue, file, tmp, aside>>

(* The hook failed: the flag is set again and the error returned.          *)
SyncFails(p) ==
  /\ pc[p] = "syncing"
  /\ unsynced' = TRUE /\ holder' = Nobody
  /\ Goto(p, IF p = Saver THEN "look" ELSE "idle")
  /\ job' = [job EXCEPT ![p] = NoJob]
  /\ UNCHANGED <<phase, overlay, base, saved, kicked, stop, rested, syncDue, store>>

(* The call is over: flush or durable has returned Ok.                     *)
Return(p) ==
  /\ pc[p] = "returned"
  /\ Goto(p, "idle")
  /\ job' = [job EXCEPT ![p] = NoJob]
  /\ UNCHANGED <<host, store>>

---------------------------------------------------------------------------
(***************************************************************************)
(* run_saver, one look at its state under the `saver` mutex: stop; a save    *)
(* that is due, a sync that is due, or both; otherwise sleep until notified  *)
(* or until the earliest time it now waits for.                             *)
(***************************************************************************)
Look ==
  /\ pc[Saver] = "look"
  /\ LET save == kicked /\ rested
         owed == HasSync /\ unsynced
         sync == owed /\ syncDue
     IN CASE stop -> Goto(Saver, "exit") /\ UNCHANGED <<kicked, rested, syncDue, job>>
          [] ~stop /\ save ->
               /\ kicked' = FALSE /\ rested' = FALSE
               /\ job' = [job EXCEPT ![Saver] = [NoJob EXCEPT !.sync = sync]]
               /\ Goto(Saver, "save") /\ UNCHANGED syncDue
          [] ~stop /\ ~save /\ sync ->
               /\ syncDue' = FALSE
               /\ Goto(Saver, "sync") /\ UNCHANGED <<kicked, rested, job>>
          [] OTHER ->
               /\ job' = [job EXCEPT ![Saver] = [NoJob EXCEPT !.alarm =
                    (IF kicked THEN {"save"} ELSE {}) \cup (IF owed THEN {"sync"} ELSE {})]]
               /\ Goto(Saver, "asleep") /\ UNCHANGED <<kicked, rested, syncDue>>
  /\ UNCHANGED <<phase, overlay, base, saved, holder, unsynced, stop, store>>

(* wait_timeout ends: a time the saver waits for has come.                 *)
Wake ==
  /\ pc[Saver] = "asleep"
  /\ ("save" \in job[Saver].alarm /\ rested) \/ ("sync" \in job[Saver].alarm /\ syncDue)
  /\ job' = [job EXCEPT ![Saver] = NoJob]
  /\ Goto(Saver, "look")
  /\ UNCHANGED <<host, store>>

(* Time passes: SAVE_INTERVAL after a save, SYNC_INTERVAL after a sync.    *)
Rest ==
  /\ phase # "closed" /\ ~rested /\ rested' = TRUE
  /\ UNCHANGED <<phase, overlay, base, saved, holder, unsynced, kicked, stop, syncDue, pc, job, store>>

SyncTime ==
  /\ phase # "closed" /\ HasSync /\ ~syncDue /\ syncDue' = TRUE
  /\ UNCHANGED <<phase, overlay, base, saved, holder, unsynced, kicked, stop, rested, pc, job, store>>

---------------------------------------------------------------------------
(* Drop of the last reference, so no call is running: stop the saver ...   *)
Drop ==
  /\ phase = "open" /\ \A p \in Callers : pc[p] = "idle"
  /\ phase' = "closing" /\ stop' = TRUE
  /\ pc' = Notified
  /\ UNCHANGED <<overlay, base, saved, holder, unsynced, kicked, rested, syncDue, job, store>>

(* ... join it, then save what is left.                                    *)
Join ==
  /\ phase = "closing" /\ pc[Saver] = "exit" /\ pc[Dropper] = "idle"
  /\ job' = [job EXCEPT ![Saver] = NoJob]
  /\ Goto(Dropper, "save")
  /\ UNCHANGED <<host, store>>

(***************************************************************************)
(* The host process dies, alone or with the machine: its memory is gone and *)
(* the store holds one of the states it has had since the last sync.        *)
(***************************************************************************)
Crash ==
  /\ phase # "closed"
  /\ \E v \in since :
       /\ file' = v /\ since' = {v} /\ safe' = v
       /\ tmp' = Absent  \* whatever it holds is truncated before it is used
       /\ overlay' = VersionOf(v) /\ base' = VersionOf(v) /\ saved' = VersionOf(v)
  /\ phase' = "closed" /\ holder' = Nobody
  /\ unsynced' = FALSE /\ kicked' = FALSE /\ stop' = FALSE /\ rested' = TRUE /\ syncDue' = FALSE
  /\ pc' = [p \in Procs |-> IF p = Saver THEN "exit" ELSE "idle"]
  /\ job' = [p \in Procs |-> NoJob]
  /\ UNCHANGED aside

(* While the layer is not in use something outside damages overlay.reg.    *)
Damage ==
  /\ phase = "closed" /\ file \in Versions /\ aside = {}
  /\ file' = Torn /\ since' = {Absent} /\ safe' = Absent
  /\ overlay' = 0 /\ base' = 0 /\ saved' = 0
  /\ UNCHANGED <<phase, holder, unsynced, kicked, stop, rested, syncDue, pc, job, tmp, aside>>

SaveStep(p) ==
  \/ SaveBegin(p) \/ OpenTmp(p) \/ Fill(p) \/ Rename(p) \/ Record(p) \/ SaveReturns(p)
SyncStep(p) == SyncBegin(p) \/ SyncDone(p)
Fails(p) == SaveFails(p) \/ SyncFails(p)

Next ==
  \/ Open \/ Look \/ Wake \/ Rest \/ SyncTime \/ Drop \/ Join \/ Crash \/ Damage
  \/ \E p \in Procs : SaveStep(p) \/ SyncStep(p) \/ Fails(p)
  \/ \E p \in Callers : Mutate(p) \/ Kick(p) \/ Call(p) \/ Return(p)

Spec == Init /\ [][Next]_vars

---------------------------------------------------------------------------
(* What the host has to show for its bookkeeping: a good save is on the     *)
(* store, overlay.reg is never half written, and while no save or sync is   *)
(* running a clear `unsynced` means a crash can take none of this host's     *)
(* saves back.                                                             *)
Bookkeeping ==
  /\ file = Torn => phase = "closed"
  /\ phase # "closed" /\ holder = Nobody => saved = VersionOf(file)
  /\ phase # "closed" /\ HasSync /\ holder = Nobody /\ ~unsynced /\ saved > base =>
       since = {file}

(* `durable` returning Ok means that every write of this host that had been *)
(* applied when it was called survives a crash from then on, whoever else   *)
(* was saving, syncing or failing to at the time; `flush` means it is in overlay.reg.    *)
DurableMeansKept ==
  \A p \in Callers :
    /\ pc[p] = "returned" /\ job[p].call = "durable" /\ HasSync /\ job[p].asked > base =>
         VersionOf(safe) >= job[p].asked
    /\ pc[p] = "returned" => VersionOf(file) >= job[p].asked

(* Saves are serialised: an older save never lands over a newer one while    *)
(* the host lives.                                                           *)
SavesInOrder ==
  [][phase # "closed" /\ phase' # "closed" => VersionOf(file') >= VersionOf(file)]_vars

(* The saver implements the promise: a register that loses no write a        *)
(* durable point covered.                                                    *)
Promise == INSTANCE DurableRegister WITH
  value <- overlay, kept <- VersionOf(safe), spoiled <- (file = Torn \/ aside # {})
KeepsPromise == Promise!Spec

(* A save that is not yet durable is covered by the periodic durable point,  *)
(* whoever else tried one and failed: while nobody else is at work the saver *)
(* does not sleep over it without a time to wake at.                         *)
SyncsGetRetried ==
  (/\ phase = "open" /\ HasSync /\ unsynced /\ pc[Saver] = "asleep"
   /\ \A p \in Callers : pc[p] = "idle") => job[Saver].alarm # {}
=============================================================================
