------------------------------- MODULE RegKeys -------------------------------
(***************************************************************************)
(* The shim's registry handles: what is recorded for each, and the change  *)
(* notifications asked for on them. Each section is a state machine of its *)
(* own; they share no state.                                               *)
(***************************************************************************)
EXTENDS Integers, FiniteSets

CONSTANTS
    \* handles
    Threads,
    Keys, Elsewhere,   \* objects behind real handles: keys the overlay serves, anything else
    NewName,   \* the key a rename gives the handle
    Values, Slots,   \* real handle values; synthetic handle values
    MaxNotOurs, MaxEnums,   \* MAX_NOT_OURS and MAX_ENUM_STATES
    \* notify
    MAX_WAITERS,
    MaxWrites,   \* bound: registry writes
    MaxCalls,   \* bound: notification calls
    MaxOpens,   \* bound: opens of the handle value
    MaxFaults,   \* bound: polls and thread starts that fail
    AskFails,   \* a call's own request may fail while others get through
    Reuse,   \* a value is handed out again before its close returned
    None

VARIABLES
    \* handles
    kern,   \* the kernel's table: value -> None or [obj, by, prot]
    synth,   \* SYNTH
    pass,   \* PASS
    not_ours,   \* NOT_OURS
    enums,   \* ENUMS: handle -> None or the path its state is of
    job,   \* each thread: idle, or the call it is in the middle of
    user,   \* who uses each handle
    \* notify
    version, changed, published,   \* overlay version; its value at the key's last change; generation
    opened, open,   \* how often the handle value was opened; whether it is open
    pc, call,   \* each caller's place; the call it is in
    waiters,   \* STATE.waiters
    running,   \* STATE.running
    notifier,   \* the notifier thread
    ended,   \* how each call's waiter was completed, or None
    began,   \* the version when each call's waiter was in place
    calls, faults

(***************************************************************************)
(* The shim's registry key handles (vfs-shim regkeys.rs): synthetic        *)
(* handles with a private real handle behind them, records of pass-through *)
(* real handles, the handles known not to be the overlay's, and the        *)
(* enumeration state kept per handle (regquery.rs).  The kernel hands out  *)
(* the lowest facts only: a value that was closed may be handed out again, *)
(* to any thread, for any object.  A thread uses the handles it opened.    *)
(***************************************************************************)
Objects == Keys \cup Elsewhere
Handles == Values \cup Slots

keysVars == <<kern, synth, pass, not_ours, enums, job, user>>

KeysInit ==
    /\ kern = [v \in Values |-> None] /\ synth = [s \in Slots |-> None]
    /\ pass = [v \in Values |-> None] /\ not_ours = {}
    /\ enums = [h \in Handles |-> None]
    /\ job = [t \in Threads |-> [at |-> "idle"]]
    /\ user = [h \in Handles |-> None]

Idle(t) == job[t].at = "idle"
Goto(t, j) == job' = [job EXCEPT ![t] = j]
Done(t) == Goto(t, [at |-> "idle"])
Mine(t, h) == user[h] = t

\* The kernel: a free value now names `obj`.
Fresh(v, obj, by) ==
    kern[v] = None /\ kern' = [kern EXCEPT ![v] = [obj |-> obj, by |-> by, prot |-> FALSE]]
Closed(v) == [kern EXCEPT ![v] = None]

(***************************************************************************)
(* Opening                                                                 *)
(***************************************************************************)
\* The real open of `real_open`, of a file or a key elsewhere, or before the hooks were in.
RealOpen(t) ==
    \E v \in Values, obj \in Objects, hooked \in BOOLEAN :
        /\ Idle(t) /\ Fresh(v, obj, "caller")
        /\ IF hooked /\ obj \in Keys
           THEN Goto(t, [at |-> "track", v |-> v, rec |-> [path |-> obj, renamed |-> FALSE]])
                /\ UNCHANGED user
           ELSE UNCHANGED job /\ user' = [user EXCEPT ![v] = t]
        /\ UNCHANGED <<synth, pass, not_ours, enums>>

track(t) ==
    /\ job[t].at = "track"
    /\ pass' = [pass EXCEPT ![job[t].v] = job[t].rec]
    /\ user' = [user EXCEPT ![job[t].v] = t]
    /\ Done(t)
    /\ UNCHANGED <<kern, synth, not_ours, enums>>

\* A private real handle is opened for a key to be merged, or none for a key created here; a
\* duplicate opens one of its own the same way.
open_private(t) ==
    \E p \in Keys :
        /\ Idle(t)
        /\ \/ \E v \in Values :
                /\ Fresh(v, p, "private")
                /\ Goto(t, [at |-> "insert", path |-> p, real |-> v, close |-> None])
           \/ /\ Goto(t, [at |-> "insert", path |-> p, real |-> None, close |-> None])
              /\ UNCHANGED kern
        /\ UNCHANGED <<synth, pass, not_ours, enums, user>>

\* An open is the real one when no overlay entry is involved, a synthetic handle otherwise.
open_or_create(t) == RealOpen(t) \/ open_private(t)

\* A slot is found for the record, or the table is full and the private handle is closed again.
insert_synthetic(t) ==
    LET j == job[t]
        free == {s \in Slots : synth[s] = None}
    IN /\ j.at = "insert"
       /\ IF free = {}
          THEN /\ kern' = IF j.real = None THEN kern ELSE Closed(j.real)
               /\ UNCHANGED <<synth, user>>
          ELSE \E s \in free :
                 /\ synth' = [synth EXCEPT ![s] = [path |-> j.path, real |-> j.real, protect |-> FALSE]]
                 /\ user' = [user EXCEPT ![s] = t]
                 /\ UNCHANGED kern
       /\ IF j.close = None THEN Done(t) ELSE Goto(t, [at |-> "close_synth", s |-> j.close])
       /\ UNCHANGED <<pass, not_ours, enums>>

(***************************************************************************)
(* Using a handle                                                          *)
\* Mutant: the set grows past its cap.
note_not_ours_uncapped(v) == not_ours' = not_ours \cup {v}

(***************************************************************************)
note_not_ours(v) ==
    not_ours' = IF Cardinality(not_ours) >= MaxNotOurs THEN {v} ELSE not_ours \cup {v}

\* What a handle turns out to be; a real one is looked up by name once and remembered.
resolve(v) ==
    \/ pass[v] # None /\ UNCHANGED <<pass, not_ours>>
    \/ pass[v] = None /\ v \in not_ours /\ UNCHANGED <<pass, not_ours>>
    \/ /\ pass[v] = None /\ v \notin not_ours
       /\ IF kern[v].obj \in Keys
          THEN /\ pass' = [pass EXCEPT ![v] = [path |-> kern[v].obj, renamed |-> FALSE]]
               /\ UNCHANGED not_ours
          ELSE note_not_ours(v) /\ UNCHANGED pass

\* Any registry call on a real handle resolves it first (Write: a value is written, `name_ok` says
\* whether the kernel gave the object's name).  When it did not, the call is refused, not passed
\* on, and nothing is remembered of the handle.
Write(t, v, name_ok) ==
    /\ Idle(t) /\ Mine(t, v) /\ kern[v] # None
    /\ IF name_ok THEN resolve(v) ELSE UNCHANGED <<pass, not_ours>>
    /\ UNCHANGED <<kern, synth, enums, job, user>>

PathOf(h) ==
    IF h \in Slots THEN IF synth[h] = None THEN None ELSE synth[h].path
    ELSE IF pass[h] = None THEN None ELSE pass[h].path

\* An enumeration takes its state out, reads names, and puts the state back if the handle still
\* has the path.
take_state(t, h) ==
    /\ Idle(t) /\ Mine(t, h) /\ PathOf(h) # None
    /\ enums' = [enums EXCEPT ![h] = None]
    /\ Goto(t, [at |-> "put", h |-> h, path |-> PathOf(h)])
    /\ UNCHANGED <<kern, synth, pass, not_ours, user>>

put_state(t) ==
    LET h == job[t].h
        full == Cardinality({g \in Handles : enums[g] # None}) >= MaxEnums
    IN /\ job[t].at = "put"
       /\ enums' = IF PathOf(h) # job[t].path THEN enums
                   ELSE [g \in Handles |-> IF g = h THEN job[t].path ELSE IF full THEN None ELSE enums[g]]
       /\ Done(t)
       /\ UNCHANGED <<kern, synth, pass, not_ours, user>>

\* Mutant: the private handle of the old key stays open.
retarget_leaks(t, h) ==
    /\ Idle(t) /\ Mine(t, h) /\ PathOf(h) # None
    /\ IF h \in Slots
       THEN synth' = [synth EXCEPT ![h].path = NewName, ![h].real = None] /\ UNCHANGED pass
       ELSE pass' = [pass EXCEPT ![h].path = NewName, ![h].renamed = TRUE] /\ UNCHANGED synth
    /\ enums' = [enums EXCEPT ![h] = None]
    /\ UNCHANGED <<kern, not_ours, job, user>>

\* Mutant: an enumeration under way goes on with the old key's names.
retarget_enums(t, h) ==
    /\ Idle(t) /\ Mine(t, h) /\ PathOf(h) # None
    /\ IF h \in Slots
       THEN /\ synth' = [synth EXCEPT ![h].path = NewName, ![h].real = None]
            /\ kern' = IF synth[h].real = None THEN kern ELSE Closed(synth[h].real)
            /\ UNCHANGED pass
       ELSE /\ pass' = [pass EXCEPT ![h].path = NewName, ![h].renamed = TRUE]
            /\ UNCHANGED <<kern, synth>>
    /\ UNCHANGED <<enums, not_ours, job, user>>

enumerate_key(t) == put_state(t) \/ \E h \in Handles : take_state(t, h)

\* After a rename the handle is of the new key, which has no real counterpart.
retarget(t, h) ==
    /\ Idle(t) /\ Mine(t, h) /\ PathOf(h) # None
    /\ IF h \in Slots
       THEN /\ synth' = [synth EXCEPT ![h].path = NewName, ![h].real = None]
            /\ kern' = IF synth[h].real = None THEN kern ELSE Closed(synth[h].real)
            /\ UNCHANGED pass
       ELSE /\ pass' = [pass EXCEPT ![h].path = NewName, ![h].renamed = TRUE]
            /\ UNCHANGED <<kern, synth>>
    /\ enums' = [enums EXCEPT ![h] = None]
    /\ UNCHANGED <<not_ours, job, user>>

set_handle_flags(t, h) ==
    \E on \in BOOLEAN :
        /\ Idle(t) /\ Mine(t, h)
        /\ IF h \in Slots
           THEN synth[h] # None /\ synth' = [synth EXCEPT ![h].protect = on] /\ UNCHANGED kern
           ELSE kern[h] # None /\ kern' = [kern EXCEPT ![h].prot = on] /\ UNCHANGED synth
        /\ UNCHANGED <<pass, not_ours, enums, job, user>>

(***************************************************************************)
(* Closing and duplicating                                                 *)
\* Mutant: a closed value is still remembered.
forget_not_ours_kept(v) == not_ours

(***************************************************************************)
forget_not_ours(v) == not_ours \ {v}

\* Drops a real handle's records before the real close.
untrack(v) ==
    /\ pass' = [pass EXCEPT ![v] = None]
    /\ not_ours' = forget_not_ours(v)
    /\ enums' = [enums EXCEPT ![v] = None]

close(t, h) ==
    /\ Idle(t) /\ Mine(t, h)
    /\ IF h \in Slots
       THEN /\ synth[h] # None /\ ~synth[h].protect
            /\ Goto(t, [at |-> "close_synth", s |-> h])
            /\ UNCHANGED <<pass, not_ours, enums>>
       ELSE /\ untrack(h)
            /\ Goto(t, [at |-> "close_real", v |-> h, rec |-> pass[h]])
    /\ UNCHANGED <<kern, synth, user>>

\* The record goes, then the private handle it owned.
remove_synthetic(t) ==
    LET s == job[t].s
    IN /\ job[t].at = "close_synth"
       /\ IF synth[s] = None \/ synth[s].protect THEN UNCHANGED <<synth, kern, enums, user>>
          ELSE /\ synth' = [synth EXCEPT ![s] = None]
               /\ kern' = IF synth[s].real = None THEN kern ELSE Closed(synth[s].real)
               /\ enums' = [enums EXCEPT ![s] = None]
               /\ user' = [user EXCEPT ![s] = None]
       /\ Done(t)
       /\ UNCHANGED <<pass, not_ours>>

\* The real close; refused for a protected handle, whose record then comes back.
after_real_close(t) ==
    LET v == job[t].v
    IN /\ job[t].at = "close_real"
       /\ IF kern[v].prot
          THEN /\ pass' = IF job[t].rec = None THEN pass ELSE [pass EXCEPT ![v] = job[t].rec]
               /\ UNCHANGED <<kern, user>>
          ELSE /\ kern' = Closed(v) /\ user' = [user EXCEPT ![v] = None]
               /\ UNCHANGED pass
       /\ Done(t)
       /\ UNCHANGED <<synth, not_ours, enums>>

\* A synthetic handle's duplicate has a private real handle of its own.
DuplicateSynth(t, s) ==
    \E closing \in BOOLEAN :
        /\ Idle(t) /\ Mine(t, s) /\ synth[s] # None
        /\ \/ /\ synth[s].real = None /\ UNCHANGED kern
              /\ Goto(t, [at |-> "insert", path |-> synth[s].path, real |-> None,
                          close |-> IF closing THEN s ELSE None])
           \/ \E v \in Values :
                /\ synth[s].real # None
                /\ Fresh(v, synth[s].path, "private")
                /\ Goto(t, [at |-> "insert", path |-> synth[s].path, real |-> v,
                            close |-> IF closing THEN s ELSE None])
        /\ UNCHANGED <<synth, pass, not_ours, enums, user>>

\* A real handle's: the source's records go before the call that closes it.
DuplicateReal(t, v) ==
    \E closing \in BOOLEAN :
        /\ Idle(t) /\ Mine(t, v) /\ kern[v] # None
        /\ IF closing /\ ~kern[v].prot THEN untrack(v) ELSE UNCHANGED <<pass, not_ours, enums>>
        /\ Goto(t, [at |-> "dup", v |-> v, rec |-> pass[v], closing |-> closing /\ ~kern[v].prot])
        /\ UNCHANGED <<kern, synth, user>>

RealDuplicate(t) ==
    LET j == job[t]
        closed == IF j.closing THEN Closed(j.v) ELSE kern
        left == IF j.closing THEN [user EXCEPT ![j.v] = None] ELSE user
    IN \E w \in Values :
        /\ j.at = "dup" /\ closed[w] = None
        /\ kern' = [closed EXCEPT ![w] = [obj |-> kern[j.v].obj, by |-> "caller", prot |-> FALSE]]
        /\ IF j.rec = None THEN user' = [left EXCEPT ![w] = t] /\ Done(t)
           ELSE user' = left /\ Goto(t, [at |-> "track", v |-> w, rec |-> j.rec])
        /\ UNCHANGED <<synth, pass, not_ours, enums>>

KeysNext ==
    \E t \in Threads :
        \/ open_or_create(t) \/ track(t) \/ insert_synthetic(t) \/ enumerate_key(t)
        \/ remove_synthetic(t) \/ after_real_close(t) \/ RealDuplicate(t)
        \/ \E h \in Handles : retarget(t, h) \/ set_handle_flags(t, h) \/ close(t, h)
        \/ \E v \in Values : DuplicateReal(t, v) \/ \E name_ok \in BOOLEAN : Write(t, v, name_ok)
        \/ \E s \in Slots : DuplicateSynth(t, s)

KeysSpec == KeysInit /\ [][KeysNext]_keysVars

(***************************************************************************)
(* Properties                                                              *)
(***************************************************************************)
\* The remembered sets stay within MAX_NOT_OURS and MAX_ENUM_STATES.
KeysTypeOK ==
    /\ Cardinality(not_ours) <= MaxNotOurs
    /\ Cardinality({h \in Handles : enums[h] # None}) <= MaxEnums

\* Each private real handle belongs to exactly one synthetic handle, or to the call that is making
\* one: none is leaked, and none is closed under another handle that shares it.
PrivateOwned ==
    \A v \in Values :
        LET owners == {s \in Slots : synth[s] # None /\ synth[s].real = v}
            makers == {t \in Threads : job[t].at = "insert" /\ job[t].real = v}
        IN Cardinality(owners) + Cardinality(makers) =
             IF kern[v] # None /\ kern[v].by = "private" THEN 1 ELSE 0

\* A recycled handle value inherits nothing: a pass-through record is of the key its handle has
\* open, and only handles to something else are remembered as not the overlay's.  A write is passed
\* to the real registry only for the latter, so none reaches a real key the overlay serves.
RecordsTrue ==
    /\ \A v \in Values : pass[v] # None =>
          /\ kern[v] # None /\ kern[v].by = "caller" /\ kern[v].obj \in Keys
          /\ pass[v].renamed \/ pass[v].path = kern[v].obj
    /\ \A v \in not_ours : kern[v] # None /\ kern[v].obj \in Elsewhere

\* Kept enumeration state is of the key its handle names now.
EnumsTrue ==
    \A h \in Handles : enums[h] # None => PathOf(h) = enums[h]

(***************************************************************************)
(* Registry change notifications (vfs-shim regnotify.rs): callers register *)
(* waiters on a key handle, one notifier thread polls the director and     *)
(* completes them, and closing the handle ends them.  The director applies *)
(* a write and then publishes the registry generation (vfs-director        *)
(* registry.rs).  One watched key; a write hits it or some other key.  A   *)
(* closed handle's value may be handed out again.                          *)
(***************************************************************************)
notifyVars == <<version, changed, published, opened, open, pc, call, waiters, running, notifier, ended,
          began, calls, faults>>

Ids == 1..MaxCalls
Off == [at |-> "off", generation |-> 0, seen |-> None, polls |-> {}, answers |-> {},
        answered |-> TRUE]

NotifyInit ==
    /\ version = 0 /\ changed = 0 /\ published = 1
    /\ opened = 1 /\ open = TRUE
    /\ pc = [t \in Threads |-> "idle"]
    /\ call = [t \in Threads |-> None]
    /\ waiters = {} /\ running = FALSE /\ notifier = Off
    /\ ended = [i \in Ids |-> None] /\ began = [i \in Ids |-> None]
    /\ calls = 0 /\ faults = 0

Fault == faults < MaxFaults /\ faults' = faults + 1

(***************************************************************************)
(* The director                                                            *)
(***************************************************************************)
mutate ==
    \E hit \in BOOLEAN :
        /\ version < MaxWrites
        /\ version' = version + 1
        /\ changed' = IF hit THEN version + 1 ELSE changed
        /\ UNCHANGED <<published, opened, open, pc, call, waiters, running, notifier, ended, began,
                       calls, faults>>

\* Every applied write publishes once.
publish ==
    /\ published < version + 1
    /\ published' = published + 1
    /\ UNCHANGED <<version, changed, opened, open, pc, call, waiters, running, notifier, ended,
                   began, calls, faults>>

(***************************************************************************)
(* The callers                                                             *)
(***************************************************************************)
\* The call asks the director which version to watch from; no answer leaves that open.
notify(t) ==
    \E sync \in BOOLEAN :
        /\ pc[t] = "idle" /\ open /\ calls < MaxCalls
        /\ calls' = calls + 1
        /\ pc' = [pc EXCEPT ![t] = "asked"]
        /\ \/ /\ call' = [call EXCEPT ![t] = [id |-> calls + 1, handle |-> opened, since |-> version,
                                              sync |-> sync]]
              /\ UNCHANGED faults
           \/ /\ AskFails /\ Fault
              /\ call' = [call EXCEPT ![t] = [id |-> calls + 1, handle |-> opened, since |-> None,
                                              sync |-> sync]]
        /\ UNCHANGED <<version, changed, published, opened, open, waiters, running, notifier, ended,
                       began>>

Return(t) == pc' = [pc EXCEPT ![t] = "idle"] /\ call' = [call EXCEPT ![t] = None]

\* Mutant: the limit is checked before the lock is taken, so it is not checked at all.
register_unbounded(t) ==
    /\ pc[t] = "asked"
    /\ waiters' = waiters \cup {[id |-> call[t].id, handle |-> call[t].handle, since |-> call[t].since]}
    /\ began' = [began EXCEPT ![call[t].id] = version]
    /\ running' = TRUE
    /\ notifier' = IF running THEN notifier ELSE [Off EXCEPT !.at = "sleep"]
    /\ Return(t)
    /\ UNCHANGED <<version, changed, published, opened, open, ended, calls, faults>>

\* Registers the waiter under the lock, starting the notifier first when it is not running.
register(t) ==
    /\ pc[t] = "asked"
    /\ \/ /\ Cardinality(waiters) >= MAX_WAITERS
          /\ Return(t)
          /\ UNCHANGED <<waiters, running, notifier, began, faults>>
       \/ /\ Cardinality(waiters) < MAX_WAITERS
          /\ waiters' = waiters \cup {[id |-> call[t].id, handle |-> call[t].handle,
                                       since |-> call[t].since]}
          /\ began' = [began EXCEPT ![call[t].id] = version]
          /\ running' = TRUE
          /\ notifier' = IF running THEN notifier ELSE [Off EXCEPT !.at = "sleep"]
          /\ IF call[t].sync THEN pc' = [pc EXCEPT ![t] = "wait"] /\ UNCHANGED call
             ELSE Return(t)
          /\ UNCHANGED faults
       \/ /\ Cardinality(waiters) < MAX_WAITERS /\ ~running
          /\ Fault
          /\ Return(t)
          /\ UNCHANGED <<waiters, running, notifier, began>>
    /\ UNCHANGED <<version, changed, published, opened, open, ended, calls>>

\* The synchronous caller is woken.
wait_sync(t) ==
    /\ pc[t] = "wait" /\ ended[call[t].id] # None
    /\ Return(t)
    /\ UNCHANGED <<version, changed, published, opened, open, waiters, running, notifier, ended, began,
                   calls, faults>>

\* The real close returns; the handle's notifications are ended after it.
NtClose(t) ==
    /\ pc[t] = "idle" /\ open
    /\ \A u \in Threads : pc[u] # "asked"
    /\ open' = FALSE
    /\ pc' = [pc EXCEPT ![t] = "cleanup"]
    /\ UNCHANGED <<version, changed, published, opened, call, waiters, running, notifier, ended, began,
                   calls, faults>>

\* Ends the waiters on the value `h` just closed, whoever registered them.
Gone == waiters

cleanup(t) ==
    /\ pc[t] = "cleanup"
    /\ waiters' = waiters \ Gone
    /\ ended' = [i \in Ids |-> IF \E w \in Gone : w.id = i THEN "cleanup" ELSE ended[i]]
    /\ pc' = [pc EXCEPT ![t] = "idle"]
    /\ UNCHANGED <<version, changed, published, opened, open, call, running, notifier, began, calls,
                   faults>>

Reopen ==
    /\ ~open /\ opened < MaxOpens
    /\ Reuse \/ \A t \in Threads : pc[t] # "cleanup"
    /\ opened' = opened + 1 /\ open' = TRUE
    /\ UNCHANGED <<version, changed, published, pc, call, waiters, running, notifier, ended, began,
                   calls, faults>>

(***************************************************************************)
(* The notifier thread                                                     *)
(***************************************************************************)
NotifierStep(n) ==
    /\ notifier' = n
    /\ UNCHANGED <<version, changed, published, opened, open, pc, call, began, calls>>

\* Every POLL: the generation is read before the waiters.
Wake ==
    /\ notifier.at = "sleep"
    /\ NotifierStep([notifier EXCEPT !.at = "snapshot", !.generation = published])
    /\ UNCHANGED <<waiters, running, ended, faults>>

\* Mutant: the notifier exits without saying so.
Snapshot_silent ==
    /\ notifier.at = "snapshot"
    /\ NotifierStep(IF waiters = {} THEN Off
                    ELSE [notifier EXCEPT !.at = "poll", !.polls = waiters])
    /\ UNCHANGED <<waiters, running, ended, faults>>

Snapshot ==
    LET skip == notifier.seen = notifier.generation /\ \A w \in waiters : w.since # None
    IN /\ notifier.at = "snapshot"
       /\ running' = (waiters # {})
       /\ NotifierStep(IF waiters = {} THEN Off
                       ELSE IF skip THEN [notifier EXCEPT !.at = "sleep", !.generation = 0]
                       ELSE [notifier EXCEPT !.at = "poll", !.polls = waiters])
       /\ UNCHANGED <<waiters, ended, faults>>

\* Mutant: any write counts as a change of the key.
Poll_any ==
    \E w \in notifier.polls :
        /\ notifier.at = "poll"
        /\ NotifierStep([notifier EXCEPT
               !.polls = @ \ {w},
               !.answers = @ \cup {[id |-> w.id, version |-> version,
                                    fire |-> w.since # None /\ version > w.since]}])
        /\ UNCHANGED <<waiters, running, ended, faults>>

\* One REG_CHANGED request; without an answer the waiter keeps waiting.
Poll ==
    \E w \in notifier.polls :
        /\ notifier.at = "poll"
        /\ \/ /\ NotifierStep([notifier EXCEPT
                     !.polls = @ \ {w},
                     !.answers = @ \cup {[id |-> w.id, version |-> version,
                                          fire |-> w.since # None /\ changed > w.since]}])
              /\ UNCHANGED faults
           \/ /\ Fault
              /\ NotifierStep([notifier EXCEPT !.polls = @ \ {w}, !.answered = FALSE])
        /\ UNCHANGED <<waiters, running, ended>>

\* Mutant: the generation is read once the polls are answered.
Apply_late ==
    LET Fires(w) == \E a \in notifier.answers : a.id = w.id /\ a.fire
    IN /\ notifier.at = "poll" /\ notifier.polls = {}
       /\ waiters' = {w \in waiters : ~Fires(w)}
       /\ NotifierStep([notifier EXCEPT
              !.at = "sleep",
              !.seen = IF notifier.answered THEN published ELSE None,
              !.generation = 0, !.answers = {}, !.answered = TRUE])
       /\ ended' = [i \in Ids |-> IF \E w \in waiters : w.id = i /\ Fires(w) THEN "changed" ELSE ended[i]]
       /\ UNCHANGED <<running, faults>>

\* Mutant: a waiter is completed although a close has ended it meanwhile.
Apply_again ==
    LET Fires(i) == \E a \in notifier.answers : a.id = i /\ a.fire
    IN /\ notifier.at = "poll" /\ notifier.polls = {}
       /\ waiters' = {w \in waiters : ~Fires(w.id)}
       /\ NotifierStep([notifier EXCEPT
              !.at = "sleep",
              !.seen = IF notifier.answered THEN notifier.generation ELSE None,
              !.generation = 0, !.answers = {}, !.answered = TRUE])
       /\ ended' = [i \in Ids |-> IF Fires(i) THEN "changed" ELSE ended[i]]
       /\ UNCHANGED <<running, faults>>

\* The answers are applied to the waiters still there.
Apply ==
    LET Fires(w) == \E a \in notifier.answers : a.id = w.id /\ a.fire
        Told(w) == {a \in notifier.answers : a.id = w.id}
        Since(w) == IF w.since = None /\ Told(w) # {}
                    THEN [w EXCEPT !.since = (CHOOSE a \in Told(w) : TRUE).version] ELSE w
    IN /\ notifier.at = "poll" /\ notifier.polls = {}
       /\ waiters' = {Since(w) : w \in {x \in waiters : ~Fires(x)}}
       /\ NotifierStep([notifier EXCEPT
              !.at = "sleep",
              !.seen = IF notifier.answered THEN notifier.generation ELSE None,
              !.generation = 0, !.answers = {}, !.answered = TRUE])
       /\ ended' = [i \in Ids |-> IF \E w \in waiters : w.id = i /\ Fires(w) THEN "changed" ELSE ended[i]]
       /\ UNCHANGED <<running, faults>>

Notifier == Wake \/ Snapshot \/ Poll \/ Apply

NotifyNext ==
    \/ mutate \/ publish \/ Reopen \/ Notifier
    \/ \E t \in Threads : notify(t) \/ register(t) \/ wait_sync(t) \/ NtClose(t) \/ cleanup(t)

NotifySpec == NotifyInit /\ [][NotifyNext]_notifyVars

(* The notifier thread runs, the director publishes what it applied, and a *)
(* call that began goes on.                                                *)
Fairness ==
    /\ WF_notifyVars(publish) /\ WF_notifyVars(Notifier)
    /\ \A t \in Threads : WF_notifyVars(register(t)) /\ WF_notifyVars(cleanup(t))

LiveSpec == NotifySpec /\ Fairness

(***************************************************************************)
(* Properties                                                              *)
(***************************************************************************)
\* The waiter table stays within MAX_WAITERS, and the generation never runs ahead of the writes.
NotifyTypeOK ==
    /\ Cardinality(waiters) <= MAX_WAITERS
    /\ published <= version + 1 /\ changed <= version
    /\ \A w \in waiters : w.id \in 1..calls /\ w.handle \in 1..opened

CompletedOnceStep ==
    \A i \in Ids :
       /\ ended[i] # None => ended'[i] = ended[i]
       /\ (\E w \in waiters : w.id = i) =>
            (\E w \in waiters' : w.id = i) \/ ended'[i] # None

\* A registered waiter is in the table until it is completed and never after: none is dropped
\* without a completion, and none is completed twice.
CompletedOnce == [][CompletedOnceStep]_notifyVars

\* No waiter is left without a thread to complete it: while one is pending, the notifier runs.
WaitersServed == waiters # {} => running /\ notifier.at # "off"

NeverSpuriousStep ==
    \A i \in Ids : \A w \in waiters :
       w.id = i /\ ended'[i] # ended[i] =>
           \/ ended'[i] = "changed" /\ w.since # None /\ changed > w.since
           \/ ended'[i] = "cleanup" /\ (w.handle < opened \/ ~open)

\* Waiters are never completed spuriously: one told of a change had a change after the version it
\* watches from, and one told of a close had its own handle closed.
NeverSpurious == [][NeverSpuriousStep]_notifyVars

\* A change made once the call has registered its waiter completes it, unless a close does.
ChangesWake ==
    \A i \in Ids : (began[i] # None /\ changed > began[i]) ~> (ended[i] # None \/ began[i] = None)

\* A waiter is completed by every change after the version it watches from.
SinceHonoured ==
    \A i \in Ids :
        (\E w \in waiters : w.id = i /\ w.since # None /\ changed > w.since) ~> (ended[i] # None)
==============================================================================
