------------------------- MODULE RegistrySaverProofs -------------------------
(***************************************************************************)
(* For any number of callers and writes, with or without a hook: saves land *)
(* in order, `durable` keeps its promise through every crash, and the host  *)
(* implements DurableRegister.                                              *)
(***************************************************************************)
EXTENDS RegistrySaver, TLAPS

\* Where a process holds the `saved` lock: in a save, or in the hook.
InSave == {"open_tmp", "fill", "rename", "record"}

\* The lock is held by who is in a critical section, and the drop of the host
\* runs alone.
Locking ==
  /\ \A p \in Procs : pc[p] \in InSave \cup {"syncing"} <=> holder = p
  /\ phase = "closed" => \A p \in Procs : pc[p] = IF p = Saver THEN "exit" ELSE "idle"
  /\ phase = "closing" => \A p \in Callers : pc[p] = "idle"
  /\ pc[Dropper] # "idle" => phase = "closing" /\ pc[Saver] = "exit"
  /\ pc[Dropper] \notin {"sync", "syncing", "returned", "look", "asleep", "kick"}

\* overlay.reg moves up from what is safe; only damage from outside, while the
\* layer is not in use, leaves it torn.
OnDisk ==
  /\ file = Torn => phase = "closed" /\ since = {Absent} /\ safe = Absent /\ overlay = 0
  /\ file # Torn =>
       /\ safe \in since /\ file \in since
       /\ \A v \in since : VersionOf(safe) <= VersionOf(v) /\ VersionOf(v) <= VersionOf(file)
       /\ VersionOf(file) <= overlay
       /\ phase = "closed" => overlay = VersionOf(file)

\* A save is of a version newer than the one last saved.
Saving ==
  /\ phase # "closed" => base <= saved /\ saved <= overlay
  /\ phase # "closed" /\ (\A p \in Procs : pc[p] # "record") => saved = VersionOf(file)
  /\ \A p \in Procs : pc[p] \in InSave => unsynced /\ saved < job[p].bytes /\ job[p].bytes <= overlay
  /\ \A p \in Procs : pc[p] = "rename" => tmp = job[p].bytes
  /\ \A p \in Procs : pc[p] = "record" => file = job[p].bytes

\* What a clear `unsynced` says.
Synced ==
  phase # "closed" /\ HasSync /\ holder = Nobody /\ ~unsynced /\ saved > base => since = {file}

\* A call has saved what it was asked to save, and `durable` has made it safe.
Asked ==
  \A p \in Callers :
    /\ job[p].sync <=> job[p].call = "durable"
    /\ pc[p] \notin {"idle", "kick"} => job[p].asked <= overlay
    /\ pc[p] \in InSave => job[p].asked <= job[p].bytes
    /\ pc[p] \in {"saved_ok", "sync", "syncing", "returned"} => job[p].asked <= saved
    /\ pc[p] = "returned" /\ job[p].call = "durable" /\ HasSync /\ job[p].asked > base =>
         job[p].asked <= VersionOf(safe)

\* The locals of a process stay locals as its fields are set.
LEMMA JobTypes ==
  /\ NoJob \in Jobs
  /\ \A j \in Jobs, v \in Versions : [j EXCEPT !.bytes = v] \in Jobs
  /\ \A b \in BOOLEAN : [NoJob EXCEPT !.sync = b] \in Jobs
  /\ \A a \in SUBSET {"save", "sync"} : [NoJob EXCEPT !.alarm = a] \in Jobs
<1>1. NoJob \in Jobs
  BY SaverAssumption DEF Jobs, NoJob, Versions
<1>2. ASSUME NEW j \in Jobs, NEW v \in Versions PROVE [j EXCEPT !.bytes = v] \in Jobs
  BY DEF Jobs
<1>3. ASSUME NEW b \in BOOLEAN PROVE [NoJob EXCEPT !.sync = b] \in Jobs
  BY <1>1 DEF Jobs
<1>4. ASSUME NEW a \in SUBSET {"save", "sync"} PROVE [NoJob EXCEPT !.alarm = a] \in Jobs
  BY <1>1 DEF Jobs
<1> QED
  BY <1>1, <1>2, <1>3, <1>4

\* The locals of a call.
LEMMA CallJob ==
  ASSUME NEW c \in {"flush", "durable"}, NEW v \in Versions, NEW b \in BOOLEAN
  PROVE  LET j == [NoJob EXCEPT !.call = c, !.asked = v, !.sync = b]
         IN  j \in Jobs /\ j.call = c /\ j.asked = v /\ j.sync = b
<1>1. NoJob \in Jobs
  BY JobTypes
<1> QED
  BY <1>1 DEF Jobs

IInv == TypeOK /\ Locking /\ OnDisk /\ Saving /\ Synced /\ Asked

-----------------------------------------------------------------------------
\* The host opens: what it loads is what overlay.reg holds.
LEMMA Open_Inductive ==
    ASSUME IInv, Open
    PROVE  IInv'
<1> USE SaverAssumption DEF IInv, Open, Goto, Notified, host, store, Procs, Saver, Dropper, Nobody,
        Versions, NoJob, Absent, Torn, VersionOf
<1>1. TypeOK'
  BY JobTypes DEF TypeOK, Points, OnDisk
<1>2. Locking'
  BY DEF TypeOK, Locking, InSave
<1>3. OnDisk'
  <2>1. CASE file = Torn
    BY <2>1 DEF TypeOK, OnDisk
  <2>2. CASE file # Torn
    BY <2>2 DEF TypeOK, OnDisk
  <2> QED
    BY <2>1, <2>2
<1>4. Saving'
  BY DEF TypeOK, Jobs, OnDisk, Locking, Saving, InSave
<1>5. Synced'
  BY DEF TypeOK, OnDisk, Locking, Saving, InSave, Synced
<1>6. Asked'
  BY DEF TypeOK, Jobs, OnDisk, Locking, Saving, InSave, Synced, Asked
<1> QED
  BY <1>1, <1>2, <1>3, <1>4, <1>5, <1>6

\* The saver looks at its state.
LEMMA Look_Inductive ==
    ASSUME IInv, Look
    PROVE  IInv'
<1> USE SaverAssumption DEF IInv, Look, Goto, Notified, host, store, Procs, Saver, Dropper, Nobody,
        Versions, NoJob, Absent, Torn, VersionOf
<1>1. TypeOK'
  <2> DEFINE a == (IF kicked THEN {"save"} ELSE {}) \cup (IF HasSync /\ unsynced THEN {"sync"} ELSE {})
             b == HasSync /\ unsynced /\ syncDue
  <2>0. a \in SUBSET {"save", "sync"} /\ b \in BOOLEAN
    OBVIOUS
  <2>1. job' \in [Procs -> Jobs]
    <3>1. [NoJob EXCEPT !.alarm = a] \in Jobs /\ [NoJob EXCEPT !.sync = b] \in Jobs
      BY <2>0, JobTypes
    <3>2. \/ job' = job
          \/ job' = [job EXCEPT ![Saver] = [NoJob EXCEPT !.alarm = a]]
          \/ job' = [job EXCEPT ![Saver] = [NoJob EXCEPT !.sync = b]]
      OBVIOUS
    <3> HIDE DEF a, b, NoJob
    <3> QED
      BY <3>1, <3>2 DEF TypeOK
  <2>2. pc' \in [Procs -> Points]
    BY DEF TypeOK, Points
  <2>3. /\ phase' \in {"open", "closing", "closed"} /\ holder' \in Procs \cup {Nobody}
        /\ overlay' \in Versions /\ base' \in Versions /\ saved' \in Versions
    BY DEF TypeOK, Jobs, Locking, Saving, OnDisk
  <2>4. /\ unsynced' \in BOOLEAN /\ kicked' \in BOOLEAN /\ stop' \in BOOLEAN
        /\ rested' \in BOOLEAN /\ syncDue' \in BOOLEAN
    BY DEF TypeOK, Jobs
  <2>5. /\ file' \in Versions \cup {Absent, Torn} /\ tmp' \in Versions \cup {Absent, Torn}
        /\ since' \subseteq Versions \cup {Absent} /\ safe' \in Versions \cup {Absent}
        /\ aside' \in SUBSET {Torn}
    BY DEF TypeOK, Jobs, OnDisk, Locking
  <2> QED
    BY <2>1, <2>2, <2>3, <2>4, <2>5 DEF TypeOK
<1>2. Locking'
  BY DEF TypeOK, Locking, InSave
<1>3. OnDisk'
  BY DEF TypeOK, OnDisk, Locking, Saving, InSave
<1>4. Saving'
  BY DEF TypeOK, Jobs, OnDisk, Locking, Saving, InSave
<1>5. Synced'
  BY DEF TypeOK, OnDisk, Locking, Saving, InSave, Synced
<1>6. Asked'
  BY DEF TypeOK, Jobs, OnDisk, Locking, Saving, InSave, Synced, Asked
<1> QED
  BY <1>1, <1>2, <1>3, <1>4, <1>5, <1>6

\* The saver wakes.
LEMMA Wake_Inductive ==
    ASSUME IInv, Wake
    PROVE  IInv'
<1> USE SaverAssumption DEF IInv, Wake, Goto, Notified, host, store, Procs, Saver, Dropper, Nobody,
        Versions, NoJob, Absent, Torn, VersionOf
<1>1. TypeOK'
  BY JobTypes DEF TypeOK, Points, OnDisk
<1>2. Locking'
  BY DEF TypeOK, Locking, InSave
<1>3. OnDisk'
  BY DEF TypeOK, OnDisk, Locking, Saving, InSave
<1>4. Saving'
  BY DEF TypeOK, Jobs, OnDisk, Locking, Saving, InSave
<1>5. Synced'
  BY DEF TypeOK, OnDisk, Locking, Saving, InSave, Synced
<1>6. Asked'
  BY DEF TypeOK, Jobs, OnDisk, Locking, Saving, InSave, Synced, Asked
<1> QED
  BY <1>1, <1>2, <1>3, <1>4, <1>5, <1>6

\* Time passes.
LEMMA Rest_Inductive ==
    ASSUME IInv, Rest
    PROVE  IInv'
<1> USE SaverAssumption DEF IInv, Rest, Goto, Notified, host, store, Procs, Saver, Dropper, Nobody,
        Versions, NoJob, Absent, Torn, VersionOf
<1>1. TypeOK'
  BY JobTypes DEF TypeOK, Points, OnDisk
<1>2. Locking'
  BY DEF TypeOK, Locking, InSave
<1>3. OnDisk'
  BY DEF TypeOK, OnDisk, Locking, Saving, InSave
<1>4. Saving'
  BY DEF TypeOK, Jobs, OnDisk, Locking, Saving, InSave
<1>5. Synced'
  BY DEF TypeOK, OnDisk, Locking, Saving, InSave, Synced
<1>6. Asked'
  BY DEF TypeOK, Jobs, OnDisk, Locking, Saving, InSave, Synced, Asked
<1> QED
  BY <1>1, <1>2, <1>3, <1>4, <1>5, <1>6

\* Time passes.
LEMMA SyncTime_Inductive ==
    ASSUME IInv, SyncTime
    PROVE  IInv'
<1> USE SaverAssumption DEF IInv, SyncTime, Goto, Notified, host, store, Procs, Saver, Dropper, Nobody,
        Versions, NoJob, Absent, Torn, VersionOf
<1>1. TypeOK'
  BY JobTypes DEF TypeOK, Points, OnDisk
<1>2. Locking'
  BY DEF TypeOK, Locking, InSave
<1>3. OnDisk'
  BY DEF TypeOK, OnDisk, Locking, Saving, InSave
<1>4. Saving'
  BY DEF TypeOK, Jobs, OnDisk, Locking, Saving, InSave
<1>5. Synced'
  BY DEF TypeOK, OnDisk, Locking, Saving, InSave, Synced
<1>6. Asked'
  BY DEF TypeOK, Jobs, OnDisk, Locking, Saving, InSave, Synced, Asked
<1> QED
  BY <1>1, <1>2, <1>3, <1>4, <1>5, <1>6

\* The drop begins.
LEMMA Drop_Inductive ==
    ASSUME IInv, Drop
    PROVE  IInv'
<1> USE SaverAssumption DEF IInv, Drop, Goto, Notified, host, store, Procs, Saver, Dropper, Nobody,
        Versions, NoJob, Absent, Torn, VersionOf
<1>1. TypeOK'
  BY JobTypes DEF TypeOK, Points, OnDisk
<1>2. Locking'
  BY DEF TypeOK, Locking, InSave
<1>3. OnDisk'
  BY DEF TypeOK, OnDisk, Locking, Saving, InSave
<1>4. Saving'
  BY DEF TypeOK, Jobs, OnDisk, Locking, Saving, InSave
<1>5. Synced'
  BY DEF TypeOK, OnDisk, Locking, Saving, InSave, Synced
<1>6. Asked'
  BY DEF TypeOK, Jobs, OnDisk, Locking, Saving, InSave, Synced, Asked
<1> QED
  BY <1>1, <1>2, <1>3, <1>4, <1>5, <1>6

\* The drop goes on to the last save.
LEMMA Join_Inductive ==
    ASSUME IInv, Join
    PROVE  IInv'
<1> USE SaverAssumption DEF IInv, Join, Goto, Notified, host, store, Procs, Saver, Dropper, Nobody,
        Versions, NoJob, Absent, Torn, VersionOf
<1>1. TypeOK'
  BY JobTypes DEF TypeOK, Points, OnDisk
<1>2. Locking'
  BY DEF TypeOK, Locking, InSave
<1>3. OnDisk'
  BY DEF TypeOK, OnDisk, Locking, Saving, InSave
<1>4. Saving'
  BY DEF TypeOK, Jobs, OnDisk, Locking, Saving, InSave
<1>5. Synced'
  BY DEF TypeOK, OnDisk, Locking, Saving, InSave, Synced
<1>6. Asked'
  BY DEF TypeOK, Jobs, OnDisk, Locking, Saving, InSave, Synced, Asked
<1> QED
  BY <1>1, <1>2, <1>3, <1>4, <1>5, <1>6

\* A crash leaves a file the host had since the last sync.
LEMMA Crash_Inductive ==
    ASSUME IInv, Crash
    PROVE  IInv'
<1> USE SaverAssumption DEF IInv, Crash, Goto, Notified, host, store, Procs, Saver, Dropper, Nobody,
        Versions, NoJob, Absent, Torn, VersionOf
<1>1. TypeOK'
  <2>1. job' \in [Procs -> Jobs]
    BY JobTypes DEF TypeOK
  <2>2. pc' \in [Procs -> Points]
    BY DEF TypeOK, Points
  <2>3. /\ phase' \in {"open", "closing", "closed"} /\ holder' \in Procs \cup {Nobody}
        /\ overlay' \in Versions /\ base' \in Versions /\ saved' \in Versions
    BY DEF TypeOK, Jobs, Locking, Saving, OnDisk
  <2>4. /\ unsynced' \in BOOLEAN /\ kicked' \in BOOLEAN /\ stop' \in BOOLEAN
        /\ rested' \in BOOLEAN /\ syncDue' \in BOOLEAN
    BY DEF TypeOK, Jobs
  <2>5. /\ file' \in Versions \cup {Absent, Torn} /\ tmp' \in Versions \cup {Absent, Torn}
        /\ since' \subseteq Versions \cup {Absent} /\ safe' \in Versions \cup {Absent}
        /\ aside' \in SUBSET {Torn}
    BY DEF TypeOK, Jobs, OnDisk, Locking
  <2> QED
    BY <2>1, <2>2, <2>3, <2>4, <2>5 DEF TypeOK
<1>2. Locking'
  BY DEF TypeOK, Locking, InSave
<1>3. OnDisk'
  BY DEF TypeOK, OnDisk, Locking, Saving, InSave
<1>4. Saving'
  BY DEF TypeOK, Jobs, OnDisk, Locking, Saving, InSave
<1>5. Synced'
  BY DEF TypeOK, OnDisk, Locking, Saving, InSave, Synced
<1>6. Asked'
  BY DEF TypeOK, Jobs, OnDisk, Locking, Saving, InSave, Synced, Asked
<1> QED
  BY <1>1, <1>2, <1>3, <1>4, <1>5, <1>6

\* The file is damaged while closed.
LEMMA Damage_Inductive ==
    ASSUME IInv, Damage
    PROVE  IInv'
<1> USE SaverAssumption DEF IInv, Damage, Goto, Notified, host, store, Procs, Saver, Dropper, Nobody,
        Versions, NoJob, Absent, Torn, VersionOf
<1>1. TypeOK'
  BY JobTypes DEF TypeOK, Points, OnDisk
<1>2. Locking'
  BY DEF TypeOK, Locking, InSave
<1>3. OnDisk'
  BY DEF TypeOK, OnDisk, Locking, Saving, InSave
<1>4. Saving'
  BY DEF TypeOK, Jobs, OnDisk, Locking, Saving, InSave
<1>5. Synced'
  BY DEF TypeOK, OnDisk, Locking, Saving, InSave, Synced
<1>6. Asked'
  BY DEF TypeOK, Jobs, OnDisk, Locking, Saving, InSave, Synced, Asked
<1> QED
  BY <1>1, <1>2, <1>3, <1>4, <1>5, <1>6

\* A save starts from a version newer than the one saved.
LEMMA SaveBegin_Inductive ==
    ASSUME IInv, NEW p \in Procs, SaveBegin(p)
    PROVE  IInv'
<1> USE SaverAssumption DEF IInv, SaveBegin, Goto, Notified, host, store, Procs, Saver, Dropper, Nobody,
        Versions, NoJob, Absent, Torn, VersionOf
<1>1. TypeOK'
  <2>1. job' \in [Procs -> Jobs]
    BY JobTypes DEF TypeOK
  <2>2. pc' \in [Procs -> Points]
    BY DEF TypeOK, Points
  <2>3. /\ phase' \in {"open", "closing", "closed"} /\ holder' \in Procs \cup {Nobody}
        /\ overlay' \in Versions /\ base' \in Versions /\ saved' \in Versions
    BY DEF TypeOK, Jobs, Locking, Saving, OnDisk
  <2>4. /\ unsynced' \in BOOLEAN /\ kicked' \in BOOLEAN /\ stop' \in BOOLEAN
        /\ rested' \in BOOLEAN /\ syncDue' \in BOOLEAN
    BY DEF TypeOK, Jobs
  <2>5. /\ file' \in Versions \cup {Absent, Torn} /\ tmp' \in Versions \cup {Absent, Torn}
        /\ since' \subseteq Versions \cup {Absent} /\ safe' \in Versions \cup {Absent}
        /\ aside' \in SUBSET {Torn}
    BY DEF TypeOK, Jobs, OnDisk, Locking
  <2> QED
    BY <2>1, <2>2, <2>3, <2>4, <2>5 DEF TypeOK
<1>2. Locking'
  BY DEF TypeOK, Locking, InSave
<1>3. OnDisk'
  BY DEF TypeOK, OnDisk, Locking, Saving, InSave
<1>4. Saving'
  BY DEF TypeOK, Jobs, OnDisk, Locking, Saving, InSave
<1>5. Synced'
  BY DEF TypeOK, OnDisk, Locking, Saving, InSave, Synced
<1>6. Asked'
  BY DEF TypeOK, Jobs, OnDisk, Locking, Saving, InSave, Synced, Asked
<1> QED
  BY <1>1, <1>2, <1>3, <1>4, <1>5, <1>6

\* A failed save changes nothing that is promised.
LEMMA SaveFails_Inductive ==
    ASSUME IInv, NEW p \in Procs, SaveFails(p)
    PROVE  IInv'
<1> USE SaverAssumption DEF IInv, SaveFails, Goto, Notified, host, store, Procs, Saver, Dropper, Nobody,
        Versions, NoJob, Absent, Torn, VersionOf
<1>1. TypeOK'
  <2>1. job' \in [Procs -> Jobs]
    BY JobTypes DEF TypeOK
  <2> QED
    BY <2>1 DEF TypeOK, Points, OnDisk
<1>2. Locking'
  BY DEF TypeOK, Locking, InSave
<1>3. OnDisk'
  BY DEF TypeOK, OnDisk, Locking, Saving, InSave
<1>4. Saving'
  BY DEF TypeOK, Jobs, OnDisk, Locking, Saving, InSave
<1>5. Synced'
  BY DEF TypeOK, OnDisk, Locking, Saving, InSave, Synced
<1>6. Asked'
  BY DEF TypeOK, Jobs, OnDisk, Locking, Saving, InSave, Synced, Asked
<1> QED
  BY <1>1, <1>2, <1>3, <1>4, <1>5, <1>6

\* The temporary file is nobody else's.
LEMMA OpenTmp_Inductive ==
    ASSUME IInv, NEW p \in Procs, OpenTmp(p)
    PROVE  IInv'
<1> USE SaverAssumption DEF IInv, OpenTmp, Goto, Notified, host, store, Procs, Saver, Dropper, Nobody,
        Versions, NoJob, Absent, Torn, VersionOf
<1>1. TypeOK'
  BY JobTypes DEF TypeOK, Points, OnDisk
<1>2. Locking'
  BY DEF TypeOK, Locking, InSave
<1>3. OnDisk'
  BY DEF TypeOK, OnDisk, Locking, Saving, InSave
<1>4. Saving'
  BY DEF TypeOK, Jobs, OnDisk, Locking, Saving, InSave
<1>5. Synced'
  BY DEF TypeOK, OnDisk, Locking, Saving, InSave, Synced
<1>6. Asked'
  BY DEF TypeOK, Jobs, OnDisk, Locking, Saving, InSave, Synced, Asked
<1> QED
  BY <1>1, <1>2, <1>3, <1>4, <1>5, <1>6

\* The temporary file is whole.
LEMMA Fill_Inductive ==
    ASSUME IInv, NEW p \in Procs, Fill(p)
    PROVE  IInv'
<1> USE SaverAssumption DEF IInv, Fill, Goto, Notified, host, store, Procs, Saver, Dropper, Nobody,
        Versions, NoJob, Absent, Torn, VersionOf
<1>1. TypeOK'
  <2>1. job' \in [Procs -> Jobs]
    BY JobTypes DEF TypeOK
  <2>2. pc' \in [Procs -> Points]
    BY DEF TypeOK, Points
  <2>3. /\ phase' \in {"open", "closing", "closed"} /\ holder' \in Procs \cup {Nobody}
        /\ overlay' \in Versions /\ base' \in Versions /\ saved' \in Versions
    BY DEF TypeOK, Jobs, Locking, Saving, OnDisk
  <2>4. /\ unsynced' \in BOOLEAN /\ kicked' \in BOOLEAN /\ stop' \in BOOLEAN
        /\ rested' \in BOOLEAN /\ syncDue' \in BOOLEAN
    BY DEF TypeOK, Jobs
  <2>5. /\ file' \in Versions \cup {Absent, Torn} /\ tmp' \in Versions \cup {Absent, Torn}
        /\ since' \subseteq Versions \cup {Absent} /\ safe' \in Versions \cup {Absent}
        /\ aside' \in SUBSET {Torn}
    BY DEF TypeOK, Jobs, OnDisk, Locking
  <2> QED
    BY <2>1, <2>2, <2>3, <2>4, <2>5 DEF TypeOK
<1>2. Locking'
  BY DEF TypeOK, Locking, InSave
<1>3. OnDisk'
  BY DEF TypeOK, OnDisk, Locking, Saving, InSave
<1>4. Saving'
  BY DEF TypeOK, Jobs, OnDisk, Locking, Saving, InSave
<1>5. Synced'
  BY DEF TypeOK, OnDisk, Locking, Saving, InSave, Synced
<1>6. Asked'
  BY DEF TypeOK, Jobs, OnDisk, Locking, Saving, InSave, Synced, Asked
<1> QED
  BY <1>1, <1>2, <1>3, <1>4, <1>5, <1>6

\* The new file is newer than the old one.
LEMMA Rename_Inductive ==
    ASSUME IInv, NEW p \in Procs, Rename(p)
    PROVE  IInv'
<1> USE SaverAssumption DEF IInv, Rename, Goto, Notified, host, store, Procs, Saver, Dropper, Nobody,
        Versions, NoJob, Absent, Torn, VersionOf
<1>1. TypeOK'
  <2>1. tmp \in Versions
    BY DEF TypeOK, Saving, Jobs
  <2> QED
    BY <2>1 DEF TypeOK, Points
<1>2. Locking'
  BY DEF TypeOK, Locking, InSave
<1>3. OnDisk'
  BY DEF TypeOK, OnDisk, Locking, Saving, InSave
<1>4. Saving'
  BY DEF TypeOK, Jobs, OnDisk, Locking, Saving, InSave
<1>5. Synced'
  BY DEF TypeOK, OnDisk, Locking, Saving, InSave, Synced
<1>6. Asked'
  BY DEF TypeOK, Jobs, OnDisk, Locking, Saving, InSave, Synced, Asked
<1> QED
  BY <1>1, <1>2, <1>3, <1>4, <1>5, <1>6

\* The save is recorded.
LEMMA Record_Inductive ==
    ASSUME IInv, NEW p \in Procs, Record(p)
    PROVE  IInv'
<1> USE SaverAssumption DEF IInv, Record, Goto, Notified, host, store, Procs, Saver, Dropper, Nobody,
        Versions, NoJob, Absent, Torn, VersionOf
<1>1. TypeOK'
  <2>1. job' \in [Procs -> Jobs]
    BY JobTypes DEF TypeOK
  <2>2. pc' \in [Procs -> Points]
    BY DEF TypeOK, Points
  <2>3. /\ phase' \in {"open", "closing", "closed"} /\ holder' \in Procs \cup {Nobody}
        /\ overlay' \in Versions /\ base' \in Versions /\ saved' \in Versions
    BY DEF TypeOK, Jobs, Locking, Saving, OnDisk
  <2>4. /\ unsynced' \in BOOLEAN /\ kicked' \in BOOLEAN /\ stop' \in BOOLEAN
        /\ rested' \in BOOLEAN /\ syncDue' \in BOOLEAN
    BY DEF TypeOK, Jobs
  <2>5. /\ file' \in Versions \cup {Absent, Torn} /\ tmp' \in Versions \cup {Absent, Torn}
        /\ since' \subseteq Versions \cup {Absent} /\ safe' \in Versions \cup {Absent}
        /\ aside' \in SUBSET {Torn}
    BY DEF TypeOK, Jobs, OnDisk, Locking
  <2> QED
    BY <2>1, <2>2, <2>3, <2>4, <2>5 DEF TypeOK
<1>2. Locking'
  BY DEF TypeOK, Locking, InSave
<1>3. OnDisk'
  BY DEF TypeOK, OnDisk, Locking, Saving, InSave
<1>4. Saving'
  BY DEF TypeOK, Jobs, OnDisk, Locking, Saving, InSave
<1>5. Synced'
  BY DEF TypeOK, OnDisk, Locking, Saving, InSave, Synced
<1>6. Asked'
  BY DEF TypeOK, Jobs, OnDisk, Locking, Saving, InSave, Synced, Asked
<1> QED
  BY <1>1, <1>2, <1>3, <1>4, <1>5, <1>6

\* The save returns to the call, the saver or the drop.
LEMMA SaveReturns_Inductive ==
    ASSUME IInv, NEW p \in Procs, SaveReturns(p)
    PROVE  IInv'
<1> USE SaverAssumption DEF IInv, SaveReturns, Goto, Notified, host, store, Procs, Saver, Dropper, Nobody,
        Versions, NoJob, Absent, Torn, VersionOf
<1>1. TypeOK'
  <2>1. job' \in [Procs -> Jobs]
    <3>1. \/ job' = job
          \/ job' = [job EXCEPT ![p] = NoJob]
          \/ job' = [job EXCEPT ![p] = [job[p] EXCEPT !.bytes = 0]]
      BY DEF TypeOK
    <3>2. 0 \in Versions /\ job \in [Procs -> Jobs]
      BY DEF TypeOK
    <3> HIDE DEF NoJob, SaveReturns
    <3> QED
      BY <3>1, <3>2, JobTypes
  <2>2. pc' \in [Procs -> Points]
    BY DEF TypeOK, Points
  <2>3. /\ phase' \in {"open", "closing", "closed"} /\ holder' \in Procs \cup {Nobody}
        /\ overlay' \in Versions /\ base' \in Versions /\ saved' \in Versions
    BY DEF TypeOK, Jobs, Locking, Saving, OnDisk
  <2>4. /\ unsynced' \in BOOLEAN /\ kicked' \in BOOLEAN /\ stop' \in BOOLEAN
        /\ rested' \in BOOLEAN /\ syncDue' \in BOOLEAN
    BY DEF TypeOK, Jobs
  <2>5. /\ file' \in Versions \cup {Absent, Torn} /\ tmp' \in Versions \cup {Absent, Torn}
        /\ since' \subseteq Versions \cup {Absent} /\ safe' \in Versions \cup {Absent}
        /\ aside' \in SUBSET {Torn}
    BY DEF TypeOK, Jobs, OnDisk, Locking
  <2> QED
    BY <2>1, <2>2, <2>3, <2>4, <2>5 DEF TypeOK
<1>2. Locking'
  BY DEF TypeOK, Locking, InSave
<1>3. OnDisk'
  BY DEF TypeOK, OnDisk, Locking, Saving, InSave
<1>4. Saving'
  BY DEF TypeOK, Jobs, OnDisk, Locking, Saving, InSave
<1>5. Synced'
  BY DEF TypeOK, OnDisk, Locking, Saving, InSave, Synced
<1>6. Asked'
  BY DEF TypeOK, Jobs, OnDisk, Locking, Saving, InSave, Synced, Asked
<1> QED
  BY <1>1, <1>2, <1>3, <1>4, <1>5, <1>6

\* A sync takes the flag.
LEMMA SyncBegin_Inductive ==
    ASSUME IInv, NEW p \in Procs, SyncBegin(p)
    PROVE  IInv'
<1> USE SaverAssumption DEF IInv, SyncBegin, Goto, Notified, host, store, Procs, Saver, Dropper, Nobody,
        Versions, NoJob, Absent, Torn, VersionOf
<1>1. TypeOK'
  <2>1. job' \in [Procs -> Jobs]
    <3>1. job' = job \/ job' = [job EXCEPT ![p] = NoJob]
      BY DEF TypeOK
    <3> HIDE DEF NoJob, SyncBegin
    <3> QED
      BY <3>1, JobTypes DEF TypeOK
  <2>2. pc' \in [Procs -> Points]
    BY DEF TypeOK, Points
  <2>3. /\ phase' \in {"open", "closing", "closed"} /\ holder' \in Procs \cup {Nobody}
        /\ overlay' \in Versions /\ base' \in Versions /\ saved' \in Versions
    BY DEF TypeOK, Jobs, Locking, Saving, OnDisk
  <2>4. /\ unsynced' \in BOOLEAN /\ kicked' \in BOOLEAN /\ stop' \in BOOLEAN
        /\ rested' \in BOOLEAN /\ syncDue' \in BOOLEAN
    BY DEF TypeOK, Jobs
  <2>5. /\ file' \in Versions \cup {Absent, Torn} /\ tmp' \in Versions \cup {Absent, Torn}
        /\ since' \subseteq Versions \cup {Absent} /\ safe' \in Versions \cup {Absent}
        /\ aside' \in SUBSET {Torn}
    BY DEF TypeOK, Jobs, OnDisk, Locking
  <2> QED
    BY <2>1, <2>2, <2>3, <2>4, <2>5 DEF TypeOK
<1>2. Locking'
  BY DEF TypeOK, Locking, InSave
<1>3. OnDisk'
  BY DEF TypeOK, OnDisk, Locking, Saving, InSave
<1>4. Saving'
  BY DEF TypeOK, Jobs, OnDisk, Locking, Saving, InSave
<1>5. Synced'
  BY DEF TypeOK, OnDisk, Locking, Saving, InSave, Synced
<1>6. Asked'
  BY DEF TypeOK, Jobs, OnDisk, Locking, Saving, InSave, Synced, Asked
<1> QED
  BY <1>1, <1>2, <1>3, <1>4, <1>5, <1>6

\* A durable point moves up.
LEMMA SyncDone_Inductive ==
    ASSUME IInv, NEW p \in Procs, SyncDone(p)
    PROVE  IInv'
<1> USE SaverAssumption DEF IInv, SyncDone, Goto, Notified, host, store, Procs, Saver, Dropper, Nobody,
        Versions, NoJob, Absent, Torn, VersionOf
<1>1. TypeOK'
  <2>1. job' \in [Procs -> Jobs]
    BY JobTypes DEF TypeOK
  <2>2. pc' \in [Procs -> Points]
    BY DEF TypeOK, Points
  <2>3. /\ phase' \in {"open", "closing", "closed"} /\ holder' \in Procs \cup {Nobody}
        /\ overlay' \in Versions /\ base' \in Versions /\ saved' \in Versions
    BY DEF TypeOK, Jobs, Locking, Saving, OnDisk
  <2>4. /\ unsynced' \in BOOLEAN /\ kicked' \in BOOLEAN /\ stop' \in BOOLEAN
        /\ rested' \in BOOLEAN /\ syncDue' \in BOOLEAN
    BY DEF TypeOK, Jobs
  <2>5. /\ file' \in Versions \cup {Absent, Torn} /\ tmp' \in Versions \cup {Absent, Torn}
        /\ since' \subseteq Versions \cup {Absent} /\ safe' \in Versions \cup {Absent}
        /\ aside' \in SUBSET {Torn}
    BY DEF TypeOK, Jobs, OnDisk, Locking
  <2> QED
    BY <2>1, <2>2, <2>3, <2>4, <2>5 DEF TypeOK
<1>2. Locking'
  BY DEF TypeOK, Locking, InSave
<1>3. OnDisk'
  BY DEF TypeOK, OnDisk, Locking, Saving, InSave
<1>4. Saving'
  BY DEF TypeOK, Jobs, OnDisk, Locking, Saving, InSave
<1>5. Synced'
  BY DEF TypeOK, OnDisk, Locking, Saving, InSave, Synced
<1>6. Asked'
  BY DEF TypeOK, Jobs, OnDisk, Locking, Saving, InSave, Synced, Asked
<1> QED
  BY <1>1, <1>2, <1>3, <1>4, <1>5, <1>6

\* A failed sync promises nothing.
LEMMA SyncFails_Inductive ==
    ASSUME IInv, NEW p \in Procs, SyncFails(p)
    PROVE  IInv'
<1> USE SaverAssumption DEF IInv, SyncFails, Goto, Notified, host, store, Procs, Saver, Dropper, Nobody,
        Versions, NoJob, Absent, Torn, VersionOf
<1>1. TypeOK'
  BY JobTypes DEF TypeOK, Points, OnDisk
<1>2. Locking'
  BY DEF TypeOK, Locking, InSave
<1>3. OnDisk'
  BY DEF TypeOK, OnDisk, Locking, Saving, InSave
<1>4. Saving'
  BY DEF TypeOK, Jobs, OnDisk, Locking, Saving, InSave
<1>5. Synced'
  BY DEF TypeOK, OnDisk, Locking, Saving, InSave, Synced
<1>6. Asked'
  BY DEF TypeOK, Jobs, OnDisk, Locking, Saving, InSave, Synced, Asked
<1> QED
  BY <1>1, <1>2, <1>3, <1>4, <1>5, <1>6

\* A write.
LEMMA Mutate_Inductive ==
    ASSUME IInv, NEW p \in Callers, Mutate(p)
    PROVE  IInv'
<1> USE SaverAssumption DEF IInv, Mutate, Goto, Notified, host, store, Procs, Saver, Dropper, Nobody,
        Versions, NoJob, Absent, Torn, VersionOf
<1>1. TypeOK'
  BY JobTypes DEF TypeOK, Points, OnDisk
<1>2. Locking'
  BY DEF TypeOK, Locking, InSave
<1>3. OnDisk'
  BY DEF TypeOK, OnDisk, Locking, Saving, InSave
<1>4. Saving'
  BY DEF TypeOK, Jobs, OnDisk, Locking, Saving, InSave
<1>5. Synced'
  BY DEF TypeOK, OnDisk, Locking, Saving, InSave, Synced
<1>6. Asked'
  BY DEF TypeOK, Jobs, OnDisk, Locking, Saving, InSave, Synced, Asked
<1> QED
  BY <1>1, <1>2, <1>3, <1>4, <1>5, <1>6

\* A write ends.
LEMMA Kick_Inductive ==
    ASSUME IInv, NEW p \in Callers, Kick(p)
    PROVE  IInv'
<1> USE SaverAssumption DEF IInv, Kick, Goto, Notified, host, store, Procs, Saver, Dropper, Nobody,
        Versions, NoJob, Absent, Torn, VersionOf
<1>1. TypeOK'
  BY JobTypes DEF TypeOK, Points, OnDisk
<1>2. Locking'
  BY DEF TypeOK, Locking, InSave
<1>3. OnDisk'
  BY DEF TypeOK, OnDisk, Locking, Saving, InSave
<1>4. Saving'
  BY DEF TypeOK, Jobs, OnDisk, Locking, Saving, InSave
<1>5. Synced'
  BY DEF TypeOK, OnDisk, Locking, Saving, InSave, Synced
<1>6. Asked'
  BY DEF TypeOK, Jobs, OnDisk, Locking, Saving, InSave, Synced, Asked
<1> QED
  BY <1>1, <1>2, <1>3, <1>4, <1>5, <1>6

\* A call begins.
LEMMA Call_Inductive ==
    ASSUME IInv, NEW p \in Callers, Call(p)
    PROVE  IInv'
<1> USE SaverAssumption DEF IInv, Call, Goto, Notified, host, store, Procs, Saver, Dropper, Nobody,
        Versions, NoJob, Absent, Torn, VersionOf
<1> PICK c \in {"flush", "durable"} :
      job' = [job EXCEPT ![p] = [NoJob EXCEPT !.call = c, !.asked = overlay, !.sync = (c = "durable")]]
  OBVIOUS
<1> DEFINE j == [NoJob EXCEPT !.call = c, !.asked = overlay, !.sync = (c = "durable")]
<1>0. /\ j \in Jobs /\ j.call = c /\ j.asked = overlay /\ (j.sync <=> c = "durable")
      /\ job' = [job EXCEPT ![p] = j]
  BY CallJob DEF TypeOK
<1> HIDE DEF j, NoJob
<1>1. TypeOK'
  BY <1>0 DEF TypeOK, Points
<1>2. Locking'
  BY DEF TypeOK, Locking, InSave
<1>3. OnDisk'
  BY DEF TypeOK, OnDisk, Locking, Saving, InSave
<1>4. Saving'
  BY DEF TypeOK, Jobs, OnDisk, Locking, Saving, InSave
<1>5. Synced'
  BY DEF TypeOK, OnDisk, Locking, Saving, InSave, Synced
<1>6. Asked'
  <2> SUFFICES ASSUME NEW q \in Callers
               PROVE  /\ job'[q].sync <=> job'[q].call = "durable"
                      /\ pc'[q] \notin {"idle", "kick"} => job'[q].asked <= overlay
                      /\ pc'[q] \in InSave => job'[q].asked <= job'[q].bytes
                      /\ pc'[q] \in {"saved_ok", "sync", "syncing", "returned"} => job'[q].asked <= saved
                      /\ pc'[q] = "returned" /\ job'[q].call = "durable" /\ HasSync /\ job'[q].asked > base =>
                           job'[q].asked <= VersionOf(safe)
    BY DEF Asked
  <2>1. CASE q = p
    <3>1. job'[q] = j /\ pc'[q] = "save" /\ overlay \in Int
      BY <1>0, <2>1 DEF TypeOK
    <3> HIDE DEF Call
    <3>2. job'[q].sync <=> job'[q].call = "durable"
      <4>1. job'[q].sync = j.sync /\ job'[q].call = c
        BY <1>0, <3>1, Zenon
      <4> QED
        BY <1>0, <4>1, Zenon
    <3>3. job'[q].asked <= overlay
      BY <1>0, <3>1
    <3> QED
      BY <3>1, <3>2, <3>3 DEF InSave
  <2>2. CASE q # p
    <3>1. job'[q] = job[q] /\ pc'[q] = pc[q]
      BY <1>0, <2>2 DEF TypeOK
    <3> QED
      BY <3>1 DEF Asked
  <2> QED
    BY <2>1, <2>2
<1> QED
  BY <1>1, <1>2, <1>3, <1>4, <1>5, <1>6

\* A call returns.
LEMMA Return_Inductive ==
    ASSUME IInv, NEW p \in Callers, Return(p)
    PROVE  IInv'
<1> USE SaverAssumption DEF IInv, Return, Goto, Notified, host, store, Procs, Saver, Dropper, Nobody,
        Versions, NoJob, Absent, Torn, VersionOf
<1>1. TypeOK'
  BY JobTypes DEF TypeOK, Points, OnDisk
<1>2. Locking'
  BY DEF TypeOK, Locking, InSave
<1>3. OnDisk'
  BY DEF TypeOK, OnDisk, Locking, Saving, InSave
<1>4. Saving'
  BY DEF TypeOK, Jobs, OnDisk, Locking, Saving, InSave
<1>5. Synced'
  BY DEF TypeOK, OnDisk, Locking, Saving, InSave, Synced
<1>6. Asked'
  BY DEF TypeOK, Jobs, OnDisk, Locking, Saving, InSave, Synced, Asked
<1> QED
  BY <1>1, <1>2, <1>3, <1>4, <1>5, <1>6

-----------------------------------------------------------------------------
\* The invariant holds when the layer is made ...
LEMMA Init_Invariant == Init => IInv
<1> SUFFICES ASSUME Init PROVE IInv
  OBVIOUS
<1> USE SaverAssumption DEF Init, Procs, Saver, Dropper, Nobody, Versions, Absent, Torn, VersionOf
<1>1. job \in [Procs -> Jobs]
  BY JobTypes
<1>2. TypeOK
  <2>1. pc \in [Procs -> Points]
    BY DEF Points
  <2>2. 0 \in Versions /\ Nobody \in Procs \cup {Nobody} /\ {Absent} \subseteq Versions \cup {Absent}
    OBVIOUS
  <2> QED
    BY <1>1, <2>1, <2>2, Zenon DEF TypeOK
<1>3. Locking /\ OnDisk /\ Saving /\ Synced
  BY DEF Locking, OnDisk, Saving, Synced, InSave
<1>4. Asked
  BY DEF Asked, InSave, NoJob
<1> QED
  BY <1>2, <1>3, <1>4 DEF IInv

\* ... and every step of the host, the store and the machine keeps it.
LEMMA Step_Inductive == IInv /\ [Next]_vars => IInv'
<1> SUFFICES ASSUME IInv, [Next]_vars PROVE IInv'
  OBVIOUS
<1>1. CASE Open
  BY <1>1, Open_Inductive
<1>2. CASE Look
  BY <1>2, Look_Inductive
<1>3. CASE Wake
  BY <1>3, Wake_Inductive
<1>4. CASE Rest
  BY <1>4, Rest_Inductive
<1>5. CASE SyncTime
  BY <1>5, SyncTime_Inductive
<1>6. CASE Drop
  BY <1>6, Drop_Inductive
<1>7. CASE Join
  BY <1>7, Join_Inductive
<1>8. CASE Crash
  BY <1>8, Crash_Inductive
<1>9. CASE Damage
  BY <1>9, Damage_Inductive
<1>10. ASSUME NEW p \in Procs, SaveStep(p) PROVE IInv'
  BY <1>10, SaveBegin_Inductive, OpenTmp_Inductive, Fill_Inductive, Rename_Inductive,
     Record_Inductive, SaveReturns_Inductive DEF SaveStep
<1>11. ASSUME NEW p \in Procs, SyncStep(p) PROVE IInv'
  BY <1>11, SyncBegin_Inductive, SyncDone_Inductive DEF SyncStep
<1>12. ASSUME NEW p \in Procs, Fails(p) PROVE IInv'
  BY <1>12, SaveFails_Inductive, SyncFails_Inductive DEF Fails
<1>13. ASSUME NEW p \in Callers, Mutate(p) \/ Kick(p) \/ Call(p) \/ Return(p) PROVE IInv'
  BY <1>13, Mutate_Inductive, Kick_Inductive, Call_Inductive, Return_Inductive
<1>14. CASE UNCHANGED vars
  BY <1>14 DEF IInv, vars, TypeOK, Locking, OnDisk, Saving, Synced, Asked
<1> QED
  BY <1>1, <1>2, <1>3, <1>4, <1>5, <1>6, <1>7, <1>8, <1>9, <1>10, <1>11, <1>12, <1>13, <1>14
     DEF Next

\* The inductive invariant: locks, what is on disk, what each save is of.
THEOREM Invariant == Spec => []IInv
BY Init_Invariant, Step_Inductive, PTL DEF Spec

\* A good save is on the store, overlay.reg is never half written, and a clear
\* `unsynced` means that a crash takes none of this host's saves back.
THEOREM BooksAreTrue == Spec => []Bookkeeping
<1>1. IInv => Bookkeeping
  <2> SUFFICES ASSUME IInv PROVE Bookkeeping
    OBVIOUS
  <2> USE SaverAssumption DEF IInv, Procs, Saver, Dropper, Nobody
  <2>1. holder = Nobody => \A p \in Procs : pc[p] # "record"
    BY DEF Locking, InSave
  <2> QED
    BY <2>1 DEF Bookkeeping, OnDisk, Saving, Synced
<1> QED
  BY <1>1, Invariant, PTL

\* `durable` that returned Ok has made safe what was written before it, and
\* `flush` has put it in overlay.reg, whoever else saved or failed to meanwhile.
THEOREM DurableIsKept == Spec => []DurableMeansKept
<1>1. IInv => DurableMeansKept
  <2> SUFFICES ASSUME IInv, NEW p \in Callers, pc[p] = "returned"
               PROVE  /\ job[p].call = "durable" /\ HasSync /\ job[p].asked > base =>
                           VersionOf(safe) >= job[p].asked
                      /\ VersionOf(file) >= job[p].asked
    BY DEF DurableMeansKept
  <2> USE SaverAssumption DEF IInv, Procs, Versions, VersionOf, Absent, Torn, Jobs, TypeOK
  <2>1. phase # "closed"
    BY DEF Locking, Saver
  <2>2. saved <= VersionOf(file)
    BY <2>1 DEF Saving, InSave
  <2> QED
    BY <2>1, <2>2 DEF Asked, OnDisk
<1> QED
  BY <1>1, Invariant, PTL

\* While the host lives no older save lands over a newer one, whoever saves.
THEOREM SavesLandInOrder == Spec => SavesInOrder
<1>1. ASSUME IInv, [Next]_vars, phase # "closed", phase' # "closed"
      PROVE  VersionOf(file') >= VersionOf(file)
  <2> USE <1>1, SaverAssumption DEF IInv, VersionOf, Absent, Torn, Versions
  <2>1. VersionOf(file) \in Int
    BY DEF TypeOK
  <2>2. ASSUME NEW p \in Procs, Rename(p) PROVE VersionOf(file') >= VersionOf(file)
    <3>1. \A q \in Procs : pc[q] # "record"
      BY <2>2 DEF Rename, Locking, InSave
    <3>2. file' = job[p].bytes /\ saved < job[p].bytes /\ saved = VersionOf(file)
      BY <1>1, <2>2, <3>1 DEF Rename, Saving, InSave
    <3> QED
      BY <3>2 DEF TypeOK, Jobs
  <2>3. file' = file \/ \E p \in Procs : Rename(p)
    BY <1>1 DEF Next, vars, store, Open, Look, Wake, Rest, SyncTime, Drop, Join, Crash, Damage,
       SaveStep, SaveBegin, OpenTmp, Fill, Record, SaveReturns, SyncStep, SyncBegin, SyncDone,
       Fails, SaveFails, SyncFails, Mutate, Kick, Call, Return
  <2>4. CASE file' = file
    <3> HIDE DEF VersionOf, IInv
    <3> QED
      BY <2>1, <2>4
  <2> QED
    BY <2>2, <2>3, <2>4
<1> QED
  BY <1>1, Invariant, PTL DEF Spec, SavesInOrder

\* The host implements DurableRegister: the overlay is its value, the file at
\* the last sync what is kept; a crash, or a drop whose save fails, takes back
\* the newest writes and nothing a durable point covered.
THEOREM KeepsItsPromise == Spec => KeepsPromise
<1> USE SaverAssumption DEF VersionOf, Absent, Torn, Versions
<1>1. Init => Promise!Init
  BY DEF Init, Promise!Init
<1>2. ASSUME IInv, IInv', [Next]_vars
      PROVE  [Promise!Next]_<<overlay, VersionOf(safe), file = Torn \/ aside # {}>>
  <2> USE <1>2 DEF IInv
  <2> DEFINE abs == <<overlay, VersionOf(safe), file = Torn \/ aside # {}>>
  <2>1. CASE Open
    BY <1>2, <2>1 DEF Open, store, OnDisk
  <2>2. CASE Crash
    <3>1. PICK v \in since : file' = v /\ safe' = v /\ overlay' = VersionOf(v)
      BY <2>2 DEF Crash
    <3>2. /\ file # Torn /\ v # Torn /\ aside' = aside
          /\ VersionOf(safe) <= VersionOf(v) /\ VersionOf(v) <= overlay
      BY <2>2, <3>1 DEF Crash, OnDisk, TypeOK
    <3>3. VersionOf(safe) \in Int /\ VersionOf(v) \in Int /\ overlay \in Int
      BY <3>1 DEF TypeOK
    <3>4. UNCHANGED (file = Torn \/ aside # {})
      BY <3>1, <3>2, Zenon
    <3>5. overlay' \in VersionOf(safe) .. overlay /\ VersionOf(safe)' \in VersionOf(safe) .. overlay'
      <4>1. overlay' = VersionOf(v) /\ VersionOf(safe)' = VersionOf(v)
        BY <3>1
      <4> HIDE DEF VersionOf, IInv
      <4> QED
        BY <3>2, <3>3, <4>1
    <3> QED
      BY <3>4, <3>5, Zenon DEF Promise!Next, Promise!Lose
  <2>3. CASE Damage
    BY <2>3 DEF Damage, Promise!Next, Promise!Spoil
  <2>4. ASSUME NEW p \in Callers, Mutate(p) PROVE Promise!Write
    BY <2>4 DEF Mutate, store, Promise!Write
  <2>5. ASSUME NEW p \in Procs, SyncDone(p) PROVE Promise!DurablePoint
    <3>1. file # Torn /\ VersionOf(safe) <= VersionOf(file) /\ VersionOf(file) <= overlay
      BY <2>5 DEF SyncDone, OnDisk, Locking
    <3>2. VersionOf(safe) \in Int /\ VersionOf(file) \in Int /\ overlay \in Int
      BY DEF TypeOK
    <3>3. UNCHANGED <<overlay, file = Torn \/ aside # {}>> /\ VersionOf(safe)' = VersionOf(file)
      BY <2>5 DEF SyncDone
    <3> HIDE DEF VersionOf, IInv
    <3> QED
      BY <3>1, <3>2, <3>3 DEF Promise!DurablePoint
  <2>6. ASSUME NEW p \in Procs, Rename(p) PROVE UNCHANGED abs
    <3>1. file # Torn /\ file' # Torn
      BY <2>6 DEF Rename, OnDisk, Locking, Saving, TypeOK, Jobs
    <3> QED
      BY <2>6, <3>1 DEF Rename, host
  <2>7. ASSUME NEW p \in Procs, SaveReturns(p) PROVE Promise!Lose \/ UNCHANGED abs
    <3>1. CASE p = Dropper
      <4>1. file # Torn /\ VersionOf(safe) <= VersionOf(file) /\ VersionOf(file) <= overlay
        BY <2>7, <3>1 DEF SaveReturns, OnDisk, Locking
      <4>2. VersionOf(safe) \in Int /\ VersionOf(file) \in Int /\ overlay \in Int
        BY DEF TypeOK
      <4> QED
        BY <2>7, <3>1, <4>1, <4>2 DEF SaveReturns, store, Promise!Lose, Procs, Saver, Dropper
    <3>2. CASE p # Dropper
      BY <2>7, <3>2 DEF SaveReturns, store, Procs
    <3> QED
      BY <3>1, <3>2
  <2>8. ASSUME NEW p \in Procs,
               SaveBegin(p) \/ OpenTmp(p) \/ Fill(p) \/ Record(p) \/ SyncBegin(p) \/ Fails(p)
        PROVE  UNCHANGED abs
    BY <2>8 DEF SaveBegin, OpenTmp, Fill, Record, SyncBegin, Fails, SaveFails, SyncFails, host, store
  <2>9. ASSUME NEW p \in Callers, Kick(p) \/ Call(p) \/ Return(p) PROVE UNCHANGED abs
    BY <2>9 DEF Kick, Call, Return, host, store
  <2>10. CASE Look \/ Wake \/ Rest \/ SyncTime \/ Drop \/ Join \/ UNCHANGED vars
    BY <2>10 DEF Look, Wake, Rest, SyncTime, Drop, Join, host, store, vars
  <2> QED
    BY <1>2, <2>1, <2>2, <2>3, <2>4, <2>5, <2>6, <2>7, <2>8, <2>9, <2>10
       DEF Next, SaveStep, SyncStep, Promise!Next
<1> QED
  BY <1>1, <1>2, Invariant, PTL DEF Spec, KeepsPromise, Promise!Spec
=============================================================================
