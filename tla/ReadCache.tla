------------------------------ MODULE ReadCache ------------------------------
(***************************************************************************)
(* The shim's client-side block cache (vfs-ipc readcache) with the part of  *)
(* the director it trusts: `mount`, which replaces what a root serves, and  *)
(* `open_info`, which says under which mount generation a handle was opened *)
(* and whether its bytes are immutable.                                     *)
(*                                                                         *)
(* One step is one critical section of a file's lock, one atomic operation  *)
(* on `used`, one pop of the LRU index, or one completion of a flight.      *)
(* Sizes are counted in units of `block` bytes.  A flight is named by the   *)
(* thread that created it: a thread has one load at a time and every exit   *)
(* from `load` completes its flight.  The LRU index is the set of ready     *)
(* slots whose `lru` is Filed; a slot whose key a thread has popped carries *)
(* that thread.  Which unit is oldest, when a run grows and when a file is   *)
(* judged cold are left open (ticks, next_seq and the hit counts are data    *)
(* no property tells apart), so every order of them is explored.            *)
(***************************************************************************)
EXTENDS Integers, FiniteSets, FiniteSetsExt

CONSTANTS
  Threads,        \* threads of the process
  Killable,       \* those that may be terminated during a fetch
  Names,          \* (root, folded path) pairs
  Under,          \* Under[n]: the names at or under n
  UnitsPerFile,   \* units of a file's size
  MaxUnits,       \* CacheConfig::max_bytes
  BlocksPerFile,  \* CacheConfig::blocks_per_file
  MaxRun,         \* CacheConfig::max_run
  ColdReads,      \* length of a cold spell
  MaxGen          \* bound on remounts

VARIABLES
  mountGen,  \* Director::mount_gen
  mounted,   \* which content the root's provider serves
  file,      \* file[n]: the Entry of n, its State included
  used,      \* ReadCache::used
  changed,   \* history: names poisoned so far
  pc,        \* where each thread is
  hd,        \* the handle (FileRef and director reply) each thread holds
  op         \* the locals of each thread's read

vars == <<mountGen, mounted, file, used, changed, pc, hd, op>>

Units == 0 .. UnitsPerFile - 1
NoThread == "nobody"
Filed == "filed"
Empty == [kind |-> "none"]
Loading(t) == [kind |-> "loading", by |-> t]
Ready(c) == [kind |-> "ready", content |-> c, touched |-> FALSE, lru |-> Filed]
Slot == {Empty} \cup {Loading(t) : t \in Threads}
          \cup [kind : {"ready"}, content : 1 .. MaxGen, touched : BOOLEAN,
                lru : Threads \cup {Filed}]

NoSlots == [u \in Units |-> Empty]
NewEntry == [present |-> FALSE, poisoned |-> FALSE, version |-> 0, slots |-> NoSlots, cold |-> 0]
NoHandle == [name |-> CHOOSE n \in Names : TRUE, kind |-> "none", ver |-> 0, content |-> 0,
             late |-> FALSE]
Pending == -1
Nil == 0
NoRead == [idx |-> 0, last |-> 0, end |-> 0, reserved |-> 0, overdue |-> FALSE,
           on |-> NoThread, res |-> Pending, ev |-> <<>>, got |-> {}, fetched |-> FALSE]

(* The points of `load` at which a thread's flight is live.               *)
LoadPoints == {"reserve", "pop", "evict", "fetch", "failed", "install", "complete",
               "giveback", "drop", "unwind", "dead"}
Points == LoadPoints \cup {"idle", "opened", "unit", "wait", "abandon", "nil", "judge"}

(* Each variable has its type, and `used` never passes max_bytes, however   *)
(* the reservations of several loads and evictions interleave.              *)
TypeOK ==
  /\ mountGen \in 1 .. MaxGen /\ mounted \in 1 .. MaxGen
  /\ file \in [Names -> [present : BOOLEAN, poisoned : BOOLEAN, version : 0 .. MaxGen,
                         slots : [Units -> Slot], cold : 0 .. ColdReads]]
  /\ used \in 0 .. MaxUnits
  /\ changed \subseteq Names
  /\ pc \in [Threads -> Points]
  /\ \A t \in Threads :
       /\ hd[t].name \in Names /\ hd[t].ver \in 0 .. MaxGen /\ hd[t].content \in 0 .. MaxGen
       /\ op[t].idx \in 0 .. UnitsPerFile /\ op[t].last \in Units /\ op[t].end \in 0 .. UnitsPerFile
       /\ op[t].reserved \in 0 .. MaxRun /\ op[t].res \in Pending .. MaxGen

Init ==
  /\ mountGen = 1 /\ mounted = 1
  /\ file = [n \in Names |-> NewEntry]
  /\ used = 0 /\ changed = {}
  /\ pc = [t \in Threads |-> "idle"]
  /\ hd = [t \in Threads |-> NoHandle]
  /\ op = [t \in Threads |-> NoRead]

ReadyUnits(e) == {u \in Units : e.slots[u].kind = "ready"}
Held(e) == {u \in Units : e.slots[u].kind # "none"}
LoadingBy(e, t) == {u \in Units : e.slots[u] = Loading(t)}
Loaders(e) == {t \in Threads : LoadingBy(e, t) # {}}

(* Flight::complete: the first completion wins; it wakes every waiter.     *)
Complete(ops, flights, r) ==
  [w \in Threads |-> IF ops[w].on \in flights /\ ops[w].res = Pending
                       THEN [ops[w] EXCEPT !.res = r] ELSE ops[w]]

(* retain(|s| not Loading(this flight)).                                   *)
Unload(e, t) ==
  [e EXCEPT !.slots = [u \in Units |-> IF e.slots[u] = Loading(t) THEN Empty ELSE e.slots[u]]]

(***************************************************************************)
(* clear_slots: ready units give their bytes back, a fetch in flight is     *)
(* told it is not wanted.  `Cleared` is the entry, `Freed` the bytes.       *)
(***************************************************************************)
Cleared(e) == [e EXCEPT !.slots = NoSlots]
Freed(e) == Cardinality(ReadyUnits(e))
Poisoned(e) == [Cleared(e) EXCEPT !.present = TRUE, !.poisoned = TRUE, !.version = 0]

---------------------------------------------------------------------------
\* Mutant: replaces the provider without a new generation.
Mount_silent ==
  /\ mounted < MaxGen
  /\ mounted' = mounted + 1
  /\ UNCHANGED <<mountGen, file, used, changed, pc, hd, op>>

(* Director::mount / unmount: the provider and the generation together.    *)
Mount ==
  /\ mountGen < MaxGen
  /\ mountGen' = mountGen + 1 /\ mounted' = mounted + 1
  /\ UNCHANGED <<file, used, changed, pc, hd, op>>

(***************************************************************************)
(* Director::open_info, which snapshots the provider and its generation,   *)
(* up to the open reply reaching the shim.  The thread's earlier handle is  *)
(* closed.  Immutable is never true of a write open.                       *)
(***************************************************************************)
OpenInfo(t) ==
  /\ pc[t] = "idle"
  /\ \E n \in Names, k \in {"write", "mutable", "immutable"} :
       hd' = [hd EXCEPT ![t] = [name |-> n, kind |-> k, ver |-> mountGen, content |-> mounted,
                                late |-> FALSE]]
  /\ pc' = [pc EXCEPT ![t] = "opened"]
  /\ UNCHANGED <<mountGen, mounted, file, used, changed, op>>

(* Some handle, or an eviction under way, holds an Arc of n's entry.       *)
Referenced(n) ==
  \E t \in Threads : \/ hd[t].name = n /\ hd[t].kind # "none" /\ pc[t] # "opened"
                     \/ pc[t] = "evict" /\ op[t].ev[1] = n

(* sweep: entries nothing uses go; poisoned ones and ones with slots stay. *)
Swept(f) ==
  [n \in Names |-> IF ~Referenced(n) /\ ~f[n].poisoned /\ Held(f[n]) = {} THEN NewEntry ELSE f[n]]

(***************************************************************************)
(* register: sweep if the table has grown, find or make the entry, then     *)
(* under its lock poison it (a write or mutable open), refuse (poisoned),   *)
(* or adopt the open's version, dropping what another version left.         *)
(***************************************************************************)
Register(t) ==
  /\ pc[t] = "opened"
  /\ \E f \in {file, Swept(file)} :
       LET n == hd[t].name
           e == [f[n] EXCEPT !.present = TRUE]
           bad == hd[t].kind # "immutable"
           new == ~bad /\ ~e.poisoned /\ e.version # hd[t].ver
           drop == bad \/ new
       IN /\ file' = [f EXCEPT ![n] = CASE bad -> Poisoned(e)
                                        [] new -> [Cleared(e) EXCEPT !.version = hd[t].ver]
                                        [] OTHER -> e]
          /\ used' = used - (IF drop THEN Freed(e) ELSE 0)
          /\ op' = Complete(op, IF drop THEN Loaders(e) ELSE {}, Nil)
          /\ hd' = [hd EXCEPT ![t] = IF bad \/ e.poisoned
                                      THEN [NoHandle EXCEPT !.name = n, !.kind = "open"]
                                      ELSE [@ EXCEPT !.kind = "open", !.late = n \in changed]]
          /\ changed' = IF bad THEN changed \cup {n} ELSE changed
  /\ pc' = [pc EXCEPT ![t] = "idle"]
  /\ UNCHANGED <<mountGen, mounted>>

(***************************************************************************)
(* invalidate (a write or truncate through a handle) and invalidate_path    *)
(* (a delete or rename): poison the entries in the table at or under the    *)
(* path, and leave a poisoned entry for the path itself.                    *)
(***************************************************************************)
PoisonAll(S) ==
  /\ file' = [n \in Names |-> IF n \in S THEN Poisoned(file[n]) ELSE file[n]]
  /\ used' = used - Cardinality({<<n, u>> \in S \X Units : u \in ReadyUnits(file[n])})
  /\ op' = Complete(op, UNION {Loaders(file[n]) : n \in S}, Nil)
  /\ changed' = changed \cup S
  /\ UNCHANGED <<mountGen, mounted, pc, hd>>

Invalidate(t) == pc[t] = "idle" /\ hd[t].kind # "none" /\ PoisonAll({hd[t].name})

InvalidatePath(t) ==
  /\ pc[t] = "idle"
  /\ \E n \in Names : PoisonAll({m \in Under[n] : file[m].present} \cup {n})

---------------------------------------------------------------------------
Goto(t, point) == pc' = [pc EXCEPT ![t] = point]
Done(t) == Goto(t, "idle") /\ op' = [op EXCEPT ![t] = NoRead]
Servable(t) == LET e == file[hd[t].name] IN ~e.poisoned /\ e.version = hd[t].ver

(***************************************************************************)
(* read, up to its first unit: declined when the handle is not cacheable,   *)
(* the file changed, or it is cold (which uses up one read of the spell).   *)
(* A read covers one unit or two adjacent ones.                             *)
(***************************************************************************)
StartRead(t) ==
  /\ pc[t] = "idle" /\ hd[t].ver # 0 /\ Servable(t)
  /\ LET n == hd[t].name IN
     IF file[n].cold > 0
       THEN /\ file' = [file EXCEPT ![n].cold = @ - 1]
            /\ UNCHANGED <<pc, op>>
       ELSE /\ \E i, j \in Units :
                 /\ j \in {i, i + 1}
                 /\ op' = [op EXCEPT ![t] = [NoRead EXCEPT !.idx = i, !.last = j]]
            /\ Goto(t, "unit")
            /\ UNCHANGED file
  /\ UNCHANGED <<mountGen, mounted, used, changed, hd>>

(* One unit of the read was had, holding content c: the next unit, or done.*)
Take(t, c, ops) ==
  /\ op' = [ops EXCEPT ![t] = [NoRead EXCEPT
              !.idx = op[t].idx + 1, !.last = op[t].last, !.got = op[t].got \cup {c},
              !.fetched = op[t].fetched \/ pc[t] = "complete"]]
  /\ Goto(t, IF op[t].idx = op[t].last THEN "judge" ELSE "unit")

(***************************************************************************)
(* unit: declined, held (Hit), being fetched (wait for that flight), being  *)
(* fetched by a flight past its deadline (drop it and look again).          *)
(***************************************************************************)
UnitDeclined(t) ==
  /\ pc[t] = "unit" /\ ~Servable(t)
  /\ Done(t)
  /\ UNCHANGED <<mountGen, mounted, file, used, changed, hd>>

UnitHeld(t) ==
  LET n == hd[t].name
      s == file[n].slots[op[t].idx]
  IN /\ pc[t] = "unit" /\ Servable(t)
     /\ \/ /\ s.kind = "ready"
           /\ file' = [file EXCEPT ![n].slots[op[t].idx].touched = TRUE]
           /\ Take(t, s.content, op)
        \/ /\ s.kind = "loading" /\ ~op[s.by].overdue
           /\ op' = [op EXCEPT ![t].on = s.by]
           /\ Goto(t, "wait")
           /\ UNCHANGED file
        \/ /\ s.kind = "loading" /\ op[s.by].overdue
           /\ file' = [file EXCEPT ![n] = Unload(@, s.by)]
           /\ op' = Complete(op, {s.by}, Nil)
           /\ UNCHANGED pc
     /\ UNCHANGED <<mountGen, mounted, used, changed, hd>>

(***************************************************************************)
(* miss: a run of units from idx, stopping at a held unit or the end of the *)
(* file; room for it from the file's own ready units (evict_in_file), the   *)
(* run shortened when there is too little, no run at all when every slot is *)
(* mid-fetch.  Then loading slots for the run, all of one new flight.       *)
(***************************************************************************)
Miss(t) ==
  LET n == hd[t].name
      e == file[n]
      i == op[t].idx
  IN /\ pc[t] = "unit" /\ Servable(t) /\ e.slots[i].kind = "none"
     /\ \E run \in 1 .. MaxRun :
          LET stops == {u \in Units : u > i /\ u < i + run /\ e.slots[u].kind # "none"}
              wish == Min(stops \cup {i + run, UnitsPerFile})
              short == Max({0, Cardinality(Held(e)) + (wish - i) - BlocksPerFile})
              k == Min({short, Cardinality(ReadyUnits(e))})
              room == BlocksPerFile - (Cardinality(Held(e)) - k)
              end == Min({wish, i + room})
          IN \E out \in {S \in SUBSET ReadyUnits(e) : Cardinality(S) = k} :
               /\ used' = used - k
               /\ file' = [file EXCEPT ![n].slots =
                    [u \in Units |-> IF u \in i .. end - 1 THEN Loading(t)
                                     ELSE IF u \in out THEN Empty ELSE @[u]]]
               /\ IF room = 0 THEN Done(t)
                  ELSE op' = [op EXCEPT ![t].end = end] /\ Goto(t, "reserve")
     /\ UNCHANGED <<mountGen, mounted, changed, hd>>

---------------------------------------------------------------------------
(* load.  `want` is the run's length; the guard's `reserved` is op.reserved.*)
Want(t) == op[t].end - op[t].idx

\* Mutant: compares before it adds.
Reserve_over(t) ==
  /\ pc[t] = "reserve"
  /\ IF used <= MaxUnits
       THEN /\ used' = used + Want(t)
            /\ op' = [op EXCEPT ![t].reserved = Want(t)]
            /\ Goto(t, "fetch")
       ELSE Goto(t, "pop") /\ UNCHANGED <<used, op>>
  /\ UNCHANGED <<mountGen, mounted, file, changed, hd>>

(* reserve: take the bytes, or make room, or give up on the fetch.         *)
Reserve(t) ==
  /\ pc[t] = "reserve"
  /\ IF used + Want(t) <= MaxUnits
       THEN /\ used' = used + Want(t)
            /\ op' = [op EXCEPT ![t].reserved = Want(t)]
            /\ Goto(t, "fetch")
       ELSE /\ Goto(t, IF Want(t) > MaxUnits THEN "giveback" ELSE "pop")
            /\ UNCHANGED <<used, op>>
  /\ UNCHANGED <<mountGen, mounted, file, changed, hd>>

(* evict_oldest, the pop from the LRU index: no file lock is held.         *)
FiledSlots == {<<n, u>> \in Names \X Units :
                 u \in ReadyUnits(file[n]) /\ file[n].slots[u].lru = Filed}

PopOldest(t) ==
  /\ pc[t] = "pop"
  /\ \/ /\ FiledSlots = {} /\ Goto(t, "giveback")
        /\ UNCHANGED <<file, op>>
     \/ \E x \in FiledSlots :
          /\ file' = [file EXCEPT ![x[1]].slots[x[2]].lru = t]
          /\ op' = [op EXCEPT ![t].ev = x]
          /\ Goto(t, "evict")
  /\ UNCHANGED <<mountGen, mounted, used, changed, hd>>

\* Mutant: does not file a touched unit again.
EvictOldest_unfiled(t) ==
  LET n == op[t].ev[1]
      u == op[t].ev[2]
      s == file[n].slots[u]
  IN /\ pc[t] = "evict"
     /\ op' = [op EXCEPT ![t].ev = <<>>]
     /\ IF s.kind # "ready" \/ s.touched
        THEN Goto(t, "pop") /\ UNCHANGED <<file, used>>
        ELSE /\ file' = [file EXCEPT ![n].slots[u] = Empty]
             /\ used' = used - 1
             /\ Goto(t, "reserve")
     /\ UNCHANGED <<mountGen, mounted, changed, hd>>

(* The rest of evict_oldest: the slot is no longer the one filed under the  *)
(* key (look on), was read since (file it again, look on), or goes.         *)
EvictOldest(t) ==
  LET n == op[t].ev[1]
      u == op[t].ev[2]
      s == file[n].slots[u]
  IN /\ pc[t] = "evict"
     /\ op' = [op EXCEPT ![t].ev = <<>>]
     /\ CASE s.kind # "ready" \/ (s.kind = "ready" /\ s.lru # t) ->
               Goto(t, "pop") /\ UNCHANGED <<file, used>>
          [] s.kind = "ready" /\ s.lru = t /\ s.touched ->
               /\ file' = [file EXCEPT ![n].slots[u].touched = FALSE, ![n].slots[u].lru = Filed]
               /\ Goto(t, "pop") /\ UNCHANGED used
          [] OTHER ->
               /\ file' = [file EXCEPT ![n].slots[u] = Empty]
               /\ used' = used - 1
               /\ Goto(t, "reserve")
     /\ UNCHANGED <<mountGen, mounted, changed, hd>>

(* The fetch, no lock held: it answers in full, fails or comes back short,  *)
(* unwinds, or the thread is terminated and no cleanup runs.                *)
Fetch(t) ==
  /\ pc[t] = "fetch"
  /\ \/ \E p \in {"install", "failed", "giveback"} : Goto(t, p)
     \/ t \in Killable /\ Goto(t, "dead")
  /\ UNCHANGED <<mountGen, mounted, file, used, changed, hd, op>>

(* go_cold: a spell of uncached reads; the units are dropped.              *)
GoCold(n) ==
  /\ file' = [file EXCEPT ![n] = [Cleared(@) EXCEPT !.cold = ColdReads]]
  /\ used' = used - Freed(file[n])

(* A failed fetch; enough of them turn the file cold, unless it is already.*)
FetchFailed(t) ==
  /\ pc[t] = "failed"
  /\ \/ UNCHANGED <<file, used, op>>
     \/ /\ file[hd[t].name].cold = 0
        /\ GoCold(hd[t].name)
        /\ op' = Complete(op, Loaders(file[hd[t].name]), Nil)
  /\ Goto(t, "giveback")
  /\ UNCHANGED <<mountGen, mounted, changed, hd>>

(***************************************************************************)
(* Install under the file's lock what the flight's slots still want; what   *)
(* was reserved for the others goes back.  Nothing at all if the file was    *)
(* poisoned or has another version by now.                                  *)
(***************************************************************************)
Install(t) ==
  LET n == hd[t].name
      mine == LoadingBy(file[n], t)
  IN /\ pc[t] = "install"
     /\ IF Servable(t)
          THEN /\ file' = [file EXCEPT ![n].slots =
                    [u \in Units |-> IF u \in mine THEN Ready(hd[t].content) ELSE @[u]]]
               /\ used' = used - (Want(t) - Cardinality(mine))
               /\ op' = [op EXCEPT ![t].reserved = 0]
               /\ Goto(t, IF op[t].idx \in mine THEN "complete" ELSE "giveback")
          ELSE Goto(t, "giveback") /\ UNCHANGED <<file, used, op>>
     /\ UNCHANGED <<mountGen, mounted, changed, hd>>

(* flight.complete(Some(run)): the read has its unit, the waiters theirs.  *)
CompleteFlight(t) ==
  /\ pc[t] = "complete"
  /\ Take(t, hd[t].content, Complete(op, {t}, hd[t].content))
  /\ UNCHANGED <<mountGen, mounted, file, used, changed, hd>>

\* Mutant: keeps the reservation.
GiveBack_keeps(t) ==
  /\ pc[t] = "giveback"
  /\ op' = [op EXCEPT ![t].reserved = 0]
  /\ Goto(t, "drop")
  /\ UNCHANGED <<mountGen, mounted, file, used, changed, hd>>

(* LoadGuard::drop, its three steps; the read is then served uncached.     *)
GiveBack(t) ==
  /\ pc[t] = "giveback"
  /\ used' = used - op[t].reserved
  /\ op' = [op EXCEPT ![t].reserved = 0]
  /\ Goto(t, "drop")
  /\ UNCHANGED <<mountGen, mounted, file, changed, hd>>

\* Mutant: leaves the slots loading.
DropSlots_leaves(t) ==
  pc[t] = "drop" /\ Goto(t, "unwind") /\ UNCHANGED <<mountGen, mounted, file, used, changed, hd, op>>

DropSlots(t) ==
  /\ pc[t] = "drop"
  /\ file' = [file EXCEPT ![hd[t].name] = Unload(@, t)]
  /\ Goto(t, "unwind")
  /\ UNCHANGED <<mountGen, mounted, used, changed, hd, op>>

Unwind(t) ==
  /\ pc[t] = "unwind"
  /\ op' = [Complete(op, {t}, Nil) EXCEPT ![t] = NoRead]
  /\ Goto(t, "idle")
  /\ UNCHANGED <<mountGen, mounted, file, used, changed, hd>>

---------------------------------------------------------------------------
\* Mutant: waits on after the deadline.
Wait_forever(t) ==
  /\ pc[t] = "wait"
  /\ \/ op[t].res = Nil /\ Done(t)
     \/ op[t].res > 0 /\ Take(t, op[t].res, op)
     \/ op[t].res = Pending /\ op[op[t].on].overdue /\ UNCHANGED <<pc, op>>
  /\ UNCHANGED <<mountGen, mounted, file, used, changed, hd>>

(* Flight::wait: the outcome, or the deadline without one.                 *)
Wait(t) ==
  /\ pc[t] = "wait"
  /\ \/ op[t].res = Nil /\ Done(t)
     \/ op[t].res > 0 /\ Take(t, op[t].res, op)
     \/ /\ op[t].res = Pending /\ op[op[t].on].overdue
        /\ Goto(t, "abandon") /\ UNCHANGED op
  /\ UNCHANGED <<mountGen, mounted, file, used, changed, hd>>

(* The waiter removes the flight from the slots, then completes it.        *)
Abandon(t) ==
  /\ pc[t] = "abandon"
  /\ file' = [file EXCEPT ![hd[t].name] = Unload(@, op[t].on)]
  /\ Goto(t, "nil")
  /\ UNCHANGED <<mountGen, mounted, used, changed, hd, op>>

AbandonNil(t) ==
  /\ pc[t] = "nil"
  /\ op' = [Complete(op, {op[t].on}, Nil) EXCEPT ![t] = NoRead]
  /\ Goto(t, "idle")
  /\ UNCHANGED <<mountGen, mounted, file, used, changed, hd>>

(* judge: the read was served; one that fetched may find the file cold.    *)
Judge(t) ==
  /\ pc[t] = "judge"
  /\ Goto(t, "idle")
  /\ LET o == [op EXCEPT ![t] = NoRead] IN
       \/ op' = o /\ UNCHANGED <<file, used>>
       \/ /\ op[t].fetched
          /\ GoCold(hd[t].name)
          /\ op' = Complete(o, Loaders(file[hd[t].name]), Nil)
  /\ UNCHANGED <<mountGen, mounted, changed, hd>>

(* Time: t's flight passes its deadline.                                   *)
PassDeadline(t) ==
  /\ pc[t] \in LoadPoints /\ ~op[t].overdue
  /\ op' = [op EXCEPT ![t].overdue = TRUE]
  /\ UNCHANGED <<mountGen, mounted, file, used, changed, pc, hd>>

LoadStep(t) ==
  \/ Reserve(t) \/ PopOldest(t) \/ EvictOldest(t) \/ FetchFailed(t) \/ Install(t)
  \/ CompleteFlight(t) \/ GiveBack(t) \/ DropSlots(t) \/ Unwind(t)

ReadStep(t) ==
  \/ UnitDeclined(t) \/ UnitHeld(t) \/ Miss(t) \/ Wait(t) \/ Abandon(t) \/ AbandonNil(t)
  \/ Judge(t)

Next ==
  \/ Mount
  \/ \E t \in Threads :
       \/ OpenInfo(t) \/ Register(t) \/ Invalidate(t) \/ InvalidatePath(t)
       \/ StartRead(t) \/ ReadStep(t) \/ Fetch(t) \/ LoadStep(t) \/ PassDeadline(t)

Spec == Init /\ [][Next]_vars

---------------------------------------------------------------------------
(* Every byte counted in `used` is a ready unit or a reservation a load     *)
(* still holds (a terminated thread keeps its own for good), whatever       *)
(* clear_slots, evict_in_file, evict_oldest, a partial install and          *)
(* LoadGuard::drop interleave to.                                           *)
BytesAccounted ==
  used = Cardinality({<<n, u>> \in Names \X Units : u \in ReadyUnits(file[n])})
           + MapThenSumSet(LAMBDA t : op[t].reserved, Threads)

(* No ready unit is lost to the LRU index: each is filed in it, or is the   *)
(* very unit some thread inside evict_oldest has popped and will file again *)
(* or remove.                                                              *)
UnitsEvictable ==
  \A n \in Names : \A u \in ReadyUnits(file[n]) :
    LET l == file[n].slots[u].lru IN l = Filed \/ (pc[l] = "evict" /\ op[l].ev = <<n, u>>)

(* What `read` has copied out is the bytes the director serves this handle, *)
(* never what a remount replaced, and never through a handle opened after   *)
(* the process changed the file (poison is for good, whatever sweep drops). *)
AnswersAreCurrent ==
  \A t \in Threads : /\ op[t].got \subseteq {hd[t].content}
                     /\ op[t].got # {} => ~hd[t].late

(* A loading slot belongs to a flight some thread is inside `load` for, over *)
(* that very unit; a waiter not answered yet waits for such a thread.  So    *)
(* nobody waits for a fetch that has already ended.                         *)
FlightsOwned ==
  /\ \A n \in Names, u \in Units :
       LET s == file[n].slots[u] IN
       s.kind = "loading" => /\ pc[s.by] \in LoadPoints /\ hd[s.by].name = n
                             /\ u \in op[s.by].idx .. op[s.by].end - 1
  /\ \A t \in Threads :
       pc[t] = "wait" /\ op[t].res = Pending => pc[op[t].on] \in LoadPoints

(* The clock runs and a thread whose wait is over is scheduled.            *)
WaitFairness == \A t \in Threads : WF_vars(PassDeadline(t)) /\ WF_vars(Wait(t))

(* A reader waiting on another thread's fetch stops waiting, even when that  *)
(* thread was terminated mid-fetch or its provider never answers: the wait   *)
(* is bounded by the flight's own deadline.                                 *)
WaitEnds == WaitFairness => \A t \in Threads : pc[t] = "wait" ~> pc[t] # "wait"
=============================================================================
