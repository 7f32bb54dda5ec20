------------------------------- MODULE Director -------------------------------
(***************************************************************************)
(* The director's kernel and the opcodes that reach it: one provider per    *)
(* root, handles the director issues over the providers' own, and the       *)
(* client methods that cut a call into requests.  No lock is held over a    *)
(* provider call, so each handler is two or three steps with the provider   *)
(* call between them.  A file's content is the sequence of who wrote each   *)
(* cell (0: never written).                                                 *)
(***************************************************************************)
EXTENDS Integers, Sequences, FiniteSets, TLC

CONSTANTS Clients,    \* threads of injected processes
          Roots, Providers, Paths,
          Access,     \* provider -> "ReadOnly" or "ReadWrite"
          Home,       \* root -> the provider first mounted there
          Full,       \* providers that start with content
          Chunk,      \* cells one WRITE request carries
          BufCells,   \* cells rename_across copies at a time
          MaxLen, MaxFh, MaxMounts, MaxFaults, MaxCalls,
          Ops,        \* which calls the clients make
          OneUser,    \* a file has one handle, a handle one call, at a time
          None

VARIABLES roots, mount_gen, history, \* history[g]: what was mounted at generation g
          disk,     \* provider -> path -> content, or None
          handles,  \* the providers' open handles: [backend, path, id]
          opens, next_fh,
          call,     \* client -> its request being served
          last,     \* client -> the reply to its last request
          calls, faults

vars == <<roots, mount_gen, history, disk, handles, opens, next_fh, call, last, calls, faults>>

Idle == [pc |-> "idle"]
Done(c, r) == call' = [call EXCEPT ![c] = Idle] /\ last' = [last EXCEPT ![c] = r]
Ok(x) == [st |-> "ok"] @@ x
Err(e) == [st |-> e]
BackendHandle(p, path) == [backend |-> p, path |-> path, id |-> CHOOSE i \in 1..20 : i \notin {h.id : h \in handles}]

Init ==
  /\ roots = Home
  /\ mount_gen = 1 /\ history = <<Home>>
  /\ disk = [p \in Providers |-> [x \in Paths |-> IF p \in Full THEN <<1, 1>> ELSE None]]
  /\ handles = {} /\ opens = <<>> /\ next_fh = 1
  /\ call = [c \in Clients |-> Idle] /\ last = [c \in Clients |-> None]
  /\ calls = 0 /\ faults = 0

Begin(c, op, rec) ==
  /\ op \in Ops /\ call[c] = Idle /\ calls < MaxCalls /\ calls' = calls + 1
  /\ call' = [call EXCEPT ![c] = rec]

Busy(fh) == \E c \in Clients : "fh" \in DOMAIN call[c] /\ call[c].fh = fh
Moving == \E c \in Clients : call[c].pc \in {"move", "copy", "removing", "renaming"}
Fault == faults < MaxFaults /\ faults' = faults + 1

(***************************************************************************)
(* mount and unmount: the provider and the generation change under one lock. *)
(***************************************************************************)
mount(r, p) ==
  /\ mount_gen < MaxMounts
  /\ roots' = [roots EXCEPT ![r] = p]
  /\ mount_gen' = mount_gen + 1 /\ history' = Append(history, roots')
  /\ UNCHANGED <<disk, handles, opens, next_fh, call, last, calls, faults>>

unmount(r) == mount(r, None)

(***************************************************************************)
(* open_info.                                                               *)
(***************************************************************************)
provider_and_gen_apart(c, r, path, flags) ==
  \E g \in {mount_gen, mount_gen - 1} \ {0} :
    Begin(c, "open", [pc |-> "opening", root |-> r, path |-> path, flags |-> flags, backend |-> roots[r], gen |-> g])

provider_and_gen(c, r, path, flags) ==
  Begin(c, "open", [pc |-> "opening", root |-> r, path |-> path, flags |-> flags, backend |-> roots[r], gen |-> mount_gen])

open(c) ==
  /\ \E r \in Roots, x \in Paths, f \in {{"read"}, {"write"}, {"write", "create"}, {"write", "append"}} :
       /\ OneUser => \A fh \in DOMAIN opens : opens[fh].bh.path # x
       /\ OneUser => \A d \in Clients : call[d].pc = "opening" => call[d].path # x
       /\ provider_and_gen(c, r, x, f)
  /\ UNCHANGED <<roots, mount_gen, history, disk, handles, opens, next_fh, last, faults>>

open_info(c) ==
  LET q == call[c]
      p == q.backend
      content == disk[p][q.path]
      bh == BackendHandle(p, q.path)
      size == IF content = None THEN 0 ELSE Len(content)
  IN /\ q.pc = "opening" /\ next_fh <= MaxFh
     /\ IF p = None THEN Done(c, Err("not_found")) /\ UNCHANGED <<disk, handles, opens, next_fh>>
        ELSE IF "write" \in q.flags /\ Access[p] = "ReadOnly"
        THEN Done(c, Err("read_only")) /\ UNCHANGED <<disk, handles, opens, next_fh>>
        ELSE IF content = None /\ "create" \notin q.flags
        THEN Done(c, Err("not_found")) /\ UNCHANGED <<disk, handles, opens, next_fh>>
        ELSE /\ disk' = IF content = None THEN [disk EXCEPT ![p][q.path] = <<>>] ELSE disk
             /\ handles' = handles \cup {bh}
             /\ opens' = opens @@ (next_fh :> [bh |-> bh, root |-> q.root, gen |-> q.gen, size |-> size,
                                               cursor |-> IF "append" \in q.flags THEN size ELSE -1,
                                               writes |-> "write" \in q.flags])
             /\ next_fh' = next_fh + 1
             /\ Done(c, Ok([fh |-> next_fh, gen |-> q.gen]))
     /\ UNCHANGED <<roots, mount_gen, history, calls, faults>>

(***************************************************************************)
(* The provider's own file, by handle.                                      *)
(***************************************************************************)
Content(bh) == disk[bh.backend][bh.path]
Overlay(s, off, data) ==
  [i \in 1..(IF off + Len(data) > Len(s) THEN off + Len(data) ELSE Len(s)) |->
     IF i > off /\ i <= off + Len(data) THEN data[i - off] ELSE IF i <= Len(s) THEN s[i] ELSE 0]
Cut(s, n) == [i \in 1..n |-> IF i <= Len(s) THEN s[i] ELSE 0]

(***************************************************************************)
(* write: the client sends a chunk at a time and stops at a short one; the  *)
(* director takes the cursor under its lock, calls the provider without it, *)
(* and moves the cursor under it again.                                     *)
(***************************************************************************)
write_call(c, fh, off, n) ==
  /\ fh \in DOMAIN opens /\ opens[fh].writes /\ (OneUser => ~Busy(fh))
  /\ Begin(c, "write", [pc |-> "write", fh |-> fh, off |-> off, want |-> n, done |-> 0])
  /\ UNCHANGED <<roots, mount_gen, history, disk, handles, opens, next_fh, last, faults>>

write_lookup(c) ==
  LET q == call[c] IN
  /\ q.pc = "write"
  /\ IF q.fh \notin DOMAIN opens THEN Done(c, Err("bad_fh"))
     ELSE LET rec == opens[q.fh] IN
          /\ call' = [call EXCEPT ![c] = [pc |-> "write_at", fh |-> q.fh, off |-> q.off, want |-> q.want, done |-> q.done,
                                          bh |-> rec.bh, at |-> IF rec.cursor >= 0 THEN rec.cursor ELSE q.off + q.done]]
          /\ UNCHANGED last
  /\ UNCHANGED <<roots, mount_gen, history, disk, handles, opens, next_fh, calls, faults>>

write_at(c) ==
  LET q == call[c]
      len == IF q.want - q.done < Chunk THEN q.want - q.done ELSE Chunk
  IN /\ q.pc = "write_at"
     /\ \/ /\ q.bh \in handles /\ Content(q.bh) # None
           /\ \E n \in 1..len :
                /\ n < len => faults < MaxFaults
                /\ faults' = IF n < len THEN faults + 1 ELSE faults
                /\ q.at + n <= MaxLen
                /\ disk' = [disk EXCEPT ![q.bh.backend][q.bh.path] = Overlay(@, q.at, [i \in 1..n |-> c])]
                /\ call' = [call EXCEPT ![c] = [q EXCEPT !.pc = "wrote"] @@ [n |-> n, len |-> len]]
           /\ UNCHANGED last
        \/ /\ q.bh \in handles /\ Content(q.bh) # None => Fault
           /\ (q.bh \notin handles \/ Content(q.bh) = None) => UNCHANGED faults
           /\ Done(c, Err("io_error")) /\ UNCHANGED disk
     /\ UNCHANGED <<roots, mount_gen, history, handles, opens, next_fh, calls>>

write_done(c) ==
  LET q == call[c]
      done == q.done + q.n
      end == q.at + q.n
  IN /\ q.pc = "wrote"
     /\ opens' = IF q.fh \notin DOMAIN opens THEN opens
                 ELSE [opens EXCEPT ![q.fh].cursor = IF @ >= 0 THEN end ELSE @,
                                    ![q.fh].size = IF @ < end THEN end ELSE @]
     /\ IF q.n < q.len \/ done = q.want THEN Done(c, Ok([n |-> done]))
        ELSE /\ call' = [call EXCEPT ![c] = [pc |-> "write", fh |-> q.fh, off |-> q.off, want |-> q.want, done |-> done]]
             /\ UNCHANGED last
     /\ UNCHANGED <<roots, mount_gen, history, disk, handles, next_fh, calls, faults>>

(***************************************************************************)
(* set_len, read, close.                                                    *)
(***************************************************************************)
set_len_call(c, fh, n) ==
  /\ fh \in DOMAIN opens /\ opens[fh].writes /\ (OneUser => ~Busy(fh))
  /\ Begin(c, "set_len", [pc |-> "set_len", fh |-> fh, bh |-> opens[fh].bh, len |-> n])
  /\ UNCHANGED <<roots, mount_gen, history, disk, handles, opens, next_fh, last, faults>>

set_len(c) ==
  LET q == call[c] IN
  /\ q.pc = "set_len"
  /\ \/ /\ q.bh \in handles /\ Content(q.bh) # None
        /\ disk' = [disk EXCEPT ![q.bh.backend][q.bh.path] = Cut(@, q.len)]
        /\ call' = [call EXCEPT ![c].pc = "cut"] /\ UNCHANGED <<last, faults>>
     \/ /\ Fault /\ Done(c, Err("io_error")) /\ UNCHANGED disk
  /\ UNCHANGED <<roots, mount_gen, history, handles, opens, next_fh, calls>>

set_len_done_jumps(c) ==
  LET q == call[c] IN
  /\ q.pc = "cut"
  /\ opens' = IF q.fh \notin DOMAIN opens THEN opens ELSE [opens EXCEPT ![q.fh].size = q.len]
  /\ Done(c, Ok(<<>>))
  /\ UNCHANGED <<roots, mount_gen, history, disk, handles, next_fh, calls, faults>>

set_len_done(c) ==
  LET q == call[c] IN
  /\ q.pc = "cut"
  /\ opens' = IF q.fh \notin DOMAIN opens THEN opens
              ELSE [opens EXCEPT ![q.fh].size = q.len, ![q.fh].cursor = IF @ > q.len THEN q.len ELSE @]
  /\ Done(c, Ok(<<>>))
  /\ UNCHANGED <<roots, mount_gen, history, disk, handles, next_fh, calls, faults>>

close(c, fh) ==
  /\ "close" \in Ops /\ call[c] = Idle /\ fh \in DOMAIN opens /\ (OneUser => ~Busy(fh)) /\ calls < MaxCalls /\ calls' = calls + 1
  /\ opens' = [k \in DOMAIN opens \ {fh} |-> opens[k]]
  /\ call' = [call EXCEPT ![c] = [pc |-> "closing", bh |-> opens[fh].bh]]
  /\ UNCHANGED <<roots, mount_gen, history, disk, handles, next_fh, last, faults>>

close_backend(c) ==
  /\ call[c].pc = "closing" /\ handles' = handles \ {call[c].bh} /\ Done(c, Ok(<<>>))
  /\ UNCHANGED <<roots, mount_gen, history, disk, opens, next_fh, calls, faults>>

(***************************************************************************)
(* remove, and rename_across: a copy into the other root, then the removal. *)
(***************************************************************************)
remove(c, r, x) ==
  /\ OneUser => ~Moving
  /\ Begin(c, "remove", [pc |-> "removing", backend |-> roots[r], path |-> x])
  /\ UNCHANGED <<roots, mount_gen, history, disk, handles, opens, next_fh, last, faults>>

remove_backend(c) ==
  LET q == call[c] IN
  /\ q.pc = "removing"
  /\ IF q.backend = None THEN Done(c, Err("not_found")) /\ UNCHANGED disk
     ELSE IF Access[q.backend] = "ReadOnly" THEN Done(c, Err("read_only")) /\ UNCHANGED disk
     ELSE IF disk[q.backend][q.path] = None THEN Done(c, Err("not_found")) /\ UNCHANGED disk
     ELSE Done(c, Ok(<<>>)) /\ disk' = [disk EXCEPT ![q.backend][q.path] = None]
  /\ UNCHANGED <<roots, mount_gen, history, handles, opens, next_fh, calls, faults>>

rename(c, r, x, y) ==
  /\ OneUser => ~Moving
  /\ Begin(c, "rename", [pc |-> "renaming", backend |-> roots[r], from |-> x, to |-> y])
  /\ UNCHANGED <<roots, mount_gen, history, disk, handles, opens, next_fh, last, faults>>

rename_backend(c) ==
  LET q == call[c] IN
  /\ q.pc = "renaming"
  /\ IF q.backend = None THEN Done(c, Err("bad_request")) /\ UNCHANGED disk
     ELSE IF Access[q.backend] = "ReadOnly" THEN Done(c, Err("read_only")) /\ UNCHANGED disk
     ELSE IF disk[q.backend][q.from] = None THEN Done(c, Err("not_found")) /\ UNCHANGED disk
     ELSE Done(c, Ok(<<>>)) /\ disk' = [disk EXCEPT ![q.backend][q.from] = None, ![q.backend][q.to] = disk[q.backend][q.from]]
  /\ UNCHANGED <<roots, mount_gen, history, handles, opens, next_fh, calls, faults>>

rename_across(c, r1, x, r2, y) ==
  /\ r1 # r2 /\ (OneUser => ~Moving)
  /\ Begin(c, "move", [pc |-> "move", src |-> roots[r1], from |-> x, dst |-> roots[r2], to |-> y])
  /\ UNCHANGED <<roots, mount_gen, history, disk, handles, opens, next_fh, last, faults>>

(* The source is opened for reading and the target created or truncated.    *)
move_open(c) ==
  LET q == call[c]
      refuse(e) == Done(c, Err(e)) /\ UNCHANGED <<disk, handles, faults>>
  IN /\ q.pc = "move"
     /\ IF q.src = None \/ q.dst = None THEN refuse("not_found")
        ELSE IF disk[q.src][q.from] = None THEN refuse("not_found")
        ELSE IF Access[q.dst] = "ReadOnly" THEN refuse("read_only")
        ELSE LET sh == BackendHandle(q.src, q.from)
                 dh == [BackendHandle(q.dst, q.to) EXCEPT !.id = sh.id + 20]
             IN \/ /\ handles' = handles \cup {sh, dh}
                   /\ disk' = [disk EXCEPT ![q.dst][q.to] = <<>>]
                   /\ call' = [call EXCEPT ![c] = [q EXCEPT !.pc = "copy"] @@ [sh |-> sh, dh |-> dh, at |-> 0, size |-> Len(disk[q.src][q.from])]]
                   /\ UNCHANGED <<last, faults>>
                \/ Fault /\ Done(c, Err("io_error")) /\ UNCHANGED <<disk, handles>>
     /\ UNCHANGED <<roots, mount_gen, history, opens, next_fh, calls>>

(* One buffer read and written; a write that fails leaves the target's      *)
(* handle open.                                                             *)
move_copy(c) ==
  LET q == call[c]
      s == disk[q.src][q.from]
      n == IF s = None \/ Len(s) <= q.at THEN 0 ELSE IF Len(s) - q.at < BufCells THEN Len(s) - q.at ELSE BufCells
  IN /\ q.pc = "copy" /\ q.at < q.size
     /\ \/ /\ n > 0 /\ disk[q.dst][q.to] # None
           /\ disk' = [disk EXCEPT ![q.dst][q.to] = Overlay(@, q.at, SubSeq(s, q.at + 1, q.at + n))]
           /\ call' = [call EXCEPT ![c].at = q.at + n] /\ UNCHANGED <<last, handles, faults>>
        \/ /\ n = 0 /\ s # None
           /\ call' = [call EXCEPT ![c].size = q.at] /\ UNCHANGED <<last, handles, disk, faults>>
        \/ /\ s # None => Fault
           /\ s = None => UNCHANGED faults
           /\ handles' = handles \ {q.sh, q.dh} /\ Done(c, Err("io_error")) /\ UNCHANGED disk
        \/ /\ n > 0 /\ (disk[q.dst][q.to] # None => Fault) /\ (disk[q.dst][q.to] = None => UNCHANGED faults)
           /\ handles' = handles \ {q.sh} /\ Done(c, Err("io_error")) /\ UNCHANGED disk
     /\ UNCHANGED <<roots, mount_gen, history, opens, next_fh, calls>>

move_end_early(c) ==
  LET q == call[c] IN
  /\ q.pc = "copy"
  /\ disk' = [disk EXCEPT ![q.src][q.from] = None]
  /\ handles' = handles \ {q.sh, q.dh} /\ Done(c, Ok(<<>>))
  /\ UNCHANGED <<roots, mount_gen, history, opens, next_fh, calls, faults>>

(* Flush, close, and only then the removal.                                 *)
move_end(c) ==
  LET q == call[c] IN
  /\ q.pc = "copy" /\ q.at >= q.size
  /\ handles' = handles \ {q.sh, q.dh}
  /\ \/ /\ Access[q.src] = "ReadWrite"
        /\ disk' = [disk EXCEPT ![q.src][q.from] = None]
        /\ Done(c, Ok(<<>>)) /\ UNCHANGED faults
     \/ /\ Access[q.src] = "ReadWrite" => Fault
        /\ Access[q.src] = "ReadOnly" => UNCHANGED faults
        /\ Done(c, Err("io_error")) /\ UNCHANGED disk
  /\ UNCHANGED <<roots, mount_gen, history, opens, next_fh, calls>>

Next ==
  \/ \E r \in Roots : (\E p \in Providers : mount(r, p)) \/ unmount(r)
  \/ \E c \in Clients :
       \/ open(c) \/ open_info(c)
       \/ \E fh \in DOMAIN opens, off \in 0..1, n \in 1..2 : write_call(c, fh, off, n)
       \/ write_lookup(c) \/ write_at(c) \/ write_done(c)
       \/ \E fh \in DOMAIN opens, n \in 0..1 : set_len_call(c, fh, n)
       \/ set_len(c) \/ set_len_done(c)
       \/ \E fh \in DOMAIN opens : close(c, fh)
       \/ close_backend(c)
       \/ \E r \in Roots, x \in Paths : remove(c, r, x)
       \/ remove_backend(c)
       \/ \E r \in Roots, x, y \in Paths : rename(c, r, x, y)
       \/ rename_backend(c)
       \/ \E r1, r2 \in Roots, x, y \in Paths : rename_across(c, r1, x, r2, y)
       \/ move_open(c) \/ move_copy(c) \/ move_end(c)

Spec == Init /\ [][Next]_vars

(* Type invariant.                                                          *)
TypeOK ==
  /\ roots \in [Roots -> Providers \cup {None}]
  /\ DOMAIN opens \subseteq 1..(next_fh - 1) /\ Len(history) = mount_gen
  /\ \A fh \in DOMAIN opens : opens[fh].cursor \in -1..MaxLen

(* provider_and_gen: a handle is labelled with a generation at which its    *)
(* provider really served its root, so a client never reads new content     *)
(* under the key it cached the old content by.                              *)
LabelsTrue ==
  \A fh \in DOMAIN opens : history[opens[fh].gen][opens[fh].root] = opens[fh].bh.backend

(* The director's handles and the providers' agree: an issued handle's      *)
(* provider handle is open, and no two share one, whatever is closed,       *)
(* remounted or refused between.                                            *)
HandlesAgree ==
  /\ \A fh \in DOMAIN opens : opens[fh].bh \in handles
  /\ \A f, g \in DOMAIN opens : opens[f].bh = opens[g].bh => f = g

(* set_len's clamp: with one handle on a file and one call on a handle, the *)
(* append cursor is never past the end of its file, so an append leaves no  *)
(* hole.                                                                    *)
CursorWithin ==
  OneUser =>
    \A fh \in DOMAIN opens :
      ~Busy(fh) /\ Content(opens[fh].bh) # None => opens[fh].cursor <= Len(Content(opens[fh].bh))

(* rename_across: at every step the file moved is whole at its source, or   *)
(* whole at its target once the source is gone.                             *)
MovedWholeStep ==
  \A c \in Clients :
    call[c].pc = "copy" /\ call'[c] = Idle /\ last'[c].st = "ok" /\ disk[call[c].src][call[c].from] # None
      => disk'[call[c].dst][call[c].to] = disk[call[c].src][call[c].from]
MovedWhole == [][MovedWholeStep]_vars
=============================================================================
