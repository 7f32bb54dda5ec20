----------------------------- MODULE BlockStore -----------------------------
(***************************************************************************)
(* aether-block-store: a deduplicating block store.  Records (compressed   *)
(* blocks) are appended to pack files; one redb index holds the file       *)
(* manifests, the block rows with their reference counts, the dedup table  *)
(* and the pack rows.  Writers, readers, flushes and one compaction run    *)
(* concurrently; a crash loses the index commits since the last durable    *)
(* one and the pack bytes that were not synced.                            *)
(*                                                                         *)
(* A block's content is its hash, a file is the sequence of its slots, and *)
(* every record has length 1, so that an offset is an index into the pack  *)
(* and live_bytes counts records.                                          *)
(***************************************************************************)
EXTENDS Integers, Sequences, FiniteSets, SequencesExt

CONSTANTS
  Files,       \* file ids
  Hashes,      \* contents of a block
  Writers,     \* threads in write_blocks or put_files
  Readers,     \* threads in read
  MaxSlots,    \* bound: blocks of a file
  MaxPackSize, \* StoreConfig::max_pack_size, in records
  MaxPacks,    \* bound: pack ids ever used
  MaxBlocks,   \* bound: block ids ever used
  MaxDamage,   \* bound: records the disk damages
  MaxCrashes,  \* bound: crashes
  IOErrors,    \* BOOLEAN: appends, syncs and deletions may fail
  StartSyncFails, \* BOOLEAN: so may the sync of the old pack when a new one starts
  Unlinked,    \* a pack file that was deleted
  None         \* no file, block, pack, location or thread

Missing == 0
Torn == "torn"      \* a partial record: its header does not decode
Rotten == "rotten"  \* a record whose payload fails its checksum
Packs == 1..MaxPacks
BlockIds == 1..MaxBlocks
Compactor == "compactor"
Flusher == "flusher"

VARIABLES
  up,       \* the store is open
  index,    \* the index as the last commit left it
  durable,  \* the index a crash leaves: the last durable commit
  disk,     \* pack files: records, how many are synced, whether unlinked
  writer,   \* Writer and PackWriter: active, abandoned, next_pack_id
  lock,     \* who holds the writer lock across steps, or None
  tracker,  \* ReadTracker::generation
  retired,  \* BlockStore::retired: packs waiting to be deleted
  w,        \* per writer: its chunk
  r,        \* per reader: its read
  c,        \* the compaction
  damage,   \* ghost: how many records the disk damaged
  crashes   \* ghost: how many crashes there were

vars == <<up, index, durable, disk, writer, lock, tracker, retired, w, r, c,
          damage, crashes>>

---------------------------------------------------------------------------
(* The index: Tables of index.rs, files.rs.                                *)

(* `content` is a history variable: the blocks last written to each file.  *)
EmptyIndex ==
  [files   |-> [f \in Files |-> None],
   blocks  |-> [b \in BlockIds |-> None],
   dedup   |-> [h \in Hashes |-> None],
   packs   |-> [p \in Packs |-> None],
   nextBlock |-> 1,
   nextPack  |-> 1,
   clean     |-> FALSE,
   content   |-> [f \in Files |-> <<>>]]

(* Tables::add_live *)
AddLive(t, p, delta) == [t EXCEPT !.packs[p].live = @ + delta]

(* Tables::insert_block: the new block has the id t.nextBlock. *)
InsertBlock(t, h, loc) ==
  AddLive([t EXCEPT !.blocks[t.nextBlock] = [hash |-> h, loc |-> loc, ref |-> 0],
                    !.dedup[h] = t.nextBlock,
                    !.nextBlock = @ + 1],
          loc.pack, 1)

Incref(t, id) == [t EXCEPT !.blocks[id].ref = @ + 1]

(* Tables::remove_block *)
RemoveBlock(t, id) ==
  LET b == t.blocks[id] IN
  AddLive([t EXCEPT !.blocks[id] = None,
                    !.dedup[b.hash] = IF @ = id THEN None ELSE @],
          b.loc.pack, -1)

(* Tables::decref *)
Decref(t, id) ==
  CASE id = Missing \/ t.blocks[id] = None -> t
    [] OTHER -> IF t.blocks[id].ref > 1
                THEN [t EXCEPT !.blocks[id].ref = @ - 1]
                ELSE RemoveBlock(t, id)

DecrefAll(t, ids) == FoldLeft(Decref, t, ids)

(* files::resize: to n blocks; tail says that the last block both lengths  *)
\* Mutant: a file that grows keeps its short last block.
Resized_keeps(old, n, tail) ==
  [i \in 1..n |-> IF i > Len(old) THEN Missing ELSE old[i]]

(* share changes its length, so that it becomes missing.                   *)
Resized(old, n, tail) ==
  LET common == IF Len(old) < n THEN Len(old) ELSE n IN
  [i \in 1..n |-> IF i > common \/ (i = common /\ tail) THEN Missing ELSE old[i]]

(* The same of what was written: a block that changed its length is gone.  *)
Truncated(old, n, tail) ==
  [i \in 1..n |-> IF i > Len(old) \/ (tail /\ (i = n \/ i = Len(old))) THEN Missing ELSE old[i]]

Dropped(old, n, tail) ==
  LET kept == Resized(old, n, tail) IN
  SelectSeq([i \in 1..Len(old) |->
               IF i <= n /\ kept[i] = old[i] THEN Missing ELSE old[i]],
            LAMBDA id : id # Missing)

SlotsOf(t, f) == IF t.files[f] = None THEN <<>> ELSE t.files[f]

Resize(t, f, n, tail) ==
  DecrefAll([t EXCEPT !.files[f] = Resized(SlotsOf(t, f), n, tail),
                      !.content[f] = Truncated(@, n, tail)],
            Dropped(SlotsOf(t, f), n, tail))

(* files::set_slots, with the references moved from the old blocks to the  *)
(* new ones as write_chunk and put_files do it.                            *)
SetSlots(t, f, first, hs, recs) ==
  LET named == FoldLeft(LAMBDA a, h : IF a.dedup[h] # None THEN a
                                      ELSE InsertBlock(a, h, recs[h]), t, hs)
      ids == [i \in 1..Len(hs) |-> named.dedup[hs[i]]]
      old == SubSeq(t.files[f], first, first + Len(hs) - 1)
      set == [named EXCEPT
                !.files[f] = [i \in 1..Len(@) |->
                   IF i \in first..(first + Len(hs) - 1) THEN ids[i - first + 1] ELSE @[i]],
                !.content[f] = [i \in 1..Len(@) |->
                   IF i \in first..(first + Len(hs) - 1) THEN hs[i - first + 1] ELSE @[i]]]
  IN DecrefAll(FoldLeft(Incref, set, ids), old)

(* BlockStore::heal: nothing when the block was freed or moved since.      *)
Heal(t, id, loc) ==
  IF t.blocks[id] # None /\ t.blocks[id].loc = loc THEN RemoveBlock(t, id) ELSE t

---------------------------------------------------------------------------
(* The pack writer: pack.rs and BlockStore::append_records.  A state of it *)
(* is a record [index, disk, writer, locs].                                *)

Exists(d, p) == d[p] \notin {None, Unlinked}
Current(wr) == IF wr.active # None THEN wr.active ELSE wr.abandoned
NeedsNewPack(s) ==
  s.writer.active = None \/ Len(s.disk[s.writer.active].recs) >= MaxPackSize

\* Mutant: a pack whose append failed stays the active one.
Abandoned_keeps(wr) == IF wr.active = None THEN wr ELSE [wr EXCEPT !.abandoned = wr.active]

Abandoned(wr) ==
  IF wr.active = None THEN wr ELSE [wr EXCEPT !.active = None, !.abandoned = wr.active]

(* PackWriter::sync *)
Synced(d, wr) ==
  LET p == Current(wr) IN
  IF p = None \/ ~Exists(d, p) THEN d ELSE [d EXCEPT ![p].synced = Len(d[p].recs)]

\* Mutant: registering a pack seals every other one, the retired ones included.
Registered_all(s) ==
  LET id == s.writer.next IN
  [s EXCEPT !.writer.next = id + 1,
            !.index.nextPack = id + 1,
            !.index.packs = [p \in Packs |->
               CASE p = id -> [live |-> 0, state |-> "Active"]
                 [] s.index.packs[p] = None -> None
                 [] OTHER -> [s.index.packs[p] EXCEPT !.state = "Sealed"]]]

(* The commit that seals the current pack and registers the next one.      *)
Registered(s) ==
  LET id == s.writer.next
      old == Current(s.writer)
      sealed == IF old = None \/ s.index.packs[old] = None THEN s.index
                ELSE [s.index EXCEPT !.packs[old].state = "Sealed"]
  IN [s EXCEPT !.writer.next = id + 1,
               !.index = [sealed EXCEPT !.packs[id] = [live |-> 0, state |-> "Active"],
                                        !.nextPack = id + 1]]

(* PackWriter::start_pack of the pack Registered left in writer.next.      *)
Started(s) ==
  LET id == s.writer.next - 1 IN
  [s EXCEPT !.disk = [Synced(s.disk, s.writer) EXCEPT ![id] = [recs |-> <<>>, synced |-> 0]],
            !.writer.active = id,
            !.writer.abandoned = None]

Prepared(s) == IF NeedsNewPack(s) THEN Started(Registered(s)) ELSE s

(* One record appended: PackWriter::append.                                *)
Appended(s, h) ==
  LET a == Prepared(s)
      p == a.writer.active
  IN [a EXCEPT !.disk[p].recs = Append(@, h),
               !.locs = Append(@, [pack |-> p, off |-> Len(a.disk[p].recs) + 1])]

(* What an I/O error at one record leaves: the sync of the current pack,   *)
(* the creation of the next one, or its directory sync failed; or the      *)
(* append or the flush did, possibly after part of the record.             *)
AppendErrors(s) ==
  LET reg == Registered(s)
      id == reg.writer.next - 1
      closed == [reg EXCEPT !.disk = Synced(reg.disk, reg.writer),
                            !.writer.active = None, !.writer.abandoned = None]
      a == Prepared(s)
  IN (IF NeedsNewPack(s)
      THEN (IF StartSyncFails THEN {[reg EXCEPT !.writer = Abandoned(reg.writer)]} ELSE {})
           \cup
           {closed,
            [closed EXCEPT !.disk[id] = [recs |-> <<>>, synced |-> 0],
                           !.writer.abandoned = id]}
      ELSE {})
     \cup {[a EXCEPT !.writer = Abandoned(a.writer)],
           [a EXCEPT !.disk[a.writer.active].recs = Append(@, Torn),
                     !.writer = Abandoned(a.writer)]}

Now == [index |-> index, disk |-> disk, writer |-> writer, locs |-> <<>>]

AppendRecords(hs) == FoldLeft(Appended, Now, hs)

(* The batch failed at one of its records.                                 *)
AppendFailures(hs) ==
  IF IOErrors
  THEN UNION {AppendErrors(FoldLeft(Appended, Now, SubSeq(hs, 1, k - 1))) : k \in 1..Len(hs)}
  ELSE {}

(* Bound: pack ids are left for n more records.                            *)
PackIdsLeft(n) ==
  LET room == IF writer.active = None THEN 0
              ELSE MaxPackSize - Len(disk[writer.active].recs)
  IN n <= room + (MaxPacks + 1 - writer.next) * MaxPackSize

Becomes(s) ==
  /\ index' = s.index
  /\ disk' = s.disk
  /\ writer' = s.writer

---------------------------------------------------------------------------
(* Writers: write_chunk and put_files.                                     *)

NoRecs == [h \in Hashes |-> None]
IdleWriter == [pc |-> "idle", kind |-> None, file |-> None, first |-> 1, hs |-> <<>>,
               need |-> {}, recs |-> NoRecs]

Contents(n) == UNION {[1..k -> Hashes] : k \in n..MaxSlots}

(* The blocks that are not stored yet, by a read of the index.             *)
StartChunk(t, kind, f, first, hs) ==
  w' = [w EXCEPT ![t] = [pc |-> "append", kind |-> kind, file |-> f, first |-> first,
                         hs |-> hs, recs |-> NoRecs,
                         need |-> {h \in ToSet(hs) : index.dedup[h] = None}]]

StartWrite(t) ==
  /\ up /\ w[t].pc = "idle"
  /\ \E f \in Files, hs \in Contents(1), first \in 1..MaxSlots :
       /\ index.files[f] # None
       /\ first + Len(hs) - 1 <= Len(index.files[f])
       /\ StartChunk(t, "write", f, first, hs)
  /\ UNCHANGED <<up, index, durable, disk, writer, lock, tracker, retired, r, c, damage, crashes>>

StartPut(t) ==
  /\ up /\ w[t].pc = "idle"
  /\ \E f \in Files, hs \in Contents(0) : StartChunk(t, "put", f, 1, hs)
  /\ UNCHANGED <<up, index, durable, disk, writer, lock, tracker, retired, r, c, damage, crashes>>

(* encode_and_append: only the needed blocks that have no record yet.      *)
EncodeAndAppend(t) ==
  LET todo == SetToSeq({h \in w[t].need : w[t].recs[h] = None}) IN
  /\ up /\ w[t].pc = "append" /\ lock = None
  /\ PackIdsLeft(Len(todo))
  /\ \/ LET s == AppendRecords(todo) IN
        /\ Becomes(s)
        /\ w' = [w EXCEPT ![t].pc = "commit",
                          ![t].recs = [h \in Hashes |->
                             IF h \in ToSet(todo)
                             THEN s.locs[CHOOSE i \in 1..Len(todo) : todo[i] = h]
                             ELSE @[h]]]
     \/ /\ \E s \in AppendFailures(todo) : Becomes(s)
        /\ w' = [w EXCEPT ![t] = IdleWriter]
  /\ UNCHANGED <<up, durable, lock, tracker, retired, r, c, damage, crashes>>

\* Mutant: a registered pack accepts records, retired or not.
PackAccepts_registered(p) == index.packs[p] # None

(* pack_accepts_records *)
PackAccepts(p) == index.packs[p] # None /\ index.packs[p].state # "Retired"

MissingRecords(t) ==
  {h \in ToSet(w[t].hs) : /\ index.dedup[h] = None
                          /\ w[t].recs[h] = None \/ ~PackAccepts(w[t].recs[h].pack)}

(* A dedup hit freed since, or a record whose pack was retired, is         *)
(* appended again; the transaction is committed untouched.                 *)
RetryChunk(t) ==
  /\ w' = [w EXCEPT ![t].pc = "append",
                    ![t].need = MissingRecords(t),
                    ![t].recs = [h \in Hashes |-> IF h \in MissingRecords(t) THEN None ELSE @[h]]]
  /\ UNCHANGED index

(* The last block both contents have is the same block, so of one length.  *)
SameTail(old, new) ==
  LET common == IF Len(old) < Len(new) THEN Len(old) ELSE Len(new)
  IN common > 0 /\ old[common] = new[common]

(* The slots are replaced in `t0`; put_files panics on a block that has    *)
(* neither a row nor a record of its own.                                  *)
SetOrPanic(t, t0) ==
  LET lacks == {h \in ToSet(w[t].hs) : t0.dedup[h] = None} IN
  /\ t0.nextBlock + Cardinality(lacks) <= MaxBlocks + 1
  /\ IF \E h \in lacks : w[t].recs[h] = None
     THEN w' = [w EXCEPT ![t].pc = "panicked"] /\ UNCHANGED index
     ELSE /\ index' = SetSlots(t0, w[t].file, w[t].first, w[t].hs, w[t].recs)
          /\ w' = [w EXCEPT ![t] = IdleWriter]

(* The file is still there and its length still fits the chunk.            *)
ValidWrite(t) ==
  LET f == w[t].file IN
  index.files[f] # None /\ w[t].first + Len(w[t].hs) - 1 <= Len(index.files[f])

Commit(t) ==
  /\ up /\ w[t].pc = "commit"
  /\ \/ /\ w[t].kind = "write" /\ ~ValidWrite(t)
        /\ w' = [w EXCEPT ![t] = IdleWriter]
        /\ UNCHANGED index
     \/ /\ w[t].kind = "write" => ValidWrite(t)
        /\ MissingRecords(t) # {}
        /\ RetryChunk(t)
     \/ /\ w[t].kind = "write" /\ ValidWrite(t)
        /\ MissingRecords(t) = {}
        /\ SetOrPanic(t, index)
     \/ /\ w[t].kind = "put"
        /\ MissingRecords(t) = {}
        /\ \E tail \in BOOLEAN :
             /\ tail => ~SameTail(index.content[w[t].file], w[t].hs)
             /\ SetOrPanic(t, Resize(index, w[t].file, Len(w[t].hs), tail))
  /\ UNCHANGED <<up, durable, disk, writer, lock, tracker, retired, r, c, damage, crashes>>

SetLen ==
  /\ up
  /\ \E f \in Files, n \in 0..MaxSlots, tail \in BOOLEAN : index' = Resize(index, f, n, tail)
  /\ UNCHANGED <<up, durable, disk, writer, lock, tracker, retired, w, r, c, damage, crashes>>

Delete ==
  /\ up
  /\ \E f \in Files :
       /\ index.files[f] # None
       /\ index' = [DecrefAll(index, index.files[f]) EXCEPT !.files[f] = None,
                                                            !.content[f] = <<>>]
  /\ UNCHANGED <<up, durable, disk, writer, lock, tracker, retired, w, r, c, damage, crashes>>

---------------------------------------------------------------------------
(* durable_commit: the packs are synced, then the index is committed       *)
(* durably, under the writer lock throughout.                              *)

\* Mutant: the index is committed durably without syncing the packs.
SyncLocked_skips(t) ==
  /\ up /\ lock = None
  /\ lock' = t
  /\ UNCHANGED disk

SyncLocked(t) ==
  /\ up /\ lock = None
  /\ disk' = Synced(disk, writer)
  /\ lock' = t

SyncFails ==
  /\ up /\ lock = None /\ IOErrors
  /\ writer' = Abandoned(writer)

FlushSync ==
  /\ \/ SyncLocked(Flusher) /\ UNCHANGED writer
     \/ SyncFails /\ UNCHANGED <<disk, lock>>
  /\ UNCHANGED <<up, index, durable, tracker, retired, w, r, c, damage, crashes>>

FlushCommit ==
  /\ up /\ lock = Flusher
  /\ durable' = index
  /\ lock' = None
  /\ UNCHANGED <<up, index, disk, writer, tracker, retired, w, r, c, damage, crashes>>

---------------------------------------------------------------------------
(* Readers: BlockStore::read, one block of it.                             *)

IdleReader == [pc |-> "idle", gen |-> 0, id |-> Missing, loc |-> None]

Enter(t) ==
  /\ up /\ r[t].pc = "idle"
  /\ r' = [r EXCEPT ![t] = [IdleReader EXCEPT !.pc = "entered", !.gen = tracker]]
  /\ UNCHANGED <<up, index, durable, disk, writer, lock, tracker, retired, w, c, damage, crashes>>

(* The index snapshot; a slot that is missing, or whose block was healed,  *)
(* is reported as missing.                                                 *)
Snapshot(t) ==
  /\ up /\ r[t].pc = "entered"
  /\ \/ \E f \in Files : \E i \in 1..Len(SlotsOf(index, f)) :
          LET id == index.files[f][i] IN
          /\ id # Missing /\ index.blocks[id] # None
          /\ r' = [r EXCEPT ![t].pc = "read", ![t].id = id, ![t].loc = index.blocks[id].loc]
     \/ r' = [r EXCEPT ![t] = IdleReader]
  /\ UNCHANGED <<up, index, durable, disk, writer, lock, tracker, retired, w, c, damage, crashes>>

Readable(d, loc, h) ==
  Exists(d, loc.pack) /\ loc.off <= Len(d[loc.pack].recs) /\ d[loc.pack].recs[loc.off] = h

(* read_block_into: an unreadable record is healed.  An unlinked pack can  *)
(* not be opened: the read fails.                                          *)
ReadBlock(t) ==
  LET loc == r[t].loc IN
  /\ up /\ r[t].pc = "read"
  /\ index' = IF ~Exists(disk, loc.pack) \/ \E h \in Hashes : Readable(disk, loc, h)
              THEN index ELSE Heal(index, r[t].id, loc)
  /\ r' = [r EXCEPT ![t] = IdleReader]
  /\ UNCHANGED <<up, durable, disk, writer, lock, tracker, retired, w, c, damage, crashes>>

---------------------------------------------------------------------------
(* Compaction.                                                             *)

IdleCompaction == [pc |-> "idle", pack |-> None, live |-> <<>>, to |-> <<>>, pass |-> 1]

(* compact: a sealed pack with enough garbage.  Which ratio is enough is   *)
(* the caller's choice.                                                    *)
CompactPack ==
  /\ up /\ c.pc = "idle"
  /\ \E p \in Packs :
       /\ index.packs[p] # None /\ index.packs[p].state = "Sealed"
       /\ Exists(disk, p) /\ disk[p].recs # <<>>
       /\ c' = [IdleCompaction EXCEPT !.pc = "scan", !.pack = p]
  /\ UNCHANGED <<up, index, durable, disk, writer, lock, tracker, retired, w, r, damage, crashes>>

BlocksIn(p) == {id \in BlockIds : index.blocks[id] # None /\ index.blocks[id].loc.pack = p}

(* Of the blocks `ids`, those with a readable record are to be moved and   *)
(* the others are healed.                                                  *)
Good(ids) == {id \in ids : Readable(disk, index.blocks[id].loc, index.blocks[id].hash)}

HealOthers(ids) ==
  FoldLeft(LAMBDA t, id : Heal(t, id, index.blocks[id].loc), index, SetToSeq(ids \ Good(ids)))

ToMove(ids) ==
  LET good == SetToSeq(Good(ids)) IN
  [i \in 1..Len(good) |-> [id |-> good[i], loc |-> index.blocks[good[i]].loc,
                           hash |-> index.blocks[good[i]].hash]]

(* move_scanned: the scan stops at the first record with a bad header.     *)
Scan ==
  LET recs == disk[c.pack].recs
      found == {id \in BlocksIn(c.pack) :
                  \A j \in 1..index.blocks[id].loc.off : j <= Len(recs) /\ recs[j] # Torn}
  IN /\ up /\ c.pc = "scan"
     /\ index' = HealOthers(found)
     /\ c' = [c EXCEPT !.pc = "copy", !.live = ToMove(found)]
     /\ UNCHANGED <<up, durable, disk, writer, lock, tracker, retired, w, r, damage, crashes>>

(* move_records: the copies are appended, then the blocks repointed.       *)
CopyRecords ==
  LET hs == [i \in 1..Len(c.live) |-> c.live[i].hash] IN
  /\ up /\ c.pc = "copy" /\ lock = None
  /\ PackIdsLeft(Len(hs))
  /\ \/ LET s == AppendRecords(hs) IN
        Becomes(s) /\ c' = [c EXCEPT !.pc = "repoint", !.to = s.locs]
     \/ /\ \E s \in AppendFailures(hs) : Becomes(s)
        /\ c' = IdleCompaction
  /\ UNCHANGED <<up, durable, lock, tracker, retired, w, r, damage, crashes>>

Repointed(t, i) ==
  LET l == c.live[i] IN
  IF t.blocks[l.id] = None \/ t.blocks[l.id].loc # l.loc THEN t
  ELSE AddLive(AddLive([t EXCEPT !.blocks[l.id].loc = c.to[i]], l.loc.pack, -1),
               c.to[i].pack, 1)

Repoint ==
  /\ up /\ c.pc = "repoint"
  /\ index' = FoldLeft(Repointed, index, [i \in 1..Len(c.live) |-> i])
  /\ c' = [c EXCEPT !.pc = "check", !.live = <<>>, !.to = <<>>]
  /\ UNCHANGED <<up, durable, disk, writer, lock, tracker, retired, w, r, damage, crashes>>

(* What the scan left behind is moved by the index, once.                  *)
EvacuateByIndex ==
  /\ up /\ c.pc = "check"
  /\ IF index.packs[c.pack].live # 0 /\ c.pass = 1
     THEN /\ index' = HealOthers(BlocksIn(c.pack))
          /\ c' = [c EXCEPT !.pc = "copy", !.live = ToMove(BlocksIn(c.pack)), !.pass = 2]
     ELSE c' = [c EXCEPT !.pc = "retire"] /\ UNCHANGED index
  /\ UNCHANGED <<up, durable, disk, writer, lock, tracker, retired, w, r, damage, crashes>>

RetireSync ==
  /\ c.pc = "retire"
  /\ \/ SyncLocked(Compactor) /\ UNCHANGED <<writer, c>>
     \/ SyncFails /\ c' = IdleCompaction /\ UNCHANGED <<disk, lock>>
  /\ UNCHANGED <<up, index, durable, tracker, retired, w, r, damage, crashes>>

(* A pack that gained live data meanwhile is left sealed.                  *)
RetireCommit ==
  /\ up /\ c.pc = "retire" /\ lock = Compactor
  /\ IF index.packs[c.pack].live # 0
     THEN c' = IdleCompaction /\ UNCHANGED index
     ELSE /\ index' = [index EXCEPT !.packs[c.pack].state = "Retired"]
          /\ c' = [c EXCEPT !.pc = "advance"]
  /\ durable' = index'
  /\ lock' = None
  /\ UNCHANGED <<up, disk, writer, tracker, retired, w, r, damage, crashes>>

(* ReadTracker::advance, and the pack queued with the new generation.      *)
Advance ==
  /\ up /\ c.pc = "advance"
  /\ tracker' = tracker + 1
  /\ retired' = retired \cup {<<c.pack, tracker + 1>>}
  /\ c' = IdleCompaction
  /\ UNCHANGED <<up, index, durable, disk, writer, lock, w, r, damage, crashes>>

\* Mutant: the reads that may still use a retired pack are not waited for.
ClearBefore_always(gen) == TRUE

ClearBefore(gen) == \A t \in Readers : r[t].pc # "idle" => r[t].gen >= gen

(* delete_retired, one pack: the file, then the row.                       *)
RemovePackFile ==
  /\ up /\ c.pc = "idle"
  /\ \E q \in retired :
       /\ ClearBefore(q[2])
       /\ disk' = [disk EXCEPT ![q[1]] = IF @ = None THEN None ELSE Unlinked]
       /\ c' = [IdleCompaction EXCEPT !.pc = "row", !.pack = q[1]]
  /\ UNCHANGED <<up, index, durable, writer, lock, tracker, retired, w, r, damage, crashes>>

RemoveRetiredRow ==
  /\ up /\ c.pc = "row"
  /\ \/ /\ index' = [index EXCEPT !.packs[c.pack] = None]
        /\ retired' = {q \in retired : q[1] # c.pack}
     \/ IOErrors /\ UNCHANGED <<index, retired>>
  /\ c' = IdleCompaction
  /\ UNCHANGED <<up, durable, disk, writer, lock, tracker, w, r, damage, crashes>>

---------------------------------------------------------------------------
(* Shutdown, crashes and recovery.                                         *)

NoWriter == [active |-> None, abandoned |-> None, next |-> 1]

Stopped ==
  /\ up' = FALSE
  /\ writer' = NoWriter
  /\ lock' = None
  /\ tracker' = 0
  /\ retired' = {}
  /\ w' = [t \in Writers |-> IdleWriter]
  /\ r' = [t \in Readers |-> IdleReader]
  /\ c' = IdleCompaction

(* shutdown_as: close takes the store, so nothing else is running.         *)
Shutdown ==
  /\ up /\ lock = None /\ c.pc = "idle"
  /\ \A t \in Writers : w[t].pc = "idle"
  /\ \A t \in Readers : r[t].pc = "idle"
  /\ disk' = Synced(disk, writer)
  /\ index' = [index EXCEPT !.clean = TRUE]
  /\ durable' = index'
  /\ Stopped
  /\ UNCHANGED <<damage, crashes>>

(* The records of a pack a crash may leave: the synced ones, and of the    *)
(* others a prefix, with perhaps a part of the next.                       *)
Survivors(f) ==
  {SubSeq(f.recs, 1, n) : n \in f.synced..Len(f.recs)} \cup
  {Append(SubSeq(f.recs, 1, n), Torn) : n \in f.synced..(Len(f.recs) - 1)}

(* An unlink is not synced: the file may be there again.                   *)
Crash ==
  /\ up /\ crashes < MaxCrashes
  /\ crashes' = crashes + 1
  /\ index' = durable
  /\ UNCHANGED <<durable, damage>>
  /\ \E back \in SUBSET {p \in Packs : disk[p] = Unlinked} :
     \E recs \in [{p \in Packs : Exists(disk, p) /\ disk[p].synced < Len(disk[p].recs)} ->
                    UNION {Survivors(disk[p]) : p \in {q \in Packs : Exists(disk, q)}}] :
       /\ \A p \in DOMAIN recs : recs[p] \in Survivors(disk[p])
       /\ disk' = [p \in Packs |->
                     CASE p \in back -> [recs |-> <<>>, synced |-> 0]
                       [] p \in DOMAIN recs -> [recs |-> recs[p], synced |-> Len(recs[p])]
                       [] OTHER -> IF Exists(disk, p) THEN disk[p] ELSE None]
  /\ Stopped

(* recover, the first and durable transaction of an open.  `stuck` are the *)
(* files that cannot be deleted now.                                       *)
Open ==
  LET onDisk == {p \in Packs : Exists(disk, p)}
      rows == {p \in Packs : index.packs[p] # None}
      retiredRows == {p \in rows : index.packs[p].state = "Retired"}
      lost == {p \in rows \ retiredRows : p \notin onDisk}
      active == {p \in (rows \ retiredRows) \ lost : index.packs[p].state = "Active"}
      resume == IF index.clean /\ active # {}
                THEN CHOOSE p \in active : \A q \in active : q <= p ELSE None
      next == CHOOSE n \in 1..(MaxPacks + 1) :
                /\ n >= index.nextPack /\ \A p \in rows \cup onDisk : n > p
                /\ \A m \in 1..(n - 1) : m < index.nextPack \/ \E p \in rows \cup onDisk : m <= p
  IN /\ ~up
     /\ \A p \in lost : index.packs[p].live = 0
     /\ \E stuck \in SUBSET (onDisk \cap (retiredRows \cup (Packs \ rows))) :
          /\ IOErrors \/ stuck = {}
          /\ disk' = [p \in Packs |-> IF p \in onDisk /\ p \notin stuck
                                         /\ (p \in retiredRows \/ p \notin rows)
                                      THEN Unlinked ELSE disk[p]]
          /\ index' = [index EXCEPT
                !.clean = FALSE,
                !.packs = [p \in Packs |->
                   IF p \in lost \/ (p \in retiredRows /\ p \notin stuck) THEN None
                   ELSE IF p \in active /\ p # resume THEN [@[p] EXCEPT !.state = "Sealed"]
                   ELSE @[p]]]
     /\ durable' = index'
     /\ up' = TRUE
     /\ writer' = [active |-> resume, abandoned |-> None, next |-> next]
     /\ UNCHANGED <<lock, tracker, retired, w, r, c, damage, crashes>>

(* The disk damages a record.                                              *)
Damage ==
  /\ damage < MaxDamage
  /\ \E p \in Packs, bad \in {Torn, Rotten} :
       /\ Exists(disk, p)
       /\ \E i \in 1..Len(disk[p].recs) : disk' = [disk EXCEPT ![p].recs[i] = bad]
  /\ damage' = damage + 1
  /\ UNCHANGED <<up, index, durable, writer, lock, tracker, retired, w, r, c, crashes>>

---------------------------------------------------------------------------
Init ==
  /\ up = FALSE
  /\ index = EmptyIndex /\ durable = EmptyIndex
  /\ disk = [p \in Packs |-> None]
  /\ writer = NoWriter
  /\ lock = None /\ tracker = 0 /\ retired = {}
  /\ w = [t \in Writers |-> IdleWriter]
  /\ r = [t \in Readers |-> IdleReader]
  /\ c = IdleCompaction
  /\ damage = 0 /\ crashes = 0

Next ==
  \/ \E t \in Writers : StartWrite(t) \/ StartPut(t) \/ EncodeAndAppend(t) \/ Commit(t)
  \/ SetLen \/ Delete \/ FlushSync \/ FlushCommit
  \/ \E t \in Readers : Enter(t) \/ Snapshot(t) \/ ReadBlock(t)
  \/ CompactPack \/ Scan \/ CopyRecords \/ Repoint \/ EvacuateByIndex
  \/ RetireSync \/ RetireCommit \/ Advance \/ RemovePackFile \/ RemoveRetiredRow
  \/ Shutdown \/ Crash \/ Open \/ Damage

Spec == Init /\ [][Next]_vars

---------------------------------------------------------------------------
(* Each variable has its type.                                             *)
TypeOK ==
  /\ up \in BOOLEAN
  /\ \A p \in Packs : Exists(disk, p) => disk[p].synced \in 0..Len(disk[p].recs)
  /\ {writer.active, writer.abandoned} \subseteq Packs \cup {None}
  /\ None \in {writer.active, writer.abandoned}
  /\ writer.next \in 1..(MaxPacks + 1)
  /\ lock \in {None, Flusher, Compactor}
  /\ \A t \in Writers : w[t].pc \in {"idle", "append", "commit", "panicked"}
  /\ \A t \in Readers : r[t].pc \in {"idle", "entered", "read"}

References(t, id) ==
  Cardinality({<<f, i>> \in Files \X (1..MaxSlots) :
                 i <= Len(SlotsOf(t, f)) /\ SlotsOf(t, f)[i] = id})

(* The checks of verify() on the tables alone: every reference count is the *)
(* number of slots that name the block, the dedup table and the block rows *)
(* agree, every pack's live bytes are the sum of its blocks, and no block  *)
(* is in a pack that is retired or not registered.                         *)
Consistent(t) ==
  /\ \A id \in BlockIds : t.blocks[id] # None =>
       /\ t.blocks[id].ref = References(t, id)
       /\ t.dedup[t.blocks[id].hash] = id
       /\ t.packs[t.blocks[id].loc.pack] # None
       /\ t.packs[t.blocks[id].loc.pack].state # "Retired"
  /\ \A h \in Hashes : t.dedup[h] # None =>
       t.blocks[t.dedup[h]] # None /\ t.blocks[t.dedup[h]].hash = h
  /\ \A p \in Packs : t.packs[p] # None =>
       t.packs[p].live = Cardinality({id \in BlockIds : t.blocks[id] # None
                                                        /\ t.blocks[id].loc.pack = p})

(* After every commit, and in what a crash leaves, the index passes the    *)
(* table checks of verify().                                               *)
IndexConsistent == Consistent(index) /\ Consistent(durable)

(* A slot that names a stored block names the block last written there,    *)
(* however blocks were shared, freed, moved, healed and rewritten.         *)
SlotsHoldWhatWasWritten ==
  \A t \in {index, durable}, f \in Files : t.files[f] # None =>
    /\ Len(t.files[f]) = Len(t.content[f])
    /\ \A i \in 1..Len(t.files[f]) :
         LET id == t.files[f][i] IN
         id # Missing /\ id < t.nextBlock /\ t.blocks[id] # None =>
           t.blocks[id].hash = t.content[f][i]

(* A block of the durable index has its record in the synced part of a     *)
(* pack file, so a crash at any point loses none (a record the disk itself *)
(* damaged excepted), and the next open finds every pack it needs.         *)
CrashLosesNoBlock ==
  \A id \in BlockIds : durable.blocks[id] # None =>
    LET loc == durable.blocks[id].loc IN
    /\ Exists(disk, loc.pack)
    /\ loc.off <= disk[loc.pack].synced
    /\ disk[loc.pack].recs[loc.off] \in {durable.blocks[id].hash}
         \cup (IF damage > 0 THEN {Torn, Rotten} ELSE {})

(* A block of the index is readable as soon as it is committed, and what   *)
(* a read found in its snapshot stays readable until the read ends:        *)
(* compaction moves records and deletes packs under it.                    *)
BlocksStayReadable ==
  /\ \A id \in BlockIds : index.blocks[id] # None =>
       \/ Readable(disk, index.blocks[id].loc, index.blocks[id].hash)
       \/ damage > 0 /\ Exists(disk, index.blocks[id].loc.pack)
  /\ \A t \in Readers : r[t].pc = "read" =>
       /\ Exists(disk, r[t].loc.pack)
       /\ damage = 0 => \E h \in Hashes : Readable(disk, r[t].loc, h)

(* A retired pack stays retired until its row is removed, also across a    *)
RetiredForGoodStep ==
    \A p \in Packs : index.packs[p] # None /\ index.packs[p].state = "Retired" =>
    index'.packs[p] = None \/ index'.packs[p].state = "Retired"

(* crash: whoever tests pack_accepts_records relies on it.                 *)
RetiredForGood == [][RetiredForGoodStep]_vars

(* put_files replaces a file by any content: it never looks up a block     *)
(* that its own transaction has just freed.                                *)
PutsNeverPanic == \A t \in Writers : w[t].pc # "panicked"
=============================================================================
