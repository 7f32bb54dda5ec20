----------------------------- MODULE LayerStore ------------------------------
(***************************************************************************)
(* The layer store: its layers in the catalog and the block store, and its *)
(* cache of blocks in memory. Each section is a state machine of its own;  *)
(* they share no state.                                                    *)
(***************************************************************************)
EXTENDS Integers, Sequences, FiniteSets, SequencesExt

CONSTANTS
    \* layers
    Names,   \* layer names
    Files,   \* the files of the directory that is imported
    Threads,
    Ops,   \* the operations threads call
    PointFails,   \* whether the durable point of a new layer may fail
    MaxIds, MaxFaults, MaxCrashes,
    \* ram
    Blocks,
    Size,   \* <<file, block>> -> bytes of the block
    Budgets,   \* <<budget_bytes, block_size>> the tier may be built with
    MIN_BLOCKS_PER_SHARD, MAX_SHARDS,
    MaxOps,
    None

VARIABLES
    \* layers
    reg,   \* Storage::layers: name -> None | [id, refs]
    cat,   \* name -> layer id, 0 for none
    rows,   \* id -> files with a row
    durable,   \* [cat, rows] after the last durable commit
    store,   \* <<id, file>> with data in the block store
    th,   \* thread -> what it is doing
    ids, faults, crashes,
    dirty,   \* needs_reconcile was called
    \* ram
    geo,   \* what with_geometry chose
    shards,   \* shard -> [map: keys held, hit: reference bits, ring, bytes]
    last,   \* the last operation: what was evicted, what was hit before
    ops

(***************************************************************************)
(* The registry of a Storage's layers: one provider per name, shared while  *)
(* it lives and waited for while its Drop commits, and the management       *)
(* operations on whole layers: import, export, delete.  A layer's tree is   *)
(* the set of its files (LayerTree has the rest); `durable` is what a crash *)
(* leaves of the catalog.                                                   *)
(***************************************************************************)
layersVars == <<reg, cat, rows, durable, store, th, ids, faults, crashes, dirty>>

Idle == [op |-> "none", at |-> "idle", name |-> None, id |-> 0, left |-> Files, guids |-> {}, ok |-> TRUE]

LayersInit ==
  /\ reg = [n \in Names |-> None]
  /\ cat = [n \in Names |-> 0]
  /\ rows = [i \in 1..MaxIds |-> {}]
  /\ durable = [cat |-> cat, rows |-> rows, history |-> FALSE]
  /\ store = {} /\ ids = 0 /\ faults = 0 /\ crashes = 0 /\ dirty = FALSE
  /\ th = [t \in Threads |-> Idle]

At(t, op, at) == th[t].op = op /\ th[t].at = at
Go(t, at) == th' = [th EXCEPT ![t].at = at]
Finish(t, ok) == th' = [th EXCEPT ![t] = [Idle EXCEPT !.op = th[t].op, !.at = "done", !.name = th[t].name,
                                                      !.id = th[t].id, !.ok = ok]]
Durable(C, R) == durable' = [cat |-> C, rows |-> R, history |-> ids > 0 \/ \E n \in Names : C[n] # 0]

(* Storage::create_layer_durably: Catalog::create_layer, then a durable      *)
(* point, which may fail (the row stays).                                   *)
create_layer_durably(n, ok) ==
  /\ ids < MaxIds /\ ids' = ids + 1
  /\ cat' = [cat EXCEPT ![n] = ids + 1]
  /\ \/ ok /\ Durable(cat', rows) /\ UNCHANGED faults
     \/ ~ok /\ PointFails /\ faults < MaxFaults /\ faults' = faults + 1 /\ UNCHANGED durable

call(t, op, n) ==
  /\ th[t].at = "idle" /\ op \in Ops
  /\ th' = [th EXCEPT ![t] = [Idle EXCEPT !.op = op, !.name = n,
                                          !.at = IF op = "import" THEN "create" ELSE op]]
  /\ UNCHANGED <<reg, cat, rows, durable, store, ids, faults, crashes, dirty>>

(* Storage::layer_provider: the live provider, shared; while the last one   *)
(* is being dropped the call waits; else a new one, of the layer in the     *)
(* catalog or, with `create`, of a new layer made durable first.            *)
layer_provider(t, create, next) ==
  LET n == th[t].name IN
  \/ /\ reg[n] # None /\ reg[n].refs > 0
     /\ reg' = [reg EXCEPT ![n].refs = @ + 1]
     /\ th' = [th EXCEPT ![t].at = next, ![t].id = reg[n].id]
     /\ UNCHANGED <<cat, durable, ids, faults>>
  \/ /\ reg[n] = None
     /\ IF cat[n] # 0
        THEN /\ reg' = [reg EXCEPT ![n] = [id |-> cat[n], refs |-> 1]]
             /\ th' = [th EXCEPT ![t].at = next, ![t].id = cat[n]]
             /\ UNCHANGED <<cat, durable, ids, faults>>
        ELSE IF create
        THEN \/ /\ create_layer_durably(n, TRUE)
                /\ reg' = [reg EXCEPT ![n] = [id |-> ids + 1, refs |-> 1]]
                /\ th' = [th EXCEPT ![t].at = next, ![t].id = ids + 1]
             \/ create_layer_durably(n, FALSE) /\ Finish(t, FALSE) /\ UNCHANGED reg
        ELSE Finish(t, FALSE) /\ UNCHANGED <<reg, cat, durable, ids, faults>>

(* Storage::layer, a session's use of the layer and the end of it.          *)
open(t) ==
  /\ At(t, "open", "open") /\ layer_provider(t, TRUE, "use")
  /\ UNCHANGED <<rows, store, crashes, dirty>>

use(t) ==
  /\ At(t, "open", "use")
  /\ Go(t, "drop")
  /\ \/ UNCHANGED <<rows, store>>
     \/ \E f \in Files : /\ rows' = [rows EXCEPT ![th[t].id] = @ \cup {f}]
                         /\ store' = store \cup {<<th[t].id, f>>}
  /\ UNCHANGED <<reg, cat, durable, ids, faults, crashes, dirty>>

(* Dropping a reference: the last one runs LayerProvider::drop, whose       *)
(* durable point covers the whole catalog...                                *)
drop_ref(t) ==
  /\ th[t].at = "drop"
  /\ reg' = [reg EXCEPT ![th[t].name].refs = @ - 1]
  /\ IF reg[th[t].name].refs = 1 THEN Go(t, "dropping")
     ELSE th' = [th EXCEPT ![t].at = "dropped"]
  /\ UNCHANGED <<cat, rows, durable, store, ids, faults, crashes, dirty>>

provider_drop(t) ==
  /\ th[t].at = "dropping"
  /\ Durable(cat, rows) /\ Go(t, "leave")
  /\ UNCHANGED <<reg, cat, rows, store, ids, faults, crashes, dirty>>

(* ... and only then leaves the registry: Storage::layer_dropped.           *)
layer_dropped(t) ==
  /\ th[t].at = "leave"
  /\ reg' = [reg EXCEPT ![th[t].name] = None]
  /\ Go(t, "dropped")
  /\ UNCHANGED <<cat, rows, durable, store, ids, faults, crashes, dirty>>

dropped(t) ==
  /\ th[t].at = "dropped"
  /\ IF th[t].op = "import" /\ ~th[t].ok THEN Go(t, "delete") ELSE Finish(t, th[t].ok)
  /\ UNCHANGED <<reg, cat, rows, durable, store, ids, faults, crashes, dirty>>

(* Storage::import_layer: the layer is created, outside the registry lock,  *)
(* then opened, then filled file by file; the close of each file that was   *)
(* written is a durable point.                                              *)
import_create(t) ==
  /\ At(t, "import", "create")
  /\ IF cat[th[t].name] # 0
     THEN Finish(t, FALSE) /\ UNCHANGED <<cat, durable, ids, faults>>
     ELSE \/ create_layer_durably(th[t].name, TRUE) /\ Go(t, "provider")
          \/ create_layer_durably(th[t].name, FALSE) /\ Finish(t, FALSE)
  /\ UNCHANGED <<reg, rows, store, crashes, dirty>>

import_provider(t) ==
  /\ At(t, "import", "provider") /\ layer_provider(t, FALSE, "fill")
  /\ UNCHANGED <<rows, store, crashes, dirty>>

(* import_dir and import_file; any of it may fail.                          *)
import_file(t) ==
  /\ At(t, "import", "fill")
  /\ LET id == th[t].id IN
        \/ \E f \in th[t].left :
             /\ rows' = [rows EXCEPT ![id] = @ \cup {f}] /\ Durable(cat, rows')
             /\ store' = store \cup {<<id, f>>}
             /\ th' = [th EXCEPT ![t].left = @ \ {f}]
             /\ UNCHANGED faults
        \/ /\ th[t].left = {} /\ Durable(cat, rows) /\ Go(t, "drop")
           /\ UNCHANGED <<rows, store, faults>>
        \/ /\ faults < MaxFaults /\ faults' = faults + 1
           /\ th' = [th EXCEPT ![t].at = "drop", ![t].ok = FALSE]
           /\ UNCHANGED <<rows, store, durable>>
  /\ UNCHANGED <<reg, cat, ids, crashes, dirty>>

delete_rows_unchecked(t) ==
  LET n == th[t].name
      id == cat[n]
  IN
  /\ th[t].at = "delete"
  /\ IF id = 0 THEN Finish(t, FALSE) /\ UNCHANGED <<cat, rows>>
     ELSE /\ cat' = [cat EXCEPT ![n] = 0]
          /\ rows' = [rows EXCEPT ![id] = {}]
          /\ th' = [th EXCEPT ![t].at = "delete_point", ![t].guids = {<<id, f>> : f \in rows[id]}]
  /\ UNCHANGED <<reg, durable, store, ids, faults, crashes, dirty>>

(* Storage::delete_layer: refused while a provider exists; under the        *)
(* registry lock the rows go (Catalog::drop_layer) ...                      *)
delete_rows(t) ==
  LET n == th[t].name
      id == cat[n]
  IN
  /\ th[t].at = "delete"
  /\ IF reg[n] # None \/ id = 0
     THEN Finish(t, FALSE) /\ UNCHANGED <<cat, rows>>
     ELSE /\ cat' = [cat EXCEPT ![n] = 0]
          /\ rows' = [rows EXCEPT ![id] = {}]
          /\ th' = [th EXCEPT ![t].at = "delete_point", ![t].guids = {<<id, f>> : f \in rows[id]}]
  /\ UNCHANGED <<reg, durable, store, ids, faults, crashes, dirty>>

(* ... then durably, then the store files; a failure leaves the rest to     *)
(* reconciliation.                                                          *)
delete_point(t) ==
  /\ th[t].at = "delete_point"
  /\ \/ Durable(cat, rows) /\ Go(t, "delete_files") /\ UNCHANGED <<dirty, faults>>
     \/ /\ faults < MaxFaults /\ faults' = faults + 1
        /\ dirty' = TRUE /\ Finish(t, FALSE) /\ UNCHANGED durable
  /\ UNCHANGED <<reg, cat, rows, store, ids, crashes>>

delete_files(t) ==
  /\ th[t].at = "delete_files"
  /\ \/ store' = store \ th[t].guids /\ UNCHANGED <<dirty, faults>>
     \/ /\ faults < MaxFaults /\ faults' = faults + 1 /\ th[t].guids # {}
        /\ \E x \in th[t].guids : store' = store \ (th[t].guids \ {x})
        /\ dirty' = TRUE
  /\ Finish(t, th[t].op = "delete")
  /\ UNCHANGED <<reg, cat, rows, durable, ids, crashes>>

(* Storage::export_layer, export_dir, export_file: every file is read       *)
(* through the layer's provider and written out.                            *)
export_provider(t) ==
  /\ At(t, "export", "export") /\ layer_provider(t, FALSE, "copy")
  /\ UNCHANGED <<rows, store, crashes, dirty>>

export_dir(t) ==
  /\ At(t, "export", "copy")
  /\ th' = [th EXCEPT ![t].at = "drop", ![t].ok = \A f \in rows[th[t].id] : <<th[t].id, f>> \in store]
  /\ UNCHANGED <<reg, cat, rows, durable, store, ids, faults, crashes, dirty>>

(* A crash: the catalog as last made durable; the open then reconciles,     *)
(* deleting store data no row names (rows always have their data here).     *)
crash ==
  /\ crashes < MaxCrashes /\ crashes' = crashes + 1
  /\ cat' = durable.cat /\ rows' = durable.rows
  /\ store' = {x \in store : x[2] \in durable.rows[x[1]]}
  /\ reg' = [n \in Names |-> None]
  /\ th' = [t \in Threads |-> [Idle EXCEPT !.at = "done"]]
  /\ dirty' = FALSE
  /\ UNCHANGED <<durable, ids, faults>>

Step(t) ==
  \/ open(t) \/ use(t) \/ drop_ref(t) \/ provider_drop(t) \/ layer_dropped(t) \/ dropped(t)
  \/ import_create(t) \/ import_provider(t) \/ import_file(t)
  \/ delete_rows(t) \/ delete_point(t) \/ delete_files(t)
  \/ export_provider(t) \/ export_dir(t)

Done == (\A t \in Threads : th[t].at = "done") /\ UNCHANGED layersVars

LayersNext ==
  \/ \E t \in Threads : Step(t) \/ \E op \in Ops, n \in Names : call(t, op, n)
  \/ crash
  \/ Done

LayersSpec == LayersInit /\ [][LayersNext]_layersVars

(* A provider from its creation to the end of its Drop.                     *)
Holders(n) == {t \in Threads : th[t].name = n /\ th[t].at \in {"use", "fill", "copy", "drop", "dropping", "leave"}}

(* Type invariant.                                                          *)
LayersTypeOK ==
  /\ \A n \in Names : cat[n] \in 0..MaxIds /\ (reg[n] = None \/ reg[n].refs \in 0..Cardinality(Threads))
  /\ \A t \in Threads : th[t].ok \in BOOLEAN /\ th[t].left \subseteq Files

(* storage.rs `layers`: "One provider per layer": everyone who holds a      *)
(* layer, to the end of the last Drop, holds the provider in the registry,  *)
(* and the layer it serves is the one in the catalog under that name: it is *)
(* neither deleted nor replaced under a session or an export.               *)
OneProvider ==
  \A n \in Names :
    /\ Holders(n) # {} => reg[n] # None
    /\ \A t \in Holders(n) : reg[n].id = th[t].id /\ cat[n] = th[t].id
    /\ reg[n] # None => cat[n] = reg[n].id

(* storage.rs create_layer_durably: data in the store always belongs to a   *)
(* layer the durable catalog knows, or knew, unless it waits to be deleted  *)
(* or for reconciliation; and no row lacks its data.                        *)
DataBelongs ==
  /\ \A i \in 1..MaxIds : \A f \in rows[i] : <<i, f>> \in store
  /\ \A x \in store :
       \/ x[2] \in rows[x[1]]
       \/ \E t \in Threads : x \in th[t].guids
       \/ dirty
       \/ x[2] \in durable.rows[x[1]]
  /\ \A t \in Threads : At(t, "export", "drop") => th[t].ok

(* create_layer_durably's doc: "so the store never holds layer data under a *)
(* catalog that has no durable layer (which Storage::open refuses as a lost *)
(* catalog)": the durable catalog has had a layer before there is data.     *)
LayerBeforeData == store # {} => durable.history

(* manage.rs import_layer's doc: an import that returned Ok left a layer    *)
(* with every file, durably, until someone deletes it.                      *)
ImportWhole ==
  \A t \in Threads :
    (th[t].op = "import" /\ th[t].at = "done" /\ th[t].ok /\ cat[th[t].name] = th[t].id) =>
      durable.rows[th[t].id] = Files /\ durable.cat[th[t].name] = th[t].id

(* manage.rs import_layer's doc: "if the copy fails partway, the partial    *)
(* layer is deleted".                                                       *)
FailedImportGone ==
  \A t \in Threads :
    (th[t].op = "import" /\ th[t].at = "done" /\ ~th[t].ok /\ th[t].id # 0) =>
      \/ cat[th[t].name] # th[t].id \/ rows[th[t].id] = {} \/ rows[th[t].id] = Files

(***************************************************************************)
(* aether-storage ram.rs: the RAM tier of decompressed blocks, sharded,     *)
(* evicted by CLOCK.  Each operation works under one shard's lock.  Bytes   *)
(* are counted in small units.                                              *)
(***************************************************************************)
ramVars == <<geo, shards, last, ops>>

Keys == Files \X Blocks

(* with_geometry: the largest power of two of shards within both bounds.    *)
with_geometry(budget, block_size) ==
  LET capacity == (budget \div Max({block_size, 1})) \div MIN_BLOCKS_PER_SHARD
      grow[n \in 1..MAX_SHARDS] == IF n * 2 <= MAX_SHARDS /\ n * 2 <= capacity THEN grow[n * 2] ELSE n
  IN [budget |-> budget, block |-> block_size, n |-> grow[1], shard_budget |-> budget \div grow[1]]

(* The hash of a key: any spread; here consecutive blocks differ.           *)
shard(k) == 1 + (k[2] % geo.n)

Nothing == [evicted |-> {}, hit |-> {}, kept |-> {}]

RamInit ==
  \E b \in Budgets :
    /\ geo = with_geometry(b[1], b[2])
    /\ shards = [i \in 1..geo.n |-> [map |-> {}, hit |-> {}, ring |-> <<>>, bytes |-> 0]]
    /\ last = Nothing /\ ops = 0

Tick == ops < MaxOps /\ ops' = ops + 1

(* The CLOCK sweep: a hit block goes to the back of the ring once, for each *)
(* of the chances, which are as many as the ring is long.                   *)
RECURSIVE sweep(_, _, _)
sweep(s, need, chances) ==
  IF s.bytes + need <= geo.shard_budget \/ s.ring = <<>> THEN s
  ELSE LET k == Head(s.ring)
           rest == Tail(s.ring)
       IN IF k \notin s.map THEN sweep([s EXCEPT !.ring = rest], need, chances)
          ELSE IF k \in s.hit /\ chances > 0
          THEN sweep([s EXCEPT !.ring = Append(rest, k), !.hit = @ \ {k}], need, chances - 1)
          ELSE sweep([map |-> s.map \ {k}, hit |-> s.hit \ {k}, ring |-> rest,
                      bytes |-> s.bytes - Size[k]], need, chances)

evict_to_fit(s, need) == sweep(s, need, Len(s.ring))

Insert(i, s, k) ==
  LET e == evict_to_fit(s, Size[k]) IN
  /\ shards' = [shards EXCEPT ![i] = [map |-> e.map \cup {k}, hit |-> e.hit \ {k},
                                      ring |-> Append(e.ring, k), bytes |-> e.bytes + Size[k]]]
  /\ last' = [evicted |-> s.map \ e.map, hit |-> s.hit, kept |-> e.map]

get(k) ==
  /\ k \in shards[shard(k)].map
  /\ shards' = [shards EXCEPT ![shard(k)].hit = @ \cup {k}]
  /\ last' = Nothing /\ Tick /\ UNCHANGED geo

put_twice(k) ==
  LET i == shard(k) IN
  /\ Size[k] <= geo.shard_budget
  /\ Insert(i, shards[i], k)
  /\ Tick /\ UNCHANGED geo

(* put replaces a block the tier holds; one too large for a shard is        *)
(* refused.                                                                 *)
put(k) ==
  LET i == shard(k)
      s == shards[i]
  IN /\ Size[k] <= geo.shard_budget
     /\ Insert(i, IF k \in s.map
                  THEN [map |-> s.map \ {k}, hit |-> s.hit \ {k}, bytes |-> s.bytes - Size[k],
                        ring |-> SelectSeq(s.ring, LAMBDA x : x # k)]
                  ELSE s, k)
     /\ Tick /\ UNCHANGED geo

(* fill keeps the block that is there.                                      *)
fill(k) ==
  /\ Size[k] <= geo.shard_budget /\ k \notin shards[shard(k)].map
  /\ Insert(shard(k), shards[shard(k)], k)
  /\ Tick /\ UNCHANGED geo

(* invalidate_file: every shard in turn, each under its own lock.           *)
invalidate_file(f) ==
  /\ shards' = [i \in DOMAIN shards |->
       LET s == shards[i]
           gone == {k \in s.map : k[1] = f}
       IN [map |-> s.map \ gone, hit |-> s.hit \ gone,
           bytes |-> s.bytes - FoldLeft(LAMBDA n, k : n + Size[k], 0, SelectSeq(s.ring, LAMBDA k : k \in gone)),
           ring |-> SelectSeq(s.ring, LAMBDA k : k[1] # f)]]
  /\ last' = Nothing /\ Tick /\ UNCHANGED geo

RamNext ==
  \/ \E k \in Keys : get(k) \/ put(k) \/ fill(k)
  \/ \E f \in Files : invalidate_file(f)

RamSpec == RamInit /\ [][RamNext]_ramVars

(* Type invariant.                                                          *)
RamTypeOK ==
  /\ geo.n \in 1..MAX_SHARDS /\ ops \in 0..MaxOps
  /\ \A i \in 1..geo.n : shards[i].bytes \in 0..geo.shard_budget /\ shards[i].hit \subseteq shards[i].map

(* Shard's doc: "`map` and `ring` are kept in exact 1:1 correspondence";    *)
(* and the byte count, on which every eviction decides, is the sum of what  *)
(* is held.                                                                 *)
RingIsMap ==
  \A i \in 1..geo.n : LET s == shards[i] IN
    /\ ToSet(s.ring) = s.map /\ Len(s.ring) = Cardinality(s.map)
    /\ s.bytes = FoldLeft(LAMBDA n, k : n + Size[k], 0, s.ring)

(* RamTier's doc: resident bytes never exceed the budget; and with_geometry *)
(* never leaves a shard too small for MIN_BLOCKS_PER_SHARD blocks when      *)
(* there is more than one.                                                  *)
BudgetHolds ==
  /\ geo.n * geo.shard_budget <= geo.budget
  /\ geo.n > 1 => geo.shard_budget >= MIN_BLOCKS_PER_SHARD * geo.block
  /\ FoldLeft(LAMBDA n, s : n + s.bytes, 0, shards) <= geo.budget

(* evict_to_fit: "a ring in which every entry is referenced clears bits for *)
(* one lap and then evicts": a block hit since the last lap is evicted only *)
(* when no block that was not hit is kept.                                  *)
SecondChance == last.evicted \cap last.hit # {} => last.kept \subseteq last.hit
==============================================================================
