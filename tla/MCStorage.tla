------------------------------ MODULE MCStorage ------------------------------
(***************************************************************************)
(* The block store and the layers over it, in instances side by side:      *)
(* `which` picks one.                                                      *)
(***************************************************************************)
EXTENDS Integers, Sequences, FiniteSets, TLC

CONSTANTS None, Unlinked, f1, h1, t0, t1, t2, r1

VARIABLES which, v1, v2, v3, v4, v5, v6, v7, v8, v9, v10, v11, v12, v13

vars == <<which, v1, v2, v3, v4, v5, v6, v7, v8, v9, v10, v11, v12, v13>>

NameA == <<97>>
NameUA == <<65>>
NameAD == <<97, 45>>
NameA0 == <<97, 48>>

\* Alike in every instance they appear in.
Symmetry ==
    UNION {Permutations(S) : S \in {{t1, t2}}}

\* A reader beside a writer, compaction and deletes.
Read == INSTANCE BlockStore WITH Files <- {f1}, Hashes <- {h1}, Writers <- {t0},
    Readers <- {r1}, MaxSlots <- 1, MaxPackSize <- 1, MaxPacks <- 2, MaxBlocks <- 2,
    MaxDamage <- 0, MaxCrashes <- 0, IOErrors <- FALSE, StartSyncFails <- FALSE, up <- v1,
    index <- v2, durable <- v3, disk <- v4, writer <- v5, lock <- v6, tracker <- v7,
    retired <- v8, w <- v9, r <- v10, c <- v11, damage <- v12, crashes <- v13
\* I/O errors at every call.
Fail == INSTANCE BlockStore WITH Files <- {f1}, Hashes <- {h1}, Writers <- {t0}, Readers <- {},
    MaxSlots <- 1, MaxPackSize <- 1, MaxPacks <- 2, MaxBlocks <- 1, MaxDamage <- 0,
    MaxCrashes <- 0, IOErrors <- TRUE, StartSyncFails <- FALSE, up <- v1, index <- v2,
    durable <- v3, disk <- v4, writer <- v5, lock <- v6, tracker <- v7, retired <- v8, w <- v9,
    r <- v10, c <- v11, damage <- v12, crashes <- v13
\* A crash at any step.
Crash == INSTANCE BlockStore WITH Files <- {f1}, Hashes <- {h1}, Writers <- {t0}, Readers <- {},
    MaxSlots <- 1, MaxPackSize <- 1, MaxPacks <- 2, MaxBlocks <- 1, MaxDamage <- 0,
    MaxCrashes <- 1, IOErrors <- FALSE, StartSyncFails <- FALSE, up <- v1, index <- v2,
    durable <- v3, disk <- v4, writer <- v5, lock <- v6, tracker <- v7, retired <- v8, w <- v9,
    r <- v10, c <- v11, damage <- v12, crashes <- v13
\* I/O errors and a crash, in one pack file.
FailCrash == INSTANCE BlockStore WITH Files <- {f1}, Hashes <- {h1}, Writers <- {t0},
    Readers <- {}, MaxSlots <- 1, MaxPackSize <- 1, MaxPacks <- 1, MaxBlocks <- 1,
    MaxDamage <- 0, MaxCrashes <- 1, IOErrors <- TRUE, StartSyncFails <- FALSE, up <- v1,
    index <- v2, durable <- v3, disk <- v4, writer <- v5, lock <- v6, tracker <- v7,
    retired <- v8, w <- v9, r <- v10, c <- v11, damage <- v12, crashes <- v13
\* A damaged record, found by compaction.
Bad == INSTANCE BlockStore WITH Files <- {f1}, Hashes <- {h1}, Writers <- {t0}, Readers <- {},
    MaxSlots <- 1, MaxPackSize <- 1, MaxPacks <- 2, MaxBlocks <- 1, MaxDamage <- 1,
    MaxCrashes <- 0, IOErrors <- FALSE, StartSyncFails <- FALSE, up <- v1, index <- v2,
    durable <- v3, disk <- v4, writer <- v5, lock <- v6, tracker <- v7, retired <- v8, w <- v9,
    r <- v10, c <- v11, damage <- v12, crashes <- v13
\* A damaged record, found by a reader.
BadRead == INSTANCE BlockStore WITH Files <- {f1}, Hashes <- {h1}, Writers <- {t0},
    Readers <- {r1}, MaxSlots <- 1, MaxPackSize <- 1, MaxPacks <- 1, MaxBlocks <- 1,
    MaxDamage <- 1, MaxCrashes <- 0, IOErrors <- FALSE, StartSyncFails <- FALSE, up <- v1,
    index <- v2, durable <- v3, disk <- v4, writer <- v5, lock <- v6, tracker <- v7,
    retired <- v8, w <- v9, r <- v10, c <- v11, damage <- v12, crashes <- v13
\* Two writers of one block.
Two == INSTANCE BlockStore WITH Files <- {f1}, Hashes <- {h1}, Writers <- {t1, t2},
    Readers <- {}, MaxSlots <- 1, MaxPackSize <- 1, MaxPacks <- 2, MaxBlocks <- 1,
    MaxDamage <- 0, MaxCrashes <- 0, IOErrors <- FALSE, StartSyncFails <- FALSE, up <- v1,
    index <- v2, durable <- v3, disk <- v4, writer <- v5, lock <- v6, tracker <- v7,
    retired <- v8, w <- v9, r <- v10, c <- v11, damage <- v12, crashes <- v13
\* An open file of a layer and a reader.
Layer == INSTANCE LayerData WITH BS <- 2, MaxLen <- 4, RUN_BLOCKS <- 1, MAX_CAPTURE_BLOCKS <- 1,
    Readers <- {"r1"}, FlushFails <- FALSE, MaxDirty <- 1, len <- v1, committed_len <- v2,
    valid_len <- v3, dirty <- v4, store <- v5, ram <- v6, locked <- v7, reading <- v8,
    ref <- v9, Names <- None, FoldName <- None, Paths <- None, Batches <- None, Threads <- None,
    MaxGuid <- None, MaxFaults <- None, MaxOpens <- None, MaxOps <- None, rows <- None,
    cells <- None, doomed <- None, stored <- None, batch <- None, guids <- None, faults <- None,
    ops <- None, listing <- None
\* The rows of a layer: files and directories made, listed, moved and removed.
Rows == INSTANCE LayerData WITH Names <- {NameA, NameUA, NameAD, NameA0},
    FoldName <- [n \in {NameA, NameUA, NameAD, NameA0} |-> IF n = NameUA THEN NameA ELSE n],
    Paths <- {<<NameA>>, <<NameUA, NameAD>>, <<NameA, NameA>>, <<NameA0>>},
    Batches <- {<< <<NameA, NameA>>, <<NameA0>> >>}, Threads <- {"t1"}, MaxGuid <- 2,
    MaxFaults <- 1, MaxOpens <- 1, MaxOps <- 4, rows <- v1, cells <- v2, doomed <- v3,
    stored <- v4, batch <- v5, guids <- v6, faults <- v7, ops <- v8, listing <- v9, BS <- None,
    MaxLen <- None, RUN_BLOCKS <- None, MAX_CAPTURE_BLOCKS <- None, Readers <- None,
    MaxDirty <- None, FlushFails <- None, len <- None, committed_len <- None, valid_len <- None,
    dirty <- None, store <- None, ram <- None, locked <- None, reading <- None, ref <- None
\* Layers opened, imported, exported and deleted by two threads, with a crash.
Lay == INSTANCE LayerStore WITH Names <- {"n"}, Files <- {"f", "g"}, Threads <- {"t1", "t2"},
    Ops <- {"open", "import", "delete", "export"}, PointFails <- FALSE, MaxIds <- 2,
    MaxFaults <- 1, MaxCrashes <- 1, reg <- v1, cat <- v2, rows <- v3, durable <- v4,
    store <- v5, th <- v6, ids <- v7, faults <- v8, crashes <- v9, dirty <- v10, Blocks <- None,
    Size <- None, Budgets <- None, MIN_BLOCKS_PER_SHARD <- None, MAX_SHARDS <- None,
    MaxOps <- None, geo <- None, shards <- None, last <- None, ops <- None
\* The same where the durable point of a new layer may fail.
LayFail == INSTANCE LayerStore WITH Names <- {"n"}, Files <- {"f", "g"},
    Threads <- {"t1", "t2"}, Ops <- {"open", "import", "delete", "export"}, PointFails <- TRUE,
    MaxIds <- 2, MaxFaults <- 1, MaxCrashes <- 0, reg <- v1, cat <- v2, rows <- v3,
    durable <- v4, store <- v5, th <- v6, ids <- v7, faults <- v8, crashes <- v9, dirty <- v10,
    Blocks <- None, Size <- None, Budgets <- None, MIN_BLOCKS_PER_SHARD <- None,
    MAX_SHARDS <- None, MaxOps <- None, geo <- None, shards <- None, last <- None, ops <- None
\* The shards of the RAM tier.
Ram == INSTANCE LayerStore WITH Files <- {1, 2}, Blocks <- {1, 2, 3},
    Size <- [k \in {1, 2} \X (1..3) |-> IF k = <<2, 2>> THEN 2 ELSE IF k = <<2, 3>> THEN 4 ELSE 1],
    Budgets <- {<<3, 1>>, <<4, 1>>, <<9, 2>>, <<0, 1>>}, MIN_BLOCKS_PER_SHARD <- 2,
    MAX_SHARDS <- 4, MaxOps <- 6, geo <- v1, shards <- v2, last <- v3, ops <- v4, Names <- None,
    Threads <- None, Ops <- None, PointFails <- None, MaxIds <- None, MaxFaults <- None,
    MaxCrashes <- None, reg <- None, cat <- None, rows <- None, durable <- None, store <- None,
    th <- None, ids <- None, faults <- None, crashes <- None, dirty <- None

Init ==
    \/ which = "blocks" /\ Read!Init
    \/ which = "blockerr" /\ Fail!Init
    \/ which = "blockcrash" /\ Crash!Init
    \/ which = "blockboth" /\ FailCrash!Init
    \/ which = "damage" /\ Bad!Init
    \/ which = "badread" /\ BadRead!Init
    \/ which = "writers" /\ Two!Init
    \/ which = "layer" /\ Layer!FileInit /\ v10 = 0 /\ v11 = 0 /\ v12 = 0 /\ v13 = 0
    \/ which = "rows" /\ Rows!TreeInit /\ v10 = 0 /\ v11 = 0 /\ v12 = 0 /\ v13 = 0
    \/ which = "layers" /\ Lay!LayersInit /\ v11 = 0 /\ v12 = 0 /\ v13 = 0
    \/ which = "layerfail" /\ LayFail!LayersInit /\ v11 = 0 /\ v12 = 0 /\ v13 = 0
    \/ which = "ram" /\ Ram!RamInit /\ v5 = 0 /\ v6 = 0 /\ v7 = 0 /\ v8 = 0 /\ v9 = 0 /\
          v10 = 0 /\ v11 = 0 /\ v12 = 0 /\ v13 = 0

Next ==
    /\ UNCHANGED which
    /\ \/ which = "blocks" /\ Read!Next
       \/ which = "blockerr" /\ Fail!Next
       \/ which = "blockcrash" /\ Crash!Next
       \/ which = "blockboth" /\ FailCrash!Next
       \/ which = "damage" /\ Bad!Next
       \/ which = "badread" /\ BadRead!Next
       \/ which = "writers" /\ Two!Next
       \/ which = "layer" /\ Layer!FileNext /\ UNCHANGED <<v10, v11, v12, v13>>
       \/ which = "rows" /\ Rows!TreeNext /\ UNCHANGED <<v10, v11, v12, v13>>
       \/ which = "layers" /\ Lay!LayersNext /\ UNCHANGED <<v11, v12, v13>>
       \/ which = "layerfail" /\ LayFail!LayersNext /\ UNCHANGED <<v11, v12, v13>>
       \/ which = "ram" /\ Ram!RamNext /\ UNCHANGED <<v5, v6, v7, v8, v9, v10, v11, v12, v13>>

Spec == Init /\ [][Next]_vars

\* As in BlockStore: the index agrees with itself, a slot holds what was written to it, a crash
\* loses no block of a durable file, and a block stays readable while it is referenced.
BlocksKept ==
    /\ which = "blocks" => Read!TypeOK /\ Read!IndexConsistent /\
            Read!SlotsHoldWhatWasWritten /\ Read!CrashLosesNoBlock /\ Read!BlocksStayReadable
    /\ which = "blockerr" => Fail!TypeOK /\ Fail!IndexConsistent /\
            Fail!SlotsHoldWhatWasWritten /\ Fail!CrashLosesNoBlock /\ Fail!BlocksStayReadable
    /\ which = "blockcrash" => Crash!TypeOK /\ Crash!IndexConsistent /\
            Crash!SlotsHoldWhatWasWritten /\ Crash!CrashLosesNoBlock /\ Crash!BlocksStayReadable
    /\ which = "blockboth" => FailCrash!TypeOK /\ FailCrash!IndexConsistent /\
            FailCrash!SlotsHoldWhatWasWritten /\ FailCrash!CrashLosesNoBlock /\
            FailCrash!BlocksStayReadable
    /\ which = "damage" => Bad!TypeOK /\ Bad!IndexConsistent /\ Bad!SlotsHoldWhatWasWritten /\
            Bad!CrashLosesNoBlock /\ Bad!BlocksStayReadable
    /\ which = "badread" => BadRead!TypeOK /\ BadRead!IndexConsistent /\
            BadRead!SlotsHoldWhatWasWritten /\ BadRead!CrashLosesNoBlock /\
            BadRead!BlocksStayReadable
    /\ which = "writers" => Two!TypeOK /\ Two!IndexConsistent /\ Two!SlotsHoldWhatWasWritten /\
            Two!CrashLosesNoBlock /\ Two!BlocksStayReadable

\* As in LayerData and LayerStore: a read returns the file's bytes, the stored copy has no hole
\* and is the file once committed; every row hangs from the root and owns its data; one provider
\* serves a layer, data belongs to a layer, an import is whole; the blocks kept in memory are
\* those their ring lists, within the budget.
LayersSound ==
    /\ which = "ram" => Ram!RamTypeOK /\ Ram!RingIsMap /\ Ram!BudgetHolds /\ Ram!SecondChance
    /\ which = "layer" => Layer!FileTypeOK /\ Layer!ReadsAreFile /\ Layer!NoHoles /\
            Layer!RamIsStore /\ Layer!CommittedIsFile
    /\ which = "rows" => Rows!TreeTypeOK /\ Rows!TreeRooted /\ Rows!DataOwned /\
            Rows!ListedIsChildren
    /\ which = "layers" => Lay!LayersTypeOK /\ Lay!OneProvider /\ Lay!DataBelongs /\
            Lay!ImportWhole /\ Lay!LayerBeforeData
    /\ which = "layerfail" => LayFail!LayersTypeOK /\ LayFail!OneProvider /\
            LayFail!DataBelongs /\ LayFail!ImportWhole

\* As in BlockStore: a retired pack stays retired until its row is removed.
RetiredForGood ==
  [][
    /\ which = "blocks" => Read!RetiredForGoodStep
    /\ which = "blockerr" => Fail!RetiredForGoodStep
    /\ which = "blockcrash" => Crash!RetiredForGoodStep
    /\ which = "blockboth" => FailCrash!RetiredForGoodStep
    /\ which = "damage" => Bad!RetiredForGoodStep
    /\ which = "writers" => Two!RetiredForGoodStep
  ]_vars
==============================================================================
