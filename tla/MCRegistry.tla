----------------------------- MODULE MCRegistry ------------------------------
(***************************************************************************)
(* The registry overlay and the shim's registry hooks, in instances side   *)
(* by side: `which` picks one.                                             *)
(***************************************************************************)
EXTENDS Integers, Sequences, FiniteSets, TLC

CONSTANTS None, NoVal, t1, t2, k1, k2

VARIABLES which, v1, v2, v3, v4, v5, v6, v7, v8, v9, v10, v11, v12, v13, v14, v15

vars == <<which, v1, v2, v3, v4, v5, v6, v7, v8, v9, v10, v11, v12, v13, v14, v15>>

ValueLists == UNION {[1..n -> {0, 3, NoVal}] : n \in 0..3}
BufferSizes == {0, 3, 8, 12, 13, 18, 22, 24, 26, 30, 44, 46, 60}
KeyPaths == {<<>>, <<"a">>, <<"b">>, <<"a", "b">>, <<"b", "b">>}
RealKeys == {<<>>, <<"a">>, <<"a", "b">>}
RealVals == [p \in RealKeys |-> IF p = <<"a", "b">> THEN 1 ELSE NoVal]

\* Alike in every instance they appear in.
Symmetry ==
    UNION {Permutations(S) : S \in {{t1, t2}, {k1, k2}}}

\* Every operation, failing saves and a reload.
Over == INSTANCE RegOverlay WITH Threads <- {"t1"}, Names <- {"a", "b"}, Paths <- KeyPaths,
    RealKeys <- RealKeys, RealVal <- RealVals, Data <- {2}, MaxVersion <- 3, MaxDeletedAt <- 1,
    MaxFaults <- 1, MaxReloads <- 1, Volatile <- KeyPaths \ RealKeys,
    Ops <- {"create", "set", "unset", "delete", "rename", "copy"}, o <- v1, job <- v2,
    faults <- v3, reloads <- v4, tree <- v5, transient <- v6, own <- v7, deep <- v8
\* Longer runs of the operations on whole keys.
Moves == INSTANCE RegOverlay WITH Threads <- {"t1"}, Names <- {"a", "b"}, Paths <- KeyPaths,
    RealKeys <- RealKeys, RealVal <- RealVals, Data <- {2}, MaxVersion <- 5, MaxDeletedAt <- 1,
    MaxFaults <- 1, MaxReloads <- 0, Volatile <- {},
    Ops <- {"create", "delete", "rename", "copy"}, o <- v1, job <- v2, faults <- v3,
    reloads <- v4, tree <- v5, transient <- v6, own <- v7, deep <- v8
\* Two threads, each holding what it looked up before.
Races == INSTANCE RegOverlay WITH Threads <- {t1, t2}, Names <- {"a", "b"}, Paths <- KeyPaths,
    RealKeys <- RealKeys, RealVal <- RealVals, Data <- {2}, MaxVersion <- 3, MaxDeletedAt <- 1,
    MaxFaults <- 0, MaxReloads <- 0, Volatile <- {},
    Ops <- {"create", "set", "delete", "rename", "copy"}, o <- v1, job <- v2, faults <- v3,
    reloads <- v4, tree <- v5, transient <- v6, own <- v7, deep <- v8
\* Key handles in two threads.
KeyTable == INSTANCE RegKeys WITH Threads <- {t1, t2}, Keys <- {"k"}, Elsewhere <- {"f"},
    NewName <- "n", Values <- {k1, k2}, Slots <- {11}, MaxNotOurs <- 1, MaxEnums <- 1,
    kern <- v1, synth <- v2, pass <- v3, not_ours <- v4, enums <- v5, job <- v6, user <- v7,
    MAX_WAITERS <- None, MaxWrites <- None, MaxCalls <- None, MaxOpens <- None,
    MaxFaults <- None, AskFails <- None, Reuse <- None, version <- None, changed <- None,
    published <- None, opened <- None, open <- None, pc <- None, call <- None, waiters <- None,
    running <- None, notifier <- None, ended <- None, began <- None, calls <- None,
    faults <- None
\* Reads of a key, whole enumerations among them, while the director goes away and comes back.
Reads == INSTANCE RegReads WITH Names <- {1, 2},
    RealKeys <- {[subs |-> <<1>>, vals |-> <<2, 1>>]}, Refuses <- FALSE, MaxGen <- 1,
    MaxFaults <- 1, MaxChanges <- 0, MaxCalls <- 3, real <- v1, state <- v2, below <- v3,
    node <- v4, gen <- v5, up <- v6, h <- v7, kept <- v8, call <- v9, scan <- v10, last <- v11,
    calls <- v12, faults <- v13, changes <- v14, touched <- v15, Classes <- None, Datas <- None,
    Lists <- None, Buffers <- None, Cap0 <- None, ask <- None, buf <- None, ans <- None,
    tries <- None
\* Reads of a key that is written to.
ReadsWrites == INSTANCE RegReads WITH Names <- {1, 2},
    RealKeys <- {[subs |-> <<2, 1>>, vals |-> <<1>>]}, Refuses <- FALSE, MaxGen <- 2,
    MaxFaults <- 0, MaxChanges <- 0, MaxCalls <- 2, real <- v1, state <- v2, below <- v3,
    node <- v4, gen <- v5, up <- v6, h <- v7, kept <- v8, call <- v9, scan <- v10, last <- v11,
    calls <- v12, faults <- v13, changes <- v14, touched <- v15, Classes <- None, Datas <- None,
    Lists <- None, Buffers <- None, Cap0 <- None, ask <- None, buf <- None, ans <- None,
    tries <- None
\* Reads of a key that refuses KEY_READ and that changes.
ReadsRefused == INSTANCE RegReads WITH Names <- {1, 2},
    RealKeys <- {[subs |-> <<2, 1>>, vals |-> <<1>>], [subs |-> <<1>>, vals |-> <<2, 1>>]},
    Refuses <- TRUE, MaxGen <- 1, MaxFaults <- 0, MaxChanges <- 1, MaxCalls <- 2, real <- v1,
    state <- v2, below <- v3, node <- v4, gen <- v5, up <- v6, h <- v7, kept <- v8, call <- v9,
    scan <- v10, last <- v11, calls <- v12, faults <- v13, changes <- v14, touched <- v15,
    Classes <- None, Datas <- None, Lists <- None, Buffers <- None, Cap0 <- None, ask <- None,
    buf <- None, ans <- None, tries <- None
\* Notifications, and a handle closed while one waits on it.
Notify == INSTANCE RegKeys WITH Threads <- {"t1", "t2"}, MAX_WAITERS <- 1, MaxWrites <- 1,
    MaxCalls <- 2, MaxOpens <- 2, MaxFaults <- 1, AskFails <- FALSE, Reuse <- FALSE,
    version <- v1, changed <- v2, published <- v3, opened <- v4, open <- v5, pc <- v6,
    call <- v7, waiters <- v8, running <- v9, notifier <- v10, ended <- v11, began <- v12,
    calls <- v13, faults <- v14, Keys <- None, Elsewhere <- None, NewName <- None,
    Values <- None, Slots <- None, MaxNotOurs <- None, MaxEnums <- None, kern <- None,
    synth <- None, pass <- None, not_ours <- None, enums <- None, job <- None, user <- None
\* Answers in buffers of every size that matters.
Buffers == INSTANCE RegReads WITH Names <- {0, 2, 4}, Classes <- {0, 6}, Datas <- {0, 1, 9},
    Lists <- ValueLists, Buffers <- BufferSizes, Cap0 <- 8, ask <- v1, buf <- v2, ans <- v3,
    tries <- v4, RealKeys <- None, Refuses <- None, MaxGen <- None, MaxFaults <- None,
    MaxChanges <- None, MaxCalls <- None, real <- None, state <- None, below <- None,
    node <- None, gen <- None, up <- None, h <- None, kept <- None, call <- None, scan <- None,
    last <- None, calls <- None, faults <- None, changes <- None, touched <- None

Init ==
    \/ which = "overlay" /\ Over!Init /\ v9 = 0 /\ v10 = 0 /\ v11 = 0 /\ v12 = 0 /\ v13 = 0 /\
          v14 = 0 /\ v15 = 0
    \/ which = "moves" /\ Moves!Init /\ v9 = 0 /\ v10 = 0 /\ v11 = 0 /\ v12 = 0 /\ v13 = 0 /\
          v14 = 0 /\ v15 = 0
    \/ which = "threads" /\ Races!Init /\ v9 = 0 /\ v10 = 0 /\ v11 = 0 /\ v12 = 0 /\ v13 = 0 /\
          v14 = 0 /\ v15 = 0
    \/ which = "handles" /\ KeyTable!KeysInit /\ v8 = 0 /\ v9 = 0 /\ v10 = 0 /\ v11 = 0 /\
          v12 = 0 /\ v13 = 0 /\ v14 = 0 /\ v15 = 0
    \/ which = "reads" /\ Reads!ViewInit
    \/ which = "writes" /\ ReadsWrites!ViewInit
    \/ which = "refused" /\ ReadsRefused!ViewInit
    \/ which = "notify" /\ Notify!NotifyInit /\ v15 = 0
    \/ which = "layout" /\ Buffers!LayoutInit /\ v5 = 0 /\ v6 = 0 /\ v7 = 0 /\ v8 = 0 /\
          v9 = 0 /\ v10 = 0 /\ v11 = 0 /\ v12 = 0 /\ v13 = 0 /\ v14 = 0 /\ v15 = 0

Next ==
    /\ UNCHANGED which
    /\ \/ which = "overlay" /\ Over!Next /\ UNCHANGED <<v9, v10, v11, v12, v13, v14, v15>>
       \/ which = "moves" /\ Moves!Next /\ UNCHANGED <<v9, v10, v11, v12, v13, v14, v15>>
       \/ which = "threads" /\ Races!Next /\ UNCHANGED <<v9, v10, v11, v12, v13, v14, v15>>
       \/ which = "handles" /\ KeyTable!KeysNext /\ UNCHANGED <<v8, v9, v10, v11, v12, v13, v14,
               v15>>
       \/ which = "reads" /\ Reads!ViewNext
       \/ which = "writes" /\ ReadsWrites!ViewNext
       \/ which = "refused" /\ ReadsRefused!ViewNext
       \/ which = "notify" /\ Notify!NotifyNext /\ UNCHANGED <<v15>>
       \/ which = "layout" /\ Buffers!LayoutNext /\ UNCHANGED <<v5, v6, v7, v8, v9, v10, v11,
               v12, v13, v14, v15>>

Spec == Init /\ [][Next]_vars

\* As in RegOverlay: what is seen is the tree the operations made, the lists it is kept in agree,
\* and no change is missed by a watcher.
ViewIsTree ==
    /\ which = "overlay" => Over!TypeOK /\ Over!ListsAgree /\ Over!ViewIsTree /\
            Over!ChangesNoticed
    /\ which = "moves" => Moves!TypeOK /\ Moves!ListsAgree /\ Moves!ViewIsTree /\
            Moves!ChangesNoticed
    /\ which = "threads" => Races!TypeOK /\ Races!ListsAgree /\ Races!ChangesNoticed

\* As in RegKeys and RegReads: a handle is recorded as the key it is, private handles have one
\* owner, and an enumeration is of the handle's own key; a list kept for a handle is current, an
\* enumeration names each entry of the merged key once, the values answered together were there
\* together, nobody is told what their handle may not ask, the real registry is not changed; and
\* an answer stays within the caller's buffer, can be read back from it, and asking again with the
\* size named ends.
HooksTrue ==
    /\ which = "handles" => KeyTable!KeysTypeOK /\ KeyTable!PrivateOwned /\
            KeyTable!RecordsTrue /\ KeyTable!EnumsTrue
    /\ which = "notify" => Notify!NotifyTypeOK /\ Notify!WaitersServed
    /\ which = "reads" => Reads!ViewTypeOK /\ Reads!KeptIsCurrent /\ Reads!ScanIsView /\
            Reads!AnswersAreView /\ Reads!RightsKept /\ Reads!RealUntouched
    /\ which = "writes" => ReadsWrites!ViewTypeOK /\ ReadsWrites!KeptIsCurrent /\
            ReadsWrites!ScanIsView /\ ReadsWrites!AnswersAreView /\ ReadsWrites!RightsKept /\
            ReadsWrites!RealUntouched
    /\ which = "refused" => ReadsRefused!ViewTypeOK /\ ReadsRefused!KeptIsCurrent /\
            ReadsRefused!ScanIsView /\ ReadsRefused!AnswersAreView /\ ReadsRefused!RightsKept /\
            ReadsRefused!RealUntouched
    /\ which = "layout" => Buffers!LayoutTypeOK /\ Buffers!WrittenInside /\
            Buffers!RetriesEnd /\ Buffers!ReadBack

\* As in RegKeys: a notification is completed once, and for a cause.
CompletedOnce ==
  [][
    /\ which = "notify" => Notify!CompletedOnceStep /\ Notify!NeverSpuriousStep
  ]_vars
==============================================================================
