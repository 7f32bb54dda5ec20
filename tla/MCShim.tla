------------------------------- MODULE MCShim --------------------------------
(***************************************************************************)
(* The shim, in the game's processes, in instances side by side: `which`   *)
(* picks one.                                                              *)
(***************************************************************************)
EXTENDS Integers, Sequences, FiniteSets, TLC

CONSTANTS None, Meta, t1, t2, s1, s2

VARIABLES which, v1, v2, v3, v4, v5, v6, v7, v8, v9, v10, v11, v12, v13, v14, v15, v16, v17, v18

vars == <<which, v1, v2, v3, v4, v5, v6, v7, v8, v9, v10, v11, v12, v13, v14, v15, v16, v17, v18>>

RootOfPath == [p \in {"a", "c", "o"} |-> CASE p = "a" -> "r0" [] p = "c" -> "r1" [] OTHER -> None]
NamesIn == {"gone", "keep", "wh_gone", "z"}

\* Spellings of paths: a component folds, trims and loses its stream suffix.
Token(f, t, b) == [fold |-> f, trim |-> t, base |-> b, short |-> FALSE, relative |-> FALSE]
Components == {"?", "??", "GLOBAL??", "Global", "GLOBALROOT", "Device", "Vol3", "Vol9", "Volume{g}",
    "UNC", "localhost", "C$", "C:", "Z:", "Z$", "cloud", "games", "sky", "saves", "data", "a",
    "link", "ext", "windows", ".", "..", "docs", "Games", "SKY", "sky.", "a:s", "GAMES~1", "C:games"}
Tokens == [x \in Components |->
    IF x = "Games" THEN Token("games", x, x) ELSE IF x = "SKY" THEN Token("sky", x, x)
    ELSE IF x = "sky." THEN Token(x, "sky", x) ELSE IF x = "a:s" THEN Token(x, x, "a")
    ELSE IF x = "GAMES~1" THEN [Token("games~1", x, x) EXCEPT !.short = TRUE]
    ELSE IF x = "C:games" THEN [Token(x, x, x) EXCEPT !.relative = TRUE] ELSE Token(x, x, x)]
Root(i, s) == [id |-> i, comps |-> s]
DeclaredRoots == << Root(0, <<"C:", "Games", "SKY">>), Root(1, <<"C:", "docs">>),
                    Root(2, <<"C:", "games", "sky", "saves">>) >>
DriveLetters ==
    {[drive |-> "C:", device |-> <<"Device", "Vol3">>, guid |-> "Volume{g}", share |-> "C$"],
     [drive |-> "Z:", device |-> <<"??", "C:", "games">>, guid |-> None, share |-> "Z$"]}
LinksOnDisk ==
    {[dir |-> <<"C:", "Games">>, name |-> "link", tag |-> "junction", to |-> <<"C:", "games", "sky", "data">>],
     [dir |-> <<"C:", "Games">>, name |-> "ext", tag |-> "symlink", to |-> <<"C:", "windows">>],
     [dir |-> <<"C:">>, name |-> "cloud", tag |-> "cloud", to |-> <<"C:", "games", "sky">>]}
Absolute(s) == [abs |-> TRUE, comps |-> s]
Win32(s) == [abs |-> FALSE, comps |-> s]
RawPaths ==
    {Absolute(x \o <<"C:", "..", "Games", "sky.", "a:s">>) :
        x \in {<<"??">>, <<"?">>, <<"GLOBAL??">>, <<"??", "Global">>, <<"??", "GLOBALROOT", "GLOBAL??">>,
               <<"??", "Global", "GLOBALROOT", "??">>}}
    \cup {Absolute(v \o <<"games", "sky", "saves", "a">>) :
        v \in {<<"??", "Volume{g}">>, <<"Device", "Vol3">>, <<"??", "GLOBALROOT", "Device", "Vol3">>,
               <<"GLOBAL??", "UNC", "localhost", "C$">>, <<"??", "UNC", "localhost", "C$">>,
               <<"Device", "Vol9">>, <<"GLOBAL??", "Volume{g}">>}}
    \cup {Absolute(v \o <<"windows", "a">>) : v \in {<<"??", "C:">>, <<"Device", "Vol3">>}}
    \cup {Absolute(v \o <<"GAMES~1", "sky", "a">>) : v \in {<<"??", "C:">>, <<"GLOBAL??", "Volume{g}">>}}
    \cup {Absolute(<<p, "C:", "games", "link", "a">>) : p \in {"??", "GLOBAL??"}}
    \cup {Absolute(<<"??", "C:">> \o s) :
        s \in {<<"games", "ext", "a">>, <<"cloud", "a">>, <<"games", "sky", "a">>}}
    \cup {Absolute(<<"??", "C:games", "sky">>), Win32(<<"C:", "docs", "..", "games", "a">>),
          Win32(<<"C:", "GAMES~1", "sky">>), Win32(<<"..", "a">>)}

\* Alike in every instance they appear in.
Symmetry ==
    UNION {Permutations(S) : S \in {{t1, t2}, {s1, s2}}}

\* One thread; failing lookups and a full table of paths.
Tables == INSTANCE ShimHandles WITH Threads <- {"t1"}, Paths <- {"a", "c", "o"},
    RootOf <- RootOfPath, RealHandles <- {101}, Inherited <- (101 :> "a"), HandlePathsMax <- 1,
    Writable <- {"r0", "r1"}, MaxSynth <- 1, MaxLost <- 1, OneUser <- TRUE, tree <- v1,
    fhs <- v2, lost <- v3, failed <- v4, synth <- v5, issued <- v6, os <- v7, real <- v8,
    table <- v9, call <- v10
\* Two threads.
TablesTwo == INSTANCE ShimHandles WITH Threads <- {t1, t2}, Paths <- {"a", "o"},
    RootOf <- RootOfPath, RealHandles <- {101}, Inherited <- (101 :> "a"), HandlePathsMax <- 4,
    Writable <- {"r0", "r1"}, MaxSynth <- 1, MaxLost <- 0, OneUser <- TRUE, tree <- v1,
    fhs <- v2, lost <- v3, failed <- v4, synth <- v5, issued <- v6, os <- v7, real <- v8,
    table <- v9, call <- v10
\* Two threads reading and writing one handle.
IO == INSTANCE ShimFiles WITH Threads <- {t1, t2}, Handles <- {"h"}, AppendOnly <- {},
    MaxLen <- 4, MaxWrites <- 2, OneUser <- FALSE, Seeks <- FALSE, Truncates <- FALSE,
    content <- v1, entry <- v2, writes <- v3, call <- v4, Order <- None, Hides <- None,
    RecordSize <- None, Align <- None, Caps <- None, Patterns <- None, MaxChanges <- None,
    dir <- None, state <- None, got <- None, last <- None, changes <- None
\* Truncation.
IOTrunc == INSTANCE ShimFiles WITH Threads <- {"t1"}, Handles <- {"h"}, AppendOnly <- {},
    MaxLen <- 4, MaxWrites <- 3, OneUser <- TRUE, Seeks <- FALSE, Truncates <- TRUE,
    content <- v1, entry <- v2, writes <- v3, call <- v4, Order <- None, Hides <- None,
    RecordSize <- None, Align <- None, Caps <- None, Patterns <- None, MaxChanges <- None,
    dir <- None, state <- None, got <- None, last <- None, changes <- None
\* An append-only handle.
IOAppend == INSTANCE ShimFiles WITH Threads <- {t1, t2}, Handles <- {"h"}, AppendOnly <- {"h"},
    MaxLen <- 4, MaxWrites <- 3, OneUser <- TRUE, Seeks <- FALSE, Truncates <- TRUE,
    content <- v1, entry <- v2, writes <- v3, call <- v4, Order <- None, Hides <- None,
    RecordSize <- None, Align <- None, Caps <- None, Patterns <- None, MaxChanges <- None,
    dir <- None, state <- None, got <- None, last <- None, changes <- None
\* Two threads listing one directory.
List == INSTANCE ShimFiles WITH Threads <- {t1, t2},
    Order <- <<"gone", "keep", "wh_gone", "z">>,
    Hides <- [n \in NamesIn |-> IF n = "wh_gone" THEN "gone" ELSE None],
    RecordSize <- [n \in NamesIn |-> IF n = "keep" THEN 11 ELSE 8], Align <- 8,
    Caps <- {7, 16, 27}, Patterns <- {NamesIn, {"gone", "keep"}}, MaxChanges <- 2,
    OneUser <- TRUE, dir <- v1, state <- v2, call <- v3, got <- v4, last <- v5, changes <- v6,
    Handles <- None, AppendOnly <- None, MaxLen <- None, MaxWrites <- None, Seeks <- None,
    Truncates <- None, content <- None, entry <- None, writes <- None
\* Two threads reading through the shim's read cache.
Cache == INSTANCE ReadCache WITH Threads <- {"t1", "t2"}, Killable <- {"t2"}, Names <- {"a"},
    Under <- ("a" :> {"a"}), UnitsPerFile <- 2, MaxUnits <- 2, BlocksPerFile <- 2, MaxRun <- 2,
    ColdReads <- 1, MaxGen <- 1, mountGen <- v1, mounted <- v2, file <- v3, used <- v4,
    changed <- v5, pc <- v6, hd <- v7, op <- v8
\* Two clients and two workers on the ring.
TwoWorkers == INSTANCE Ring WITH Clients <- {t1, t2}, Workers <- {"w1", "w2"},
    Slots <- {s1, s2}, NoSlot <- 0, Calls <- {<<"inline", 1>>, <<"bulk", 1>>, <<"bulk", 2>>},
    AckMod <- 2, MaxRequests <- 2, state <- v1, reqId <- v2, payload <- v3, ack <- v4,
    bank <- v5, reqSeq <- v6, asked <- v7, pc <- v8, kind <- v9, want <- v10, held <- v11,
    ids <- v12, got <- v13, pos <- v14, seen <- v15, wpc <- v16, wslot <- v17, wreq <- v18
\* The order in which two workers look at three slots.
Scan == INSTANCE RingScan WITH Workers <- {t1, t2}, NSlots <- 3, state <- v1, next <- v2,
    i <- v3, serving <- v4, passed <- v5
\* A gate with permits for a batch and a reserve.
Permits == INSTANCE DataGate WITH Threads <- {t1, t2}, Slots <- {s1, s2}, Limit <- 2,
    NWorkers <- 3, Slow <- {}, Mortal <- {}, Meta <- Meta, avail <- v1, queued <- v2,
    line <- v3, lock <- v4, retired <- v5, wstate <- v6, pc <- v7, ret <- v8, n <- v9,
    want <- v10, todo <- v11, freed <- v12, front <- v13, slot <- v14, ahead <- v15
\* Spellings of paths above, at, below and beside three roots.
Spelled == INSTANCE RootMap WITH Raws <- RawPaths, Tok <- Tokens, Declared <- DeclaredRoots,
    Drives <- DriveLetters, Links <- LinksOnDisk,
    Slots <- ([dir |-> <<"C:">>, name |-> "games~1"] :> {"Games", "windows"}),
    MAX_PREFIX_STEPS <- 16, MAX_ANCESTOR_LEVELS <- 2, capacity <- 1, roots <- v1, volumes <- v2,
    os <- v3, cache <- v4, last <- v5

Init ==
    \/ which = "handles" /\ Tables!Init /\ v11 = 0 /\ v12 = 0 /\ v13 = 0 /\ v14 = 0 /\
          v15 = 0 /\ v16 = 0 /\ v17 = 0 /\ v18 = 0
    \/ which = "threads" /\ TablesTwo!Init /\ v11 = 0 /\ v12 = 0 /\ v13 = 0 /\ v14 = 0 /\
          v15 = 0 /\ v16 = 0 /\ v17 = 0 /\ v18 = 0
    \/ which = "io" /\ IO!IOInit /\ v5 = 0 /\ v6 = 0 /\ v7 = 0 /\ v8 = 0 /\ v9 = 0 /\ v10 = 0 /\
          v11 = 0 /\ v12 = 0 /\ v13 = 0 /\ v14 = 0 /\ v15 = 0 /\ v16 = 0 /\ v17 = 0 /\ v18 = 0
    \/ which = "trunc" /\ IOTrunc!IOInit /\ v5 = 0 /\ v6 = 0 /\ v7 = 0 /\ v8 = 0 /\ v9 = 0 /\
          v10 = 0 /\ v11 = 0 /\ v12 = 0 /\ v13 = 0 /\ v14 = 0 /\ v15 = 0 /\ v16 = 0 /\
          v17 = 0 /\ v18 = 0
    \/ which = "append" /\ IOAppend!IOInit /\ v5 = 0 /\ v6 = 0 /\ v7 = 0 /\ v8 = 0 /\ v9 = 0 /\
          v10 = 0 /\ v11 = 0 /\ v12 = 0 /\ v13 = 0 /\ v14 = 0 /\ v15 = 0 /\ v16 = 0 /\
          v17 = 0 /\ v18 = 0
    \/ which = "list" /\ List!DirInit /\ v7 = 0 /\ v8 = 0 /\ v9 = 0 /\ v10 = 0 /\ v11 = 0 /\
          v12 = 0 /\ v13 = 0 /\ v14 = 0 /\ v15 = 0 /\ v16 = 0 /\ v17 = 0 /\ v18 = 0
    \/ which = "cache" /\ Cache!Init /\ v9 = 0 /\ v10 = 0 /\ v11 = 0 /\ v12 = 0 /\ v13 = 0 /\
          v14 = 0 /\ v15 = 0 /\ v16 = 0 /\ v17 = 0 /\ v18 = 0
    \/ which = "ring" /\ TwoWorkers!Init
    \/ which = "scan" /\ Scan!Init /\ v6 = 0 /\ v7 = 0 /\ v8 = 0 /\ v9 = 0 /\ v10 = 0 /\
          v11 = 0 /\ v12 = 0 /\ v13 = 0 /\ v14 = 0 /\ v15 = 0 /\ v16 = 0 /\ v17 = 0 /\ v18 = 0
    \/ which = "gate" /\ Permits!Init /\ v16 = 0 /\ v17 = 0 /\ v18 = 0
    \/ which = "paths" /\ Spelled!Init /\ v6 = 0 /\ v7 = 0 /\ v8 = 0 /\ v9 = 0 /\ v10 = 0 /\
          v11 = 0 /\ v12 = 0 /\ v13 = 0 /\ v14 = 0 /\ v15 = 0 /\ v16 = 0 /\ v17 = 0 /\ v18 = 0

Next ==
    /\ UNCHANGED which
    /\ \/ which = "handles" /\ Tables!Next /\ UNCHANGED <<v11, v12, v13, v14, v15, v16, v17, v18>>
       \/ which = "threads" /\ TablesTwo!Next /\ UNCHANGED <<v11, v12, v13, v14, v15, v16, v17,
               v18>>
       \/ which = "io" /\ IO!IONext /\ UNCHANGED <<v5, v6, v7, v8, v9, v10, v11, v12, v13, v14,
               v15, v16, v17, v18>>
       \/ which = "trunc" /\ IOTrunc!IONext /\ UNCHANGED <<v5, v6, v7, v8, v9, v10, v11, v12,
               v13, v14, v15, v16, v17, v18>>
       \/ which = "append" /\ IOAppend!IONext /\ UNCHANGED <<v5, v6, v7, v8, v9, v10, v11, v12,
               v13, v14, v15, v16, v17, v18>>
       \/ which = "list" /\ List!DirNext /\ UNCHANGED <<v7, v8, v9, v10, v11, v12, v13, v14,
               v15, v16, v17, v18>>
       \/ which = "cache" /\ Cache!Next /\ UNCHANGED <<v9, v10, v11, v12, v13, v14, v15, v16,
               v17, v18>>
       \/ which = "ring" /\ TwoWorkers!Next
       \/ which = "scan" /\ Scan!Next /\ UNCHANGED <<v6, v7, v8, v9, v10, v11, v12, v13, v14,
               v15, v16, v17, v18>>
       \/ which = "gate" /\ Permits!Next /\ UNCHANGED <<v16, v17, v18>>
       \/ which = "paths" /\ Spelled!Next /\ UNCHANGED <<v6, v7, v8, v9, v10, v11, v12, v13,
               v14, v15, v16, v17, v18>>

Spec == Init /\ [][Next]_vars

\* As in ShimHandles: every director handle has one owner and is released once, a delete-on-close
\* handle deletes once, the tables give a handle one name, a real handle is recorded under its
\* own, and the count of recorded names is exact.
HandleTables ==
    /\ which = "handles" => Tables!TypeOK /\ Tables!HandlesAccounted /\ Tables!NoSecondDelete /\
            Tables!NamesAgree /\ Tables!RecordsOwn /\ Tables!OpenedCountExact
    /\ which = "threads" => TablesTwo!TypeOK /\ TablesTwo!HandlesAccounted /\
            TablesTwo!NoSecondDelete /\ TablesTwo!NamesAgree /\ TablesTwo!RecordsOwn /\
            TablesTwo!OpenedCountExact

\* As in ShimFiles and RootMap: the cached size is the file's when no call runs; a scan returns
\* the listing once, in order, without markers or what they hide, in records that stay within the
\* caller's buffer; every spelling of a path is routed to the same root and the same path under
\* it, and what is cached of an answer is what would be computed now.
FilesServed ==
    /\ which = "paths" => Spelled!TypeOK /\ Spelled!SpellingsAgree /\ Spelled!AnswerCurrent
    /\ which = "io" => IO!IOTypeOK /\ IO!SizeCurrent
    /\ which = "trunc" => IOTrunc!IOTypeOK /\ IOTrunc!SizeCurrent
    /\ which = "append" => IOAppend!IOTypeOK /\ IOAppend!SizeCurrent
    /\ which = "list" => List!DirTypeOK /\ List!ScanIsListing /\ List!MarkersHidden /\
            List!PackedWithin

\* As in Ring, RingScan, DataGate and ReadCache: a slot has one owner and a call gets its own
\* replies, no request is passed over for ever, no permit is lost or made and nobody barges; the
\* units counted are the units cached, each can be found to be evicted, an answer is of the
\* content mounted when it was asked for, and every fetch under way has an owner.
CallsServed ==
    /\ which = "ring" => TwoWorkers!TypeOK /\ TwoWorkers!SlotOwnership /\
            TwoWorkers!OwnReplies /\ TwoWorkers!NeverStale
    /\ which = "scan" => Scan!TypeOK /\ Scan!BoundedOvertaking
    /\ which = "gate" => Permits!TypeOK /\ Permits!NoBarging /\ Permits!PermitsConserved /\
            Permits!PermitPerWorker
    /\ which = "cache" => Cache!TypeOK /\ Cache!BytesAccounted /\ Cache!UnitsEvictable /\
            Cache!AnswersAreCurrent /\ Cache!FlightsOwned

\* As in ShimHandles: real files under a managed root are not touched. As in ShimFiles: writes on
\* an append-only handle land at the end.
SealedRoots ==
  [][
    /\ which = "handles" => Tables!SealedRootsStep
    /\ which = "threads" => TablesTwo!SealedRootsStep
    /\ which = "io" => IO!AppendsLandAtEndStep
    /\ which = "trunc" => IOTrunc!AppendsLandAtEndStep
    /\ which = "append" => IOAppend!AppendsLandAtEndStep
  ]_vars
==============================================================================
