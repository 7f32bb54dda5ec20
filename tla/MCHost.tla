------------------------------- MODULE MCHost --------------------------------
(***************************************************************************)
(* The host's process: providers, trees, overlays and layers, the session, *)
(* the director, launches and the Proton runtime, in instances side by     *)
(* side: `which` picks one.                                                *)
(***************************************************************************)
EXTENDS Integers, Sequences, FiniteSets, TLC

CONSTANTS None, t1, t2, p1, g1, g2, k1

VARIABLES which, v1, v2, v3, v4, v5, v6, v7, v8, v9, v10, v11, v12, v13, v14, v15, v16, v17,
    v18, v19, v20, v21

vars == <<which, v1, v2, v3, v4, v5, v6, v7, v8, v9, v10, v11, v12, v13, v14, v15, v16, v17,
    v18, v19, v20, v21>>

Spellings == {"D", "d", "x", "y"}
MemPaths == {<<"D">>, <<"d">>, <<"x">>, <<"D", "x">>, <<"d", "x">>, <<"D", "y">>, <<"d", "y">>}
DiskPaths == {<<"D">>, <<"d">>, <<"x">>} \cup ({"D", "d"} \X {"D", "d"}) \cup {<<"D", "x">>, <<"d", "x">>}

StackPaths == {<<"d">>, <<"x">>, <<"d", "x">>, <<"d", "d">>}
LeafContent == [b \in {"a", "b", "c"} |-> [p \in StackPaths |->
    IF b = "a" /\ p = <<"d">> THEN "dir"
    ELSE IF <<b, p>> \in {<<"a", <<"d", "x">> >>, <<"b", <<"x">> >>} THEN "file" ELSE None]]
Leaf(b) == [k |-> "leaf", b |-> b]
At(prefix, t) == [at |-> prefix, t |-> t]
Graph(ms) == [k |-> "graph", ms |-> ms]
ProviderStacks ==
    {Graph(<<At(<<>>, Leaf("a")), At(<<>>, Leaf("b"))>>),
     [k |-> "layered", top |-> Leaf("b"), bottom |-> Leaf("a")],
     [k |-> "guarded", dirs |-> {<<"d", "d">>},
      t |-> Graph(<<At(<<>>, [k |-> "stub", dirs |-> {<<"d", "d">>}]), At(<<>>, Leaf("b"))>>)],
     Graph(<<At(<<"d">>, [k |-> "subdir", t |-> Leaf("a"), at |-> <<"d">>]),
             At(<<>>, [k |-> "readonly", t |-> Leaf("b")])>>)}

RootLocations ==
    {(0 :> <<"C", "H", "g">>) @@ (1 :> <<"C", "H", "g", "d", "e">>),
     (0 :> <<"C", "H", "g">>) @@ (1 :> <<"C", "H", "p">>)}

StagedNames == {"exe", "game", "lib", "dep", "dxgi", "shim", "sys", "redist", "readme"}
ImportsOf == [n \in StagedNames |->
    CASE n = "exe" -> {"lib", "sys", "redist"} [] n = "lib" -> {"dep"} [] n = "game" -> {"lib"}
      [] OTHER -> {}]

AccessOf == [p \in {"p1", "p2", "p3"} |-> IF p = "p3" THEN "ReadOnly" ELSE "ReadWrite"]

\* Alike in every instance they appear in.
Symmetry ==
    UNION {Permutations(S) : S \in {{t1, t2}, {g1, g2}}}

\* Stacks of providers.
Stack == INSTANCE Providers WITH Stacks <- ProviderStacks, Leaves <- {"a", "b", "c"},
    Writable <- {"b", "c"}, Paths <- StackPaths, Content <- LeafContent, stack <- v1, has <- v2,
    last <- v3, Files <- None, SizeOf <- None, Handles <- None, Inner <- None, Fresh <- None,
    Chunk <- None, MaxFaults <- None, rec <- None, streams <- None, used <- None,
    faults <- None, got <- None
\* Reads at offsets over a provider that only reads on.
Seek == INSTANCE Providers WITH Files <- {"f", "g"},
    SizeOf <- [f \in {"f", "g"} |-> IF f = "f" THEN 3 ELSE 2], Handles <- {"h1", "h2"},
    Inner <- {1, 2, 3, 4}, Fresh <- TRUE, Chunk <- 2, MaxFaults <- 1, rec <- v1, streams <- v2,
    used <- v3, faults <- v4, got <- v5, Stacks <- None, Leaves <- None, Writable <- None,
    Paths <- None, Content <- None, stack <- None, has <- None, last <- None
\* The in-memory provider.
Mem == INSTANCE Trees WITH Names <- Spellings,
    FoldName <- [n \in Spellings |-> IF n = "D" THEN "d" ELSE n],
    Rank <- [n \in Spellings |-> CASE n = "D" -> 1 [] n = "d" -> 2 [] n = "x" -> 3 [] OTHER -> 4],
    Paths <- MemPaths, Start <- {<<"D", "x">>}, Handles <- {"h"}, MaxBody <- 2, Odd <- {},
    files <- v1, dirs <- v2, by_fold <- v3, opens <- v4, body <- v5, Threads <- None,
    MaxOps <- None, disk <- None, call <- None, ops <- None
\* The provider over a case-sensitive directory.
Disk == INSTANCE Trees WITH Names <- Spellings,
    FoldName <- [n \in Spellings |-> IF n = "D" THEN "d" ELSE n],
    Rank <- [n \in Spellings |-> CASE n = "D" -> 1 [] n = "d" -> 2 [] n = "x" -> 3 [] OTHER -> 4],
    Paths <- DiskPaths, Start <- {<<"D">>}, Threads <- {"t"}, MaxOps <- 4, disk <- v1,
    call <- v2, ops <- v3, Handles <- None, MaxBody <- None, Odd <- None, files <- None,
    dirs <- None, by_fold <- None, opens <- None, body <- None
\* Two threads on an overlay.
Over == INSTANCE Overlay WITH Threads <- {t1, t2}, Paths <- {"d", "a", "b"},
    Parent <- ("d" :> "/") @@ ("a" :> "d") @@ ("b" :> "/"), Root <- "/",
    Base <- ("d" :> "dir") @@ ("a" :> "file") @@ ("b" :> None), Exclusive <- TRUE,
    RenameDirs <- FALSE, Faults <- FALSE, MaxMarks <- 1, upper <- v1, markers <- v2,
    temps <- v3, scanned <- v4, hidden <- v5, generation <- v6, copying <- v7, call <- v8,
    replaced <- v9, gone <- v10
\* An overlay whose upper fails.
OverFail == INSTANCE Overlay WITH Threads <- {"t1"}, Paths <- {"d", "a", "b"},
    Parent <- ("d" :> "/") @@ ("a" :> "d") @@ ("b" :> "/"), Root <- "/",
    Base <- ("d" :> "dir") @@ ("a" :> "file") @@ ("b" :> None), Exclusive <- TRUE,
    RenameDirs <- FALSE, Faults <- TRUE, MaxMarks <- 2, upper <- v1, markers <- v2, temps <- v3,
    scanned <- v4, hidden <- v5, generation <- v6, copying <- v7, call <- v8, replaced <- v9,
    gone <- v10
\* Two threads on a provider over the block store and the catalog, and files that replace each other, durable at every close.
Closes == INSTANCE Durability WITH Threads <- {t1, t2}, Paths <- {p1}, Scratch <- {},
    Guids <- {g1, g2}, Tokens <- {k1}, MaxVer <- 1, Policies <- {"OnEveryClose"},
    LeavesHandles <- FALSE, OrphanDeleteFails <- FALSE, IOErrors <- FALSE, phase <- v1,
    rows <- v2, drows <- v3, store <- v4, dstore <- v5, doomed <- v6, fresh <- v7, dirty <- v8,
    mark <- v9, token <- v10, policy <- v11, held <- v12, pc <- v13, hg <- v14, wrote <- v15,
    file <- v16, path <- v17, taken <- v18, closer <- v19, failed <- v20, owed <- v21
\* Mounts of a session over two roots, one inside the other.
Sess == INSTANCE Session WITH Threads <- {"t"}, Roots <- {0, 1}, Mounts <- {"m", "s"},
    Sequential <- {"s"}, BadPrefix <- {}, MaxMounts <- 2, MaxCalls <- 4,
    Locations <- RootLocations, OnDisk <- {<<"C">>}, roots <- v1, kernel <- v2, call <- v3,
    location <- v4, hidden <- v5, calls <- v6, Dirs <- None, Names <- None, Top <- None,
    Shim <- None, Served <- None, NotPE <- None, Unpatchable <- None, Imports <- None,
    System <- None, Proxies <- None, Fallback <- None, MAX_STAGED_FILES <- None, Theirs <- None,
    Launches <- None, Programs <- None, Workers <- None, MaxLaunches <- None, MaxFaults <- None,
    disk <- None, dirs <- None, job <- None, staged <- None, held <- None, phase <- None,
    started <- None, launches <- None, faults <- None
\* Mounts that are rejected.
SessBad == INSTANCE Session WITH Threads <- {"t"}, Roots <- {0, 1}, Mounts <- {"m", "s"},
    Sequential <- {"s"}, BadPrefix <- {"m"}, MaxMounts <- 2, MaxCalls <- 3,
    Locations <- RootLocations, OnDisk <- {<<"C">>}, roots <- v1, kernel <- v2, call <- v3,
    location <- v4, hidden <- v5, calls <- v6, Dirs <- None, Names <- None, Top <- None,
    Shim <- None, Served <- None, NotPE <- None, Unpatchable <- None, Imports <- None,
    System <- None, Proxies <- None, Fallback <- None, MAX_STAGED_FILES <- None, Theirs <- None,
    Launches <- None, Programs <- None, Workers <- None, MaxLaunches <- None, MaxFaults <- None,
    disk <- None, dirs <- None, job <- None, staged <- None, held <- None, phase <- None,
    started <- None, launches <- None, faults <- None
\* Staging of an executable and what it imports.
Stage == INSTANCE Session WITH Dirs <- {"top", "bin"}, Names <- StagedNames, Top <- "top",
    Shim <- "shim",
    Served <- {<<"bin", "exe">>, <<"bin", "game">>, <<"bin", "lib">>, <<"top", "dep">>, <<"bin", "dxgi">>, <<"bin", "readme">>},
    NotPE <- {"readme"}, Unpatchable <- {"game"}, Imports <- ImportsOf, System <- {"sys"},
    Proxies <- {"dxgi"}, Fallback <- {"redist"}, MAX_STAGED_FILES <- 6,
    Theirs <- {<<"bin", "redist">>},
    Launches <- {<< <<"bin", "exe">>, << <<"bin", "game">> >> >>, << <<"bin", "exe">>, <<>> >>},
    Programs <- {<<"bin", "game">>, <<"bin", "readme">>, <<"bin", "exe">>}, Workers <- {"w1"},
    MaxLaunches <- 1, MaxFaults <- 1, disk <- v1, dirs <- v2, job <- v3, staged <- v4,
    held <- v5, phase <- v6, started <- v7, launches <- v8, faults <- v9, Threads <- None,
    Roots <- None, Mounts <- None, Sequential <- None, BadPrefix <- None, MaxMounts <- None,
    MaxCalls <- None, Locations <- None, OnDisk <- None, roots <- None, kernel <- None,
    call <- None, location <- None, hidden <- None, calls <- None
\* Two clients of the director.
Dir == INSTANCE Director WITH Clients <- {"c1", "c2"}, Roots <- {1}, Providers <- {"p1", "p3"},
    Paths <- {"x"}, Access <- AccessOf, Home <- (1 :> "p1"), Full <- {"p1", "p3"}, Chunk <- 1,
    BufCells <- 1, MaxLen <- 4, MaxFh <- 2, MaxMounts <- 2, MaxFaults <- 1, MaxCalls <- 3,
    Ops <- {"open", "write", "set_len", "close", "remove"}, OneUser <- TRUE, roots <- v1,
    mount_gen <- v2, history <- v3, disk <- v4, handles <- v5, opens <- v6, next_fh <- v7,
    call <- v8, last <- v9, calls <- v10, faults <- v11
\* Moves between providers.
DirApart == INSTANCE Director WITH Clients <- {"c1", "c2"}, Roots <- {1, 2},
    Providers <- {"p1", "p2"}, Paths <- {"x", "y"}, Access <- AccessOf,
    Home <- (1 :> "p1") @@ (2 :> "p2"), Full <- {"p1", "p3"}, Chunk <- 1, BufCells <- 1,
    MaxLen <- 4, MaxFh <- 2, MaxMounts <- 1, MaxFaults <- 1, MaxCalls <- 2,
    Ops <- {"move", "remove", "rename"}, OneUser <- TRUE, roots <- v1, mount_gen <- v2,
    history <- v3, disk <- v4, handles <- v5, opens <- v6, next_fh <- v7, call <- v8,
    last <- v9, calls <- v10, faults <- v11
\* Two clients on the same handles.
DirShared == INSTANCE Director WITH Clients <- {"c1", "c2"}, Roots <- {1},
    Providers <- {"p1", "p3"}, Paths <- {"x"}, Access <- AccessOf, Home <- (1 :> "p1"),
    Full <- {"p1", "p3"}, Chunk <- 1, BufCells <- 1, MaxLen <- 4, MaxFh <- 2, MaxMounts <- 2,
    MaxFaults <- 1, MaxCalls <- 2, Ops <- {"open", "write", "set_len", "close", "remove"},
    OneUser <- FALSE, roots <- v1, mount_gen <- v2, history <- v3, disk <- v4, handles <- v5,
    opens <- v6, next_fh <- v7, call <- v8, last <- v9, calls <- v10, faults <- v11
\* Launches on Windows.
Windows == INSTANCE Launch WITH Threads <- {"t1"}, Stoppers <- {"s1"}, Proton <- FALSE,
    MaxLaunches <- 2, starting <- v1, stop_pending <- v2, detached <- v3, waiting <- v4,
    latest <- v5, staged <- v6, lock <- v7, ring <- v8, launches <- v9, pc <- v10,
    Procs <- None, First <- None, st <- None, shim <- None, job <- None, parent <- None,
    want <- None, said <- None, turned <- None, tree <- None
\* Launches under Proton.
OnProton == INSTANCE Launch WITH Threads <- {"t1"}, Stoppers <- {"s1"}, Proton <- TRUE,
    MaxLaunches <- 2, starting <- v1, stop_pending <- v2, detached <- v3, waiting <- v4,
    latest <- v5, staged <- v6, lock <- v7, ring <- v8, launches <- v9, pc <- v10,
    Procs <- None, First <- None, st <- None, shim <- None, job <- None, parent <- None,
    want <- None, said <- None, turned <- None, tree <- None
\* Installing a runtime.
Install == INSTANCE Proton WITH Installers <- {"p1"}, MaxFaults <- 2, published <- v1,
    partial <- v2, final <- v3, tmp <- v4, old <- v5, left <- v6, proc <- v7, faults <- v8,
    Sessions <- None, Roots <- None, Named <- None, Theirs <- None, Runtimes <- None,
    prefix <- None, server <- None, lock <- None, fs <- None, manifest <- None, newest <- None,
    sess <- None, ring <- None
\* A prefix in which the user has files at every place.
Prefix == INSTANCE Proton WITH Sessions <- {"s1"}, Roots <- <<"outer", "inner">>,
    Named <- FALSE, Theirs <- {<<"c", "outer">>, <<"c", "inner">>, <<"s1", "inner">>},
    Runtimes <- {"v1", "v2"}, MaxFaults <- 0, prefix <- v1, server <- v2, lock <- v3, fs <- v4,
    manifest <- v5, newest <- v6, sess <- v7, ring <- v8, faults <- v9, Installers <- None,
    published <- None, partial <- None, final <- None, tmp <- None, old <- None, left <- None,
    proc <- None
\* A named prefix and two sessions.
PrefixTwo == INSTANCE Proton WITH Sessions <- {"s1", "s2"}, Roots <- <<"outer">>, Named <- TRUE,
    Theirs <- {}, Runtimes <- {"v1", "v2"}, MaxFaults <- 1, prefix <- v1, server <- v2,
    lock <- v3, fs <- v4, manifest <- v5, newest <- v6, sess <- v7, ring <- v8, faults <- v9,
    Installers <- None, published <- None, partial <- None, final <- None, tmp <- None,
    old <- None, left <- None, proc <- None
\* A target and two more processes.
Tree == INSTANCE Launch WITH Procs <- {"p1", "p2", "p3"}, First <- "p1", st <- v1, shim <- v2,
    job <- v3, parent <- v4, pc <- v5, want <- v6, said <- v7, turned <- v8, tree <- v9,
    Threads <- None, Stoppers <- None, Proton <- None, MaxLaunches <- None, starting <- None,
    stop_pending <- None, detached <- None, waiting <- None, latest <- None, staged <- None,
    lock <- None, ring <- None, launches <- None

Init ==
    \/ which = "stacks" /\ Stack!StackInit /\ v4 = 0 /\ v5 = 0 /\ v6 = 0 /\ v7 = 0 /\ v8 = 0 /\
          v9 = 0 /\ v10 = 0 /\ v11 = 0 /\ v12 = 0 /\ v13 = 0 /\ v14 = 0 /\ v15 = 0 /\ v16 = 0 /\
          v17 = 0 /\ v18 = 0 /\ v19 = 0 /\ v20 = 0 /\ v21 = 0
    \/ which = "seek" /\ Seek!SeekInit /\ v6 = 0 /\ v7 = 0 /\ v8 = 0 /\ v9 = 0 /\ v10 = 0 /\
          v11 = 0 /\ v12 = 0 /\ v13 = 0 /\ v14 = 0 /\ v15 = 0 /\ v16 = 0 /\ v17 = 0 /\
          v18 = 0 /\ v19 = 0 /\ v20 = 0 /\ v21 = 0
    \/ which = "mem" /\ Mem!MemInit /\ v6 = 0 /\ v7 = 0 /\ v8 = 0 /\ v9 = 0 /\ v10 = 0 /\
          v11 = 0 /\ v12 = 0 /\ v13 = 0 /\ v14 = 0 /\ v15 = 0 /\ v16 = 0 /\ v17 = 0 /\
          v18 = 0 /\ v19 = 0 /\ v20 = 0 /\ v21 = 0
    \/ which = "disk" /\ Disk!DiskInit /\ v4 = 0 /\ v5 = 0 /\ v6 = 0 /\ v7 = 0 /\ v8 = 0 /\
          v9 = 0 /\ v10 = 0 /\ v11 = 0 /\ v12 = 0 /\ v13 = 0 /\ v14 = 0 /\ v15 = 0 /\ v16 = 0 /\
          v17 = 0 /\ v18 = 0 /\ v19 = 0 /\ v20 = 0 /\ v21 = 0
    \/ which = "over" /\ Over!Init /\ v11 = 0 /\ v12 = 0 /\ v13 = 0 /\ v14 = 0 /\ v15 = 0 /\
          v16 = 0 /\ v17 = 0 /\ v18 = 0 /\ v19 = 0 /\ v20 = 0 /\ v21 = 0
    \/ which = "overfail" /\ OverFail!Init /\ v11 = 0 /\ v12 = 0 /\ v13 = 0 /\ v14 = 0 /\
          v15 = 0 /\ v16 = 0 /\ v17 = 0 /\ v18 = 0 /\ v19 = 0 /\ v20 = 0 /\ v21 = 0
    \/ which = "closes" /\ Closes!Init
    \/ which = "session" /\ Sess!ComposeInit /\ v7 = 0 /\ v8 = 0 /\ v9 = 0 /\ v10 = 0 /\
          v11 = 0 /\ v12 = 0 /\ v13 = 0 /\ v14 = 0 /\ v15 = 0 /\ v16 = 0 /\ v17 = 0 /\
          v18 = 0 /\ v19 = 0 /\ v20 = 0 /\ v21 = 0
    \/ which = "badmount" /\ SessBad!ComposeInit /\ v7 = 0 /\ v8 = 0 /\ v9 = 0 /\ v10 = 0 /\
          v11 = 0 /\ v12 = 0 /\ v13 = 0 /\ v14 = 0 /\ v15 = 0 /\ v16 = 0 /\ v17 = 0 /\
          v18 = 0 /\ v19 = 0 /\ v20 = 0 /\ v21 = 0
    \/ which = "staging" /\ Stage!StagingInit /\ v10 = 0 /\ v11 = 0 /\ v12 = 0 /\ v13 = 0 /\
          v14 = 0 /\ v15 = 0 /\ v16 = 0 /\ v17 = 0 /\ v18 = 0 /\ v19 = 0 /\ v20 = 0 /\ v21 = 0
    \/ which = "director" /\ Dir!Init /\ v12 = 0 /\ v13 = 0 /\ v14 = 0 /\ v15 = 0 /\ v16 = 0 /\
          v17 = 0 /\ v18 = 0 /\ v19 = 0 /\ v20 = 0 /\ v21 = 0
    \/ which = "apart" /\ DirApart!Init /\ v12 = 0 /\ v13 = 0 /\ v14 = 0 /\ v15 = 0 /\
          v16 = 0 /\ v17 = 0 /\ v18 = 0 /\ v19 = 0 /\ v20 = 0 /\ v21 = 0
    \/ which = "shared" /\ DirShared!Init /\ v12 = 0 /\ v13 = 0 /\ v14 = 0 /\ v15 = 0 /\
          v16 = 0 /\ v17 = 0 /\ v18 = 0 /\ v19 = 0 /\ v20 = 0 /\ v21 = 0
    \/ which = "windows" /\ Windows!SessionInit /\ v11 = 0 /\ v12 = 0 /\ v13 = 0 /\ v14 = 0 /\
          v15 = 0 /\ v16 = 0 /\ v17 = 0 /\ v18 = 0 /\ v19 = 0 /\ v20 = 0 /\ v21 = 0
    \/ which = "proton" /\ OnProton!SessionInit /\ v11 = 0 /\ v12 = 0 /\ v13 = 0 /\ v14 = 0 /\
          v15 = 0 /\ v16 = 0 /\ v17 = 0 /\ v18 = 0 /\ v19 = 0 /\ v20 = 0 /\ v21 = 0
    \/ which = "install" /\ Install!InstallInit /\ v9 = 0 /\ v10 = 0 /\ v11 = 0 /\ v12 = 0 /\
          v13 = 0 /\ v14 = 0 /\ v15 = 0 /\ v16 = 0 /\ v17 = 0 /\ v18 = 0 /\ v19 = 0 /\
          v20 = 0 /\ v21 = 0
    \/ which = "prefix" /\ Prefix!PrefixInit /\ v10 = 0 /\ v11 = 0 /\ v12 = 0 /\ v13 = 0 /\
          v14 = 0 /\ v15 = 0 /\ v16 = 0 /\ v17 = 0 /\ v18 = 0 /\ v19 = 0 /\ v20 = 0 /\ v21 = 0
    \/ which = "prefixes" /\ PrefixTwo!PrefixInit /\ v10 = 0 /\ v11 = 0 /\ v12 = 0 /\ v13 = 0 /\
          v14 = 0 /\ v15 = 0 /\ v16 = 0 /\ v17 = 0 /\ v18 = 0 /\ v19 = 0 /\ v20 = 0 /\ v21 = 0
    \/ which = "tree" /\ Tree!TreeInit /\ v10 = 0 /\ v11 = 0 /\ v12 = 0 /\ v13 = 0 /\ v14 = 0 /\
          v15 = 0 /\ v16 = 0 /\ v17 = 0 /\ v18 = 0 /\ v19 = 0 /\ v20 = 0 /\ v21 = 0

Next ==
    /\ UNCHANGED which
    /\ \/ which = "stacks" /\ Stack!StackNext /\ UNCHANGED <<v4, v5, v6, v7, v8, v9, v10, v11,
               v12, v13, v14, v15, v16, v17, v18, v19, v20, v21>>
       \/ which = "seek" /\ Seek!SeekNext /\ UNCHANGED <<v6, v7, v8, v9, v10, v11, v12, v13,
               v14, v15, v16, v17, v18, v19, v20, v21>>
       \/ which = "mem" /\ Mem!MemNext /\ UNCHANGED <<v6, v7, v8, v9, v10, v11, v12, v13, v14,
               v15, v16, v17, v18, v19, v20, v21>>
       \/ which = "disk" /\ Disk!DiskNext /\ UNCHANGED <<v4, v5, v6, v7, v8, v9, v10, v11, v12,
               v13, v14, v15, v16, v17, v18, v19, v20, v21>>
       \/ which = "over" /\ Over!Next /\ UNCHANGED <<v11, v12, v13, v14, v15, v16, v17, v18,
               v19, v20, v21>>
       \/ which = "overfail" /\ OverFail!Next /\ UNCHANGED <<v11, v12, v13, v14, v15, v16, v17,
               v18, v19, v20, v21>>
       \/ which = "closes" /\ Closes!Next
       \/ which = "session" /\ Sess!ComposeNext /\ UNCHANGED <<v7, v8, v9, v10, v11, v12, v13,
               v14, v15, v16, v17, v18, v19, v20, v21>>
       \/ which = "badmount" /\ SessBad!ComposeNext /\ UNCHANGED <<v7, v8, v9, v10, v11, v12,
               v13, v14, v15, v16, v17, v18, v19, v20, v21>>
       \/ which = "staging" /\ Stage!StagingNext /\ UNCHANGED <<v10, v11, v12, v13, v14, v15,
               v16, v17, v18, v19, v20, v21>>
       \/ which = "director" /\ Dir!Next /\ UNCHANGED <<v12, v13, v14, v15, v16, v17, v18, v19,
               v20, v21>>
       \/ which = "apart" /\ DirApart!Next /\ UNCHANGED <<v12, v13, v14, v15, v16, v17, v18,
               v19, v20, v21>>
       \/ which = "shared" /\ DirShared!Next /\ UNCHANGED <<v12, v13, v14, v15, v16, v17, v18,
               v19, v20, v21>>
       \/ which = "windows" /\ Windows!SessionNext /\ UNCHANGED <<v11, v12, v13, v14, v15, v16,
               v17, v18, v19, v20, v21>>
       \/ which = "proton" /\ OnProton!SessionNext /\ UNCHANGED <<v11, v12, v13, v14, v15, v16,
               v17, v18, v19, v20, v21>>
       \/ which = "install" /\ Install!InstallNext /\ UNCHANGED <<v9, v10, v11, v12, v13, v14,
               v15, v16, v17, v18, v19, v20, v21>>
       \/ which = "prefix" /\ Prefix!PrefixNext /\ UNCHANGED <<v10, v11, v12, v13, v14, v15,
               v16, v17, v18, v19, v20, v21>>
       \/ which = "prefixes" /\ PrefixTwo!PrefixNext /\ UNCHANGED <<v10, v11, v12, v13, v14,
               v15, v16, v17, v18, v19, v20, v21>>
       \/ which = "tree" /\ Tree!TreeNext /\ UNCHANGED <<v10, v11, v12, v13, v14, v15, v16, v17,
               v18, v19, v20, v21>>

Spec == Init /\ [][Next]_vars

\* As in Providers, Trees, Overlay and Durability: what is listed resolves, a read at an offset
\* returns the bytes there, one folded path names one entry, and it is found by any spelling; the
\* whiteout index agrees with the markers, a copy-up never replaces a file, and a removed path
\* stays hidden until it is made again; a row's data is in the store, open files stay, a crash
\* brings back the last durable point and under OnEveryClose loses only what open handles wrote.
TreesSound ==
    /\ which = "over" => Over!TypeOK /\ Over!IndexAgrees /\ Over!CopyNeverReplaces /\
            Over!RemovedStaysHidden
    /\ which = "overfail" => OverFail!TypeOK /\ OverFail!IndexAgrees /\
            OverFail!CopyNeverReplaces /\ OverFail!RemovedStaysHidden
    /\ which = "closes" => Closes!TypeOK /\ Closes!RowsHaveData /\ Closes!OpenFilesStay /\
            Closes!CrashSafe /\ Closes!EveryCloseDurable /\ Closes!CleanSkip
    /\ which = "stacks" => Stack!ListedResolves
    /\ which = "seek" => Seek!SeekTypeOK /\ Seek!ReadsAtOffset /\ Seek!CursorTrue
    /\ which = "mem" => Mem!MemTypeOK /\ Mem!IndexLive /\ Mem!FoundByAnySpelling /\
            Mem!NoForks /\ Mem!OneKind
    /\ which = "disk" => Disk!DiskTypeOK /\ Disk!DiskNoForks /\ Disk!DiskFoundByAnySpelling

\* As in Session and Director: what is served is what was composed, a rejected call leaves no
\* trace, the user's files are kept when an executable is staged and its imports are on disk; a
\* handle is labelled with the mount it came from, a client's handles agree with the provider's,
\* and a cursor stays within the file.
SessionSound ==
    /\ which = "session" => Sess!ComposeTypeOK /\ Sess!ServedIsComposed /\
            Sess!RejectedLeavesNoTrace
    /\ which = "badmount" => SessBad!ComposeTypeOK
    /\ which = "staging" => Stage!StagingTypeOK /\ Stage!TheirFilesKept /\
            Stage!ImportsOnDisk /\ Stage!StagedOwned
    /\ which = "director" => Dir!TypeOK /\ Dir!LabelsTrue /\ Dir!HandlesAgree /\
            Dir!CursorWithin
    /\ which = "apart" => DirApart!TypeOK /\ DirApart!LabelsTrue /\ DirApart!HandlesAgree /\
            DirApart!CursorWithin
    /\ which = "shared" => DirShared!TypeOK /\ DirShared!LabelsTrue /\ DirShared!HandlesAgree /\
            DirShared!CursorWithin

\* As in Launch and Proton: a session runs one launch at a time, whose files, prefix and ring stay
\* while it runs, and which only its own stop kills; no process runs without its shim, an ended
\* launch has no process left, and a child asked for suspended has not run; an installed runtime
\* was verified and a failed one replaces nothing; a prefix is set up with no program in it, its
\* roots are in place while one runs, and a session leaves nothing behind.
LaunchesApart ==
    /\ which = "install" => Install!InstalledVerified /\ Install!ForceKeeps
    /\ which = "prefix" => Prefix!RootsInPlace /\ Prefix!SetUpAlone /\
            Prefix!PrefixNothingLeft /\ Prefix!AnonymousGone
    /\ which = "prefixes" => PrefixTwo!RootsInPlace /\ PrefixTwo!SetUpAlone
    /\ which = "windows" => Windows!OneLaunch /\ Windows!StagedKept /\ Windows!PrefixHeld /\
            Windows!KilledByOwnStop /\ Windows!RingOutlivesLaunch
    /\ which = "proton" => OnProton!OneLaunch /\ OnProton!StagedKept /\ OnProton!PrefixHeld /\
            OnProton!KilledByOwnStop /\ OnProton!RingOutlivesLaunch
    /\ which = "tree" => Tree!TreeTypeOK /\ Tree!FailsClosed /\ Tree!EndedIsEmpty /\
            Tree!SuspendedKept

\* As in Proton, Session, Director and Providers: the user's files in a prefix are kept, a root
\* served directly stays direct and can be reached after every call, a move between providers
\* moves the whole file, read-only leaves are not written to, and a guarded directory stays.
TheirsKept ==
  [][
    /\ which = "prefix" => Prefix!TheirsKeptStep
    /\ which = "prefixes" => PrefixTwo!TheirsKeptStep
    /\ which = "session" => Sess!DirectKeptStep /\ Sess!LocationsReachableStep
    /\ which = "badmount" => SessBad!DirectKeptStep
    /\ which = "apart" => DirApart!MovedWholeStep
    /\ which = "stacks" => Stack!GuardKeptStep /\ Stack!ReadOnlyKeptStep
  ]_vars
==============================================================================
