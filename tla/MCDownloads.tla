----------------------------- MODULE MCDownloads -----------------------------
(***************************************************************************)
(* The stores a layer can be pulled from, and the archives, in instances   *)
(* side by side: `which` picks one.                                        *)
(***************************************************************************)
EXTENDS Integers, Sequences, FiniteSets, TLC

CONSTANTS None, d1, d2, t1, t2

VARIABLES which, v1, v2, v3, v4, v5, v6, v7, v8, v9, v10, v11, v12, v13, v14

vars == <<which, v1, v2, v3, v4, v5, v6, v7, v8, v9, v10, v11, v12, v13, v14>>

FoldOf == [n \in {"a", "A", "b", "c"} |-> IF n = "A" THEN "a" ELSE n]
Listed(d, p) == [path |-> p, dir |-> d]
ListedPaths ==
    {Listed(TRUE, <<"A">>)} \cup {Listed(FALSE, p) :
        p \in {<<"a">>, <<"A">>, <<"a", "b">>, <<"A", "b">>, <<"b", "a", "b">>, <<"b", "A">>}}

Remote(lh, extra, stored, sizes, mapped, table) ==
    [lh |-> lh, hdr |-> 1, extra |-> extra, stored |-> stored, sizes |-> sizes, mapped |-> mapped,
     table |-> table]
NexusEntries == <<Remote(0, 1, FALSE, <<1, 2, 1>>, TRUE, 0), Remote(6, 2, FALSE, <<1, 1>>, FALSE, 2),
                  Remote(13, 0, TRUE, <<1, 1>>, FALSE, 0)>>

Part(i, o) == [id |-> i, offset |-> o]
SteamManifests ==
    {[size |-> 3, chunks |-> <<Part(1, 0), Part(2, 2)>>], [size |-> 3, chunks |-> <<Part(1, 0), Part(2, 1)>>],
     [size |-> 4, chunks |-> <<Part(1, 0), Part(1, 2)>>], [size |-> 4, chunks |-> <<Part(2, 0), Part(1, 1)>>],
     [size |-> 3, chunks |-> <<Part(2, 0), Part(1, 1)>>], [size |-> 0, chunks |-> <<>>]}
SteamCaches == [key : {"good", "bad", None}, manifest : {"good", None}, servers : {"stale", None}]

Frame(c, d) == [c |-> c, d |-> d]
Zipped(n, m, fs, t, big) == [name |-> n, method |-> m, frames |-> fs, table |-> t, big |-> big]
Archive(es, z, g, c, p) == [entries |-> es, zip64 |-> z, gap |-> g, comment |-> c, pad |-> p]
ZipArchives ==
    {Archive(<<Zipped("a", 93, <<Frame(1, 2), Frame(2, 0), Frame(1, 1)>>, "nexus", {}),
               Zipped("b", 93, <<Frame(2, 1)>>, "none", {"c"})>>, FALSE, 0, 1, 0),
     Archive(<<Zipped("a", 93, <<Frame(1, 1), Frame(1, 2)>>, "tail", {"d", "o"}),
               Zipped("A", 93, <<Frame(1, 1)>>, "tail", {})>>, TRUE, 0, 0, 1),
     Archive(<<Zipped("b", 0, <<Frame(2, 2)>>, "none", {}),
               Zipped("a", 8, <<Frame(1, 2)>>, "none", {"d", "c", "o"})>>, TRUE, 4, 1, 0)}

Packed(n) == [name |-> n, dir |-> FALSE]
PackedDir(n) == [name |-> n, dir |-> TRUE]
PackedArchives ==
    {[kind |-> "7z", blocks |-> << <<Packed("a"), Packed("b"), Packed("A")>>, <<PackedDir("c"), Packed("a")>> >>,
      empty |-> <<Packed("c"), Packed("b"), Packed("c")>>],
     [kind |-> "7z", blocks |-> << <<Packed("b")>>, <<Packed("A"), Packed("b")>> >>, empty |-> <<PackedDir("c")>>],
     [kind |-> "zip", blocks |-> << <<PackedDir("a"), Packed("b"), Packed("A"), Packed("a")>> >>, empty |-> <<>>],
     [kind |-> "rar", blocks |-> << <<Packed("a")>> >>, empty |-> <<>>]}

\* Alike in every instance they appear in.
Symmetry ==
    UNION {Permutations(S) : S \in {{d1, d2}, {t1, t2}}}

\* Downloads in ranged parts.
Http == INSTANCE HttpFile WITH Downloads <- {d1, d2}, Host <- [d \in {d1, d2} |-> "h"],
    Global <- 2, PerHost <- 2, LenOf <- <<3, 2>>, HonoursRange <- TRUE, expected <- None,
    expected_len <- 3, parallel_parts <- 2, max_attempts <- 2, STREAM_WRITE <- 2, server <- v1,
    hosts <- v2, global <- v3, dl <- v4, req <- v5, sink <- v6
\* A server without ranges, and an expected digest.
HttpSingle == INSTANCE HttpFile WITH Downloads <- {d1, d2}, Host <- [d \in {d1, d2} |-> "h"],
    Global <- 2, PerHost <- 2, LenOf <- <<3, 2>>, HonoursRange <- FALSE, expected <- 2,
    expected_len <- 2, parallel_parts <- 2, max_attempts <- 2, STREAM_WRITE <- 2, server <- v1,
    hosts <- v2, global <- v3, dl <- v4, req <- v5, sink <- v6
\* Two threads reading through the cache of a pulled layer.
Pull == INSTANCE PullCache WITH Threads <- {t1, t2}, Unit <- [t \in {t1, t2} |-> 2],
    Files <- {"f", "g"}, Blocks <- {0, 1}, MaxBytes <- 2, Target <- 1, Cells <- {1, 2},
    MaxFaults <- 1, stored <- v1, row <- v2, pending <- v3, logical <- v4, counts <- v5,
    total <- v6, cells <- v7, inflight <- v8, job <- v9, ev <- v10, stuck <- v11,
    orphans <- v12, faults <- v13
\* Download links of Nexus in two readers.
NexusUrls == INSTANCE Nexus WITH Uids <- {1}, Readers <- {"r1", "r2"}, MaxLinks <- 2, Life <- 1,
    MaxNow <- 1, EXPIRY_MARGIN <- 0, LINK_SAVE_INTERVAL <- 1, MaxCrashes <- 0, now <- v1,
    urls <- v2, file <- v3, dirty <- v4, last_save <- v5, saving <- v6, writing <- v7,
    savers <- v8, partials <- v9, fetches <- v10, issued <- v11, refused <- v12, rd <- v13,
    crashes <- v14, Callers <- None, Names <- None, Limit <- None, Period <- None,
    max_attempts <- None, MAX_ALLOWANCE_WAIT <- None, QUOTA_MAX_AGE <- None, SLACK <- None,
    MaxCalls <- None, Ids <- None, Entry <- None, FileLen <- None, MAX_REQUEST <- None,
    LOCAL_EXTRA_GUESS <- None, HEADER_JOIN <- None, SEEK_TABLE_TAIL <- None, Spans <- None,
    Offsets <- None, MaxReads <- None, left <- None, resets <- None, readings <- None,
    calls <- None, made <- None, data <- None, restored <- None, seekable <- None,
    learned <- None, spans <- None, reads <- None
\* The same in one reader, with a crash.
NexusUrlsCrash == INSTANCE Nexus WITH Uids <- {1}, Readers <- {"r1"}, MaxLinks <- 2, Life <- 1,
    MaxNow <- 1, EXPIRY_MARGIN <- 0, LINK_SAVE_INTERVAL <- 1, MaxCrashes <- 1, now <- v1,
    urls <- v2, file <- v3, dirty <- v4, last_save <- v5, saving <- v6, writing <- v7,
    savers <- v8, partials <- v9, fetches <- v10, issued <- v11, refused <- v12, rd <- v13,
    crashes <- v14, Callers <- None, Names <- None, Limit <- None, Period <- None,
    max_attempts <- None, MAX_ALLOWANCE_WAIT <- None, QUOTA_MAX_AGE <- None, SLACK <- None,
    MaxCalls <- None, Ids <- None, Entry <- None, FileLen <- None, MAX_REQUEST <- None,
    LOCAL_EXTRA_GUESS <- None, HEADER_JOIN <- None, SEEK_TABLE_TAIL <- None, Spans <- None,
    Offsets <- None, MaxReads <- None, left <- None, resets <- None, readings <- None,
    calls <- None, made <- None, data <- None, restored <- None, seekable <- None,
    learned <- None, spans <- None, reads <- None
\* The allowances of the Nexus API.
NexusRates == INSTANCE Nexus WITH Callers <- {"c1", "c2"}, Names <- {"hourly", "daily"},
    Limit <- ("hourly" :> 1) @@ ("daily" :> 3), Period <- ("hourly" :> 2) @@ ("daily" :> 5),
    max_attempts <- 2, MAX_ALLOWANCE_WAIT <- 3, QUOTA_MAX_AGE <- 3, SLACK <- 1, MaxNow <- 6,
    MaxCalls <- 5, now <- v1, left <- v2, resets <- v3, readings <- v4, calls <- v5, made <- v6,
    Uids <- None, Readers <- None, MaxLinks <- None, Life <- None, EXPIRY_MARGIN <- None,
    LINK_SAVE_INTERVAL <- None, MaxCrashes <- None, Ids <- None, Entry <- None, FileLen <- None,
    MAX_REQUEST <- None, LOCAL_EXTRA_GUESS <- None, HEADER_JOIN <- None,
    SEEK_TABLE_TAIL <- None, Spans <- None, Offsets <- None, MaxReads <- None, urls <- None,
    file <- None, dirty <- None, last_save <- None, saving <- None, writing <- None,
    savers <- None, partials <- None, fetches <- None, issued <- None, refused <- None,
    rd <- None, crashes <- None, data <- None, restored <- None, seekable <- None,
    learned <- None, spans <- None, reads <- None
\* Two readers of a remote archive.
NexusZip == INSTANCE Nexus WITH Ids <- {1, 2}, Entry <- NexusEntries, FileLen <- 17,
    MAX_REQUEST <- 2, LOCAL_EXTRA_GUESS <- 1, HEADER_JOIN <- 1, SEEK_TABLE_TAIL <- 1,
    Readers <- {"r1", "r2"}, Spans <- {}, Offsets <- {}, MaxReads <- 1, data <- v1,
    restored <- v2, seekable <- v3, learned <- v4, spans <- v5, rd <- v6, reads <- v7,
    Uids <- None, MaxLinks <- None, Life <- None, MaxNow <- None, EXPIRY_MARGIN <- None,
    LINK_SAVE_INTERVAL <- None, MaxCrashes <- None, Callers <- None, Names <- None,
    Limit <- None, Period <- None, max_attempts <- None, MAX_ALLOWANCE_WAIT <- None,
    QUOTA_MAX_AGE <- None, SLACK <- None, MaxCalls <- None, now <- None, urls <- None,
    file <- None, dirty <- None, last_save <- None, saving <- None, writing <- None,
    savers <- None, partials <- None, fetches <- None, issued <- None, refused <- None,
    crashes <- None, left <- None, resets <- None, readings <- None, calls <- None, made <- None
\* A reader, prefetches and a failing read.
NexusSpans == INSTANCE Nexus WITH Ids <- {1, 2, 3}, Entry <- NexusEntries, FileLen <- 17,
    MAX_REQUEST <- 2, LOCAL_EXTRA_GUESS <- 1, HEADER_JOIN <- 1, SEEK_TABLE_TAIL <- 1,
    Readers <- {"r1"}, Spans <- {"s1"}, Offsets <- {1, 15}, MaxReads <- 1, data <- v1,
    restored <- v2, seekable <- v3, learned <- v4, spans <- v5, rd <- v6, reads <- v7,
    Uids <- None, MaxLinks <- None, Life <- None, MaxNow <- None, EXPIRY_MARGIN <- None,
    LINK_SAVE_INTERVAL <- None, MaxCrashes <- None, Callers <- None, Names <- None,
    Limit <- None, Period <- None, max_attempts <- None, MAX_ALLOWANCE_WAIT <- None,
    QUOTA_MAX_AGE <- None, SLACK <- None, MaxCalls <- None, now <- None, urls <- None,
    file <- None, dirty <- None, last_save <- None, saving <- None, writing <- None,
    savers <- None, partials <- None, fetches <- None, issued <- None, refused <- None,
    crashes <- None, left <- None, resets <- None, readings <- None, calls <- None, made <- None
\* Chunks of a GOG depot.
GogChunks == INSTANCE Depots WITH Chunks <- {"a", "b"}, Readers <- {"r1"},
    Want <- ("r1" :> <<"a", "b">>), Ahead <- 2, max_chunks <- 1, MaxAttempts <- 1,
    MaxFetches <- 2, MaxIssued <- 3, MaxFaults <- 1, cache <- v1, inflight <- v2, tasks <- v3,
    rd <- v4, link <- v5, linkLock <- v6, creds <- v7, saved <- v8, credsLock <- v9,
    issued <- v10, refused <- v11, stale <- v12, SizeOf <- None, MAX_READ <- None,
    Store <- None, Fold <- None, Paths <- None, MaxEntries <- None, Unreadable <- None,
    Handles <- None, by_path <- None, seen <- None, opens <- None, got <- None
\* The tree of a GOG depot.
DepotGog == INSTANCE Depots WITH SizeOf <- 2, MAX_READ <- 1, Store <- "gog", Fold <- FoldOf,
    Paths <- ListedPaths, MaxEntries <- 2, Unreadable <- {<<"A", "b">>}, Handles <- {"h"},
    by_path <- v1, seen <- v2, opens <- v3, got <- v4, Chunks <- None, Readers <- None,
    Want <- None, Ahead <- None, max_chunks <- None, MaxAttempts <- None, MaxFetches <- None,
    MaxIssued <- None, MaxFaults <- None, cache <- None, inflight <- None, tasks <- None,
    rd <- None, link <- None, linkLock <- None, creds <- None, saved <- None, credsLock <- None,
    issued <- None, refused <- None, stale <- None
\* The tree of a Nexus collection.
DepotNexus == INSTANCE Depots WITH SizeOf <- 2, MAX_READ <- 1, Store <- "nexus", Fold <- FoldOf,
    Paths <- ListedPaths, MaxEntries <- 2, Unreadable <- {<<"A", "b">>}, Handles <- {"h"},
    by_path <- v1, seen <- v2, opens <- v3, got <- v4, Chunks <- None, Readers <- None,
    Want <- None, Ahead <- None, max_chunks <- None, MaxAttempts <- None, MaxFetches <- None,
    MaxIssued <- None, MaxFaults <- None, cache <- None, inflight <- None, tasks <- None,
    rd <- None, link <- None, linkLock <- None, creds <- None, saved <- None, credsLock <- None,
    issued <- None, refused <- None, stale <- None
\* The tree of a Steam depot.
DepotSteam == INSTANCE Depots WITH SizeOf <- 2, MAX_READ <- 1, Store <- "steam", Fold <- FoldOf,
    Paths <- ListedPaths, MaxEntries <- 3, Unreadable <- {<<"A", "b">>}, Handles <- {"h"},
    by_path <- v1, seen <- v2, opens <- v3, got <- v4, Chunks <- None, Readers <- None,
    Want <- None, Ahead <- None, max_chunks <- None, MaxAttempts <- None, MaxFetches <- None,
    MaxIssued <- None, MaxFaults <- None, cache <- None, inflight <- None, tasks <- None,
    rd <- None, link <- None, linkLock <- None, creds <- None, saved <- None, credsLock <- None,
    issued <- None, refused <- None, stale <- None
\* Two callers of the connection to Steam.
Cm == INSTANCE SteamCm WITH Callers <- {"c1", "c2"}, Rpc <- ("c1" :> "owns") @@ ("c2" :> "key"),
    Parts <- 2, MaxTrips <- 6, MaxBeats <- 1, Attempts <- 2, calls <- v1, queue <- v2,
    job <- v3, conn <- v4, owed <- v5, inbox <- v6, licenses <- v7, trips <- v8, beats <- v9,
    Method <- None, Offered <- None, MaxAttempts <- None, MaxPolls <- None, pc <- None,
    call <- None, client <- None, in_flight <- None, wire <- None, sent <- None, steam <- None,
    begun <- None, typed <- None, pend <- None, shown <- None, takes_code <- None,
    polls <- None, file <- None
\* The same, one of them asking for a ticket.
CmTicket == INSTANCE SteamCm WITH Callers <- {"c1", "c2"},
    Rpc <- ("c1" :> "ticket") @@ ("c2" :> "owns"), Parts <- 2, MaxTrips <- 4, MaxBeats <- 1,
    Attempts <- 2, calls <- v1, queue <- v2, job <- v3, conn <- v4, owed <- v5, inbox <- v6,
    licenses <- v7, trips <- v8, beats <- v9, Method <- None, Offered <- None,
    MaxAttempts <- None, MaxPolls <- None, pc <- None, call <- None, client <- None,
    in_flight <- None, wire <- None, sent <- None, steam <- None, begun <- None, typed <- None,
    pend <- None, shown <- None, takes_code <- None, polls <- None, file <- None
\* Signing in with a code shown.
Login == INSTANCE SteamCm WITH Method <- "qr", Offered <- {}, MaxAttempts <- 5, MaxPolls <- 3,
    pc <- v1, call <- v2, client <- v3, in_flight <- v4, wire <- v5, sent <- v6, steam <- v7,
    begun <- v8, typed <- v9, pend <- v10, shown <- v11, takes_code <- v12, polls <- v13,
    file <- v14, Callers <- None, Rpc <- None, Parts <- None, MaxTrips <- None,
    MaxBeats <- None, Attempts <- None, calls <- None, queue <- None, job <- None, conn <- None,
    owed <- None, inbox <- None, licenses <- None, trips <- None, beats <- None
\* Signing in with a password.
LoginPassword == INSTANCE SteamCm WITH Method <- "password", Offered <- {"code", "approval"},
    MaxAttempts <- 5, MaxPolls <- 3, pc <- v1, call <- v2, client <- v3, in_flight <- v4,
    wire <- v5, sent <- v6, steam <- v7, begun <- v8, typed <- v9, pend <- v10, shown <- v11,
    takes_code <- v12, polls <- v13, file <- v14, Callers <- None, Rpc <- None, Parts <- None,
    MaxTrips <- None, MaxBeats <- None, Attempts <- None, calls <- None, queue <- None,
    job <- None, conn <- None, owed <- None, inbox <- None, licenses <- None, trips <- None,
    beats <- None
\* Hosts that fail and come back.
Pool == INSTANCE SteamCdn WITH Hosts <- {1, 2}, Fetches <- {"f1"}, max_attempts <- 2,
    Times <- {1, 3}, base <- 1, max <- 2, trial_timeout <- 1, MaxNow <- 1, MaxTokens <- 1,
    HasTokens <- TRUE, now <- v1, hosts <- v2, current <- v3, probing <- v4, fx <- v5,
    tokens <- v6, token_lock <- v7, issued <- v8, reported <- v9, LenOf <- None,
    Manifests <- None, Readers <- None, cap <- None, max_concurrent_chunks <- None,
    MaxReads <- None, MaxFaults <- None, Tasks <- None, Credentials <- None, FirstCache <- None,
    MaxCalls <- None, manifest <- None, rd <- None, lru <- None, used <- None, reads <- None,
    faults <- None, cache <- None, session <- None, anonymous <- None, pools <- None,
    built <- None, task <- None, online <- None, calls <- None
\* Two fetches whose token is refused.
PoolTokens == INSTANCE SteamCdn WITH Hosts <- {1}, Fetches <- {"f1", "f2"}, max_attempts <- 2,
    Times <- {1}, base <- 1, max <- 2, trial_timeout <- 1, MaxNow <- 1, MaxTokens <- 2,
    HasTokens <- TRUE, now <- v1, hosts <- v2, current <- v3, probing <- v4, fx <- v5,
    tokens <- v6, token_lock <- v7, issued <- v8, reported <- v9, LenOf <- None,
    Manifests <- None, Readers <- None, cap <- None, max_concurrent_chunks <- None,
    MaxReads <- None, MaxFaults <- None, Tasks <- None, Credentials <- None, FirstCache <- None,
    MaxCalls <- None, manifest <- None, rd <- None, lru <- None, used <- None, reads <- None,
    faults <- None, cache <- None, session <- None, anonymous <- None, pools <- None,
    built <- None, task <- None, online <- None, calls <- None
\* Reads of a file in chunks.
Chunks == INSTANCE SteamCdn WITH LenOf <- <<2, 1>>, Manifests <- SteamManifests,
    Readers <- {"r1", "r2"}, cap <- 2, max_concurrent_chunks <- 2, MaxReads <- 2,
    MaxFaults <- 1, manifest <- v1, rd <- v2, lru <- v3, used <- v4, reads <- v5, faults <- v6,
    Hosts <- None, Fetches <- None, max_attempts <- None, Times <- None, base <- None,
    max <- None, trial_timeout <- None, MaxNow <- None, MaxTokens <- None, HasTokens <- None,
    Tasks <- None, Credentials <- None, FirstCache <- None, MaxCalls <- None, now <- None,
    hosts <- None, current <- None, probing <- None, fx <- None, tokens <- None,
    token_lock <- None, issued <- None, reported <- None, cache <- None, session <- None,
    anonymous <- None, pools <- None, built <- None, task <- None, online <- None, calls <- None
\* Opening a depot from what is cached and what is fetched.
Content == INSTANCE SteamCdn WITH Tasks <- {"t1", "t2"}, Credentials <- "good",
    FirstCache <- SteamCaches, MaxCalls <- 2, MaxFaults <- 1, cache <- v1, session <- v2,
    anonymous <- v3, pools <- v4, built <- v5, task <- v6, online <- v7, calls <- v8,
    faults <- v9, Hosts <- None, Fetches <- None, max_attempts <- None, Times <- None,
    base <- None, max <- None, trial_timeout <- None, MaxNow <- None, MaxTokens <- None,
    HasTokens <- None, LenOf <- None, Manifests <- None, Readers <- None, cap <- None,
    max_concurrent_chunks <- None, MaxReads <- None, now <- None, hosts <- None,
    current <- None, probing <- None, fx <- None, tokens <- None, token_lock <- None,
    issued <- None, reported <- None, manifest <- None, rd <- None, lru <- None, used <- None,
    reads <- None
\* The same from a key that does not open the manifest.
ContentBad == INSTANCE SteamCdn WITH Tasks <- {"t1", "t2"}, Credentials <- "good",
    FirstCache <- {[key |-> "bad", manifest |-> None, servers |-> "stale"]}, MaxCalls <- 4,
    MaxFaults <- 0, cache <- v1, session <- v2, anonymous <- v3, pools <- v4, built <- v5,
    task <- v6, online <- v7, calls <- v8, faults <- v9, Hosts <- None, Fetches <- None,
    max_attempts <- None, Times <- None, base <- None, max <- None, trial_timeout <- None,
    MaxNow <- None, MaxTokens <- None, HasTokens <- None, LenOf <- None, Manifests <- None,
    Readers <- None, cap <- None, max_concurrent_chunks <- None, MaxReads <- None, now <- None,
    hosts <- None, current <- None, probing <- None, fx <- None, tokens <- None,
    token_lock <- None, issued <- None, reported <- None, manifest <- None, rd <- None,
    lru <- None, used <- None, reads <- None
\* Archives read through their seek tables.
Zip == INSTANCE Archives WITH Archives <- ZipArchives, Names <- {"a", "A", "b"},
    FoldName <- FoldOf, MAX_COMMENT <- 2, PLAIN_FRAME_MAX <- 1, archive <- v1, zip <- v2,
    index <- v3, opened <- v4, asked <- v5, out <- v6, MaxFaults <- None, wanted <- None,
    want <- None, block <- None, entry_at <- None, left <- None, served <- None,
    decoded <- None, faults <- None, result <- None
\* Archives extracted whole.
Unpack == INSTANCE Archives WITH Archives <- PackedArchives, Names <- {"a", "A", "b", "c"},
    FoldName <- FoldOf, MaxFaults <- 1, archive <- v1, wanted <- v2, want <- v3, block <- v4,
    entry_at <- v5, left <- v6, served <- v7, decoded <- v8, faults <- v9, result <- v10,
    MAX_COMMENT <- None, PLAIN_FRAME_MAX <- None, zip <- None, index <- None, opened <- None,
    asked <- None, out <- None

Init ==
    \/ which = "http" /\ Http!Init /\ v7 = 0 /\ v8 = 0 /\ v9 = 0 /\ v10 = 0 /\ v11 = 0 /\
          v12 = 0 /\ v13 = 0 /\ v14 = 0
    \/ which = "single" /\ HttpSingle!Init /\ v7 = 0 /\ v8 = 0 /\ v9 = 0 /\ v10 = 0 /\
          v11 = 0 /\ v12 = 0 /\ v13 = 0 /\ v14 = 0
    \/ which = "pull" /\ Pull!Init /\ v14 = 0
    \/ which = "links" /\ NexusUrls!LinksInit
    \/ which = "crash" /\ NexusUrlsCrash!LinksInit
    \/ which = "quota" /\ NexusRates!QuotaInit /\ v7 = 0 /\ v8 = 0 /\ v9 = 0 /\ v10 = 0 /\
          v11 = 0 /\ v12 = 0 /\ v13 = 0 /\ v14 = 0
    \/ which = "archive" /\ NexusZip!ArchiveInit /\ v8 = 0 /\ v9 = 0 /\ v10 = 0 /\ v11 = 0 /\
          v12 = 0 /\ v13 = 0 /\ v14 = 0
    \/ which = "spans" /\ NexusSpans!ArchiveInit /\ v8 = 0 /\ v9 = 0 /\ v10 = 0 /\ v11 = 0 /\
          v12 = 0 /\ v13 = 0 /\ v14 = 0
    \/ which = "gog" /\ GogChunks!GogInit /\ v13 = 0 /\ v14 = 0
    \/ which = "depot" /\ DepotGog!DepotInit /\ v5 = 0 /\ v6 = 0 /\ v7 = 0 /\ v8 = 0 /\
          v9 = 0 /\ v10 = 0 /\ v11 = 0 /\ v12 = 0 /\ v13 = 0 /\ v14 = 0
    \/ which = "depotnexus" /\ DepotNexus!DepotInit /\ v5 = 0 /\ v6 = 0 /\ v7 = 0 /\ v8 = 0 /\
          v9 = 0 /\ v10 = 0 /\ v11 = 0 /\ v12 = 0 /\ v13 = 0 /\ v14 = 0
    \/ which = "depotsteam" /\ DepotSteam!DepotInit /\ v5 = 0 /\ v6 = 0 /\ v7 = 0 /\ v8 = 0 /\
          v9 = 0 /\ v10 = 0 /\ v11 = 0 /\ v12 = 0 /\ v13 = 0 /\ v14 = 0
    \/ which = "cm" /\ Cm!CmInit /\ v10 = 0 /\ v11 = 0 /\ v12 = 0 /\ v13 = 0 /\ v14 = 0
    \/ which = "ticket" /\ CmTicket!CmInit /\ v10 = 0 /\ v11 = 0 /\ v12 = 0 /\ v13 = 0 /\
          v14 = 0
    \/ which = "login" /\ Login!LoginInit
    \/ which = "password" /\ LoginPassword!LoginInit
    \/ which = "pool" /\ Pool!PoolInit /\ v10 = 0 /\ v11 = 0 /\ v12 = 0 /\ v13 = 0 /\ v14 = 0
    \/ which = "tokens" /\ PoolTokens!PoolInit /\ v10 = 0 /\ v11 = 0 /\ v12 = 0 /\ v13 = 0 /\
          v14 = 0
    \/ which = "reader" /\ Chunks!ReaderInit /\ v7 = 0 /\ v8 = 0 /\ v9 = 0 /\ v10 = 0 /\
          v11 = 0 /\ v12 = 0 /\ v13 = 0 /\ v14 = 0
    \/ which = "content" /\ Content!ContentInit /\ v10 = 0 /\ v11 = 0 /\ v12 = 0 /\ v13 = 0 /\
          v14 = 0
    \/ which = "badkey" /\ ContentBad!ContentInit /\ v10 = 0 /\ v11 = 0 /\ v12 = 0 /\ v13 = 0 /\
          v14 = 0
    \/ which = "zip" /\ Zip!ZipInit /\ v7 = 0 /\ v8 = 0 /\ v9 = 0 /\ v10 = 0 /\ v11 = 0 /\
          v12 = 0 /\ v13 = 0 /\ v14 = 0
    \/ which = "extract" /\ Unpack!ExtractInit /\ v11 = 0 /\ v12 = 0 /\ v13 = 0 /\ v14 = 0

Next ==
    /\ UNCHANGED which
    /\ \/ which = "http" /\ Http!Next /\ UNCHANGED <<v7, v8, v9, v10, v11, v12, v13, v14>>
       \/ which = "single" /\ HttpSingle!Next /\ UNCHANGED <<v7, v8, v9, v10, v11, v12, v13, v14>>
       \/ which = "pull" /\ Pull!Next /\ UNCHANGED <<v14>>
       \/ which = "links" /\ NexusUrls!LinksNext
       \/ which = "crash" /\ NexusUrlsCrash!LinksNext
       \/ which = "quota" /\ NexusRates!QuotaNext /\ UNCHANGED <<v7, v8, v9, v10, v11, v12, v13,
               v14>>
       \/ which = "archive" /\ NexusZip!ArchiveNext /\ UNCHANGED <<v8, v9, v10, v11, v12, v13,
               v14>>
       \/ which = "spans" /\ NexusSpans!ArchiveNext /\ UNCHANGED <<v8, v9, v10, v11, v12, v13,
               v14>>
       \/ which = "gog" /\ GogChunks!GogNext /\ UNCHANGED <<v13, v14>>
       \/ which = "depot" /\ DepotGog!DepotNext /\ UNCHANGED <<v5, v6, v7, v8, v9, v10, v11,
               v12, v13, v14>>
       \/ which = "depotnexus" /\ DepotNexus!DepotNext /\ UNCHANGED <<v5, v6, v7, v8, v9, v10,
               v11, v12, v13, v14>>
       \/ which = "depotsteam" /\ DepotSteam!DepotNext /\ UNCHANGED <<v5, v6, v7, v8, v9, v10,
               v11, v12, v13, v14>>
       \/ which = "cm" /\ Cm!CmNext /\ UNCHANGED <<v10, v11, v12, v13, v14>>
       \/ which = "ticket" /\ CmTicket!CmNext /\ UNCHANGED <<v10, v11, v12, v13, v14>>
       \/ which = "login" /\ Login!LoginNext
       \/ which = "password" /\ LoginPassword!LoginNext
       \/ which = "pool" /\ Pool!PoolNext /\ UNCHANGED <<v10, v11, v12, v13, v14>>
       \/ which = "tokens" /\ PoolTokens!PoolNext /\ UNCHANGED <<v10, v11, v12, v13, v14>>
       \/ which = "reader" /\ Chunks!ReaderNext /\ UNCHANGED <<v7, v8, v9, v10, v11, v12, v13,
               v14>>
       \/ which = "content" /\ Content!ContentNext /\ UNCHANGED <<v10, v11, v12, v13, v14>>
       \/ which = "badkey" /\ ContentBad!ContentNext /\ UNCHANGED <<v10, v11, v12, v13, v14>>
       \/ which = "zip" /\ Zip!ZipNext /\ UNCHANGED <<v7, v8, v9, v10, v11, v12, v13, v14>>
       \/ which = "extract" /\ Unpack!ExtractNext /\ UNCHANGED <<v11, v12, v13, v14>>

Spec == Init /\ [][Next]_vars

\* As in HttpFile, PullCache, Nexus and Depots: what the cache counts is stored and concurrent
\* misses share a fetch, a finished download is the whole file, as expected, permits taken are
\* given back, a link is asked for once and saved, allowances are counted exactly, a chunk is
\* downloaded once, what is listed is found, and a read of a remote archive is exact.
DownloadsWhole ==
    /\ which = "pull" => Pull!TypeOK /\ Pull!TotalExact /\ Pull!CountedIsStored /\
            Pull!RowsFirst /\ Pull!OneFetch
    /\ which = "http" => Http!PermitsKept /\ Http!DownloadedIsWhole
    /\ which = "single" => HttpSingle!PermitsKept /\ HttpSingle!DownloadedIsWhole
    /\ which = "links" => NexusUrls!LinksTypeOK /\ NexusUrls!OneRequest /\
            NexusUrls!CleanIsSaved /\ NexusUrls!PartialsOwned
    /\ which = "crash" => NexusUrlsCrash!LinksTypeOK /\ NexusUrlsCrash!OneRequest /\
            NexusUrlsCrash!CleanIsSaved /\ NexusUrlsCrash!PartialsOwned
    /\ which = "quota" => NexusRates!QuotaTypeOK /\ NexusRates!ReadingsExact
    /\ which = "archive" => NexusZip!ArchiveTypeOK /\ NexusZip!ReadsExact /\
            NexusZip!OffsetsTrue /\ NexusZip!PrefetchServes
    /\ which = "spans" => NexusSpans!ArchiveTypeOK /\ NexusSpans!ReadsExact /\
            NexusSpans!OffsetsTrue /\ NexusSpans!PrefetchServes
    /\ which = "gog" => GogChunks!GogTypeOK /\ GogChunks!OneDownload
    /\ which = "depot" => DepotGog!DepotTypeOK /\ DepotGog!ListedIsFound /\
            DepotGog!FirstServes /\ DepotGog!NothingLost /\ DepotGog!ReadsWithin
    /\ which = "depotnexus" => DepotNexus!DepotTypeOK /\ DepotNexus!ListedIsFound /\
            DepotNexus!FirstServes /\ DepotNexus!NothingLost /\ DepotNexus!ReadsWithin
    /\ which = "depotsteam" => DepotSteam!DepotTypeOK /\ DepotSteam!ListedIsFound /\
            DepotSteam!FirstServes /\ DepotSteam!NothingLost /\ DepotSteam!ReadsWithin

\* As in SteamCm, SteamCdn and Archives: nothing of a lost connection is left over and an answer
\* goes to its own caller, a sign-in shows the current code and sends once, a failed host comes
\* back, reads in chunks are the file, the depot opens offline from the cache, and a key that does
\* not open is forgotten; what is served of an archive is its content and every entry can be read,
\* extraction yields every wanted entry once and decodes nothing else.
ContentSound ==
    /\ which = "zip" => Zip!ZipTypeOK /\ Zip!ServedIsContent /\ Zip!WholeReadable
    /\ which = "extract" => Unpack!ExtractTypeOK /\ Unpack!EachWantedOnce /\
            Unpack!OnlyWantedDecoded
    /\ which = "cm" => Cm!CmTypeOK /\ Cm!NothingLeftOver /\ Cm!AnswersOwn
    /\ which = "ticket" => CmTicket!CmTypeOK /\ CmTicket!NothingLeftOver /\ CmTicket!AnswersOwn
    /\ which = "login" => Login!LoginTypeOK /\ Login!RepliesOwn /\ Login!SentOnce /\
            Login!ShownIsCurrent
    /\ which = "password" => LoginPassword!LoginTypeOK /\ LoginPassword!RepliesOwn /\
            LoginPassword!SentOnce /\ LoginPassword!ShownIsCurrent
    /\ which = "pool" => Pool!PoolTypeOK /\ Pool!FailedHostsReturn /\ Pool!ReportedOnce
    /\ which = "tokens" => PoolTokens!PoolTypeOK /\ PoolTokens!FailedHostsReturn /\
            PoolTokens!ReportedOnce
    /\ which = "reader" => Chunks!ReaderTypeOK /\ Chunks!ReadsAreFile /\ Chunks!BudgetKept
    /\ which = "content" => Content!ContentTypeOK /\ Content!OnePool /\ Content!OfflineServed /\
            Content!BadKeyForgotten
    /\ which = "badkey" => ContentBad!ContentTypeOK /\ ContentBad!OnePool /\
            ContentBad!OfflineServed /\ ContentBad!BadKeyForgotten

\* As in HttpFile, PullCache, Nexus, Depots and SteamCdn: the sink of a download is written in
\* order, an open file keeps its blocks, a link, a secure link or a token is replaced only when it
\* was refused or is old, and a sleeper wakes after a reset.
RenewedForCause ==
  [][
    /\ which = "pull" => Pull!OpenKeptStep
    /\ which = "http" => Http!WritesInOrderStep
    /\ which = "single" => HttpSingle!WritesInOrderStep
    /\ which = "links" => NexusUrls!FreshKeptStep
    /\ which = "crash" => NexusUrlsCrash!FreshKeptStep
    /\ which = "quota" => NexusRates!WokenAfterResetStep
    /\ which = "gog" => GogChunks!RenewedOnceStep
    /\ which = "pool" => Pool!NewTokensKeptStep
    /\ which = "tokens" => PoolTokens!NewTokensKeptStep
  ]_vars
==============================================================================
