------------------------------- MODULE Depots --------------------------------
(***************************************************************************)
(* GOG depots: secure links and chunk downloads; and the tree of a depot,  *)
(* which all three stores build alike. Each section is a state machine of  *)
(* its own; they share no state.                                           *)
(***************************************************************************)
EXTENDS Integers, Sequences, FiniteSets, SequencesExt

CONSTANTS
    \* gog
    Chunks,
    Readers, Want,   \* Want[r]: the chunks a read of r covers, in order
    Ahead,   \* parallel_parts
    max_chunks,   \* of the chunk cache
    MaxAttempts,   \* of the retry policy
    MaxFetches, MaxIssued,
    MaxFaults,   \* refusals and expiries
    \* tree
    SizeOf, MAX_READ,
    Store,   \* "nexus", "gog" or "steam"
    Fold,   \* name -> folded name
    Paths,   \* the entries there may be: [path, dir]
    MaxEntries,   \* how many a list holds
    Unreadable,   \* paths whose file the reader cannot open, or whose
                  \* range is outside their chunks
    Handles,
    None

VARIABLES
    \* gog
    cache, inflight, tasks, rd, link, linkLock, creds, saved, credsLock,
    issued, refused, stale,
    \* tree
    by_path,   \* folded path -> [name, dir, children, of]: a node
    seen,   \* the entries added, in order
    opens,
    got   \* the last read: [of, off, want, n], n = -1 for an error

(***************************************************************************)
(* Reading a GOG depot: a chunk wanted by several reads is downloaded once *)
(* by a task of its own, checked, and kept in a small cache; downloads     *)
(* share one secure link and API calls share one login, each renewed once  *)
(* when it is refused.                                                     *)
(*                                                                         *)
(* Links and tokens are numbered by the order GOG issued them; GOG refuses *)
(* any of them when it likes, and time may run out on the current ones.    *)
(***************************************************************************)
gogVars == <<cache, inflight, tasks, rd, link, linkLock, creds, saved, credsLock,
          issued, refused, stale>>

Fetches == 1..MaxFetches
NoTask == [pc |-> "off", chunk |-> None, link |-> 0, token |-> 0, again |-> FALSE, attempt |-> 0,
           relogin |-> FALSE]
NotReading == [pc |-> "idle", asked |-> 0, at |-> 0, from |-> <<>>]

GogInit ==
  /\ cache = <<>> /\ inflight = [c \in Chunks |-> None]
  /\ tasks = [f \in Fetches |-> NoTask]
  /\ rd = [r \in Readers |-> NotReading]
  /\ link = None /\ linkLock = None
  /\ creds = 1 /\ saved = 1 /\ credsLock = None
  /\ issued = 1 /\ refused = {} /\ stale = {}

taskVars == <<cache, inflight, rd>>
loginVars == <<creds, saved, credsLock>>

(***************************************************************************)
(* The reads.                                                              *)
(***************************************************************************)
read_at(r) ==
  /\ rd[r].pc = "idle"
  /\ rd' = [rd EXCEPT ![r].pc = "reading"]
  /\ UNCHANGED <<cache, inflight, tasks, link, linkLock, loginVars, issued, refused, stale>>

\* The next chunk of the read, while fewer than Ahead are under way: cached,
\* joined to the download of it under way, or a new one (the in-flight map is
\* locked across all of it).
chunk(r) ==
  LET c == Want[r][rd[r].asked + 1]
      hit == Contains(cache, c)
      new == {f \in Fetches : tasks[f].pc = "off"}
      f == CHOOSE g \in new : \A h \in new : g <= h IN
  /\ rd[r].pc = "reading" /\ rd[r].asked < Len(Want[r]) /\ rd[r].asked - rd[r].at < Ahead
  /\ hit \/ inflight[c] # None \/ new # {}
  /\ rd' = [rd EXCEPT ![r].asked = @ + 1,
       ![r].from = Append(@, IF hit THEN 0 ELSE IF inflight[c] # None THEN inflight[c] ELSE f)]
  /\ cache' = IF hit THEN Append(SelectSeq(cache, LAMBDA x : x # c), c) ELSE cache
  /\ IF hit \/ inflight[c] # None THEN UNCHANGED <<inflight, tasks>>
     ELSE /\ inflight' = [inflight EXCEPT ![c] = f]
          /\ tasks' = [tasks EXCEPT ![f] = [NoTask EXCEPT !.pc = "link", !.chunk = c]]
  /\ UNCHANGED <<link, linkLock, loginVars, issued, refused, stale>>

\* Its results in order; a failed one ends the read.
Splice(r) ==
  LET f == rd[r].from[rd[r].at + 1] IN
  /\ rd[r].pc = "reading" /\ rd[r].at < rd[r].asked
  /\ (f # 0 => tasks[f].pc \in {"ok", "failed"})
  /\ rd' = [rd EXCEPT ![r] =
       IF f = 0 \/ tasks[f].pc = "ok"
       THEN [@ EXCEPT !.at = @ + 1, !.pc = IF rd[r].at + 1 = Len(Want[r]) THEN "done" ELSE "reading"]
       ELSE [@ EXCEPT !.pc = "error"]]
  /\ UNCHANGED <<cache, inflight, tasks, link, linkLock, loginVars, issued, refused, stale>>

\* The caller gives the read up: the downloads go on.
Drop(r) ==
  /\ rd[r].pc = "reading"
  /\ rd' = [rd EXCEPT ![r].pc = "error"]
  /\ UNCHANGED <<cache, inflight, tasks, link, linkLock, loginVars, issued, refused, stale>>

(***************************************************************************)
(* A download.                                                             *)
(***************************************************************************)
LinkOK(l) == l # None /\ <<"link", l>> \notin stale

\* secure_link: the links are locked across the API call that gets a new one.
secure_link(f) ==
  /\ tasks[f].pc = "link" /\ linkLock = None
  /\ IF LinkOK(link)
     THEN tasks' = [tasks EXCEPT ![f].pc = "fetch", ![f].link = link, ![f].attempt = 1] /\ UNCHANGED linkLock
     ELSE tasks' = [tasks EXCEPT ![f].pc = "token", ![f].relogin = FALSE] /\ linkLock' = f
  /\ UNCHANGED <<taskVars, link, loginVars, issued, refused, stale>>

Fail(f) == [tasks EXCEPT ![f].pc = "failing"]

\* token and refresh_unless_done: under the login's lock; the old token may
\* have been replaced by another request meanwhile.
NeedsRefresh(f) == <<"token", creds>> \in stale \/ (tasks[f].relogin /\ creds = tasks[f].token)

token(f) ==
  /\ tasks[f].pc = "token" /\ credsLock = None
  /\ IF NeedsRefresh(f)
     THEN credsLock' = f /\ tasks' = [tasks EXCEPT ![f].pc = "refresh"]
     ELSE tasks' = [tasks EXCEPT ![f].pc = "call", ![f].token = creds] /\ UNCHANGED credsLock
  /\ UNCHANGED <<taskVars, link, linkLock, creds, saved, issued, refused, stale>>

\* New tokens, saved if the file can be written; or the login is no good.
refresh_locked(f) ==
  /\ tasks[f].pc = "refresh"
  /\ credsLock' = None
  /\ \/ /\ issued < MaxIssued /\ issued' = issued + 1
        /\ creds' = issued + 1
        /\ saved' \in {saved, issued + 1}
        /\ tasks' = [tasks EXCEPT ![f].pc = "call", ![f].token = issued + 1]
        /\ UNCHANGED linkLock
     \/ /\ tasks' = Fail(f) /\ linkLock' = None
        /\ UNCHANGED <<issued, creds, saved>>
  /\ UNCHANGED <<taskVars, link, refused, stale>>

\* The API call for the link: a 401 refreshes the login once.
get(f) ==
  LET t == tasks[f] IN
  /\ t.pc = "call"
  /\ \/ /\ t.token \notin refused /\ issued < MaxIssued
        /\ issued' = issued + 1 /\ link' = issued + 1 /\ linkLock' = None
        /\ tasks' = [tasks EXCEPT ![f].pc = "fetch", ![f].link = issued + 1, ![f].attempt = 1]
     \/ /\ t.token \in refused /\ ~t.relogin
        /\ tasks' = [tasks EXCEPT ![f].pc = "token", ![f].relogin = TRUE]
        /\ UNCHANGED <<issued, link, linkLock>>
     \/ /\ t.token \notin refused \/ t.relogin
        /\ tasks' = Fail(f) /\ linkLock' = None
        /\ UNCHANGED <<issued, link>>
  /\ UNCHANGED <<taskVars, loginVars, refused, stale>>

\* The chunk's bytes, checked: served when they verify, fetched again when
\* they do not; a refused link is dropped and renewed once.
download_chunk(f) ==
  LET t == tasks[f] IN
  /\ t.pc = "fetch"
  /\ tasks' =
       IF t.link \in refused
       THEN IF t.again THEN Fail(f) ELSE [tasks EXCEPT ![f].pc = "drop", ![f].again = TRUE]
       ELSE [tasks EXCEPT ![f].pc = "verify"]
  /\ UNCHANGED <<taskVars, link, linkLock, loginVars, issued, refused, stale>>

drop_secure_link_any(f) ==
  /\ tasks[f].pc = "drop" /\ linkLock = None
  /\ link' = None
  /\ tasks' = [tasks EXCEPT ![f].pc = "link"]
  /\ UNCHANGED <<taskVars, linkLock, loginVars, issued, refused, stale>>

drop_secure_link(f) ==
  /\ tasks[f].pc = "drop" /\ linkLock = None
  /\ link' = IF link = tasks[f].link THEN None ELSE link
  /\ tasks' = [tasks EXCEPT ![f].pc = "link"]
  /\ UNCHANGED <<taskVars, linkLock, loginVars, issued, refused, stale>>

verify_chunk_leaves(f) ==
  /\ tasks[f].pc = "verify"
  /\ tasks' = [tasks EXCEPT ![f].pc = "put"]
  /\ inflight' = [inflight EXCEPT ![tasks[f].chunk] = None]
  /\ UNCHANGED <<cache, rd, link, linkLock, loginVars, issued, refused, stale>>

verify_chunk(f) ==
  /\ tasks[f].pc = "verify"
  /\ \/ tasks' = [tasks EXCEPT ![f].pc = "put"]
     \/ tasks' = IF tasks[f].attempt < MaxAttempts
                 THEN [tasks EXCEPT ![f].pc = "fetch", ![f].attempt = @ + 1] ELSE Fail(f)
  /\ UNCHANGED <<taskVars, link, linkLock, loginVars, issued, refused, stale>>

\* ChunkLru::put: the least recently used go.
put(f) ==
  LET with == Append(cache, tasks[f].chunk)
      over == IF Len(with) > max_chunks THEN Len(with) - max_chunks ELSE 0 IN
  /\ tasks[f].pc = "put"
  /\ cache' = IF max_chunks = 0 \/ Contains(cache, tasks[f].chunk) THEN cache
              ELSE SubSeq(with, over + 1, Len(with))
  /\ tasks' = [tasks EXCEPT ![f].pc = "leaving"]
  /\ UNCHANGED <<inflight, rd, link, linkLock, loginVars, issued, refused, stale>>

\* The task leaves the map, and its waiters have their answer.
Leave(f) ==
  /\ tasks[f].pc \in {"leaving", "failing"}
  /\ inflight' = [inflight EXCEPT ![tasks[f].chunk] = None]
  /\ tasks' = [tasks EXCEPT ![f].pc = IF @ = "leaving" THEN "ok" ELSE "failed"]
  /\ UNCHANGED <<cache, rd, link, linkLock, loginVars, issued, refused, stale>>

Faulty == Cardinality(refused) + Cardinality(stale) < MaxFaults

Refuse ==
  /\ Faulty
  /\ \E n \in (1..issued) \ refused : refused' = refused \cup {n}
  /\ UNCHANGED <<taskVars, tasks, link, linkLock, loginVars, issued, stale>>

Expire ==
  /\ Faulty
  /\ \E x \in {<<"token", creds>>, <<"link", link>>} \ stale : x[2] # None /\ stale' = stale \cup {x}
  /\ UNCHANGED <<taskVars, tasks, link, linkLock, loginVars, issued, refused>>

GogNext ==
  \/ \E r \in Readers : read_at(r) \/ chunk(r) \/ Splice(r) \/ Drop(r)
  \/ \E f \in Fetches : \/ secure_link(f) \/ token(f) \/ refresh_locked(f) \/ get(f)
                        \/ download_chunk(f) \/ drop_secure_link(f) \/ verify_chunk(f)
                        \/ put(f) \/ Leave(f)
  \/ Refuse \/ Expire

GogSpec == GogInit /\ [][GogNext]_gogVars

(***************************************************************************)
(* Properties.                                                             *)
(***************************************************************************)
\* Types of the cache, the downloads, the reads and the login.
GogTypeOK ==
  /\ Len(cache) <= max_chunks /\ IsInjective(cache)
  /\ \A c \in Chunks : inflight[c] \in Fetches \cup {None}
  /\ \A f \in Fetches : tasks[f].attempt \in 0..MaxAttempts
  /\ \A r \in Readers : rd[r].at <= rd[r].asked /\ rd[r].asked <= Len(Want[r])
  /\ creds \in 1..issued /\ saved \in 1..creds

Running(f) == tasks[f].pc \notin {"off", "ok", "failed"}

\* A chunk is never downloaded twice at once, nor downloaded while the cache
\* has it: a download is in the map until its chunk is in the cache.
OneDownload ==
  \A f \in Fetches : Running(f) =>
    /\ inflight[tasks[f].chunk] = f
    /\ Contains(cache, tasks[f].chunk) => tasks[f].pc \in {"leaving"}

\* A link or a token is dropped or replaced only when it was refused or ran
\* out: a refusal that comes late does not throw the renewed one away.
RenewedOnceStep ==
  /\ link # None /\ link' # link => link \in refused \/ ~LinkOK(link)
  /\ creds' # creds => creds \in refused \/ <<"token", creds>> \in stale

RenewedOnce == [][RenewedOnceStep]_gogVars

(***************************************************************************)
(* The read-only trees built from a download's file list: the Nexus zip's  *)
(* entries, and the manifests of GOG and Steam depots.  Each builder adds  *)
(* one path at a time; a lookup folds case, a listing keeps the spelling   *)
(* of whoever came first.                                                  *)
(*                                                                         *)
(* A path is a sequence of names; Fold gives each name its folded form.    *)
(***************************************************************************)
depotVars == <<by_path, seen, opens, got>>

Key(path) == [i \in 1..Len(path) |-> Fold[path[i]]]
Parent(k) == SubSeq(k, 1, Len(k) - 1)
Dir(name) == [name |-> name, dir |-> TRUE, children |-> <<>>, of |-> 0]
File(name, n) == [name |-> name, dir |-> FALSE, children |-> <<>>, of |-> n]

DepotInit ==
  /\ by_path = [k \in {<<>>} |-> Dir(None)]
  /\ seen = <<>>
  /\ opens = [h \in Handles |-> None]
  /\ got = None

Lookup(t, k) == IF k \in DOMAIN t THEN t[k] ELSE None

push_unlisted(t, k, node) == [j \in DOMAIN t \cup {k} |-> IF j = k THEN node ELSE t[j]]

\* A new node at key k, listed by its parent.
push(t, k, node) ==
  [j \in DOMAIN t \cup {k} |->
     IF j = k THEN node
     ELSE IF j = Parent(k) THEN [t[j] EXCEPT !.children = Append(@, k)] ELSE t[j]]

\* Nexus: a directory takes the place of a file of that name.
NexusDir(t, path, i) ==
  LET k == Key(SubSeq(path, 1, i))
      n == Lookup(t, k) IN
  IF n = None THEN push(t, k, Dir(path[i]))
  ELSE IF n.dir THEN t
  ELSE [t EXCEPT ![k] = Dir(n.name)]

NexusFile(t, path, entry) ==
  IF Lookup(t, Key(path)) # None THEN t
  ELSE push(t, Key(path), File(path[Len(path)], entry))

nexus_new(t, e, n) ==
  LET dirs == FoldLeftDomain(LAMBDA acc, i : IF i < Len(e.path) \/ e.dir THEN NexusDir(acc, e.path, i) ELSE acc,
                             t, e.path)
  IN IF e.dir THEN dirs ELSE NexusFile(dirs, e.path, n)

\* GOG: directories as the path implies them, and nothing at all for a path
\* that runs through a file (though the directories before it stay).
RunsThrough(t, path) ==
  {i \in 1..(Len(path) - 1) : LET d == Lookup(t, Key(SubSeq(path, 1, i))) IN d # None /\ ~d.dir}

Dirs(t, path) ==
  FoldLeftDomain(LAMBDA acc, i :
    IF i < Len(path) /\ (\A j \in RunsThrough(t, path) : i < j)
       /\ Lookup(acc, Key(SubSeq(path, 1, i))) = None
    THEN push(acc, Key(SubSeq(path, 1, i)), Dir(path[i])) ELSE acc, t, path)

add_file(t, e, n) ==
  IF e.dir \/ e.path \in Unreadable THEN t
  ELSE LET d == Dirs(t, e.path) IN
       IF RunsThrough(t, e.path) # {} \/ Lookup(d, Key(e.path)) # None THEN d
       ELSE push(d, Key(e.path), File(e.path[Len(e.path)], n))

\* Steam: the same, but a file that cannot be opened leaves its directories.
steam_new(t, e, n) ==
  IF e.dir THEN t
  ELSE LET d == Dirs(t, e.path) IN
       IF \/ RunsThrough(t, e.path) # {} \/ Lookup(d, Key(e.path)) # None
          \/ e.path \in Unreadable
       THEN d
       ELSE push(d, Key(e.path), File(e.path[Len(e.path)], n))

Add(e) ==
  /\ Len(seen) < MaxEntries
  /\ \A h \in Handles : opens[h] = None
  /\ seen' = Append(seen, e)
  /\ by_path' = CASE Store = "nexus" -> nexus_new(by_path, e, Len(seen) + 1)
                  [] Store = "gog" -> add_file(by_path, e, Len(seen) + 1)
                  [] Store = "steam" -> steam_new(by_path, e, Len(seen) + 1)
  /\ UNCHANGED <<opens, got>>

(***************************************************************************)
(* The provider: the list is complete and the tree no longer changes.  A   *)
(* handle of a directory is given out but not kept.                        *)
(***************************************************************************)
open(h, p) ==
  /\ Len(seen) = MaxEntries /\ opens[h] = None
  /\ Lookup(by_path, Key(p)) # None
  /\ opens' = [opens EXCEPT ![h] = IF by_path[Key(p)].dir THEN [dir |-> TRUE, of |-> 0]
                                   ELSE [dir |-> FALSE, of |-> by_path[Key(p)].of]]
  /\ UNCHANGED <<by_path, seen, got>>

close(h) ==
  /\ opens[h] # None
  /\ opens' = [opens EXCEPT ![h] = None]
  /\ UNCHANGED <<by_path, seen, got>>

\* Up to the end of the file and to MAX_READ.  On a worker thread of the runtime
\* the read is refused, and a fetch may fail.
depot_read_at(h, off, want) ==
  /\ opens[h] # None /\ (opens[h] # None => ~opens[h].dir)
  /\ got' \in {[of |-> opens[h].of, off |-> off, want |-> want, n |-> n] :
                n \in IF off >= SizeOf \/ want = 0 THEN {0} ELSE {-1, Min({SizeOf - off, want, MAX_READ})}}
  /\ UNCHANGED <<by_path, seen, opens>>

DepotNext == \/ \E e \in Paths : Add(e)
        \/ \E h \in Handles : \/ close(h) \/ \E e \in Paths : open(h, e.path)
                              \/ \E off \in 0..(SizeOf + 1), want \in 0..SizeOf : depot_read_at(h, off, want)

DepotSpec == DepotInit /\ [][DepotNext]_depotVars

(***************************************************************************)
(* Properties.                                                             *)
(***************************************************************************)
\* Types of the nodes and the handles.
DepotTypeOK ==
  /\ \A k \in DOMAIN by_path : by_path[k].dir \in BOOLEAN /\ by_path[k].of \in 0..Len(seen)
  /\ \A h \in Handles : opens[h] # None => opens[h].of \in 0..Len(seen)

\* A name is listed, once and in its own directory, exactly when it can be
\* looked up: what readdir shows and what getattr finds are the same tree.
ListedIsFound ==
  \A k \in DOMAIN by_path :
    /\ k # <<>> => Parent(k) \in DOMAIN by_path /\ by_path[Parent(k)].dir
    /\ IsInjective(by_path[k].children)
    /\ ToSet(by_path[k].children) = {j \in DOMAIN by_path : j # <<>> /\ Parent(j) = k}

\* A file is served from the first entry of its path, up to case: an earlier
\* depot, and in one list an earlier entry, wins.
FirstServes ==
  \A k \in DOMAIN by_path : ~by_path[k].dir =>
    /\ Key(seen[by_path[k].of].path) = k /\ by_path[k].name = Last(seen[by_path[k].of].path)
    /\ \A n \in 1..(by_path[k].of - 1) : ~seen[n].dir /\ Key(seen[n].path) = k => seen[n].path \in Unreadable

\* Every file of the list is there, or a file or directory of an earlier entry
\* is in its way, or (Nexus) a later directory took its place.
NothingLost ==
  \A n \in 1..Len(seen) :
    LET k == Key(seen[n].path) IN
    seen[n].dir \/ seen[n].path \in Unreadable \/ k \in DOMAIN by_path
      \/ (Store # "nexus" /\ \E i \in 1..(Len(k) - 1) :
            SubSeq(k, 1, i) \in DOMAIN by_path /\ ~by_path[SubSeq(k, 1, i)].dir)
\* A read gives bytes of the entry its handle was opened on, never past its end,
\* and nothing only at the end.
ReadsWithin ==
  got # None =>
    /\ got.of \in {by_path[k].of : k \in DOMAIN by_path} \ {0}
    /\ got.n > 0 => got.off + got.n <= SizeOf /\ got.n <= got.want
    /\ got.n = 0 <=> (got.off >= SizeOf \/ got.want = 0)
==============================================================================
