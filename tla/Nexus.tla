-------------------------------- MODULE Nexus --------------------------------
(***************************************************************************)
(* The Nexus downloader: the download links and who asks for them, the     *)
(* request allowance, and the offsets of an archive read through a link.   *)
(* Each section is a state machine of its own; they share no state.        *)
(***************************************************************************)
EXTENDS Integers, Sequences, FiniteSets, FiniteSetsExt, SequencesExt

CONSTANTS
    \* links
    Uids, Readers,
    MaxLinks,   \* links the API signs
    Life,   \* how long a link lives
    MaxNow,   \* the clock stops here
    EXPIRY_MARGIN, LINK_SAVE_INTERVAL,
    MaxCrashes,
    \* quota
    Callers,
    Names,   \* the allowances: "hourly", "daily"
    Limit, Period,   \* of each, how many requests and how long it lasts
    max_attempts, MAX_ALLOWANCE_WAIT, QUOTA_MAX_AGE,
    SLACK,   \* "a little past the reset"
    MaxCalls,
    \* archive
    Ids,
    Entry,   \* [lh, hdr, extra, stored, sizes, mapped, table]: where the
                  \* local header is, the length of its fixed part and name, of
                  \* its extra field, the frames' compressed sizes, whether the
                  \* directory has the frame map, and how long the in-stream
                  \* seek table after the frames is
    FileLen, MAX_REQUEST, LOCAL_EXTRA_GUESS, HEADER_JOIN, SEEK_TABLE_TAIL,
    Spans, Offsets,   \* the offsets an earlier run may have saved
    MaxReads,
    None

VARIABLES
    \* links
    now, urls, file, dirty, last_save, saving, writing, savers, partials,
    fetches, issued, refused, rd, crashes,
    \* quota
    left, resets, readings, calls, made,
    \* archive
    data, restored, seekable, learned, spans, reads

(***************************************************************************)
(* The signed download links of aether-nexus: the client's cache of them,  *)
(* one API request per file however many readers need its link, the one    *)
(* renewal of a link the file host refuses, and the link file that keeps   *)
(* them from one run to the next.                                          *)
(*                                                                         *)
(* A link is a number (which one the API signed) and its expiry; the API   *)
(* signs, and the file host refuses, as they please.                       *)
(***************************************************************************)
linksVars == <<now, urls, file, dirty, last_save, saving, writing, savers, partials,
          fetches, issued, refused, rd, crashes>>

saverVars == <<saving, writing, savers, partials>>
hostVars == <<now, issued, refused, crashes>>

Savers == {"background", "save_links"}
Idle == [pc |-> "idle", uid |-> None, url |-> None, again |-> FALSE]
Off == [pc |-> "off", snap |-> None]
None_ == [u \in Uids |-> None]

valid(s) == s # None /\ s.exp > now + EXPIRY_MARGIN

LinksInit ==
  /\ now = 0 /\ urls = None_ /\ file = None_ /\ dirty = FALSE /\ last_save = 0
  /\ saving = FALSE /\ writing = None /\ savers = [s \in Savers |-> Off]
  /\ partials = {} /\ fetches = None_ /\ issued = 0 /\ refused = {}
  /\ rd = [r \in Readers |-> Idle] /\ crashes = 0

(***************************************************************************)
(* A reader: with_url around download_url.                                 *)
(***************************************************************************)
cached_url(u) == IF valid(urls[u]) THEN urls[u] ELSE None

with_url(r, u) ==
  /\ rd[r].pc = "idle"
  /\ rd' = [rd EXCEPT ![r] = [Idle EXCEPT !.pc = "url", !.uid = u]]
  /\ UNCHANGED <<urls, file, dirty, last_save, saverVars, fetches, hostVars>>

\* The cached link, or a place in the queue for the uid's lock.
download_url(r) ==
  /\ rd[r].pc = "url"
  /\ LET c == cached_url(rd[r].uid)
     IN rd' = [rd EXCEPT ![r].url = c, ![r].pc = IF c # None THEN "use" ELSE "lock"]
  /\ UNCHANGED <<urls, file, dirty, last_save, saverVars, fetches, hostVars>>

\* The uid's lock, and a second look at the cache under it.
fetch_lock(r) ==
  LET u == rd[r].uid
      c == cached_url(u) IN
  /\ rd[r].pc = "lock" /\ fetches[u] = None
  /\ rd' = [rd EXCEPT ![r].url = c, ![r].pc = IF c # None THEN "use" ELSE "api"]
  /\ fetches' = [fetches EXCEPT ![u] = IF c # None THEN None ELSE r]
  /\ UNCHANGED <<urls, file, dirty, last_save, saverVars, hostVars>>

\* The API answers: the link is cached, or the call fails and gives the lock up.
api_call(r) ==
  LET u == rd[r].uid
      s == [n |-> issued + 1, exp |-> now + Life] IN
  /\ rd[r].pc = "api"
  /\ \/ /\ issued < MaxLinks
        /\ issued' = issued + 1
        /\ urls' = [urls EXCEPT ![u] = s]
        /\ rd' = [rd EXCEPT ![r].url = s, ![r].pc = "signed"]
        /\ UNCHANGED fetches
     \/ /\ rd' = [rd EXCEPT ![r] = Idle]
        /\ fetches' = [fetches EXCEPT ![u] = None]
        /\ UNCHANGED <<issued, urls>>
  /\ UNCHANGED <<now, file, dirty, last_save, saverVars, refused, crashes>>

\* Store the flag; start a background save when the last one is long ago and
\* none is running.
Schedules == now - last_save >= LINK_SAVE_INTERVAL /\ ~saving

links_changed(r) ==
  /\ rd[r].pc \in {"signed", "dropped"}
  /\ dirty' = TRUE
  /\ saving' = (saving \/ Schedules)
  /\ savers' = IF Schedules THEN [savers EXCEPT !["background"].pc = "lock"] ELSE savers
  /\ rd' = [rd EXCEPT ![r].pc = IF @ = "signed" THEN "use" ELSE "url"]
  /\ fetches' = IF rd[r].pc = "signed" THEN [fetches EXCEPT ![rd[r].uid] = None] ELSE fetches
  /\ UNCHANGED <<urls, file, last_save, writing, partials, hostVars>>

\* Drop the cached link if it is still the refused one.
forget_refused_any(r) ==
  LET u == rd[r].uid IN
  IF urls[u] # None
  THEN urls' = [urls EXCEPT ![u] = None] /\ rd' = [rd EXCEPT ![r].pc = "dropped", ![r].again = TRUE]
  ELSE UNCHANGED urls /\ rd' = [rd EXCEPT ![r].pc = "url", ![r].again = TRUE]

forget_refused(r) ==
  LET u == rd[r].uid IN
  IF urls[u] = rd[r].url
  THEN urls' = [urls EXCEPT ![u] = None] /\ rd' = [rd EXCEPT ![r].pc = "dropped", ![r].again = TRUE]
  ELSE UNCHANGED urls /\ rd' = [rd EXCEPT ![r].pc = "url", ![r].again = TRUE]

\* The request to the file host: a link it refuses is forgotten and renewed,
\* once; a second refusal, or any other error, is the caller's.
link_refused(r) == rd[r].url.n \in refused \/ now >= rd[r].url.exp

Use(r) ==
  /\ rd[r].pc = "use"
  /\ IF link_refused(r) /\ ~rd[r].again
     THEN forget_refused(r)
     ELSE rd' = [rd EXCEPT ![r] = Idle] /\ UNCHANGED urls
  /\ UNCHANGED <<file, dirty, last_save, saverVars, fetches, hostVars>>

(***************************************************************************)
(* Links::save, run by the background save and by save_links.              *)
(***************************************************************************)
save_links ==
  /\ savers["save_links"].pc = "off"
  /\ savers' = [savers EXCEPT !["save_links"].pc = "lock"]
  /\ UNCHANGED <<urls, file, dirty, last_save, saving, writing, partials, fetches, rd, hostVars>>

Return(s) ==
  /\ writing' = None
  /\ savers' = [savers EXCEPT ![s] = Off]
  /\ saving' = (IF s = "background" THEN FALSE ELSE saving)

\* One writer at a time; the flag is taken before the links are copied.
SaveBegin(s) ==
  /\ savers[s].pc = "lock" /\ writing = None
  /\ dirty' = FALSE
  /\ IF dirty
     THEN writing' = s /\ savers' = [savers EXCEPT ![s].pc = "copy"] /\ UNCHANGED saving
     ELSE Return(s)
  /\ UNCHANGED <<urls, file, last_save, partials, fetches, rd, hostVars>>

\* Expired links are dropped from memory too; the temp file is made.
SaveCopy(s) ==
  LET kept == [u \in Uids |-> IF valid(urls[u]) THEN urls[u] ELSE None] IN
  /\ savers[s].pc = "copy"
  /\ urls' = kept
  /\ savers' = [savers EXCEPT ![s] = [pc |-> "write", snap |-> kept]]
  /\ partials' = partials \cup {s}
  /\ UNCHANGED <<file, dirty, last_save, saving, writing, fetches, rd, hostVars>>

\* Rename over the file, or remove the temp file and leave the links dirty.
SaveWrite_forgets(s) ==
  /\ savers[s].pc = "write"
  /\ file' \in {savers[s].snap, file}
  /\ partials' = partials \ {s}
  /\ last_save' = now
  /\ Return(s)
  /\ UNCHANGED <<urls, dirty, fetches, rd, hostVars>>

SaveWrite(s) ==
  /\ savers[s].pc = "write"
  /\ \/ file' = savers[s].snap /\ UNCHANGED dirty
     \/ dirty' = TRUE /\ UNCHANGED file
  /\ partials' = partials \ {s}
  /\ last_save' = now
  /\ Return(s)
  /\ UNCHANGED <<urls, fetches, rd, hostVars>>

(***************************************************************************)
(* The process ends at any point; the next run loads the file, after the   *)
(* temp files of saves that never finished are gone.                       *)
(***************************************************************************)
load ==
  /\ crashes < MaxCrashes /\ crashes' = crashes + 1
  /\ urls' = [u \in Uids |-> IF valid(file[u]) THEN file[u] ELSE None]
  /\ partials' = {}
  /\ dirty' = FALSE /\ last_save' = now /\ saving' = FALSE /\ writing' = None
  /\ savers' = [s \in Savers |-> Off] /\ fetches' = None_
  /\ rd' = [r \in Readers |-> Idle]
  /\ UNCHANGED <<now, file, issued, refused>>

Refuse ==
  /\ \E n \in (1..issued) \ refused : refused' = refused \cup {n}
  /\ UNCHANGED <<now, urls, file, dirty, last_save, saverVars, fetches, issued, rd, crashes>>

Tick ==
  /\ now < MaxNow /\ now' = now + 1
  /\ UNCHANGED <<urls, file, dirty, last_save, saverVars, fetches, issued, refused, rd, crashes>>

LinksNext ==
  \/ \E r \in Readers, u \in Uids : with_url(r, u)
  \/ \E r \in Readers : \/ download_url(r) \/ fetch_lock(r) \/ api_call(r)
                        \/ links_changed(r) \/ Use(r)
  \/ save_links
  \/ \E s \in Savers : SaveBegin(s) \/ SaveCopy(s) \/ SaveWrite(s)
  \/ load \/ Refuse \/ Tick

LinksSpec == LinksInit /\ [][LinksNext]_linksVars

(***************************************************************************)
(* Properties.                                                             *)
(***************************************************************************)
Link == [n : 1..MaxLinks, exp : 0..(MaxNow + Life)]

\* Types of the client's, the readers' and the savers' state.
LinksTypeOK ==
  /\ now \in 0..MaxNow /\ last_save \in 0..MaxNow /\ issued \in 0..MaxLinks
  /\ \A u \in Uids : urls[u] \in Link \cup {None} /\ file[u] \in Link \cup {None}
  /\ dirty \in BOOLEAN /\ saving \in BOOLEAN /\ writing \in Savers \cup {None}
  /\ \A r \in Readers : rd[r].pc \in {"idle", "url", "lock", "api", "signed", "use", "dropped"}
  /\ \A u \in Uids : fetches[u] \in Readers \cup {None}
  /\ \A s \in Savers : savers[s].pc \in {"off", "lock", "copy", "write"}

\* Readers that miss the cache together make one request: download_url's lock
\* and its second look under it.
OneRequest ==
  \A r, q \in Readers : /\ rd[r].pc \in {"api", "signed"} /\ rd[q].pc \in {"api", "signed"}
                        /\ rd[r].uid = rd[q].uid
                        => r = q

\* When nothing is marked as changed, no change is about to be marked and no
\* save is running, the link file holds exactly the links a reader would use:
\* the flag is taken before the copy, and put back when the write fails.
CleanIsSaved ==
  /\ ~dirty /\ writing = None
  /\ \A r \in Readers : rd[r].pc \notin {"signed", "dropped"}
  => \A u \in Uids : \/ urls[u] = file[u]
                     \/ ~valid(urls[u]) /\ ~valid(file[u])

\* Temp files of the link file, which hold links, outlive only a save that is
\* running: the next run removes those of a save that was cut off.
PartialsOwned == \A s \in partials : savers[s].pc = "write"

\* A link leaves the cache for the file host's refusal, its expiry, a newer
\* one, or the end of the process: a reader whose refusal comes late does not
\* drop the link that another reader has put in its place.
FreshKeptStep ==
  \A u \in Uids : urls[u] # None /\ urls'[u] = None /\ crashes' = crashes
                  => urls[u].n \in refused \/ ~valid(urls[u])

FreshKept == [][FreshKeptStep]_linksVars

(***************************************************************************)
(* The API allowances of a Nexus account as aether-nexus follows them: the *)
(* API reports the day's and the hour's remaining requests in every        *)
(* response, the responses are handled in any order, and a call that is    *)
(* told it is out of requests waits for the first allowance to come back.  *)
(***************************************************************************)
quotaVars == <<now, left, resets, readings, calls, made>>

NotCalling == [pc |-> "idle", attempt |-> 0, reply |-> None, until |-> 0, refused |-> 0]

QuotaInit ==
  /\ now = 0
  /\ left = [b \in Names |-> Limit[b]]
  /\ resets = [b \in Names |-> Period[b]]
  /\ readings = [b \in Names |-> None]
  /\ calls = [c \in Callers |-> NotCalling]
  /\ made = 0

(***************************************************************************)
(* The API: the day's allowance first, then the hour's; 429 with neither.  *)
(***************************************************************************)
Serve(c) ==
  /\ calls[c].pc = "sent"
  /\ LET open == {b \in Names : left[b] > 0}
         b == IF "daily" \in open THEN "daily" ELSE CHOOSE n \in open : TRUE
         l == IF open = {} THEN left ELSE [left EXCEPT ![b] = @ - 1] IN
     /\ left' = l
     /\ calls' = [calls EXCEPT ![c].pc = "answered", ![c].refused = now,
                               ![c].reply = [ok |-> open # {}, left |-> l, resets |-> resets]]
  /\ UNCHANGED <<now, resets, readings, made>>

QuotaTick ==
  /\ now < MaxNow
  /\ now' = now + 1
  /\ left' = [b \in Names |-> IF resets[b] = now + 1 THEN Limit[b] ELSE left[b]]
  /\ resets' = [b \in Names |-> IF resets[b] = now + 1 THEN resets[b] + Period[b] ELSE resets[b]]
  /\ UNCHANGED <<readings, calls, made>>

(***************************************************************************)
(* The readings.                                                           *)
(***************************************************************************)
current(r) == r # None /\ now < r.reset /\ now - r.at <= QUOTA_MAX_AGE

replace_newest(old, newer) == [remaining |-> newer.remaining, reset |-> newer.reset, at |-> now]

\* Before the same reset an allowance only shrinks: the lower count is the
\* later one, whichever response is handled last.
replace(old, newer) ==
  [remaining |-> IF old # None /\ old.reset = newer.reset
                 THEN Min({old.remaining, newer.remaining}) ELSE newer.remaining,
   reset |-> newer.reset, at |-> now]

update(reply) ==
  [b \in Names |-> replace(readings[b], [remaining |-> reply.left[b], reset |-> reply.resets[b]])]

quota == {b \in Names : current(readings[b])}

(***************************************************************************)
(* A call.                                                                 *)
(***************************************************************************)
quota_api_call(c) ==
  /\ calls[c].pc = "idle" /\ made < MaxCalls
  /\ made' = made + 1
  /\ calls' = [calls EXCEPT ![c].pc = "sent", ![c].attempt = 1]
  /\ UNCHANGED <<now, left, resets, readings>>

\* How long to wait after a 429: until the first of the used-up allowances
\* resets, if that is soon enough; None when none was reported.
allowance_wait(q) ==
  LET used == {q[b].reset : b \in {n \in Names : current(q[n]) /\ q[n].remaining = 0}}
      wait == Min(used) + SLACK - now
  IN IF used = {} THEN None ELSE IF wait > MAX_ALLOWANCE_WAIT THEN None ELSE wait

\* One response, and what follows: the caller's answer, another attempt (not
\* when the response asks for too long a delay), the wait, or the RateLimited
\* error.
api_attempt(c) == \E long \in BOOLEAN :
  LET k == calls[c]
      w == allowance_wait(readings') IN
  /\ k.pc = "answered"
  /\ readings' = update(k.reply)
  /\ calls' = [calls EXCEPT ![c] =
       IF k.reply.ok THEN NotCalling
       ELSE IF k.attempt < max_attempts /\ ~long THEN [k EXCEPT !.pc = "sent", !.attempt = @ + 1]
       ELSE IF w = None THEN NotCalling
       ELSE [k EXCEPT !.pc = "sleep", !.until = now + w]]
  /\ UNCHANGED <<now, left, resets, made>>

Wake(c) ==
  /\ calls[c].pc = "sleep" /\ now >= calls[c].until
  /\ calls' = [calls EXCEPT ![c].pc = "sent", ![c].attempt = 1]
  /\ UNCHANGED <<now, left, resets, readings, made>>

QuotaNext == \/ QuotaTick
        \/ \E c \in Callers : Serve(c) \/ quota_api_call(c) \/ api_attempt(c) \/ Wake(c)

QuotaSpec == QuotaInit /\ [][QuotaNext]_quotaVars

(***************************************************************************)
(* Properties.                                                             *)
(***************************************************************************)
\* Types of the allowances, the readings and the calls.
QuotaTypeOK ==
  /\ now \in 0..MaxNow /\ made \in 0..MaxCalls
  /\ \A b \in Names : /\ left[b] \in 0..Limit[b] /\ resets[b] > now
                      /\ readings[b] = None \/ readings[b].remaining \in 0..Limit[b]
  /\ \A c \in Callers : calls[c].pc \in {"idle", "sent", "answered", "sleep"}

\* With no response under way, what quota() reports for the running hour or
\* day is exactly what the account has left: Reading::replace keeps the lower
\* of two counts with one reset, so the order of handling does not matter.
ReadingsExact ==
  (\A c \in Callers : calls[c].pc # "answered")
    => \A b \in quota : readings[b].reset = resets[b] => readings[b].remaining = left[b]

\* A call that waited for an allowance goes on only when one came back: between
\* its last 429 and its next request an allowance was reset (allowance_wait
\* takes the first reset of a used-up one that is still to come).
WokenAfterResetStep ==
  \A c \in Callers : calls[c].pc = "sleep" /\ calls'[c].pc = "sent"
    => \E b \in Names : resets[b] - Period[b] \in (calls[c].refused + 1)..now

WokenAfterReset == [][WokenAfterResetStep]_quotaVars

(***************************************************************************)
(* Random access into a repacked Nexus zip over range requests: the layout *)
(* of an entry is learned from its local header together with the first    *)
(* bytes read, its frame map from the directory or the data's tail, and    *)
(* raw ranges can be prefetched and served from memory.                    *)
(*                                                                         *)
(* A byte is the position it has in the file, so a read is right when it   *)
(* returns the positions its entry's data really has; a range <<a, b>>     *)
(* holds a..b-1.  A frame decodes only from its own bytes (its checksum);  *)
(* a stored byte has no checksum.                                          *)
(***************************************************************************)
archiveVars == <<data, restored, seekable, learned, spans, rd, reads>>

Pos(r) == r[1]..(r[2] - 1)
Clip(n) == IF n < FileLen THEN n ELSE FileLen
Total(s) == FoldSeq(LAMBDA x, y : x + y, 0, s)
csize(i) == Total(Entry[i].sizes) + Entry[i].table
TrueStart(i) == Entry[i].lh + Entry[i].hdr + Entry[i].extra
\* Compressed bytes of frames a..b (of a stored entry: bytes a..b) in the data.
Rel(i, a, b) == <<Total(SubSeq(Entry[i].sizes, 1, a - 1)), Total(SubSeq(Entry[i].sizes, 1, b))>>
At(start, rel) == <<start + rel[1], start + rel[2]>>

ArchiveIdle == [pc |-> "idle", id |-> None, a |-> 1, b |-> 0, rel |-> <<0, 0>>, want |-> <<0, 0>>,
         stage |-> "", buf |-> {}, lo |-> 0, out |-> {}, done |-> 0, chain |-> {},
         sent |-> {}, by |-> {}]

(***************************************************************************)
(* from_index_with_offsets: a saved offset that cannot be right, or of an  *)
(* entry whose bytes carry no checksum, is ignored.                        *)
(***************************************************************************)
NextHeader(i) == Min({Entry[j].lh : j \in {k \in Ids : Entry[k].lh > Entry[i].lh}} \cup {FileLen})
InBounds(i, o) == o >= Entry[i].lh + Entry[i].hdr /\ o + csize(i) <= NextHeader(i)

plausible_any(i, o) == InBounds(i, o)
plausible(i, o) == ~Entry[i].stored /\ InBounds(i, o)

ArchiveInit ==
  /\ \E saved \in [Ids -> Offsets \cup {None}] :
       data = [i \in Ids |-> IF saved[i] = None THEN None
                             ELSE IF plausible(i, saved[i]) THEN saved[i] ELSE None]
  /\ restored = [i \in Ids |-> data[i] # None]
  /\ seekable = [i \in Ids |-> FALSE]
  /\ learned = 0
  /\ spans = [s \in Spans |-> None]
  /\ rd = [r \in Readers |-> ArchiveIdle]
  /\ reads = 0

\* The first start recorded is kept.
set_data(i, start) ==
  /\ data' = [data EXCEPT ![i] = IF @ = None THEN start ELSE @]
  /\ learned' = IF data[i] = None THEN learned + 1 ELSE learned

(***************************************************************************)
(* Remote::get.  buffered finds spans that cover the range under the lock  *)
(* and then waits for each of them; one that failed, or whose lease was    *)
(* dropped while it was downloading, sends the read to the file host.      *)
(***************************************************************************)
Listed == {s \in Spans : spans[s] # None /\ spans[s].listed}

Get(q, want, stage) ==
  LET cover == {s \in Listed : Pos(spans[s].range) \cap Pos(want) # {}}
      covered == Pos(want) # {} /\ Pos(want) \subseteq UNION {Pos(spans[s].range) : s \in cover} IN
  [q EXCEPT !.want = want, !.stage = stage, !.pc = IF covered THEN "wait" ELSE "fetch",
            !.chain = IF covered THEN cover ELSE {}]

buffered(r) ==
  LET q == rd[r] IN
  /\ q.pc = "wait"
  /\ \A s \in q.chain : spans[s].state # "pending"
  /\ rd' = [rd EXCEPT ![r].pc = IF \A s \in q.chain : spans[s].state = "ready" THEN "got" ELSE "fetch"]
  /\ UNCHANGED <<data, restored, seekable, learned, spans, reads>>

\* A range past the end is refused; a failed request ends the read.
fetch(r) ==
  /\ rd[r].pc = "fetch"
  /\ \/ rd[r].want[2] <= FileLen /\ rd' = [rd EXCEPT ![r].pc = "got", ![r].sent = @ \cup {rd[r].stage}]
     \/ rd' = [rd EXCEPT ![r] = ArchiveIdle]
  /\ UNCHANGED <<data, restored, seekable, learned, spans, reads>>

(***************************************************************************)
(* What a read asks for next.                                              *)
(***************************************************************************)
min_data(i) == Entry[i].lh + Entry[i].hdr
guess_end_short(i, rel) == Clip(min_data(i) + rel[2])

guess_end(i, rel) == Clip(min_data(i) + LOCAL_EXTRA_GUESS + rel[2])

fetch_with_header(q, rel) ==
  LET i == q.id IN
  IF rel[1] <= HEADER_JOIN
  THEN Get([q EXCEPT !.rel = rel], <<Entry[i].lh, guess_end(i, rel)>>, "joined")
  ELSE Get([q EXCEPT !.rel = rel], <<Entry[i].lh, Clip(min_data(i) + LOCAL_EXTRA_GUESS)>>, "header")

\* The last frame of the first run of frames a..b: at most MAX_REQUEST bytes.
RunEnd(i, a, b) ==
  Max({a} \cup {k \in a..b : Rel(i, a, k)[2] - Rel(i, a, k)[1] <= MAX_REQUEST})

TailRel(i) == <<csize(i) - (IF csize(i) < SEEK_TABLE_TAIL THEN csize(i) ELSE SEEK_TABLE_TAIL), csize(i)>>

Run(q) == LET e == RunEnd(q.id, q.done + 1, q.b) IN
  Get([q EXCEPT !.rel = Rel(q.id, q.done + 1, e)],
      At(data[q.id], Rel(q.id, q.done + 1, e)), "run")

read_range_inner(q) ==
  LET i == q.id IN
  IF Entry[i].stored
  THEN IF data[i] # None THEN Get([q EXCEPT !.rel = Rel(i, q.a, q.b)], At(data[i], Rel(i, q.a, q.b)), "run")
       ELSE fetch_with_header(q, Rel(i, q.a, q.b))
  ELSE IF seekable[i] \/ (Entry[i].mapped /\ data[i] # None) THEN Run(q)
  ELSE IF Entry[i].mapped THEN fetch_with_header(q, Rel(i, q.a, RunEnd(i, q.a, q.b)))
  ELSE IF data[i] # None THEN Get([q EXCEPT !.rel = TailRel(i)], At(data[i], TailRel(i)), "tail")
  ELSE fetch_with_header(q, TailRel(i))

\* (by: the ready spans that were prefetched for this very read.)
Begin(r, i, a, b) ==
  [ArchiveIdle EXCEPT !.pc = "start", !.id = i, !.a = a, !.b = b, !.done = a - 1,
               !.by = {s \in Listed : spans[s].state = "ready"
                                      /\ spans[s].of = <<i, a, b, data[i], seekable[i]>>}]

read_range(r, i, a, b) ==
  /\ rd[r].pc = "idle" /\ reads < MaxReads /\ reads' = reads + 1
  /\ rd' = [rd EXCEPT ![r] = read_range_inner(Begin(r, i, a, b))]
  /\ seekable' = [seekable EXCEPT ![i] = @ \/ (Entry[i].mapped /\ data[i] # None)]
  /\ UNCHANGED <<data, restored, learned, spans>>

\* The whole entry: header and data in one request while the layout is unknown.
read_entry(r, i) ==
  /\ rd[r].pc = "idle" /\ reads < MaxReads /\ reads' = reads + 1
  /\ data[i] = None
  /\ rd' = [rd EXCEPT ![r] =
       [fetch_with_header(Begin(r, i, 1, Len(Entry[i].sizes)), <<0, csize(i)>>) EXCEPT !.lo = -1]]
  /\ UNCHANGED <<data, restored, seekable, learned, spans>>

(***************************************************************************)
(* The answers.                                                            *)
(***************************************************************************)
\* Frames decode only from their own bytes; a stored read takes what it got.
Decodes(i, rel, bytes) == Entry[i].stored \/ bytes = Pos(At(TrueStart(i), rel))

Finish(q, bytes, rel, last) ==
  IF ~Decodes(q.id, rel, bytes) THEN ArchiveIdle
  ELSE LET f == [q EXCEPT !.out = @ \cup bytes, !.done = last] IN
       IF last >= q.b THEN [f EXCEPT !.pc = "done"] ELSE [f EXCEPT !.pc = "more"]

\* The bytes of rel that were asked for, cut from what arrived, and what to do
\* with them: a run of frames, the whole entry, or the seek table.
Exactly(q, bytes) ==
  LET i == q.id IN
  IF Entry[i].stored \/ q.lo = -1 THEN Finish(q, bytes, q.rel, q.b)
  ELSE IF Entry[i].mapped THEN Finish(q, bytes, q.rel, RunEnd(i, q.a, q.b))
  ELSE [q EXCEPT !.pc = "table", !.buf = bytes]

\* The data range is remembered, and with a frame map (the directory's, or the
\* whole entry's own) the layout.
Learn(q) ==
  /\ set_data(q.id, TrueStart(q.id))
  /\ seekable' = [seekable EXCEPT ![q.id] = @ \/ (~Entry[q.id].stored /\ (Entry[q.id].mapped \/ q.lo = -1))]

\* fetch_with_header with its header here: the bytes wanted may be in the
\* buffer, partly in it, or elsewhere.
Header(r) ==
  LET q == rd[r]
      i == q.id
      want == At(TrueStart(i), q.rel)
      lo == IF q.stage = "body" THEN Min({min_data(i) + q.rel[1], guess_end(i, q.rel)}) ELSE q.want[1]
      hi == q.want[2] IN
  /\ q.pc = "got"
  /\ \/ /\ q.stage = "header"
        /\ rd' = [rd EXCEPT ![r] = Get(q, <<Min({min_data(i) + q.rel[1], guess_end(i, q.rel)}),
                                            guess_end(i, q.rel)>>, "body")]
        /\ UNCHANGED <<data, learned, seekable>>
     \/ /\ q.stage \in {"joined", "body"}
        /\ IF want[1] < lo \/ want[1] > hi
           THEN /\ rd' = [rd EXCEPT ![r] = Get([q EXCEPT !.buf = {}], want, "rest")]
                /\ UNCHANGED <<data, learned, seekable>>
           ELSE IF want[2] > hi
           THEN /\ rd' = [rd EXCEPT ![r] = Get([q EXCEPT !.buf = Pos(<<want[1], hi>>)], <<hi, want[2]>>, "rest")]
                /\ UNCHANGED <<data, learned, seekable>>
           ELSE rd' = [rd EXCEPT ![r] = Exactly(q, Pos(want))] /\ Learn(q)
     \/ /\ q.stage = "rest"
        /\ rd' = [rd EXCEPT ![r] = Exactly(q, q.buf \cup Pos(q.want))]
        /\ Learn(q)
  /\ UNCHANGED <<restored, spans, reads>>

\* The seek table: in the tail, or further back as its footer says; a wrong
\* offset gives bytes that are no table.
SeekTable(r) ==
  LET q == rd[r]
      i == q.id
      start == IF data[i] = None THEN TrueStart(i) ELSE data[i]
      tail == IF q.pc = "table" THEN q.buf ELSE Pos(q.want)
      end == start + csize(i)
      found == start = TrueStart(i) /\ (Cardinality(tail) >= Entry[i].table \/ q.stage = "table") IN
  /\ q.pc = "table" \/ (q.pc = "got" /\ q.stage \in {"tail", "table"})
  /\ rd' = [rd EXCEPT ![r] =
       IF start # TrueStart(i) THEN ArchiveIdle
       ELSE IF found THEN [q EXCEPT !.pc = "more"]
       ELSE Get(q, <<end - Entry[i].table, end>>, "table")]
  /\ seekable' = [seekable EXCEPT ![i] = @ \/ found]
  /\ UNCHANGED <<data, restored, learned, spans, reads>>

\* The layout is known: the next run of frames.
NextRun(r) ==
  LET q == rd[r] IN
  /\ q.pc = "more"
  /\ rd' = [rd EXCEPT ![r] = Run(q)]
  /\ UNCHANGED <<data, restored, seekable, learned, spans, reads>>

decode(r) ==
  LET q == rd[r] IN
  /\ q.pc = "got" /\ q.stage = "run"
  /\ rd' = [rd EXCEPT ![r] = Finish(q, Pos(q.want), q.rel,
                               IF Entry[q.id].stored THEN q.b ELSE RunEnd(q.id, q.done + 1, q.b))]
  /\ UNCHANGED <<data, restored, seekable, learned, spans, reads>>

ArchiveReturn(r) ==
  /\ rd[r].pc = "done"
  /\ rd' = [rd EXCEPT ![r] = ArchiveIdle]
  /\ UNCHANGED <<data, restored, seekable, learned, spans, reads>>

(***************************************************************************)
(* Prefetching.                                                            *)
(***************************************************************************)
\* The raw bytes a read of frames a..b would ask for; None when only part of
\* an entry without a frame map is wanted.
raw_extent(i, a, b) ==
  LET rel == IF ~Entry[i].stored /\ ~Entry[i].mapped /\ ~seekable[i] THEN <<0, csize(i)>>
             ELSE Rel(i, a, b) IN
  IF ~Entry[i].stored /\ ~Entry[i].mapped /\ ~seekable[i] /\ (a # 1 \/ b # Len(Entry[i].sizes)) THEN None
  ELSE IF data[i] # None THEN At(data[i], rel)
  ELSE <<IF rel[1] <= HEADER_JOIN THEN Entry[i].lh ELSE min_data(i) + rel[1], guess_end(i, rel)>>

prefetch(s, i, a, b) ==
  /\ spans[s] = None
  /\ raw_extent(i, a, b) # None
  /\ spans' = [spans EXCEPT ![s] = [range |-> raw_extent(i, a, b), state |-> "pending", listed |-> TRUE,
                                    of |-> <<i, a, b, data[i], seekable[i]>>]]
  /\ UNCHANGED <<data, restored, seekable, learned, rd, reads>>

Downloaded(s) ==
  /\ s \in Listed /\ spans[s].state = "pending"
  /\ \E st \in {"ready", "failed"} : spans' = [spans EXCEPT ![s].state = st]
  /\ UNCHANGED <<data, restored, seekable, learned, rd, reads>>

\* Dropping the lease aborts a download that is still running, which its
\* waiters see as a failure.
SpanLease_drop(s) ==
  /\ s \in Listed
  /\ spans' = [spans EXCEPT ![s].listed = FALSE,
                            ![s].state = IF @ = "pending" THEN "failed" ELSE @]
  /\ UNCHANGED <<data, restored, seekable, learned, rd, reads>>

\* A bulk read found where an entry's data starts.
learn_data_offset(i) ==
  /\ data[i] = None
  /\ set_data(i, TrueStart(i))
  /\ UNCHANGED <<restored, seekable, spans, rd, reads>>

ArchiveNext ==
  \/ \E r \in Readers :
       \/ \E i \in Ids : \/ read_entry(r, i)
                         \/ \E b \in 1..Len(Entry[i].sizes) : \E a \in 1..b : read_range(r, i, a, b)
       \/ buffered(r) \/ fetch(r) \/ Header(r) \/ SeekTable(r) \/ NextRun(r) \/ decode(r) \/ ArchiveReturn(r)
  \/ \E s \in Spans : \/ Downloaded(s) \/ SpanLease_drop(s)
                      \/ \E i \in Ids : \E b \in 1..Len(Entry[i].sizes) : \E a \in 1..b : prefetch(s, i, a, b)
  \/ \E i \in Ids : learn_data_offset(i)

ArchiveSpec == ArchiveInit /\ [][ArchiveNext]_archiveVars

(***************************************************************************)
(* Properties.                                                             *)
(***************************************************************************)
\* Types of what is known of the entries, of the spans and of the reads.
ArchiveTypeOK ==
  /\ \A i \in Ids : data[i] \in 0..FileLen \cup {None}
  /\ restored \in [Ids -> BOOLEAN] /\ seekable \in [Ids -> BOOLEAN]
  /\ learned \in 0..Cardinality(Ids) /\ reads \in 0..MaxReads
  /\ \A s \in Spans : spans[s] # None => spans[s].state \in {"pending", "ready", "failed"}
  /\ \A r \in Readers : rd[r].pc \in {"idle", "wait", "fetch", "got", "table", "more", "done"}

\* A read that succeeds returns exactly the bytes its frames have in the file,
\* whichever of them came with the header, from a guess that fell short, from
\* spans, or in later runs, and whatever offsets an earlier run had saved.
ReadsExact ==
  \A r \in Readers : rd[r].pc = "done"
    => rd[r].out = Pos(At(TrueStart(rd[r].id), Rel(rd[r].id, rd[r].a, rd[r].b)))
       \/ (rd[r].lo = -1 /\ rd[r].out = Pos(At(TrueStart(rd[r].id), <<0, csize(rd[r].id)>>)))

\* A data offset that was not restored is the one the local header gives, and
\* learned counts exactly those (it tells the caller when saving is worth it).
OffsetsTrue ==
  /\ \A i \in Ids : data[i] # None /\ ~restored[i] => data[i] = TrueStart(i)
  /\ learned = Cardinality({i \in Ids : data[i] # None /\ ~restored[i]})

\* A read of the very frames a ready span was prefetched for, begun with the
\* layout known as it was then, makes no request for their bytes: raw_extent
\* asks for what the read will.  (The parallel header request, an extra field
\* longer than the guess, and a seek table are the exceptions.)
PrefetchServes ==
  \A r \in Readers : rd[r].by \cap Listed # {} /\ Entry[rd[r].id].extra <= LOCAL_EXTRA_GUESS
    => rd[r].sent \subseteq {"header"}
==============================================================================
