------------------------------ MODULE ShimFiles ------------------------------
(***************************************************************************)
(* The shim's file handles: reads and writes through one, and directory    *)
(* queries. Each section is a state machine of its own; they share no      *)
(* state.                                                                  *)
(***************************************************************************)
EXTENDS Integers, Sequences, FiniteSets, SequencesExt

CONSTANTS
    \* io
    Threads,
    Handles,   \* handles open on the file, all opened while it was empty
    AppendOnly,   \* those with append access and no write access (is_append_only)
    MaxLen,   \* bound on the file's length
    MaxWrites,   \* bound on writes
    OneUser,   \* a handle is used by one thread at a time
    Seeks,   \* append-only handles also read, seek and truncate
    Truncates,   \* the other handles truncate
    \* dir
    Order,   \* every name that may be listed, in the order the director lists them
    Hides,   \* Hides[n]: the name a whiteout marker n hides, or None for other names
    RecordSize,   \* RecordSize[n]: bytes of n's record before alignment
    Align,   \* records start at multiples of this (8)
    Caps,   \* buffer lengths callers pass
    Patterns,   \* search patterns, each the set of names it matches
    MaxChanges,   \* bound on changes to the directory
    None

VARIABLES
    \* io
    content,   \* the file at the director: the write each byte comes from
    entry,   \* TABLE: handle -> [size, position]
    writes,   \* writes begun
    call,   \* each thread's call in progress
    \* dir
    dir,   \* the names the director serves
    state,   \* DirTracked::state: None or [entries, cursor]
    got,   \* names served since the scan was started or restarted
    last,   \* what the last query packed: [items, cap, single, bytes, count]
    changes

(***************************************************************************)
(* Reads, writes, seeks and truncations of one director-served file        *)
(* through synthetic handles (vfs-shim hook/file_io.rs, the position and    *)
(* end-of-file arms of hook/file_mutate.rs, synth_file.rs).  A handle's    *)
(* size and position are the shim's own copies, taken under one lock and   *)
(* stored back under others, with a ring request between; the bytes are    *)
(* the director's (Director::read, write, set_len).                        *)
(***************************************************************************)
iOVars == <<content, entry, writes, call>>

Idle == [op |-> "idle"]
Offsets == 0 .. MaxLen
Using(h) == {t \in Threads : call[t] # Idle /\ call[t].h = h}
MayUse(t, h) == call[t] = Idle /\ (OneUser => Using(h) = {})
Least(a, b) == IF a < b THEN a ELSE b

IOTypeOK ==
    /\ content \in Seq(0 .. MaxWrites) /\ Len(content) <= MaxLen
    /\ entry \in [Handles -> [size : Offsets, position : Offsets]]
    /\ writes \in 0 .. MaxWrites
    /\ \A t \in Threads : call[t] # Idle => call[t].h \in Handles

IOInit ==
    /\ content = <<>>
    /\ entry = [h \in Handles |-> [size |-> 0, position |-> 0]]
    /\ writes = 0
    /\ call = [t \in Threads |-> Idle]

(* write_at: bytes past the end are zeros up to the write. *)
write_at(off, n, id) ==
    [i \in 1 .. (IF off + n > Len(content) THEN off + n ELSE Len(content)) |->
        IF i > off /\ i <= off + n THEN id ELSE IF i <= Len(content) THEN content[i] ELSE 0]

set_position(h, pos) == entry' = [entry EXCEPT ![h].position = pos]

set_size(h, size) ==
    entry' = [entry EXCEPT ![h] = [size |-> size, position |-> Least(entry[h].position, size)]]

\* Mutant: the size stored is this write's end, whatever another write reached.
grow_size_last(h, end) == entry' = [entry EXCEPT ![h].size = end]

\* Mutant: the size grows by where the write ended.
grow_size_adds(h, end) == entry' = [entry EXCEPT ![h].size = @ + end]

grow_size(h, end) == entry' = [entry EXCEPT ![h].size = IF end > @ THEN end ELSE @]

(* write_hook_body: where the write goes, from the handle's entry.  An explicit
   offset is ignored by an append-only handle. *)
WriteOffset(h, explicit) ==
    IF h \in AppendOnly \/ explicit = None THEN entry[h].position ELSE explicit

write_hook_body(t, h) ==
    /\ MayUse(t, h) /\ writes < MaxWrites
    /\ \E explicit \in Offsets \cup {None}, want \in 1 .. 2 :
         LET off == WriteOffset(h, explicit)
         IN /\ off + want <= MaxLen
            /\ call' = [call EXCEPT ![t] =
                 [op |-> "write", pc |-> "director", h |-> h, off |-> off, n |-> want,
                  size |-> entry[h].size, id |-> writes + 1,
                  moves |-> h \in AppendOnly \/ explicit = None]]
    /\ writes' = writes + 1
    /\ UNCHANGED <<content, entry>>

(* The ring write: all or some of the bytes are written, or it fails. *)
DirectorWrite(t) ==
    LET c == call[t]
    IN /\ c.op = "write" /\ c.pc = "director"
       /\ \/ \E n \in 1 .. c.n :
               /\ content' = write_at(c.off, n, c.id)
               /\ call' = [call EXCEPT ![t].pc = IF c.moves THEN "position" ELSE "size", ![t].n = n]
          \/ UNCHANGED content /\ call' = [call EXCEPT ![t] = Idle]
       /\ UNCHANGED <<entry, writes>>

\* Mutant: only an implicit-offset write moves the position, append-only or not.
WritePosition_implicit(t) ==
    LET c == call[t]
    IN /\ c.op = "write" /\ c.pc = "position"
       /\ IF c.h \in AppendOnly THEN UNCHANGED entry ELSE set_position(c.h, c.off + c.n)
       /\ call' = [call EXCEPT ![t].pc = "size"]
       /\ UNCHANGED <<content, writes>>

WritePosition(t) ==
    LET c == call[t]
    IN /\ c.op = "write" /\ c.pc = "position"
       /\ set_position(c.h, c.off + c.n)
       /\ call' = [call EXCEPT ![t].pc = "size"]
       /\ UNCHANGED <<content, writes>>

(* The size is raised only when the write ended past the size first looked up. *)
WriteSize(t) ==
    LET c == call[t]
    IN /\ c.op = "write" /\ c.pc = "size"
       /\ IF c.off + c.n > c.size THEN grow_size(c.h, c.off + c.n) ELSE UNCHANGED entry
       /\ call' = [call EXCEPT ![t] = Idle]
       /\ UNCHANGED <<content, writes>>

(* read_hook_body: end of file is judged by the handle's size. *)
read_hook_body(t, h) ==
    /\ MayUse(t, h) /\ (h \in AppendOnly => Seeks)
    /\ \E explicit \in Offsets \cup {None}, want \in 1 .. 2 :
         LET off == IF explicit = None THEN entry[h].position ELSE explicit
         IN /\ off < entry[h].size
            /\ call' = [call EXCEPT ![t] =
                 [op |-> "read", h |-> h, off |-> off, moves |-> explicit = None,
                  max |-> Least(want, entry[h].size - off)]]
    /\ UNCHANGED <<content, entry, writes>>

DirectorRead(t) ==
    LET c == call[t]
        there == Len(content) - c.off
        n == IF there < 0 THEN 0 ELSE Least(c.max, there)
    IN /\ c.op = "read"
       /\ IF c.moves THEN set_position(c.h, c.off + n) ELSE UNCHANGED entry
       /\ call' = [call EXCEPT ![t] = Idle]
       /\ UNCHANGED <<content, writes>>

(* setinfo_hook_body's FilePositionInformation and FileEndOfFileInformation. *)
Seek(t, h) ==
    /\ MayUse(t, h) /\ (h \in AppendOnly => Seeks)
    /\ \E pos \in Offsets : set_position(h, pos)
    /\ UNCHANGED <<content, writes, call>>

Truncate(t, h) ==
    /\ MayUse(t, h) /\ (IF h \in AppendOnly THEN Seeks ELSE Truncates)
    /\ \E eof \in Offsets :
         /\ call' = [call EXCEPT ![t] = [op |-> "truncate", h |-> h, eof |-> eof]]
         /\ content' = [i \in 1 .. eof |-> IF i <= Len(content) THEN content[i] ELSE 0]
    /\ UNCHANGED <<entry, writes>>

\* Mutant: a truncation moves the position and leaves the size.
TruncateSize_position(t) ==
    /\ call[t].op = "truncate"
    /\ set_position(call[t].h, Least(entry[call[t].h].position, call[t].eof))
    /\ call' = [call EXCEPT ![t] = Idle]
    /\ UNCHANGED <<content, writes>>

TruncateSize(t) ==
    /\ call[t].op = "truncate"
    /\ set_size(call[t].h, call[t].eof)
    /\ call' = [call EXCEPT ![t] = Idle]
    /\ UNCHANGED <<content, writes>>

IONext ==
    \E t \in Threads :
      \/ DirectorWrite(t) \/ WritePosition(t) \/ WriteSize(t) \/ DirectorRead(t) \/ TruncateSize(t)
      \/ \E h \in Handles : write_hook_body(t, h) \/ read_hook_body(t, h) \/ Seek(t, h) \/ Truncate(t, h)

IOSpec == IOInit /\ [][IONext]_iOVars
-----------------------------------------------------------------------------
(* A handle that is the only one on its file, with no call through it under way,
   knows the file's length: no order in which its writes finished leaves it
   reporting end of file before the end, or a length past it. *)
SizeCurrent ==
    \A h \in Handles :
        Handles = {h} /\ Using(h) = {} => entry[h].size = Len(content)

AppendsLandAtEndStep ==
    \A t \in Threads :
      call[t].op = "write" /\ call[t].pc = "director" /\ call[t].h \in AppendOnly
      /\ content' # content /\ call[t]' # call[t] => call[t].off = Len(content)

(* A write through an append-only handle lands at the end of the file. *)
AppendsLandAtEnd == [][AppendsLandAtEndStep]_iOVars

(***************************************************************************)
(* Enumerating a director-served directory: NtQueryDirectoryFile(Ex)       *)
(* through one tracked handle (vfs-shim hook/dirquery.rs, hook/whiteout.rs, *)
(* vfs-ntlayout dirinfo.rs, vfs-core wildcard.rs).  A query decides under  *)
(* the HANDLES lock whether to build the listing, reads it from the        *)
(* director unlocked, and stores and serves it under the lock again.       *)
(***************************************************************************)
dirVars == <<dir, state, call, got, last, changes>>

DirIdle == [pc |-> "idle"]
Names == ToSet(Order)
NoPack == [items |-> <<>>, cap |-> 0, single |-> FALSE, bytes |-> 0, count |-> 0]

DirTypeOK ==
    /\ dir \subseteq Names
    /\ state # None => state.cursor \in 0 .. Len(state.entries) /\ ToSet(state.entries) \subseteq Names
    /\ \A t \in Threads : call[t].pc \in {"idle", "build", "serve"}

DirInit ==
    /\ dir \in SUBSET Names
    /\ state = None
    /\ call = [t \in Threads |-> DirIdle]
    /\ got = <<>> /\ last = NoPack /\ changes = 0

(* The markers and the names they hide, out of a listing; then the wildcard. *)
strip_whiteout_markers(items) ==
    LET hidden == {Hides[n] : n \in ToSet(items)}
    IN SelectSeq(items, LAMBDA n : Hides[n] = None /\ n \notin hidden)
wildcard_match(items, pattern) == SelectSeq(items, LAMBDA n : n \in pattern)

\* Mutant: the wildcard is applied first, and drops the marker but not what it hides.
Listing_filtered(items, pattern) == strip_whiteout_markers(wildcard_match(items, pattern))

Listing(items, pattern) == wildcard_match(strip_whiteout_markers(items), pattern)

AlignUp(n) == ((n + Align - 1) \div Align) * Align

\* Mutant: the capacity test forgets where the record starts.
write_dir_info_sized(items, cap, single) ==
    FoldLeft(LAMBDA acc, n :
               IF acc.stop \/ RecordSize[n] > cap
               THEN [acc EXCEPT !.stop = TRUE]
               ELSE [off |-> acc.off + AlignUp(RecordSize[n]), bytes |-> acc.off + RecordSize[n],
                     count |-> acc.count + 1, stop |-> single],
             [off |-> 0, bytes |-> 0, count |-> 0, stop |-> FALSE], items)

(* Records are packed until one does not fit, or after one when single. *)
write_dir_info(items, cap, single) ==
    FoldLeft(LAMBDA acc, n :
               IF acc.stop \/ acc.off + RecordSize[n] > cap
               THEN [acc EXCEPT !.stop = TRUE]
               ELSE [off |-> acc.off + AlignUp(RecordSize[n]), bytes |-> acc.off + RecordSize[n],
                     count |-> acc.count + 1, stop |-> single],
             [off |-> 0, bytes |-> 0, count |-> 0, stop |-> FALSE], items)

(* Phase 1: is there a listing, or must one be built? *)
serve_dir_query(t) ==
    /\ call[t] = DirIdle
    /\ OneUser => \A u \in Threads : call[u] = DirIdle
    /\ \E restart \in BOOLEAN :
         /\ call' = [call EXCEPT ![t] =
              [pc |-> IF restart \/ state = None THEN "build" ELSE "serve", listing |-> None]]
         /\ got' = IF restart THEN <<>> ELSE got
    /\ UNCHANGED <<dir, state, last, changes>>

(* Phase 2: the director's readdir, or an empty listing when it fails. *)
Build(t) ==
    /\ call[t].pc = "build"
    /\ \E pattern \in Patterns :
         call' = [call EXCEPT ![t] = [pc |-> "serve",
                    listing |-> Listing(SelectSeq(Order, LAMBDA n : n \in dir), pattern)]]
    /\ UNCHANGED <<dir, state, got, last, changes>>
BuildFails(t) ==
    /\ call[t].pc = "build"
    /\ call' = [call EXCEPT ![t] = [pc |-> "serve", listing |-> <<>>]]
    /\ UNCHANGED <<dir, state, got, last, changes>>

ServeBy(t, Advance(_, _)) ==
    /\ call[t].pc = "serve"
    /\ \E cap \in Caps, single \in BOOLEAN :
         LET st == IF call[t].listing = None THEN state ELSE [entries |-> call[t].listing, cursor |-> 0]
             left == SubSeq(st.entries, st.cursor + 1, Len(st.entries))
             res == write_dir_info(left, cap, single)
         IN /\ state' = [st EXCEPT !.cursor = @ + Advance(res.count, single)]
            /\ got' = got \o SubSeq(left, 1, res.count)
            /\ last' = [items |-> left, cap |-> cap, single |-> single, bytes |-> res.bytes,
                        count |-> res.count]
    /\ call' = [call EXCEPT ![t] = DirIdle]
    /\ UNCHANGED <<dir, changes>>

\* Mutant: a single-entry query does not move the cursor.
Serve_peeks(t) == ServeBy(t, LAMBDA count, single : IF single THEN 0 ELSE count)
\* Mutant: the cursor moves past an entry that did not fit.
Serve_overruns(t) == ServeBy(t, LAMBDA count, single : count + 1)

(* Phase 3: store the listing if one was built, serve from the cursor. *)
Serve(t) == ServeBy(t, LAMBDA count, single : count)

(* Another actor creates or deletes a name. *)
Change ==
    /\ changes < MaxChanges
    /\ \E n \in Names : dir' = IF n \in dir THEN dir \ {n} ELSE dir \cup {n}
    /\ changes' = changes + 1
    /\ UNCHANGED <<state, call, got, last>>

DirNext == Change \/ \E t \in Threads : serve_dir_query(t) \/ Build(t) \/ BuildFails(t) \/ Serve(t)

DirSpec == DirInit /\ [][DirNext]_dirVars
-----------------------------------------------------------------------------
(* One scan is one listing, read in order: between two restarts no name is
   served twice and none is skipped, however the buffers and single-entry
   queries cut it up and however the directory changes meanwhile. *)
ScanIsListing ==
    state # None /\ (\A t \in Threads : call[t] = DirIdle) =>
        got = SubSeq(state.entries, 1, state.cursor)

(* A whiteout marker is never listed, nor the name it hides when the marker was
   in the listing the director returned, whatever the search pattern matches. *)
MarkersHidden ==
    \A pattern \in Patterns :
        ToSet(Listing(SelectSeq(Order, LAMBDA n : n \in dir), pattern)) =
            {n \in dir \cap pattern : Hides[n] = None /\ \A m \in dir : Hides[m] # n}

(* What a query packs fits its buffer, every record aligned, and stops early
   only when the next record would not fit or one entry was asked for. *)
PackedWithin ==
    LET start(k) == IF k = 1 THEN 0
                    ELSE FoldLeft(LAMBDA x, y : x + y, 0,
                                  [i \in 1 .. k - 1 |-> AlignUp(RecordSize[last.items[i]])])
        next == last.count + 1
    IN /\ last.bytes <= last.cap
       /\ \A k \in 1 .. last.count : start(k) % Align = 0 /\ start(k) + RecordSize[last.items[k]] <= last.bytes
       /\ last.count < Len(last.items) =>
            (last.single /\ last.count = 1) \/ start(next) + RecordSize[last.items[next]] > last.cap
==============================================================================
