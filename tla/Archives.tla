------------------------------ MODULE Archives -------------------------------
(***************************************************************************)
(* Archives: a zip read frame by frame through its central directory, and  *)
(* extraction of the wanted entries of a stream. Each section is a state   *)
(* machine of its own; they share no state.                                *)
(***************************************************************************)
EXTENDS Integers, Sequences, FiniteSets, SequencesExt

CONSTANTS
    \* zip
    Archives,   \* the archives a writer may have made
    Names,   \* entry names
    FoldName,   \* what a name is compared by (path.rs fold)
    MAX_COMMENT,   \* longest comment after the end record
    PLAIN_FRAME_MAX,   \* largest entry stored as one plain frame
    \* extract
    MaxFaults,
    None

VARIABLES
    \* zip
    archive,   \* the archive that was written
    zip,   \* the cells of the file that is read
    index,   \* what ZipIndex::read answered, None before
    opened,   \* the entry opened for reading ranges, None before
    asked,   \* the last range (or whole entry) asked for
    out,   \* its answer
    \* extract
    wanted,   \* the names asked for
    want,   \* HashMap of folded names not served yet
    block,   \* the block being walked, Len(blocks) + 1 for the empty files
    entry_at,   \* the entry of the block that comes next
    left,   \* wanted entries counted in the block and not met, None outside one
    served,   \* the calls of `each`: <<block, entry>>
    decoded,   \* blocks that were decoded
    faults,
    result   \* None | "ok" | "missing" | "failed" | "unsupported"

(***************************************************************************)
(* aether-archive: a zip of seekable zstd entries, read from its end        *)
(* records to the bytes of a range.  Every fixed-size structure is one      *)
(* cell of the file: a header, an extra field, a seek table entry, a name,  *)
(* a byte of compressed data.  A byte of content is <<entry, frame, byte>>. *)
(* The writer of the archive is outside the code; its archives are the      *)
(* constant Archives, laid out by Layout, and then perhaps damaged.         *)
(***************************************************************************)
zipVars == <<archive, zip, index, opened, asked, out>>

Marker == 255       \* 0xFFFF_FFFF: the field is in the ZIP64 extra field
Err == [ok |-> FALSE]
Ok(v) == [ok |-> TRUE, v |-> v]
MAX_TAIL == 1 + MAX_COMMENT + 1 + 1

Total(fs, f) == FoldLeft(LAMBDA n, x : n + x[f], 0, fs)

(* What a writer makes: local headers and data, the directory, the end.    *)
TableCells(fs) ==
  <<[k |-> "skip", size |-> Len(fs) + 1]>>
  \o [i \in 1..Len(fs) |-> [k |-> "entry", c |-> fs[i].c, d |-> fs[i].d]]
  \o <<[k |-> "footer", count |-> Len(fs)]>>

FrameCells(a, e) ==
  LET fs == a.entries[e].frames IN
  FlattenSeq([i \in 1..Len(fs) |->
    [j \in 1..fs[i].c |-> [k |-> "frame", e |-> e, i |-> i, j |-> j, c |-> fs[i].c, d |-> fs[i].d]]])

DataCells(a, e) ==
  FrameCells(a, e) \o (IF a.entries[e].table # "none" THEN TableCells(a.entries[e].frames) ELSE <<>>)

LocalCells(a, e) ==
  <<[k |-> "local", names |-> 1, extras |-> 0], [k |-> "name", n |-> a.entries[e].name]>>
  \o DataCells(a, e)

CentralCells(a, e, off) ==
  LET x == a.entries[e]
      c == Len(DataCells(a, e))
      d == Total(x.frames, "d")
      big == SelectSeq(<<[f |-> "d", v |-> d], [f |-> "c", v |-> c], [f |-> "o", v |-> off]>>,
                       LAMBDA y : y.f \in x.big)
      extra == (IF big = <<>> THEN <<>>
                ELSE <<[k |-> "x64", vs |-> [i \in 1..Len(big) |-> big[i].v]]>>)
               \o (IF x.table = "nexus" THEN <<[k |-> "x4E58", t |-> TableCells(x.frames)]>> ELSE <<>>)
  IN <<[k |-> "central", method |-> x.method,
        d |-> IF "d" \in x.big THEN Marker ELSE d,
        c |-> IF "c" \in x.big THEN Marker ELSE c,
        o |-> IF "o" \in x.big THEN Marker ELSE off,
        names |-> 1, extras |-> Len(extra), comment |-> 0],
       [k |-> "name", n |-> x.name]>> \o extra

Layout(a) ==
  LET E == 1..Len(a.entries)
      body == FlattenSeq([e \in E |-> LocalCells(a, e)])
      off(e) == Len(FlattenSeq([i \in 1..(e - 1) |-> LocalCells(a, i)]))
      cd == FlattenSeq([e \in E |-> CentralCells(a, e, off(e))])
      z64 == [k |-> "zip64", entries |-> Len(a.entries), size |-> Len(cd), offset |-> Len(body)]
      Pad(n) == [i \in 1..n |-> [k |-> "pad"]]
      m(v) == IF a.zip64 THEN Marker ELSE v
  IN body \o cd
     \o (IF a.zip64 THEN <<z64>> \o Pad(a.gap) \o <<[k |-> "locator", pos |-> Len(body) + Len(cd)]>> ELSE <<>>)
     \o <<[k |-> "eocd", entries |-> m(Len(a.entries)), size |-> m(Len(cd)), offset |-> m(Len(body)),
           comment |-> a.comment]>>
     \o Pad(a.comment) \o Pad(a.pad)

(* The file as it is read: whole, cut short, or with one cell overwritten.  *)
Damaged(z) ==
  {z} \cup {SubSeq(z, 1, n) : n \in 0..(Len(z) - 1)}
      \cup {[z EXCEPT ![i] = [k |-> "junk", n |-> None]] : i \in DOMAIN z}

ZipInit ==
  /\ archive \in Archives
  /\ zip \in Damaged(Layout(archive))
  /\ index = None /\ opened = None /\ asked = None /\ out = None

(* len cells at off, or an error when they are not all inside the source.   *)
read_vec(src, off, len) ==
  IF off + len <= Len(src) THEN Ok(SubSeq(src, off + 1, off + len)) ELSE Err

within(cd, file_len) == IF cd.offset + cd.size <= file_len THEN Ok(cd) ELSE Err

from_zip64_record(rec, file_len) ==
  IF rec = <<>> THEN Err
  ELSE IF rec[1].k # "zip64" THEN Err
  ELSE within([entries |-> rec[1].entries, size |-> rec[1].size, offset |-> rec[1].offset], file_len)

locate_central_directory_classic(tail, tail_start) ==
  LET at == {i \in DOMAIN tail : tail[i].k = "eocd"} IN
  IF at = {} THEN Err
  ELSE LET x == tail[CHOOSE i \in at : \A j \in at : j <= i]
       IN within([entries |-> x.entries, size |-> x.size, offset |-> x.offset], tail_start + Len(tail))

(* The central directory from the last cells of the file: the last end     *)
(* record whose comment runs exactly to the end, else the last one whose    *)
(* comment fits; behind a ZIP64 locator, the record it points at.           *)
locate_central_directory(tail, tail_start) ==
  LET file_len == tail_start + Len(tail)
      fits(i, exact) ==
        /\ tail[i].k = "eocd"
        /\ IF exact THEN i + tail[i].comment = Len(tail) ELSE i + tail[i].comment <= Len(tail)
      at(exact) == {i \in DOMAIN tail : fits(i, exact)}
      cand == IF at(TRUE) # {} THEN at(TRUE) ELSE at(FALSE)
      i == CHOOSE x \in cand : \A y \in cand : y <= x
      x == tail[i]
  IN IF tail = <<>> \/ (tail_start # 0 /\ Len(tail) < MAX_TAIL) \/ cand = {} THEN Err
     ELSE IF i > 1 /\ tail[i - 1].k = "locator"
          THEN LET pos == tail[i - 1].pos
               IN IF pos + 1 > file_len THEN Err
                  ELSE IF pos < tail_start THEN [ok |-> TRUE, need |-> pos]
                  ELSE from_zip64_record(SubSeq(tail, pos - tail_start + 1, Len(tail)), file_len)
          ELSE IF Marker \in {x.entries, x.size, x.offset} THEN Err
               ELSE within([entries |-> x.entries, size |-> x.size, offset |-> x.offset], file_len)

(* The first extra field with this id.                                      *)
find_extra(extra, id) ==
  LET s == SelectSeq(extra, LAMBDA x : x.k = id) IN IF s = <<>> THEN None ELSE s[1]

FrameTable(fs, table_len) ==
  [frames |-> [i \in 1..Len(fs) |->
     [c |-> fs[i].c, d |-> fs[i].d, co |-> Total(SubSeq(fs, 1, i - 1), "c"), do |-> Total(SubSeq(fs, 1, i - 1), "d")]],
   table_len |-> table_len]

compressed_len(t) == Total(t.frames, "c")
decompressed_len(t) == Total(t.frames, "d")

table_frame_len(footer) == IF footer.k # "footer" THEN Err ELSE Ok(footer.count + 2)

(* A seek table from cells that end where the stream ends.                  *)
parse(tail) ==
  IF tail = <<>> THEN Err
  ELSE LET n == table_frame_len(Last(tail)) IN
       IF ~n.ok THEN Err
       ELSE IF Len(tail) < n.v THEN Err
       ELSE LET t == SubSeq(tail, Len(tail) - n.v + 1, Len(tail))
                es == SubSeq(t, 2, Len(t) - 1)
            IN IF t[1].k # "skip" THEN Err
               ELSE IF t[1].size # n.v - 1 THEN Err
               ELSE IF \E i \in DOMAIN es : es[i].k # "entry" THEN Err   \* overwritten sizes
               ELSE Ok(FrameTable(es, n.v))

single_frame(c, d) == Ok(FrameTable(<<[c |-> c, d |-> d]>>, 0))

read_from(r) ==
  IF r = <<>> THEN Err
  ELSE LET n == table_frame_len(Last(r)) IN
       IF ~n.ok THEN Err
       ELSE IF n.v > Len(r) THEN Err
       ELSE LET t == parse(SubSeq(r, Len(r) - n.v + 1, Len(r)))
            IN IF t.ok /\ compressed_len(t.v) + n.v = Len(r) THEN t ELSE Err

nexus_seek_table(raw, c, d) ==
  LET t == parse(raw) IN
  IF ~t.ok THEN Err
  ELSE IF t.v.table_len = Len(raw) /\ decompressed_len(t.v) = d /\ compressed_len(t.v) + t.v.table_len = c
       THEN t ELSE Err

(* One central directory entry at p; the sizes that hold the marker come    *)
(* from the ZIP64 extra field, in the order size, compressed size, offset.  *)
central_entry(cd, p) ==
  IF p + 1 > Len(cd) THEN Err
  ELSE LET h == cd[p + 1] IN
  IF h.k # "central" THEN Err
  ELSE LET end == p + 1 + h.names + h.extras + h.comment IN
  IF end > Len(cd) THEN Err
  ELSE LET extra == SubSeq(cd, p + 1 + h.names + 1, p + 1 + h.names + h.extras)
           z == find_extra(extra, "x64")
           marked == SelectSeq(<<"d", "c", "o">>, LAMBDA f : h[f] = Marker)
           value(f) == IF h[f] # Marker THEN h[f]
                       ELSE z.vs[CHOOSE i \in DOMAIN marked : marked[i] = f]
           raw == find_extra(extra, "x4E58")
       IN IF marked # <<>> /\ z = None THEN Err
          ELSE IF marked # <<>> /\ Len(marked) > Len(z.vs) THEN Err
          ELSE LET t == IF raw = None THEN Ok(None) ELSE nexus_seek_table(raw.t, value("c"), value("d"))
               IN IF ~t.ok THEN Err
                  ELSE Ok([name |-> cd[p + 2].n, method |-> h.method, c |-> value("c"), d |-> value("d"),
                           offset |-> value("o"), seek_table |-> t.v, end |-> end])

parse_central_directory(cd, count) ==
  LET step(s, i) ==
        IF ~s.ok THEN s
        ELSE LET e == central_entry(cd, s.p)
             IN IF e.ok THEN [ok |-> TRUE, p |-> e.v.end, es |-> Append(s.es, e.v)] ELSE Err
      all == FoldLeft(step, [ok |-> TRUE, p |-> 0, es |-> <<>>], [i \in 1..count |-> i])
  IN IF count > Len(cd) \/ ~all.ok THEN Err ELSE Ok(all.es)

(* ZipIndex::position: the first entry whose folded name is the path's.     *)
position(ix, name) ==
  LET at == {i \in DOMAIN ix : ix[i].name # None /\ FoldName[ix[i].name] = FoldName[name]} IN
  IF at = {} THEN 0 ELSE CHOOSE i \in at : \A j \in at : i <= j

(* ZipIndex::read.                                                          *)
read ==
  /\ index = None
  /\ LET tail_len == IF Len(zip) < MAX_TAIL THEN Len(zip) ELSE MAX_TAIL
         start == Len(zip) - tail_len
         end == locate_central_directory(SubSeq(zip, start + 1, Len(zip)), start)
         cd == IF end.ok /\ "need" \in DOMAIN end
               THEN from_zip64_record(read_vec(zip, end.need, 1).v, Len(zip)) ELSE end
     IN index' = IF cd.ok
                 THEN parse_central_directory(read_vec(zip, cd.v.offset, cd.v.size).v, cd.v.entries)
                 ELSE Err
  /\ UNCHANGED <<archive, zip, opened, asked, out>>

local_data_range(lh, e) ==
  IF lh.k # "local" THEN Err
  ELSE LET s == e.offset + 1 + lh.names + lh.extras IN Ok([start |-> s, end |-> s + e.c])

entry_data_range(e) ==
  LET lh == read_vec(zip, e.offset, 1) IN
  IF ~lh.ok THEN Err
  ELSE LET r == local_data_range(lh.v[1], e)
       IN IF ~r.ok THEN Err ELSE IF r.v.end > Len(zip) THEN Err ELSE r

(* External: zstd.  Whole frames decompress to their bytes, one after the   *)
(* other; skippable frames are skipped; anything else is an error.          *)
zstd(cells) ==
  LET whole(p) ==
        \/ cells[p].k \in {"skip", "entry", "footer"}
        \/ /\ cells[p].k = "frame"
           /\ (cells[p].j > 1 => p > 1 /\ cells[p - 1].k = "frame" /\ cells[p - 1].j = cells[p].j - 1)
           /\ (cells[p].j < cells[p].c =>
                 p < Len(cells) /\ cells[p + 1].k = "frame" /\ cells[p + 1].j = cells[p].j + 1)
      firsts == SelectSeq(cells, LAMBDA x : x.k = "frame" /\ x.j = 1)
  IN IF \A p \in DOMAIN cells : whole(p)
     THEN Ok(FlattenSeq([i \in DOMAIN firsts |->
               [b \in 1..firsts[i].d |-> <<firsts[i].e, firsts[i].i, b>>]]))
     ELSE Err

(* read_entry: a whole entry, stored or one zstd stream.  A stored cell is  *)
(* its own content.                                                         *)
read_entry(name) ==
  /\ index # None /\ index.ok /\ opened = None /\ asked = None
  /\ position(index.v, name) # 0
  /\ LET e == index.v[position(index.v, name)]
         r == entry_data_range(e)
         cells == SubSeq(zip, r.v.start + 1, r.v.end)
         data == IF ~r.ok THEN Err
                 ELSE IF e.method = 0 THEN Ok([i \in DOMAIN cells |-> <<cells[i]>>])
                 ELSE IF e.method = 93 THEN zstd(cells)
                 ELSE Err
     IN /\ asked' = [name |-> name, from |-> 0, to |-> e.d]
        /\ out' = IF ~data.ok THEN Err ELSE IF Len(data.v) # e.d THEN Err ELSE data
  /\ UNCHANGED <<archive, zip, index, opened>>

(* SeekableEntry::open: the seek table is the one at the end of the data.   *)
open(name) ==
  /\ index # None /\ index.ok /\ opened = None /\ asked = None
  /\ position(index.v, name) # 0
  /\ LET e == index.v[position(index.v, name)]
         r == entry_data_range(e)
         t == IF e.method = 93 /\ r.ok THEN read_from(SubSeq(zip, r.v.start + 1, r.v.end)) ELSE Err
     IN opened' = IF ~t.ok THEN Err
                  ELSE IF decompressed_len(t.v) # e.d THEN Err
                  ELSE Ok([name |-> name, entry |-> e, data |-> r.v, table |-> t.v])
  /\ UNCHANGED <<archive, zip, index, asked, out>>

(* ZipEntry::frame_map: from the directory alone, None when the table must  *)
(* be read from the end of the data.                                        *)
frame_map(e) ==
  IF e.method # 93 THEN Err
  ELSE IF e.seek_table # None THEN Ok(e.seek_table)
  ELSE IF e.d <= PLAIN_FRAME_MAX THEN single_frame(e.c, e.d)
  ELSE Ok(None)

(* SeekableEntry::from_parts, from a map and a range fetched one by one.    *)
from_parts(name) ==
  /\ index # None /\ index.ok /\ opened = None /\ asked = None
  /\ position(index.v, name) # 0
  /\ LET e == index.v[position(index.v, name)]
         m == frame_map(e)
         lh == read_vec(zip, e.offset, 1)
         r == IF lh.ok THEN local_data_range(lh.v[1], e) ELSE Err
         tail == IF r.ok /\ r.v.end <= Len(zip) THEN SubSeq(zip, r.v.start + 1, r.v.end) ELSE <<>>
         t == IF m.ok /\ m.v = None THEN parse(tail) ELSE m
     IN opened' = IF ~(t.ok /\ r.ok) THEN Err
                  ELSE IF r.v.end - r.v.start # e.c \/ compressed_len(t.v) + t.v.table_len # e.c
                          \/ decompressed_len(t.v) # e.d THEN Err
                  ELSE Ok([name |-> name, entry |-> e, data |-> r.v, table |-> t.v])
  /\ UNCHANGED <<archive, zip, index, asked, out>>

frames_for_range_late(t, from, to) ==
  SelectSeq(t.frames, LAMBDA f : f.do >= from /\ f.do < to /\ f.d > 0)

(* The frames whose bytes meet from..to: after the ones that end at or      *)
(* before from, before the ones that start at or after to.                  *)
frames_for_range(t, from, to) ==
  SelectSeq(t.frames, LAMBDA f : f.do + f.d > from /\ f.do < to /\ f.d > 0)

(* One frame: exactly the size the table says, or an error.                 *)
decompress_frame(f, cells) ==
  LET z == zstd(cells) IN IF ~z.ok THEN Err ELSE IF Len(z.v) # f.d THEN Err ELSE z

(* SeekableEntry::read, seekable::read_range: the frames of the range, each *)
(* cut to the part that is in it.                                           *)
read_range(from, to) ==
  /\ opened # None /\ opened.ok /\ asked = None
  /\ from <= to /\ to <= decompressed_len(opened.v.table)
  /\ LET fs == frames_for_range(opened.v.table, from, to)
         start == opened.v.data.start
         window == SubSeq(zip, start + 1, opened.v.data.end)
         piece(f) ==
           LET c == read_vec(window, f.co, f.c)
               z == IF c.ok THEN decompress_frame(f, c.v) ELSE Err
               lo == IF from > f.do THEN from - f.do ELSE 0
               hi == IF to < f.do + f.d THEN to - f.do ELSE f.d
           IN IF z.ok THEN Ok(SubSeq(z.v, lo + 1, hi)) ELSE Err
         ps == [i \in DOMAIN fs |-> piece(fs[i])]
     IN /\ asked' = [name |-> opened.v.name, from |-> from, to |-> to]
        /\ out' = IF opened.v.data.end > Len(zip) \/ \E i \in DOMAIN ps : ~ps[i].ok THEN Err
                  ELSE Ok(FlattenSeq([i \in DOMAIN ps |-> ps[i].v]))
  /\ UNCHANGED <<archive, zip, index, opened>>

Done ==
  /\ \/ asked # None
     \/ index # None /\ ~index.ok
     \/ opened # None /\ ~opened.ok
     \/ index # None /\ index.ok /\ \A n \in Names : position(index.v, n) = 0
  /\ UNCHANGED zipVars

ZipNext ==
  \/ read
  \/ \E n \in Names : read_entry(n) \/ open(n) \/ from_parts(n)
  \/ opened # None /\ opened.ok /\
       \E from, to \in 0..decompressed_len(opened.v.table) : read_range(from, to)
  \/ Done

ZipSpec == ZipInit /\ [][ZipNext]_zipVars

(* The entry a name means: the first the writer stored under it.            *)
Meant(name) ==
  LET at == {i \in DOMAIN archive.entries : FoldName[archive.entries[i].name] = FoldName[name]} IN
  IF at = {} THEN 0 ELSE CHOOSE i \in at : \A j \in at : i <= j

Content(e) ==
  LET fs == archive.entries[e].frames
      cells == DataCells(archive, e)
  IN IF archive.entries[e].method = 0 THEN [i \in DOMAIN cells |-> <<cells[i]>>]
     ELSE FlattenSeq([i \in DOMAIN fs |-> [b \in 1..fs[i].d |-> <<e, i, b>>]])

Whole == zip = Layout(archive)

(* Type invariant: the index, the opened entry and the answer are absent,   *)
(* an error or a value.                                                     *)
ZipTypeOK ==
  /\ archive \in Archives
  /\ index = None \/ index.ok \in BOOLEAN
  /\ opened = None \/ opened.ok \in BOOLEAN
  /\ out = None \/ out.ok \in BOOLEAN
  /\ (asked = None) = (out = None)

(* seekable.rs read_range, zip.rs read_entry: whatever was done to the      *)
(* file, a read either fails or gives exactly the bytes the writer stored   *)
(* for that name and range.  A stored entry carries no check that is made,  *)
(* so it is exact only when its data was not overwritten; damage may hide   *)
(* the first of two entries with one name.                                  *)
ServedIsContent ==
  (out # None /\ out.ok) =>
    \E e \in DOMAIN archive.entries :
      /\ FoldName[archive.entries[e].name] = FoldName[asked.name]
      /\ \/ out.v = SubSeq(Content(e), asked.from + 1, asked.to)
         \/ archive.entries[e].method = 0 /\ ~Whole /\ Len(out.v) = Len(Content(e))
      /\ Whole => e = Meant(asked.name)

(* zip.rs locate_central_directory to from_parts: an undamaged archive is   *)
(* readable, with every entry in the directory, whatever its ZIP64 fields,  *)
(* comment, padding and seek table placement, and no range of it fails.     *)
WholeReadable ==
  Whole =>
    /\ index # None =>
         /\ index.ok
         /\ [i \in DOMAIN index.v |-> index.v[i].name] = [i \in DOMAIN archive.entries |-> archive.entries[i].name]
    /\ (out # None /\ archive.entries[Meant(asked.name)].method \in {0, 93}) => out.ok

(***************************************************************************)
(* aether-archive extract.rs: the wanted entries of a spooled 7z or zip.    *)
(* An archive is its kind, the entries of each compressed block in order    *)
(* (a zip has one), and its empty files, which have no block.  `each` is    *)
(* the caller's function; it may fail.                                      *)
(***************************************************************************)
extractVars == <<archive, wanted, want, block, entry_at, left, served, decoded, faults, result>>

Blocks == archive.blocks
Empties == Len(Blocks) + 1
EntriesOf(b) == IF b = Empties THEN archive.empty ELSE Blocks[b]
Folded(S) == {FoldName[n] : n \in S}

(* extract_threads: the names are folded; sniff finds the kind, and RAR is  *)
(* refused.                                                                 *)
ExtractInit ==
  /\ archive \in Archives
  /\ wanted \in SUBSET Names
  /\ want = Folded(wanted)
  /\ block = 1 /\ entry_at = 1 /\ left = None
  /\ served = <<>> /\ decoded = {} /\ faults = 0
  /\ result = IF archive.kind = "rar" THEN "unsupported" ELSE None

Hit(e) == ~e.dir /\ FoldName[e.name] \in want

(* extract_7z: the next block, decoded only when something in it is wanted. *)
enter_block ==
  /\ result = None /\ archive.kind = "7z" /\ block < Empties /\ left = None
  /\ LET n == Cardinality({i \in DOMAIN Blocks[block] : Hit(Blocks[block][i])})
     IN IF n = 0
        THEN block' = block + 1 /\ UNCHANGED <<left, decoded>>
        ELSE left' = n /\ decoded' = decoded \cup {block} /\ UNCHANGED block
  /\ entry_at' = 1
  /\ UNCHANGED <<archive, wanted, want, served, faults, result>>

each_entry_keeps ==
  /\ result = None /\ left # None /\ entry_at <= Len(Blocks[block])
  /\ LET e == Blocks[block][entry_at]
         n == left - (IF Hit(e) THEN 1 ELSE 0)
         more == n > 0 /\ entry_at < Len(Blocks[block])
     IN /\ served' = IF Hit(e) THEN Append(served, <<block, entry_at>>) ELSE served
        /\ left' = IF more THEN n ELSE None
        /\ entry_at' = entry_at + 1
        /\ block' = IF more THEN block ELSE block + 1
        /\ UNCHANGED <<archive, wanted, want, decoded, faults, result>>

(* extract_7z, one entry of a decoded block: a wanted one is handed to      *)
(* `each` and drained, any other is skipped by decoding it; the block is    *)
(* left once nothing counted in it remains.  A failed call ends the walk.   *)
each_entry ==
  /\ result = None /\ left # None /\ entry_at <= Len(Blocks[block])
  /\ LET e == Blocks[block][entry_at]
         n == left - (IF Hit(e) THEN 1 ELSE 0)
         more == n > 0 /\ entry_at < Len(Blocks[block])
     IN \/ /\ served' = IF Hit(e) THEN Append(served, <<block, entry_at>>) ELSE served
           /\ want' = IF Hit(e) THEN want \ {FoldName[e.name]} ELSE want
           /\ left' = IF more THEN n ELSE None
           /\ entry_at' = entry_at + 1
           /\ block' = IF more THEN block ELSE block + 1
           /\ UNCHANGED <<archive, wanted, decoded, faults, result>>
        \/ /\ Hit(e) /\ faults < MaxFaults
           /\ served' = Append(served, <<block, entry_at>>)
           /\ want' = want \ {FoldName[e.name]}
           /\ faults' = faults + 1 /\ result' = "failed"
           /\ UNCHANGED <<archive, wanted, block, entry_at, left, decoded>>

(* extract_7z's tail: empty files have no block and nothing to decode.      *)
empty_files ==
  /\ result = None /\ archive.kind = "7z" /\ block = Empties
  /\ LET es == archive.empty
         first(i) == \A j \in 1..(i - 1) : FoldName[es[j].name] # FoldName[es[i].name] \/ es[j].dir
         hits == SelectSeq([i \in DOMAIN es |-> i], LAMBDA i : Hit(es[i]) /\ first(i))
     IN /\ served' = served \o [i \in DOMAIN hits |-> <<block, hits[i]>>]
        /\ want' = want \ {FoldName[es[hits[i]].name] : i \in DOMAIN hits}
  /\ block' = block + 1
  /\ UNCHANGED <<archive, wanted, entry_at, left, decoded, faults, result>>

(* extract_zip: the entries in order until nothing is wanted any more.      *)
extract_zip ==
  /\ result = None /\ archive.kind = "zip" /\ want # {} /\ entry_at <= Len(Blocks[1])
  /\ LET e == Blocks[1][entry_at]
     IN \/ /\ served' = IF Hit(e) THEN Append(served, <<1, entry_at>>) ELSE served
           /\ want' = IF Hit(e) THEN want \ {FoldName[e.name]} ELSE want
           /\ entry_at' = entry_at + 1
           /\ UNCHANGED <<faults, result>>
        \/ /\ Hit(e) /\ faults < MaxFaults
           /\ served' = Append(served, <<1, entry_at>>)
           /\ want' = want \ {FoldName[e.name]}
           /\ faults' = faults + 1 /\ result' = "failed"
           /\ UNCHANGED entry_at
  /\ UNCHANGED <<archive, wanted, block, left, decoded>>

(* extract_threads, after the walk: what was never met is missing.          *)
finish ==
  /\ result = None
  /\ \/ archive.kind = "7z" /\ block > Empties
     \/ archive.kind = "zip" /\ (want = {} \/ entry_at > Len(Blocks[1]))
  /\ result' = IF want = {} THEN "ok" ELSE "missing"
  /\ UNCHANGED <<archive, wanted, want, block, entry_at, left, served, decoded, faults>>

ExtractDone == result # None /\ UNCHANGED extractVars

ExtractNext == enter_block \/ each_entry \/ empty_files \/ extract_zip \/ finish \/ ExtractDone

ExtractSpec == ExtractInit /\ [][ExtractNext]_extractVars

Stored == {<<b, i>> \in (1..Empties) \X (1..5) : i \in DOMAIN EntriesOf(b) /\ ~EntriesOf(b)[i].dir}
NameAt(p) == FoldName[EntriesOf(p[1])[p[2]].name]

(* Type invariant.                                                          *)
ExtractTypeOK ==
  /\ want \subseteq Folded(Names)
  /\ left = None \/ left \in 0..5
  /\ result \in {None, "ok", "missing", "failed", "unsupported"}
  /\ ToSet(served) \subseteq Stored

(* extract's doc: `each` is called once for every wanted entry that the     *)
(* archive has, whichever block it is in and however often its name occurs, *)
(* and the walk reports as missing exactly the names it has not.            *)
EachWantedOnce ==
  /\ \A i, j \in DOMAIN served : i # j => NameAt(served[i]) # NameAt(served[j])
  /\ \A i \in DOMAIN served : NameAt(served[i]) \in Folded(wanted)
  /\ result \in {"ok", "missing"} =>
       {NameAt(served[i]) : i \in DOMAIN served} = Folded(wanted) \cap {NameAt(p) : p \in Stored}
  /\ result = "missing" => want = Folded(wanted) \ {NameAt(p) : p \in Stored}

(* extract_7z's comment "nothing wanted in this block: never decode it".    *)
OnlyWantedDecoded ==
  \A b \in decoded : \E i \in DOMAIN Blocks[b] :
    ~Blocks[b][i].dir /\ FoldName[Blocks[b][i].name] \in Folded(wanted)
==============================================================================
