------------------------------ MODULE Providers ------------------------------
(***************************************************************************)
(* The providers made of providers: mounts, guards and overlays in a       *)
(* stack, and the one that makes a sequential provider seekable. Each      *)
(* section is a state machine of its own; they share no state.             *)
(***************************************************************************)
EXTENDS Integers, Sequences, FiniteSets

CONSTANTS
    \* stack
    Stacks,   \* the terms to try
    Leaves,
    Writable,   \* the leaves that declare ReadWrite
    Paths,   \* every path, closed under prefixes, without the root
    Content,   \* [Leaves -> [Paths -> {"file", "dir", None}]] at first
    \* seek
    Files, SizeOf,
    Handles,   \* the wrapper's
    Inner,   \* the wrapped provider's
    Fresh,   \* whether it never gives a handle out again
    Chunk,
    MaxFaults,
    None

VARIABLES
    \* stack
    stack, has, last,
    \* seek
    rec, streams, used, faults, got

(***************************************************************************)
(* How the combinators of vfs-compose route a call.  A composed provider   *)
(* is a term: a leaf, or a combinator around others.                       *)
(*                                                                         *)
(*   [k |-> "leaf", b]                 something with content of its own   *)
(*   [k |-> "graph", ms]               MountGraph, mounts <<[at, t], ...>> *)
(*   [k |-> "layered", top, bottom]    LayeredProvider                     *)
(*   [k |-> "readonly", t]             ReadOnlyProvider                    *)
(*   [k |-> "guarded", t, dirs]        GuardedProvider                     *)
(*   [k |-> "subdir", t, at]           SubdirProvider                      *)
(*   [k |-> "router", t, other, at]    RouterProvider: `other` for paths   *)
(*                                     below `at`, else t                  *)
(*   [k |-> "stub", dirs]              StubDirsProvider                    *)
(*                                                                         *)
(* The leaves keep files and directories by path, as sequences of names;   *)
(* case is left to MemTree and DiskTree.  The state is their content; a    *)
(* step is one call on the whole stack.                                    *)
(***************************************************************************)
stackVars == <<stack, has, last>>

StackInit == stack \in Stacks /\ has = Content /\ last = None

Prefix(p, q) == Len(p) <= Len(q) /\ SubSeq(q, 1, Len(p)) = p
Rest(p, q) == SubSeq(q, Len(p) + 1, Len(q))       \* strip_prefix
Parent(p) == SubSeq(p, 1, Len(p) - 1)
Ancestors(p) == {SubSeq(p, 1, i) : i \in 1..(Len(p) - 1)}
AtLeaf(b, p) == IF p = <<>> THEN "dir" ELSE IF p \in Paths THEN has[b][p] ELSE None
Chain(dirs) == {<<>>} \cup dirs \cup UNION {Ancestors(d) : d \in dirs}

\* capabilities: 1 to read, 2 to write too.  A graph or a layering is as strong
\* as its strongest part, a router as its weakest.
RECURSIVE access(_)
access(t) ==
    CASE t.k = "leaf" -> IF t.b \in Writable THEN 2 ELSE 1
      [] t.k \in {"readonly", "stub"} -> 1
      [] t.k \in {"guarded", "subdir"} -> access(t.t)
      [] t.k = "layered" -> IF 2 \in {access(t.top), access(t.bottom)} THEN 2 ELSE 1
      [] t.k = "router" -> IF 1 \in {access(t.t), access(t.other)} THEN 1 ELSE 2
      [] t.k = "graph" -> IF \E i \in DOMAIN t.ms : access(t.ms[i].t) = 2 THEN 2 ELSE 1

\* provider_for: the route of a path.
provider_for(t, p) == IF Prefix(t.at, p) THEN t.other ELSE t.t

\* The combinators that pass a call on: to whom, and under which path.  The
\* read-only one refuses what would change anything, the guarded one what would
\* delete or move a guarded folder (refuses).
ReadOnly(t, p) == [t |-> t.t, p |-> p]
Guarded(t, p) == [t |-> t.t, p |-> p]
Subdir(t, p) == [t |-> t.t, p |-> t.at \o p]
Router(t, p) == [t |-> provider_for(t, p), p |-> p]
Forwards == {"readonly", "guarded", "subdir", "router"}
Forward(t, p) ==
    CASE t.k = "readonly" -> ReadOnly(t, p)
      [] t.k = "guarded" -> Guarded(t, p)
      [] t.k = "subdir" -> Subdir(t, p)
      [] t.k = "router" -> Router(t, p)

\* guards: the protected folders and every folder above one.
guards(t, ps) == ps \cap (Chain(t.dirs) \ {<<>>}) # {}
refuses(t, op, p, q) ==
    \/ t.k = "readonly"
    \/ t.k = "guarded" /\ op \in {"remove", "rename"} /\ guards(t, {p, q})

\* The mounts of a graph whose prefix p lies under, and the last with property.
Under(t, p) == {i \in DOMAIN t.ms : Prefix(t.ms[i].at, p)}
Last(S) == CHOOSE i \in S : \A j \in S : j <= i

\* What is at p.  In a graph the last mount that has it answers, and the root
\* is always a directory.
RECURSIVE getattr(_, _)
GraphAttr(t, p) ==
    LET holds == {i \in Under(t, p) : getattr(t.ms[i].t, Rest(t.ms[i].at, p)) # None}
    IN  IF holds # {} THEN getattr(t.ms[Last(holds)].t, Rest(t.ms[Last(holds)].at, p))
        ELSE IF p = <<>> /\ t.ms # <<>> THEN "dir" ELSE None

getattr(t, p) ==
    CASE t.k = "leaf" -> AtLeaf(t.b, p)
      [] t.k = "stub" -> IF p \in Chain(t.dirs) THEN "dir" ELSE None
      [] t.k \in Forwards -> getattr(Forward(t, p).t, Forward(t, p).p)
      [] t.k = "layered" ->
            IF getattr(t.top, p) # None THEN getattr(t.top, p) ELSE getattr(t.bottom, p)
      [] t.k = "graph" -> GraphAttr(t, p)

\* A listing: "ok" with a function from names to kinds, or an error.
Merge(upper, lower) ==
    [n \in DOMAIN upper \cup DOMAIN lower |-> IF n \in DOMAIN upper THEN upper[n] ELSE lower[n]]
Nothing == [n \in {} |-> None]
Listed(f) == [st |-> "ok", of |-> f]
Failed(e) == [st |-> e, of |-> Nothing]
Here(p, At(_)) ==
    LET kids == {q \in Paths : Parent(q) = p /\ At(q) # None}
    IN  [n \in {q[Len(q)] : q \in kids} |-> At(Append(p, n))]

\* mount_child_name: the mounts below p that resolve, by their next name.
Below(t, p) ==
    LET deep == {i \in DOMAIN t.ms : /\ Prefix(p, t.ms[i].at) /\ p # t.ms[i].at
                                     /\ getattr(t.ms[i].t, <<>>) # None}
        Name(i) == t.ms[i].at[Len(p) + 1]
    IN  [n \in {Name(i) : i \in deep} |->
           LET i == CHOOSE j \in deep : Name(j) = n /\ \A k \in deep : Name(k) = n => j <= k
           IN  getattr(t.ms[i].t, <<>>)]

RECURSIVE readdir(_, _)
GraphList(t, p) ==
    LET At(i) == readdir(t.ms[i].t, Rest(t.ms[i].at, p))
        seen == {i \in Under(t, p) : At(i).st = "ok"}
        Listing[i \in 0..Len(t.ms)] ==
            IF i = 0 THEN Nothing
            ELSE IF i \in seen THEN Merge(At(i).of, Listing[i - 1]) ELSE Listing[i - 1]
    IN  IF seen = {} /\ DOMAIN Below(t, p) = {}
        THEN IF \E i \in Under(t, p) : At(i).st = "not_dir" THEN Failed("not_dir")
             ELSE IF p = <<>> /\ t.ms # <<>> THEN Listed(Nothing) ELSE Failed("not_found")
        ELSE Listed(Merge(Listing[Len(t.ms)], Below(t, p)))

LayeredList(t, p) ==
    LET top == readdir(t.top, p)
        bottom == readdir(t.bottom, p)
    IN  IF top.st = "not_found" THEN bottom
        ELSE IF top.st # "ok" THEN top
        ELSE Listed(Merge(top.of, bottom.of))

StubList(t, p) ==
    IF p \in Chain(t.dirs) THEN Listed(Here(p, LAMBDA q : getattr(t, q))) ELSE Failed("not_found")

readdir(t, p) ==
    CASE t.k = "leaf" ->
            IF AtLeaf(t.b, p) = None THEN Failed("not_found")
            ELSE IF AtLeaf(t.b, p) = "file" THEN Failed("not_dir")
            ELSE Listed(Here(p, LAMBDA q : AtLeaf(t.b, q)))
      [] t.k = "stub" -> StubList(t, p)
      [] t.k \in Forwards -> readdir(Forward(t, p).t, Forward(t, p).p)
      [] t.k = "layered" -> LayeredList(t, p)
      [] t.k = "graph" -> GraphList(t, p)

\* What a call comes to: an error, or a call on one leaf.
Err(e) == [st |-> e, b |-> None, p |-> <<>>, q |-> <<>>]
Call(b, p, q) == [st |-> "ok", b |-> b, p |-> p, q |-> q]

LeafOpen(b, p, write, create) ==
    IF write /\ b \notin Writable THEN Err("read_only")
    ELSE IF p \notin Paths THEN Err("is_dir")
    ELSE IF has[b][p] = "dir" THEN IF write THEN Err("is_dir") ELSE Call(b, p, p)
    ELSE IF has[b][p] = "file" THEN Call(b, p, p)
    ELSE IF write /\ create /\ \A a \in Ancestors(p) : has[b][a] # "file" THEN Call(b, p, p)
    ELSE Err("not_found")

\* write_target: the topmost of the two that is writable.
write_target(t) ==
    IF access(t.top) = 2 THEN t.top ELSE IF access(t.bottom) = 2 THEN t.bottom ELSE None

\* open.  A graph walks its mounts from the last: a read-only mount refuses a
\* write of what it holds and is passed over otherwise, and so is one that has
\* not found the path.
RECURSIVE open(_, _, _, _)
GraphOpen(t, p, write, create) ==
    LET At(i) == Rest(t.ms[i].at, p)
        Try(i) == IF write /\ access(t.ms[i].t) < 2
                  THEN Err(IF getattr(t.ms[i].t, At(i)) # None THEN "read_only" ELSE "not_found")
                  ELSE open(t.ms[i].t, At(i), write, create)
        answers == {i \in Under(t, p) : Try(i).st # "not_found"}
    IN  IF answers = {} THEN Err("not_found") ELSE Try(Last(answers))

LayeredOpen(t, p, write, create) ==
    IF ~write THEN IF open(t.top, p, FALSE, FALSE).st = "not_found"
                   THEN open(t.bottom, p, FALSE, FALSE) ELSE open(t.top, p, FALSE, FALSE)
    ELSE IF write_target(t) = None THEN Err("read_only")
    ELSE open(write_target(t), p, write, create)

StubOpen(t, p, write) ==
    Err(IF p \notin Chain(t.dirs) THEN "not_found" ELSE IF write THEN "read_only" ELSE "dir")

open(t, p, write, create) ==
    CASE t.k = "leaf" -> LeafOpen(t.b, p, write, create)
      [] t.k = "stub" -> StubOpen(t, p, write)
      [] t.k \in Forwards ->
            IF write /\ refuses(t, "open", p, p) THEN Err("read_only")
            ELSE open(Forward(t, p).t, Forward(t, p).p, write, create)
      [] t.k = "layered" -> LayeredOpen(t, p, write, create)
      [] t.k = "graph" -> GraphOpen(t, p, write, create)

\* mkdir, remove and rename go to the last mount whose prefix matches, whether
\* or not it has the path.
RECURSIVE change(_, _, _, _)
GraphChange(t, op, p, q) ==
    LET both == Under(t, p) \cap Under(t, q)
        m == t.ms[Last(both)]
    IN  IF both = {} THEN Err("not_found") ELSE change(m.t, op, Rest(m.at, p), Rest(m.at, q))

change(t, op, p, q) ==
    CASE t.k = "leaf" -> IF t.b \in Writable THEN Call(t.b, p, q) ELSE Err("read_only")
      [] t.k = "stub" -> Err("read_only")
      [] t.k \in Forwards ->
            IF refuses(t, op, p, q) THEN Err("read_only")
            ELSE change(Forward(t, p).t, op, Forward(t, p).p,
                        IF t.k = "subdir" THEN Subdir(t, q).p ELSE q)
      [] t.k = "layered" ->
            IF write_target(t) = None THEN Err("read_only") ELSE change(write_target(t), op, p, q)
      [] t.k = "graph" -> GraphChange(t, op, p, q)

\* The leaf's part of a change.
Done(op, c) ==
    LET h == has[c.b]
        below == {r \in Paths : Prefix(c.p, r) /\ h[r] # None}
        To(r) == c.q \o Rest(c.p, r)
    IN  CASE op = "mkdir" ->
               [r \in Paths |-> IF r = c.p \/ r \in Ancestors(c.p) THEN "dir" ELSE h[r]]
          [] op = "remove" -> [h EXCEPT ![c.p] = None]
          [] op = "rename" ->
               [r \in Paths |->
                  IF \E s \in below : To(s) = r THEN h[CHOOSE s \in below : To(s) = r]
                  ELSE IF r \in below THEN None ELSE h[r]]

Allowed(op, c) ==
    LET h == has[c.b]
        below == {r \in Paths : Prefix(c.p, r) /\ h[r] # None}
    IN  /\ c.st = "ok" /\ c.p \in Paths /\ c.q \in Paths
        /\ CASE op = "mkdir" -> \A r \in Ancestors(c.p) \cup {c.p} : h[r] # "file"
             [] op = "remove" -> h[c.p] # None /\ below = {c.p}
             [] op = "rename" ->
                  /\ h[c.p] # None /\ h[c.q] = None /\ ~Prefix(c.p, c.q)
                  /\ \A r \in Ancestors(c.q) : h[r] = "dir"
                  /\ \A r \in below : c.q \o Rest(c.p, r) \in Paths

open_write(p, create) ==
    LET c == open(stack, p, TRUE, create) IN
    /\ c.st = "ok"
    /\ has' = [has EXCEPT ![c.b] = [r \in Paths |-> IF r = c.p THEN "file"
                                     ELSE IF r \in Ancestors(c.p) THEN "dir" ELSE @[r]]]
    /\ last' = [p |-> p, b |-> c.b, at |-> c.p]
    /\ UNCHANGED stack

alter(op, p, q) ==
    LET c == change(stack, op, p, q) IN
    /\ Allowed(op, c)
    /\ has' = [has EXCEPT ![c.b] = Done(op, c)]
    /\ last' = None /\ UNCHANGED stack

StackNext ==
    \/ \E p \in Paths, create \in BOOLEAN : open_write(p, create)
    \/ \E p \in Paths, op \in {"mkdir", "remove"} : alter(op, p, p)
    \/ \E p, q \in Paths : alter("rename", p, q)

StackSpec == StackInit /\ [][StackNext]_stackVars

-----------------------------------------------------------------------------
\* The leaves' content has its type, and what exists is in a directory.
StackTypeOK ==
    /\ stack \in Stacks
    /\ has \in [Leaves -> [Paths -> {"file", "dir", None}]]
    /\ \A b \in Leaves, p \in Paths : has[b][p] # None => AtLeaf(b, Parent(p)) = "dir"

\* What a listing shows is there when it is asked for, as what it was shown.
ListedResolves ==
    \A p \in Paths \cup {<<>>} :
        LET l == readdir(stack, p)
        IN  \A n \in DOMAIN l.of :
                Append(p, n) \in Paths => getattr(stack, Append(p, n)) = l.of[n]

\* A file just opened for writing is the one a reader of the path then opens.
WrittenIsRead ==
    last # None =>
        LET c == open(stack, last.p, FALSE, FALSE)
        IN  c.st = "ok" /\ c.b = last.b /\ c.p = last.at

\* The folders on the way to a nested root are there after every mkdir, delete
\* and rename.
GuardKeptStep ==
    last' = None /\ stack.k = "guarded" =>
        \A d \in stack.dirs : getattr(stack, d) = "dir" => getattr(stack, d)' = "dir"
GuardKept == [][GuardKeptStep]_stackVars

\* A leaf that is only ever read, or only reached through a read-only wrapper,
\* is never changed.
RECURSIVE Sealed(_)
Sealed(t) ==
    CASE t.k = "leaf" -> IF t.b \in Writable THEN {} ELSE {t.b}
      [] t.k = "readonly" -> IF t.t.k = "leaf" THEN {t.t.b} ELSE Sealed(t.t)
      [] t.k = "stub" -> {}
      [] t.k \in {"guarded", "subdir"} -> Sealed(t.t)
      [] t.k = "router" -> Sealed(t.t) \cup Sealed(t.other)
      [] t.k = "layered" -> Sealed(t.top) \cup Sealed(t.bottom)
      [] t.k = "graph" -> UNION {Sealed(t.ms[i].t) : i \in DOMAIN t.ms}
ReadOnlyKeptStep == \A b \in Sealed(stack) : has'[b] = has[b]
ReadOnlyKept == [][ReadOnlyKeptStep]_stackVars

(***************************************************************************)
(* SeekableProvider (vfs-compose's seekable.rs): positional reads over a   *)
(* provider that only streams.  Each handle keeps how far its stream was   *)
(* consumed; a read ahead skips, a read behind closes the stream and opens *)
(* it again.  A handle's lock is held for the whole of a read, so a read   *)
(* is one step.                                                            *)
(*                                                                         *)
(* The wrapped provider is external: its handles are numbers, its stream   *)
(* of file f gives the positions 0 .. SizeOf[f] - 1 in order, up to Chunk  *)
(* at a call, and any call may fail.                                       *)
(***************************************************************************)
seekVars == <<rec, streams, used, faults, got>>

SeekInit ==
    /\ rec = [h \in Handles |-> None]
    /\ streams = [i \in Inner |-> None]
    /\ used = {} /\ faults = 0 /\ got = None

Lowest(S) == CHOOSE i \in S : \A j \in S : i <= j
Free == {i \in Inner : streams[i] = None /\ (Fresh => i \notin used)}
Opened(s, i, f) == [s EXCEPT ![i] = [file |-> f, pos |-> 0]]
Fault == faults < MaxFaults /\ faults' = faults + 1
Least(a, b) == IF a < b THEN a ELSE b

seek_open(h, f) ==
    /\ rec[h] = None /\ Free # {}
    /\ LET i == Lowest(Free)
       IN  /\ streams' = Opened(streams, i, f)
           /\ used' = used \cup {i}
           /\ rec' = [rec EXCEPT ![h] = [file |-> f, inner |-> i, cursor |-> 0]]
    /\ got' = None /\ UNCHANGED faults

close(h) ==
    /\ rec[h] # None
    /\ rec' = [rec EXCEPT ![h] = None]
    /\ streams' = [streams EXCEPT ![rec[h].inner] = None]
    /\ got' = None /\ UNCHANGED <<used, faults>>

(***************************************************************************)
(* read_at, once the record is at its place: seek_to skips to the offset,  *)
(* or to the end of the stream, and read_next takes what it gives.  The    *)
(* stream's own position is what the bytes are, whatever the cursor says.  *)
(***************************************************************************)
Deliver(h, r, s, offset, want) ==
    IF s[r.inner] = None
    THEN rec' = [rec EXCEPT ![h] = r] /\ streams' = s /\ got' = None
    ELSE LET skip == offset - r.cursor
             st == s[r.inner]
             at == Least(st.pos + skip, SizeOf[st.file])
             past == at - st.pos < skip
             n == IF past THEN 0 ELSE Least(want, SizeOf[st.file] - at)
         IN  /\ rec' = [rec EXCEPT ![h] = [r EXCEPT !.cursor = @ + (at - st.pos) + n]]
             /\ streams' = [s EXCEPT ![r.inner].pos = at + n]
             /\ got' = [h |-> h, offset |-> offset, n |-> n,
                        file |-> st.file, from |-> at]

\* A read ahead of the cursor, or at it.
read_ahead(h, offset, want) ==
    /\ rec[h] # None /\ offset >= rec[h].cursor
    /\ Deliver(h, rec[h], streams, offset, want)
    /\ UNCHANGED <<used, faults>>

\* A read behind it: reopen, and skip from the start.
read_behind(h, offset, want) ==
    /\ rec[h] # None /\ offset < rec[h].cursor
    /\ LET shut == [streams EXCEPT ![rec[h].inner] = None]
           free == {i \in Inner : shut[i] = None /\ (Fresh => i \notin used)}
       IN  /\ free # {}
           /\ LET i == Lowest(free)
              IN  /\ Deliver(h, [rec[h] EXCEPT !.inner = i, !.cursor = 0],
                             Opened(shut, i, rec[h].file), offset, want)
                  /\ used' = used \cup {i}
    /\ UNCHANGED faults

\* The stream is closed and cannot be opened again: the record stays as it was.
reopen_fails(h, offset) ==
    /\ rec[h] # None /\ offset < rec[h].cursor /\ Fault
    /\ streams' = [streams EXCEPT ![rec[h].inner] = None]
    /\ got' = None /\ UNCHANGED <<rec, used>>

\* read_next fails part of the way through a skip, or at the read.
skip_fails(h, offset, done) ==
    /\ rec[h] # None /\ offset > rec[h].cursor + done /\ Fault
    /\ streams[rec[h].inner] # None
    /\ LET st == streams[rec[h].inner]
       IN  /\ st.pos + done <= SizeOf[st.file]
           /\ streams' = [streams EXCEPT ![rec[h].inner].pos = @ + done]
    /\ rec' = [rec EXCEPT ![h].cursor = @ + done]
    /\ got' = None /\ UNCHANGED used

\* read_next on the wrapper itself keeps the cursor.
read_next(h, want) ==
    /\ rec[h] # None
    /\ Deliver(h, rec[h], streams, rec[h].cursor, want)
    /\ UNCHANGED <<used, faults>>

Offsets == 0..3
SeekNext ==
    \E h \in Handles :
        \/ \E f \in Files : seek_open(h, f)
        \/ close(h)
        \/ \E o \in Offsets, w \in 1..Chunk : read_ahead(h, o, w) \/ read_behind(h, o, w)
        \/ \E o \in Offsets : reopen_fails(h, o) \/ \E d \in 0..1 : skip_fails(h, o, d)
        \/ \E w \in 1..Chunk : read_next(h, w)

SeekSpec == SeekInit /\ [][SeekNext]_seekVars

-----------------------------------------------------------------------------
\* Every variable keeps its type.
SeekTypeOK ==
    /\ \A h \in Handles : rec[h] # None => rec[h].inner \in Inner /\ rec[h].cursor \in Nat
    /\ \A i \in Inner : streams[i] # None => streams[i].pos \in 0..SizeOf[streams[i].file]

\* A read that returns bytes returns the bytes of the handle's own file, from
\* the offset asked for.
ReadsAtOffset ==
    got # None /\ got.n > 0 => rec[got.h].file = got.file /\ got.from = got.offset

\* An open stream has been consumed exactly as far as its handle's cursor says.
CursorTrue ==
    \A h \in Handles : rec[h] # None /\ streams[rec[h].inner] # None =>
        streams[rec[h].inner] = [file |-> rec[h].file, pos |-> rec[h].cursor]
==============================================================================
