-------------------------------- MODULE RootMap -------------------------------
(***************************************************************************)
(* vfs-redirect: which declared root an NT path falls under.  A path is its *)
(* components and whether it starts with a separator; a component is a      *)
(* token, and Tok says what a token is once its case is folded, its         *)
(* trailing dots and spaces are trimmed and its stream suffix is split off. *)
(* `Denotes` is the object manager's own reading of a path, the reference   *)
(* the canonicaliser is checked against.                                    *)
(***************************************************************************)
EXTENDS Integers, Sequences, FiniteSets, SequencesExt, TLC

CONSTANTS Raws,       \* the paths opened: [abs, comps]
          Tok,        \* token -> [fold, trim, base, short]
          Declared,   \* sequence of [id, comps]: the roots, as declared
          Drives,     \* [drive, device, guid, share] of each drive letter
          Links,      \* reparse points: [dir, name, tag, to]
          Slots,      \* 8.3 names: [dir, name] -> the long names they may stand for
          MAX_PREFIX_STEPS, MAX_ANCESTOR_LEVELS, capacity, None

VARIABLES roots,    \* the declared roots, longest first
          volumes,  \* VolumeMap, frozen at session start
          os,       \* 8.3 name -> the long name it stands for now
          cache,    \* PathCache: [map, order]
          last      \* the last lookup and its answer

vars == <<roots, volumes, os, cache, last>>

Fold(c) == Tok[c].fold
FoldAll(s) == [i \in DOMAIN s |-> Fold(s[i])]
is_component_prefix(r, s) == Len(r) <= Len(s) /\ FoldAll(r) = FoldAll(SubSeq(s, 1, Len(r)))
Rest(r, s) == SubSeq(s, Len(r) + 1, Len(s))

(* `.` and `..` resolved onto `out`; at the top `..` is dropped, or refused. *)
RECURSIVE Dots(_, _, _)
Dots(out, s, clamped) ==
  IF s = <<>> THEN out
  ELSE LET c == Head(s)
           pop == IF out = <<>> THEN out ELSE Front(out)
       IN IF c = ".." /\ out = <<>> /\ ~clamped THEN None
          ELSE Dots(IF c = "." THEN out ELSE IF c = ".." THEN pop ELSE Append(out, c), Tail(s), clamped)

clamp_dotdot(s) == Dots(<<>>, s, TRUE)
normalize_vpath(s) == Dots(<<>>, s, FALSE)

(***************************************************************************)
(* The session's alias table.                                               *)
(***************************************************************************)
Alias(prefix, to) == [prefix |-> prefix, to |-> to]

drive_mappings_all == Drives

(* A letter whose target is not a device (a subst) is left out.             *)
drive_mappings == {d \in Drives : Head(d.device) = "Device"}

win32_guid_to_nt(d) == IF d.guid = None THEN {} ELSE {<<"??", d.guid>>}
admin_share_nt_key(d) == <<"??", "UNC", "localhost", d.share>>

(* The target a junction or a symlink stores; any other tag is left alone.  *)
reparse_point_target(l) == IF l.tag \in {"junction", "symlink"} THEN l.to ELSE None
reparse_target_norm(l) == LET t == reparse_point_target(l) IN IF t = None THEN None ELSE normalize_vpath(t)

(* Reparse points beside the root's own ancestors, a bounded number of      *)
(* levels up, whose target is inside the root.                              *)
junction_aliases(root) ==
  {Alias(<<"??">> \o l.dir \o <<l.name>>, reparse_target_norm(l)) :
     l \in {x \in Links :
              /\ \E up \in 1..MAX_ANCESTOR_LEVELS :
                   /\ up < Len(root) /\ FoldAll(x.dir) = FoldAll(SubSeq(root, 1, Len(root) - up))
                   /\ x.name # root[Len(root) - up + 1]
              /\ reparse_target_norm(x) # None /\ is_component_prefix(root, reparse_target_norm(x))}}

resolve_volume_map_for(rs) ==
  UNION {{Alias(k, <<d.drive>>) : k \in {d.device, admin_share_nt_key(d)} \cup win32_guid_to_nt(d)} :
           d \in drive_mappings}
  \cup UNION {junction_aliases(rs[i].comps) : i \in DOMAIN rs}

(* VolumeMap::resolve: the longest registered prefix.                       *)
resolve_alias(p) ==
  LET hits == {a \in volumes : p.abs /\ is_component_prefix(a.prefix, p.comps)}
  IN IF hits = {} THEN None
     ELSE LET a == CHOOSE x \in hits : \A y \in hits : Len(y.prefix) <= Len(x.prefix)
          IN [abs |-> FALSE, comps |-> a.to \o Rest(a.prefix, p.comps)]

(***************************************************************************)
(* canonicalise.                                                            *)
(***************************************************************************)
Aliased == {"GLOBAL??", "Global"}
NAMESPACE_TOKENS == {"?", "??", "GLOBALROOT"} \cup Aliased

strip_stream_suffix(p) ==
  IF p.comps = <<>> THEN p ELSE [p EXCEPT !.comps[Len(p.comps)] = Tok[@].base]

(* At each step an alias is substituted, else, behind another name of the   *)
(* DosDevices directory, looked up as if spelled \??\, else one namespace   *)
(* token is stripped.                                                       *)
RECURSIVE peel(_, _, _)
peel(p, respell, steps) ==
  LET hit == resolve_alias(p)
      again == IF respell THEN resolve_alias([abs |-> TRUE, comps |-> <<"??">> \o p.comps]) ELSE None
  IN IF steps = 0 THEN p
     ELSE IF hit # None THEN peel(hit, FALSE, steps - 1)
     ELSE IF again # None THEN peel(again, FALSE, steps - 1)
     ELSE IF p.abs /\ p.comps # <<>> /\ Head(p.comps) \in NAMESPACE_TOKENS
     THEN peel([p EXCEPT !.comps = Tail(@)], Head(p.comps) \in Aliased, steps - 1)
     ELSE p

resolve_aliases_and_strip_prefixes(p) == peel(p, FALSE, MAX_PREFIX_STEPS).comps

strip_trailing_punctuation(s) == [i \in DOMAIN s |-> IF s[i] \in {".", ".."} THEN s[i] ELSE Tok[s[i]].trim]

IsDrive(c) == c \in {d.drive : d \in Drives}

canonicalise(p) ==
  LET s == resolve_aliases_and_strip_prefixes(strip_stream_suffix(p))
      t == strip_trailing_punctuation(s)
  IN IF s # <<>> /\ Tok[Head(s)].relative THEN None
     ELSE IF Len(t) > 1 /\ IsDrive(Head(t)) THEN <<Head(t)>> \o clamp_dotdot(Tail(t))
     ELSE normalize_vpath(t)

(***************************************************************************)
(* RootMap.                                                                 *)
(***************************************************************************)
match_canonical(s) ==
  LET hits == {i \in DOMAIN roots : is_component_prefix(roots[i].comps, s)}
  IN IF hits = {} THEN None
     ELSE LET r == roots[CHOOSE i \in hits : \A j \in hits : i <= j]
          IN [id |-> r.id, rest |-> FoldAll(Rest(r.comps, s))]

(* expand_above_roots: each short component is asked of its parent, while   *)
(* that parent is outside every root.                                       *)
RECURSIVE expand_above_roots(_, _)
expand_above_roots(out, s) ==
  IF s = <<>> \/ out = None THEN out
  ELSE IF ~Tok[Head(s)].short THEN expand_above_roots(Append(out, Head(s)), Tail(s))
  ELSE IF match_canonical(out) # None THEN out \o s
  ELSE LET slot == [dir |-> FoldAll(out), name |-> Fold(Head(s))]
       IN IF slot \notin DOMAIN os THEN None ELSE expand_above_roots(Append(out, os[slot]), Tail(s))

(* compute_under_root: what was asked of the OS is marked.                  *)
compute_under_root(p) ==
  LET canon == canonicalise(p)
  IN IF canon = None THEN [os |-> FALSE, hit |-> None]
     ELSE IF match_canonical(canon) # None \/ ~(\E i \in DOMAIN canon : Tok[canon[i]].short)
     THEN [os |-> FALSE, hit |-> match_canonical(canon)]
     ELSE LET e == expand_above_roots(<<Head(canon)>>, Tail(canon))
          IN [os |-> TRUE, hit |-> IF e = None THEN None ELSE match_canonical(e)]

(* with_capacity: longest root first, declaration order within a length.    *)
with_roots ==
  CHOOSE s \in [DOMAIN Declared -> ToSet(Declared)] :
    /\ ToSet(s) = ToSet(Declared)
    /\ \A i, j \in DOMAIN s : i < j => Len(s[i].comps) >= Len(s[j].comps)

Init ==
  /\ roots = with_roots
  /\ volumes = resolve_volume_map_for(Declared)
  /\ os \in [DOMAIN Slots -> UNION {Slots[x] : x \in DOMAIN Slots}]
  /\ \A x \in DOMAIN Slots : os[x] \in Slots[x]
  /\ cache = [map |-> <<>>, order |-> <<>>]
  /\ last = None

(* PathCache::insert: first writer wins, oldest out.                        *)
insert(key, value) ==
  IF key \in DOMAIN cache.map THEN cache
  ELSE LET full == Len(cache.order) >= capacity
           keep == IF full THEN [k \in DOMAIN cache.map \ {Head(cache.order)} |-> cache.map[k]] ELSE cache.map
       IN [map |-> (key :> value) @@ keep,
           order |-> Append(IF full THEN Tail(cache.order) ELSE cache.order, key)]

under_root_keeps(p, suppressed) ==
  IF p \in DOMAIN cache.map
  THEN last' = [path |-> p, hit |-> cache.map[p]] /\ UNCHANGED <<roots, volumes, os, cache>>
  ELSE /\ last' = [path |-> p, hit |-> compute_under_root(p).hit]
       /\ cache' = insert(p, compute_under_root(p).hit)
       /\ UNCHANGED <<roots, volumes, os>>

(* RootMap::under_root; `suppressed` inside an UncachedScope.               *)
under_root(p, suppressed) ==
  IF ~suppressed /\ p \in DOMAIN cache.map
  THEN last' = [path |-> p, hit |-> cache.map[p]] /\ UNCHANGED <<roots, volumes, os, cache>>
  ELSE LET r == compute_under_root(p) IN
       /\ last' = [path |-> p, hit |-> r.hit]
       /\ cache' = IF r.os \/ suppressed THEN cache ELSE insert(p, r.hit)
       /\ UNCHANGED <<roots, volumes, os>>

(* The entry a short name stood for is gone and another took the slot.      *)
reslot(x) ==
  /\ \E long \in Slots[x] \ {os[x]} : os' = [os EXCEPT ![x] = long]
  /\ last' = None
  /\ UNCHANGED <<roots, volumes, cache>>

Next ==
  \/ \E p \in Raws, s \in BOOLEAN : under_root(p, s)
  \/ \E x \in DOMAIN Slots : reslot(x)

Spec == Init /\ [][Next]_vars

(***************************************************************************)
(* The object manager's reading, walked one component at a time through     *)
(* its directories; None when there is no such object.                      *)
(***************************************************************************)
OnVolume(d, s) == <<d.drive>> \o clamp_dotdot(strip_trailing_punctuation(s))

RECURSIVE Walk(_, _)
Walk(dir, s) ==
  LET c == Head(s)
      vol(P(_)) == {d \in drive_mappings : P(d)}
      on(P(_)) == IF vol(P) = {} THEN None ELSE OnVolume(CHOOSE d \in vol(P) : TRUE, Tail(s))
  IN IF s = <<>> THEN None
     ELSE CASE dir = "objects" /\ c \in {"??", "GLOBAL??"} -> Walk("dosdevices", Tail(s))
            [] dir = "objects" /\ c = "?" -> Walk("verbatim", Tail(s))
            [] dir = "objects" /\ c = "Device" -> Walk("device", Tail(s))
            [] dir = "dosdevices" /\ c = "Global" -> Walk("dosdevices", Tail(s))
            [] dir = "dosdevices" /\ c = "GLOBALROOT" -> Walk("objects", Tail(s))
            [] dir = "dosdevices" /\ c = "UNC" -> Walk("unc", Tail(s))
            [] dir \in {"dosdevices", "verbatim"} /\ IsDrive(c) -> on(LAMBDA d : d.drive = c)
            [] dir = "dosdevices" /\ c \in {d.guid : d \in Drives} -> on(LAMBDA d : d.guid = c)
            [] dir = "device" -> on(LAMBDA d : d.device = <<"Device", c>>)
            [] dir = "unc" /\ c = "localhost" -> Walk("shares", Tail(s))
            [] dir = "shares" -> on(LAMBDA d : d.share = c)
            [] OTHER -> None

(* Short names outside the roots and reparse points, followed as the file   *)
(* system does.                                                             *)
RECURSIVE Follow(_, _)
Follow(out, s) ==
  IF s = <<>> THEN out
  ELSE LET slot == [dir |-> FoldAll(out), name |-> Fold(Head(s))]
           c == IF slot \in DOMAIN os THEN os[slot] ELSE Head(s)
           links == {l \in Links : reparse_point_target(l) # None /\ FoldAll(l.dir) = FoldAll(out) /\ Fold(l.name) = Fold(c)}
       IN IF links # {} THEN Follow((CHOOSE l \in links : TRUE).to, Tail(s))
          ELSE Follow(Append(out, c), Tail(s))

Denotes(p) ==
  LET s == strip_stream_suffix(p).comps
      w == IF p.abs THEN Walk("objects", s)
           ELSE IF s # <<>> /\ IsDrive(Head(s)) THEN Walk("dosdevices", s) ELSE None
  IN IF w = None THEN None ELSE Follow(<<Head(w)>>, Tail(w))

(* Type invariant.                                                          *)
TypeOK ==
  /\ Len(cache.order) <= capacity /\ ToSet(cache.order) = DOMAIN cache.map
  /\ last = None \/ last.path \in Raws

(* canonicalise's doc: "Every spelling of the same file must come out       *)
(* identical": a path the object manager resolves to something under a root *)
(* is answered with the deepest such root and the rest folded, and one it   *)
(* resolves outside every root is answered with none.                       *)
SpellingsAgree ==
  last # None =>
    LET d == Denotes(last.path) IN d # None => last.hit = match_canonical(d)

(* under_root: "an OS-resolved identity is a fact about the filesystem now, *)
(* not a fact about the string": every answer, cached or not, is what the   *)
(* volume says at that moment.                                              *)
AnswerCurrent == last # None => last.hit = compute_under_root(last.path).hit

=============================================================================
