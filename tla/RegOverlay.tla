----------------------------- MODULE RegOverlay -----------------------------
(***************************************************************************)
(* The registry overlay: the director's tree of overlay nodes and          *)
(* tombstones (vfs-registry overlay.rs), its save and reload (format.rs),  *)
(* the merged view a hooked process is shown (merge.rs, regquery.rs) and   *)
(* the shim's open, create and write decisions (regkeys.rs, regwrite.rs),  *)
(* each a lookup followed by director requests that other threads come in  *)
(* between.                                                                *)
(*                                                                         *)
(* A path is the sequence of folded component names below a hive root,     *)
(* the empty sequence, which the shim never deletes or renames.  A key     *)
(* has one value.  The real registry stands still: every write goes to     *)
(* the overlay.  `tree` is the registry the process should see.            *)
(***************************************************************************)
EXTENDS Integers, SequencesExt, FiniteSetsExt

CONSTANTS
    Threads,
    Names, Paths,      \* component names; the keys there may be, closed under prefixes
    RealKeys, RealVal, \* the real registry: its keys (the root among them), their value
    Data, NoVal,       \* what a value holds; no value
    MaxVersion,        \* bound: director writes
    MaxDeletedAt,      \* MAX_DELETED_AT
    MaxFaults,         \* bound: director requests that go unanswered
    MaxReloads,        \* bound: reloads
    Volatile,          \* the keys that may be created volatile
    Ops                \* the calls that are made

Root == <<>>
Ancestors(p) == {SubSeq(p, 1, i) : i \in 0..(Len(p) - 1)}
Below(p, S) == {q \in S : IsStrictPrefix(p, q)}
Biggest(S) == IF S = {} THEN 0 ELSE Max(S)
Nothing == [x \in {} |-> 0]

VARIABLES
    o,          \* the director's Overlay
    job,        \* what each thread of the process is at
    faults, reloads,
    tree,       \* the keys that should be seen, with their values
    transient,  \* those created volatile
    own, deep   \* when what is seen at a key, and at or below it, last changed

vars == <<o, job, faults, reloads, tree, transient, own, deep>>

Init ==
    /\ o = [nodes |-> Nothing, tombs |-> {}, deleted |-> Nothing, floor |-> 0, version |-> 0]
    /\ job = [t \in Threads |-> [op |-> "idle"]]
    /\ faults = 0 /\ reloads = 0
    /\ tree = [p \in RealKeys |-> RealVal[p]]
    /\ transient = {}
    /\ own = [p \in Paths |-> 0]
    /\ deep = [p \in Paths |-> 0]

(***************************************************************************)
(* vfs-registry: the overlay                                               *)
\* Mutant: a key never counts as created here.
NewNode_real(created, v) ==
    [val |-> NoVal, hidden |-> FALSE, kids |-> [n \in Names |-> "no"], created |-> FALSE,
     volatile |-> FALSE, changed |-> v, subtree |-> 0]

(***************************************************************************)
NewNode(created, v) ==
    [val |-> NoVal, hidden |-> FALSE, kids |-> [n \in Names |-> "no"], created |-> created,
     volatile |-> FALSE, changed |-> v, subtree |-> 0]

Tombstoned(s, p) == \E q \in Ancestors(p) \cup {p} : q \in s.tombs

lookup(s, p) ==
    IF p \in DOMAIN s.nodes THEN IF s.nodes[p].created THEN "created" ELSE "present"
    ELSE IF Tombstoned(s, p) THEN "tombstoned" ELSE "absent"

\* Mutant: the deletions are forgotten without raising the floor.
tomb_forgets(s, p, v) ==
    LET d == (p :> v) @@ s.deleted
        full == Cardinality(DOMAIN d) > MaxDeletedAt
    IN [s EXCEPT !.tombs = @ \cup {p}, !.deleted = IF full THEN Nothing ELSE d]

\* Mutant: deletions are never forgotten.
tomb_unbounded(s, p, v) ==
    [s EXCEPT !.tombs = @ \cup {p}, !.deleted = (p :> v) @@ @]

tomb(s, p, v) ==
    LET d == (p :> v) @@ s.deleted
        full == Cardinality(DOMAIN d) > MaxDeletedAt
    IN [s EXCEPT !.tombs = @ \cup {p},
                 !.deleted = IF full THEN Nothing ELSE d,
                 !.floor = IF full THEN Biggest({@} \cup Range(d)) ELSE @]

touch_ancestors(s, p, v) ==
    [s EXCEPT !.nodes = [q \in DOMAIN @ |-> IF q \in Ancestors(p) THEN [@[q] EXCEPT !.subtree = v]
                                            ELSE @[q]]]

mark(s, p, v) == touch_ancestors([s EXCEPT !.nodes[p].changed = v], p, v)

ensure_chain(s, p, realExists, v) ==
    LET Link(x, q) ==
          IF q \in DOMAIN x.nodes THEN x
          ELSE LET top == q = Root
                   revived == q \in x.tombs \/ (~top /\ x.nodes[Front(q)].kids[Last(q)] = "tomb")
                   up == ~top /\ x.nodes[Front(q)].created
                   node == NewNode(revived \/ up \/ (q = p /\ ~realExists), v)
                   listed == IF top THEN x.nodes
                             ELSE [x.nodes EXCEPT ![Front(q)].kids[Last(q)] = "present",
                                                  ![Front(q)].changed = v]
               IN [x EXCEPT !.tombs = @ \ {q}, !.nodes = (q :> node) @@ listed]
    IN FoldLeft(Link, s, [i \in 1..(Len(p) + 1) |-> SubSeq(p, 1, i - 1)])

Bump(s) == [s EXCEPT !.version = @ + 1]

set_value(s, p, d) ==
    LET v == s.version + 1
        c == ensure_chain(Bump(s), p, TRUE, v)
    IN mark([c EXCEPT !.nodes[p].val = d, !.nodes[p].hidden = FALSE], p, v)

delete_value(s, p) ==
    LET v == s.version + 1
        c == ensure_chain(Bump(s), p, TRUE, v)
    IN IF lookup(s, p) = "tombstoned" THEN s
       ELSE mark([c EXCEPT !.nodes[p].val = NoVal, !.nodes[p].hidden = TRUE], p, v)

create_key(s, p, vol) ==
    LET v == s.version + 1
        c == ensure_chain(Bump(s), p, FALSE, v)
    IN IF p \in DOMAIN s.nodes THEN s
       ELSE mark([c EXCEPT !.nodes[p].volatile = vol], p, v)

\* Mutant: tombstones below a removed key stay.
remove_subtree_tombs(s, p) ==
    [s EXCEPT !.nodes = Restrict(@, {q \in DOMAIN @ : ~IsPrefix(p, q)})]

remove_subtree(s, p) ==
    [s EXCEPT !.nodes = Restrict(@, {q \in DOMAIN @ : ~IsPrefix(p, q)}),
              !.tombs = {q \in @ : ~IsPrefix(p, q)}]

delete_key(s, p) ==
    LET v == s.version + 1
        c == ensure_chain(Bump(s), Front(p), TRUE, v)
        d == tomb(remove_subtree(c, p), p, v)
    IN IF lookup(s, p) = "tombstoned" THEN s
       ELSE touch_ancestors([d EXCEPT !.nodes[Front(p)].kids[Last(p)] = "tomb",
                                      !.nodes[Front(p)].changed = v], Front(p), v)

Moved(p, n, q) == Front(p) \o <<n>> \o SubSeq(q, Len(p) + 1, Len(q))

rename_key(s, p, n) ==
    LET v == s.version + 1
        dest == Front(p) \o <<n>>
        taken == {q \in DOMAIN s.nodes : IsPrefix(p, q)}
        put == [r \in {Moved(p, n, q) : q \in taken} |->
                  [s.nodes[p \o SubSeq(r, Len(p) + 1, Len(r))] EXCEPT
                     !.created = TRUE, !.changed = v, !.subtree = v]]
        bare == remove_subtree(Bump(s), p)
        moved == [bare EXCEPT !.tombs = @ \ {dest}, !.nodes = put @@ @]
        tombs == FoldSet(LAMBDA q, x : tomb(x, Moved(p, n, q), v), moved, Below(p, s.tombs))
        gone == tomb(tombs, p, v)
    IN IF p \notin DOMAIN s.nodes \/ dest \in DOMAIN s.nodes THEN s
       ELSE touch_ancestors([gone EXCEPT !.nodes[Front(p)].kids[Last(p)] = "tomb",
                                         !.nodes[Front(p)].kids[n] = "present",
                                         !.nodes[Front(p)].changed = v], Front(p), v)

changed_since(s, p, subtree, v) ==
    IF p \in DOMAIN s.nodes
    THEN s.nodes[p].changed > v \/ (subtree /\ s.nodes[p].subtree > v)
    ELSE \/ \E q \in Ancestors(p) \cup {p} : q \in DOMAIN s.deleted /\ s.deleted[q] > v
         \/ s.floor > v

\* The file: volatile keys and what is below them are not written, tombstones of written keys are.
encode(s) ==
    LET kept == {p \in DOMAIN s.nodes :
                   \A q \in Ancestors(p) \cup {p} : ~s.nodes[q].volatile}
        Kid(p, n) == IF s.nodes[p].kids[n] = "present" /\ Append(p, n) \notin kept THEN "no"
                     ELSE s.nodes[p].kids[n]
    IN [p \in kept |-> [s.nodes[p] EXCEPT !.kids = [n \in Names |-> Kid(p, n)]]]

\* The overlay a file holds: its tombstones from the lists, its versions from the start.
decode(f) ==
    LET dead == {Append(x[1], x[2]) : x \in {y \in (DOMAIN f) \X Names : f[y[1]].kids[y[2]] = "tomb"}}
        full == Cardinality(dead) > MaxDeletedAt
    IN [nodes |-> [p \in DOMAIN f |-> [f[p] EXCEPT !.changed = 1, !.subtree = 1]],
        tombs |-> dead,
        deleted |-> IF full THEN Nothing ELSE [p \in dead |-> 1],
        floor |-> IF full THEN 1 ELSE 0,
        version |-> 1]

(***************************************************************************)
(* The shim: what it makes of the overlay and the real registry            *)
(***************************************************************************)
below_created(s, p) ==
    LET told == {q \in Ancestors(p) : lookup(s, q) # "absent"}
    IN told # {} /\ lookup(s, CHOOSE q \in told : \A r \in told : Len(r) <= Len(q)) # "present"

RealShows(s, p) ==
    /\ p \in RealKeys
    /\ lookup(s, p) # "created"
    /\ lookup(s, p) = "present" \/ ~below_created(s, p)

exists(s, p) ==
    lookup(s, p) # "tombstoned" /\ (p \in DOMAIN s.nodes \/ RealShows(s, p))

find_value(s, p) ==
    LET n == s.nodes[p]
        real == IF RealShows(s, p) THEN RealVal[p] ELSE NoVal
    IN IF p \notin DOMAIN s.nodes THEN real
       ELSE IF n.val # NoVal THEN n.val ELSE IF n.created \/ n.hidden THEN NoVal ELSE real

sub_entries(s, p) ==
    LET real == IF RealShows(s, p) THEN {n \in Names : Append(p, n) \in RealKeys} ELSE {}
        Kid(n) == IF p \in DOMAIN s.nodes THEN s.nodes[p].kids[n] ELSE "no"
    IN {n \in Names : Kid(n) = "present" \/ (n \in real /\ Kid(n) # "tomb")}

merge(s, p) ==
    IF exists(s, p) THEN <<TRUE, find_value(s, p), sub_entries(s, p)>> ELSE <<FALSE, NoVal, {}>>

\* Everything the process sees at or below `p`.
Seen(s, p) == {q \in Paths : IsPrefix(p, q) /\ exists(s, q)}

(***************************************************************************)
(* The shim's calls: a check against the overlay, then the requests        *)
(***************************************************************************)
Start(t, what) ==
    /\ job[t].op = "idle"
    /\ what.op \in Ops
    /\ job' = [job EXCEPT ![t] = what]
    /\ UNCHANGED <<o, faults, reloads, tree, transient, own, deep>>

\* A create that finds nothing to open and a parent to create under.
create(t) ==
    \E p \in Paths \ {Root}, vol \in BOOLEAN :
        /\ ~exists(o, p) /\ exists(o, Front(p))
        /\ vol => p \in Volatile
        /\ Start(t, [op |-> "create", path |-> p, vol |-> vol])

set_value_key(t) ==
    \E p \in Paths, d \in Data :
        exists(o, p) /\ Start(t, [op |-> "set", path |-> p, data |-> d])

delete_value_key(t) ==
    \E p \in Paths :
        exists(o, p) /\ find_value(o, p) # NoVal /\ Start(t, [op |-> "unset", path |-> p])

delete_key_call(t) ==
    \E p \in Paths \ {Root} :
        exists(o, p) /\ sub_entries(o, p) = {} /\ Start(t, [op |-> "delete", path |-> p])

\* The merged subtree as the writes of a copy: each key, then its value.
collect(s, p, n) ==
    LET keys == SetToSortSeq(Seen(s, p), LAMBDA x, y : Len(x) < Len(y))
        Vol(q) == q \in DOMAIN s.nodes /\ s.nodes[q].volatile
        Writes(q) ==
          <<[op |-> "create", path |-> Moved(p, n, q), vol |-> Vol(q)]>> \o
          IF find_value(s, q) = NoVal THEN <<>>
          ELSE <<[op |-> "set", path |-> Moved(p, n, q), data |-> find_value(s, q)]>>
    IN FoldLeft(LAMBDA x, q : x \o Writes(q), <<>>, keys)

rename_key_call(t) ==
    \E p \in Paths \ {Root}, n \in Names :
        LET dest == Front(p) \o <<n>>
        IN /\ exists(o, p) /\ n # Last(p) /\ ~exists(o, dest)
           /\ \A q \in Seen(o, p) : Moved(p, n, q) \in Paths
           /\ \A q \in transient : IsPrefix(p, q) => Moved(p, n, q) \in Volatile
           /\ Start(t, IF lookup(o, p) = "created"
                       THEN [op |-> "rename", path |-> p, leaf |-> n]
                       ELSE [op |-> "copy", path |-> p, leaf |-> n,
                             todo |-> collect(o, p, n) \o <<[op |-> "delete", path |-> p]>>])

(* What a request makes of the overlay, and of the registry the process    *)
(* should see.                                                             *)
Apply(s, r) ==
    CASE r.op = "create" -> create_key(s, r.path, r.vol)
      [] r.op = "set" -> set_value(s, r.path, r.data)
      [] r.op = "unset" -> delete_value(s, r.path)
      [] r.op = "delete" -> delete_key(s, r.path)
      [] r.op = "rename" -> rename_key(s, r.path, r.leaf)

MovedTree(p, n) ==
    LET away == {q \in DOMAIN tree : IsPrefix(p, q)}
    IN [q \in (DOMAIN tree \ away) \cup {Moved(p, n, r) : r \in away} |->
          IF q \in DOMAIN tree THEN tree[q] ELSE tree[p \o SubSeq(q, Len(p) + 1, Len(q))]]

ApplyTree(r) ==
    CASE r.op = "create" -> tree @@ (r.path :> NoVal)
      [] r.op = "set" -> IF r.path \in DOMAIN tree THEN [tree EXCEPT ![r.path] = r.data] ELSE tree
      [] r.op = "unset" -> IF r.path \in DOMAIN tree THEN [tree EXCEPT ![r.path] = NoVal] ELSE tree
      [] r.op = "delete" -> Restrict(tree, {q \in DOMAIN tree : ~IsPrefix(r.path, q)})
      [] r.op \in {"rename", "copy"} -> IF r.path \in DOMAIN tree THEN MovedTree(r.path, r.leaf) ELSE tree

ApplyTransient(r) ==
    CASE r.op = "create" -> IF r.vol THEN transient \cup {r.path} ELSE transient
      [] r.op = "delete" -> {q \in transient : ~IsPrefix(r.path, q)}
      [] r.op \in {"rename", "copy"} ->
            {IF IsPrefix(r.path, q) THEN Moved(r.path, r.leaf, q) ELSE q : q \in transient}
      [] OTHER -> transient

\* The director answers: the overlay is `s`, and what changed is noted.
Answer(s) ==
    /\ o' = s
    /\ LET fresh == {p \in Paths : merge(o, p) # merge(s, p)}
           at(p, old) == IF p \in fresh THEN s.version ELSE old
       IN /\ own' = [p \in Paths |-> at(p, own[p])]
          /\ deep' = [p \in Paths |-> IF \E q \in fresh : IsPrefix(p, q) THEN s.version ELSE deep[p]]

Request(t) ==
    /\ job[t].op \in {"create", "set", "unset", "delete", "rename"}
    /\ o.version < MaxVersion
    /\ Answer(Apply(o, job[t]))
    /\ tree' = ApplyTree(job[t])
    /\ transient' = ApplyTransient(job[t])
    /\ job' = [job EXCEPT ![t] = [op |-> "idle"]]
    /\ UNCHANGED <<faults, reloads>>

(* One request of a copying rename.  Its first create may find the name    *)
(* taken; a failure after it deletes the copy again.                       *)
CopyRequest(t) ==
    LET r == Head(job[t].todo)
        dest == Front(job[t].path) \o <<job[t].leaf>>
        first == r.op = "create" /\ r.path = dest
        refused == \/ r.op = "create" /\ r.path \in DOMAIN o.nodes
                   \/ r.op = "delete" /\ lookup(o, r.path) = "tombstoned"
        after == IF first THEN [op |-> "idle"] ELSE [op |-> "undo", path |-> dest]
    IN /\ job[t].op = "copy"
       /\ o.version < MaxVersion
       /\ UNCHANGED reloads
       /\ \/ /\ ~refused
             /\ Answer(Apply(o, r))
             /\ IF r.op = "delete"
                THEN /\ tree' = ApplyTree(job[t])
                     /\ transient' = ApplyTransient(job[t])
                     /\ job' = [job EXCEPT ![t] = [op |-> "idle"]]
                ELSE job' = [job EXCEPT ![t].todo = Tail(@)] /\ UNCHANGED <<tree, transient>>
             /\ UNCHANGED faults
          \/ /\ refused \/ faults < MaxFaults
             /\ faults' = IF refused THEN faults ELSE faults + 1
             /\ job' = [job EXCEPT ![t] = after]
             /\ UNCHANGED <<o, tree, transient, own, deep>>

Undo(t) ==
    /\ job[t].op = "undo"
    /\ o.version < MaxVersion
    /\ Answer(delete_key(o, job[t].path))
    /\ job' = [job EXCEPT ![t] = [op |-> "idle"]]
    /\ UNCHANGED <<faults, reloads, tree, transient>>

\* The session is closed and opened again on the saved layer.
Reload ==
    /\ reloads < MaxReloads /\ reloads' = reloads + 1
    /\ \A t \in Threads : job[t].op = "idle"
    /\ o.version > 0
    /\ o' = decode(encode(o))
    /\ tree' = Restrict(tree, {p \in DOMAIN tree :
                                 \A q \in Ancestors(p) \cup {p} : q \notin transient})
    /\ transient' = {}
    /\ own' = [p \in Paths |-> 0]
    /\ deep' = [p \in Paths |-> 0]
    /\ UNCHANGED <<job, faults>>

Next ==
    \/ \E t \in Threads :
         \/ create(t) \/ set_value_key(t) \/ delete_value_key(t) \/ delete_key_call(t)
         \/ rename_key_call(t) \/ Request(t) \/ CopyRequest(t) \/ Undo(t)
    \/ Reload

Spec == Init /\ [][Next]_vars

(***************************************************************************)
(* Properties                                                              *)
(***************************************************************************)
\* The overlay's numbers stay within its limits: no node or deletion is newer than the version,
\* and no more than MAX_DELETED_AT deletions are remembered.
TypeOK ==
    /\ DOMAIN o.nodes \subseteq Paths /\ o.tombs \subseteq Paths
    /\ \A p \in DOMAIN o.nodes :
         /\ o.nodes[p].kids \in [Names -> {"no", "present", "tomb"}]
         /\ o.nodes[p].changed <= o.version /\ o.nodes[p].subtree <= o.version
    /\ Cardinality(DOMAIN o.deleted) <= MaxDeletedAt
    /\ \A p \in DOMAIN o.deleted : o.deleted[p] <= o.version
    /\ DOMAIN tree \subseteq Paths /\ transient \subseteq Paths

\* The parts of the overlay agree with each other after every request: a node hangs from its
\* parent's list, a listed child has its node, a child is listed deleted exactly when it has a
\* tombstone, and everything below a key created here is created here too - what lets an open
\* below one never look at the real registry.
ListsAgree ==
    /\ \A p \in DOMAIN o.nodes \ {Root} :
         /\ Front(p) \in DOMAIN o.nodes
         /\ o.nodes[Front(p)].kids[Last(p)] = "present"
         /\ o.nodes[Front(p)].created => o.nodes[p].created
    /\ \A p \in DOMAIN o.nodes, n \in Names :
         Append(p, n) \in Paths =>
           /\ (o.nodes[p].kids[n] = "present") = (Append(p, n) \in DOMAIN o.nodes)
           /\ (o.nodes[p].kids[n] = "tomb") = (Append(p, n) \in o.tombs)
    /\ \A p \in o.tombs : Front(p) \in DOMAIN o.nodes

\* The process sees a registry of its own: between its calls, opens, values and key lists merged
\* from the overlay and the real registry are those of a private registry to which every create,
\* write, delete and rename was applied, a save and reload dropping the volatile keys and nothing
\* else.
ViewIsTree ==
    (\A t \in Threads : job[t].op \notin {"copy", "undo"}) =>
        \A p \in Paths :
            /\ exists(o, p) = (p \in DOMAIN tree)
            /\ p \in DOMAIN tree =>
                 /\ find_value(o, p) = tree[p]
                 /\ sub_entries(o, p) = {n \in Names : Append(p, n) \in DOMAIN tree}

\* No change is missed: whoever saw version `v` of a key, or of a key and everything below it, and
\* asks again, is told of a change that came after `v`, however many deletions were forgotten.
ChangesNoticed ==
    \A p \in Paths, v \in 0..(o.version - 1) :
        /\ own[p] > v => changed_since(o, p, FALSE, v)
        /\ deep[p] > v => changed_since(o, p, TRUE, v)

WritesReviveNothingStep ==
    \A t \in Threads :
       job[t].op \in {"set", "unset"} /\ job'[t].op = "idle" =>
           \A p \in Paths : exists(o', p) => exists(o, p)

\* A write to a key that was deleted since the shim looked it up is refused: setting or deleting a
\* value never brings a key back.
WritesReviveNothing == [][WritesReviveNothingStep]_vars

=============================================================================
