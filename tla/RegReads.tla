------------------------------ MODULE RegReads -------------------------------
(***************************************************************************)
(* The registry read hooks: the merged answer of a key, and its layout in  *)
(* the caller's buffer. Each section is a state machine of its own; they   *)
(* share no state.                                                         *)
(***************************************************************************)
EXTENDS Integers, Sequences, FiniteSets

CONSTANTS
    \* view
    Names,   \* names of subkeys and values, integers in their sorted order
    RealKeys,   \* what the real key may hold, [subs, vals], sequences of names
    Refuses,   \* the real key refuses KEY_READ as a whole
    MaxGen, MaxFaults, MaxChanges, MaxCalls,   \* bounds
    \* layout
    Classes, Datas,   \* byte lengths of a name, a key's class and a value's data
    Lists,   \* lists of lengths, NoVal among them, asked for together
    Buffers,   \* the caller's buffer lengths
    Cap0,   \* the length `grown` starts with (512)
    NoVal,
    None

VARIABLES
    \* view
    real,   \* the real key, or None once it is gone
    state,   \* the overlay at the key: absent, tombstoned, present
    below,   \* the overlay has something below it
    node,   \* the overlay's node, or None
    gen, up,   \* the published generation; the director answers
    h,   \* the handle
    kept,   \* ENUMS: the subkey and the value list kept for it
    call,   \* the call under way
    scan,   \* the enumeration the caller is in the middle of
    last,   \* the last answer: what it says, and what the key held meanwhile
    calls, faults, changes, touched,
    \* layout
    ask,   \* what is asked for
    buf,   \* the length of the buffer
    ans,   \* the answer
    tries   \* calls made for it

(***************************************************************************)
(* The registry read hooks on one key (vfs-shim regquery.rs, and what they *)
(* use of regkeys.rs): who answers a call on a handle, the merged answer,  *)
(* and the enumeration state kept per handle between two calls.  Another   *)
(* process writes to the overlay, something outside changes the real key,  *)
(* the director goes away and comes back.  And the hooks that must keep    *)
(* a call from changing the real registry (hook/registry.rs).              *)
(***************************************************************************)
Rights == {"query", "enum"}
NoKids == [n \in Names |-> "no"]
NewNode(created) == [created |-> created, kids |-> NoKids, vals |-> <<>>, hidden |-> {}]

env == <<real, state, below, node, gen, up, faults, changes>>
viewVars == <<env, h, kept, call, scan, last, calls, touched>>

InSeq(s) == {s[i] : i \in DOMAIN s}
sorted(S) == CHOOSE s \in [1..Cardinality(S) -> S] :
                 \A i, j \in DOMAIN s : i < j => s[i] < s[j]
Indexed(s, Keep(_)) ==
    LET I == {i \in DOMAIN s : Keep(s[i])}
        at(k) == CHOOSE i \in I : Cardinality({j \in I : j < i}) = k - 1
    IN [k \in 1..Cardinality(I) |-> at(k)]

(***************************************************************************)
(* The merged lists                                                        *)
(***************************************************************************)
\* Mutant: the overlay's own subkeys, whether the real key has them or not.
sub_entries_twice(names, n) ==
    LET r == IF names = None \/ (n # None /\ n.created) THEN <<>> ELSE names
        kid(x) == IF n = None THEN "no" ELSE n.kids[x]
        live == Indexed(r, LAMBDA x : kid(x) # "tomb")
        own == IF n = None THEN <<>> ELSE sorted({x \in Names : n.kids[x] = "present"})
    IN [i \in DOMAIN live |-> [name |-> r[live[i]], real |-> live[i], touched |-> kid(r[live[i]]) # "no"]]
         \o [i \in DOMAIN own |-> [name |-> own[i], real |-> 0, touched |-> TRUE]]

sub_entries(names, n) ==
    LET r == IF names = None \/ (n # None /\ n.created) THEN <<>> ELSE names
        kid(x) == IF n = None THEN "no" ELSE n.kids[x]
        live == Indexed(r, LAMBDA x : kid(x) # "tomb")
        own == IF n = None THEN <<>>
               ELSE sorted({x \in Names : n.kids[x] = "present" /\ x \notin InSeq(r)})
    IN [i \in DOMAIN live |-> [name |-> r[live[i]], real |-> live[i], touched |-> kid(r[live[i]]) # "no"]]
         \o [i \in DOMAIN own |-> [name |-> own[i], real |-> 0, touched |-> TRUE]]

val_entries(names, n) ==
    LET r == IF names = None \/ (n # None /\ n.created) THEN <<>> ELSE names
        own == IF n = None THEN <<>> ELSE n.vals
        live == Indexed(r, LAMBDA x : n = None \/ x \notin InSeq(own) \cup n.hidden)
    IN [i \in DOMAIN own |-> [name |-> own[i], real |-> 0, touched |-> TRUE]]
         \o [i \in DOMAIN live |-> [name |-> r[live[i]], real |-> live[i], touched |-> FALSE]]

entries(kind, names, n) == IF kind = "subs" THEN sub_entries(names, n) ELSE val_entries(names, n)

\* Where a value comes from.
hit(n, x) ==
    IF n = None THEN "real"
    ELSE IF x \in InSeq(n.vals) THEN "overlay"
    ELSE IF n.created \/ x \in n.hidden THEN "hidden" ELSE "real"

\* The key as it should be seen (merge.rs): None, or its subkeys and its values.
View ==
    LET shown == IF real = None \/ (node # None /\ node.created) THEN None ELSE real
        subs == IF shown = None THEN {} ELSE InSeq(shown.subs)
        vals == IF shown = None THEN {} ELSE InSeq(shown.vals)
    IN IF state = "tombstoned" \/ (shown = None /\ node = None) THEN [key |-> FALSE, subs |-> {}, vals |-> {}]
       ELSE IF node = None THEN [key |-> TRUE, subs |-> subs, vals |-> {[n |-> x, of |-> "real"] : x \in vals}]
       ELSE [key |-> TRUE,
             subs |-> {x \in Names : node.kids[x] = "present" \/ (x \in subs /\ node.kids[x] # "tomb")},
             vals |-> {[n |-> x, of |-> "overlay"] : x \in InSeq(node.vals)}
                        \cup {[n |-> x, of |-> "real"] : x \in vals \ (InSeq(node.vals) \cup node.hidden)}]

(***************************************************************************)
(* What changes meanwhile                                                  *)
(***************************************************************************)
Idle == call.at = "idle"
\* A change is one of the moments of the call under way, and spoils a scan.
Moment == /\ call' = IF Idle THEN call ELSE [call EXCEPT !.views = @ \cup {View'}, !.moved = TRUE]
          /\ scan' = [scan EXCEPT !.still = FALSE]

OverlayWrite ==
    /\ gen < MaxGen /\ up
    /\ gen' = gen + 1
    /\ LET n == IF node = None THEN NewNode(state = "tombstoned" \/ real = None) ELSE node
       IN \/ \E x \in Names : node' = [n EXCEPT !.vals = IF x \in InSeq(@) THEN @ ELSE Append(@, x),
                                                !.hidden = @ \ {x}]
          \/ \E x \in Names : node' = [n EXCEPT !.vals = SelectSeq(@, LAMBDA y : y # x),
                                                !.hidden = @ \cup {x}]
          \/ \E x \in Names, k \in {"present", "tomb"} : node' = [n EXCEPT !.kids[x] = k]
          \/ node' = None
    /\ state' = IF node' = None THEN "tombstoned" ELSE "present"
    /\ below' = FALSE
    /\ UNCHANGED <<real, up, faults, changes, h, kept, last, calls, touched>>
    /\ Moment

\* A key created below it: the overlay holds no node for this one.
WriteBelow ==
    /\ gen < MaxGen /\ up /\ state = "absent" /\ real # None
    /\ gen' = gen + 1 /\ below' = TRUE
    /\ UNCHANGED <<real, state, node, up, faults, changes, h, kept, call, scan, last, calls, touched>>

RealChange ==
    /\ changes < MaxChanges /\ changes' = changes + 1
    /\ real # None /\ \E r \in RealKeys \cup {None} : r # real /\ real' = r
    /\ UNCHANGED <<state, below, node, gen, up, faults, h, kept, last, calls, touched>>
    /\ Moment

\* The director stops answering, or answers again.
Director ==
    /\ faults < MaxFaults /\ faults' = faults + 1
    /\ up' = ~up
    /\ call' = IF Idle THEN call ELSE [call EXCEPT !.lost = TRUE, !.moved = TRUE]
    /\ scan' = [scan EXCEPT !.still = FALSE]
    /\ UNCHANGED <<real, state, below, node, gen, changes, h, kept, last, calls, touched>>

(***************************************************************************)
(* The handle                                                              *)
(***************************************************************************)
\* The rights of the shim's private handle on a key that may refuse KEY_READ.
open_private(access) ==
    IF ~Refuses THEN Rights ELSE IF access \in {{}, Rights} THEN {} ELSE access

\* A handle the game opened: the real one where the overlay has nothing, a synthetic one
\* otherwise.
open(access) ==
    /\ h = None /\ Idle /\ up
    /\ IF state = "absent" /\ ~below
       THEN real # None /\ h' = [synthetic |-> FALSE, real |-> TRUE, access |-> access,
                                 granted |-> access, deleted |-> FALSE]
       ELSE /\ state # "tombstoned"
            /\ LET shows == real # None /\ (node # None => ~node.created)
               IN /\ state = "absent" => shows
                  /\ shows => open_private(access) # {}
                  /\ h' = [synthetic |-> TRUE, real |-> shows, access |-> access,
                           granted |-> IF shows THEN open_private(access) ELSE {}, deleted |-> FALSE]
    /\ UNCHANGED <<env, kept, call, scan, last, calls, touched>>

\* Who answers: the real call, KEY_DELETED, a refusal, or the merge, with or without the real key.
\* Mutant: the private handle of a synthetic key answers whoever asks.
classify_any(right) ==
    IF h.deleted THEN [to |-> "deleted"]
    ELSE IF ~up THEN IF h.real THEN [to |-> "real"] ELSE [to |-> "deleted"]
    ELSE IF ~h.synthetic /\ state = "absent" /\ ~below THEN [to |-> "real"]
    ELSE IF state = "tombstoned" THEN [to |-> "deleted"]
    ELSE [to |-> "merge", real |-> h.real /\ (node # None => ~node.created)]

classify(right) ==
    IF h.deleted THEN [to |-> "deleted"]
    ELSE IF h.synthetic /\ ~up /\ right \notin h.access \cup {"none"} THEN [to |-> "denied"]
    ELSE IF ~up THEN IF h.real THEN [to |-> "real"] ELSE [to |-> "deleted"]
    ELSE IF ~h.synthetic /\ state = "absent" /\ ~below THEN [to |-> "real"]
    ELSE IF state = "tombstoned" THEN [to |-> "deleted"]
    ELSE [to |-> "merge", real |-> h.real /\ (node # None => ~node.created)]

\* KeyRef::with_real: what the real key holds, or None where there is none; a handle that lacks
\* the rights is replaced by a private one with just these.
with_real(has) ==
    IF ~has \/ real = None THEN [ok |-> TRUE, val |-> None]
    ELSE IF Rights \subseteq h.granted \/ ~Refuses THEN [ok |-> TRUE, val |-> real]
    ELSE [ok |-> FALSE, val |-> None]

(***************************************************************************)
(* The calls                                                               *)
(***************************************************************************)
IdleCall == [at |-> "idle", kind |-> "none", index |-> 0, real |-> FALSE, gen |-> 0,
             names |-> None, moved |-> FALSE, views |-> {}, lost |-> FALSE]
NoScan == [kind |-> "none", next |-> 0, got |-> <<>>, still |-> TRUE, over |-> FALSE]

\* What a call says: a status, or an entry's name.
Says(status) == [is |-> status, name |-> 0]
Entry(n) == [is |-> "entry", name |-> n]
NoAnswer == [op |-> "none", says |-> Says("none"), right |-> "none", lost |-> FALSE, views |-> {}]

Begin == calls < MaxCalls /\ calls' = calls + 1 /\ h # None /\ Idle

\* The answer, with everything the key was while the call ran.
Reply(op, says, right) ==
    /\ call' = IdleCall
    /\ last' = [op |-> op, says |-> says, right |-> right, lost |-> call.lost \/ ~up,
                views |-> call.views \cup {View}]

\* The real call with the caller's own handle, or a synthetic key's private one.
RealSays(right, what) ==
    IF real = None THEN Says("deleted")
    ELSE IF right \notin h.granted \cup {"none"} THEN Says("denied") ELSE what

RealIndex(kind, i) == LET s == IF kind = "subs" THEN real.subs ELSE real.vals
                      IN IF i \in DOMAIN s THEN Entry(s[i]) ELSE Says("no more")

RightOf(kind) == IF kind = "subs" THEN "enum" ELSE "query"

\* What the call at an index comes to, given the list: the real answer at the real index for an
\* entry the overlay leaves alone.
EntryAt(kind, list, i, has) ==
    IF i \notin DOMAIN list THEN Says("no more")
    ELSE IF list[i].touched THEN Entry(list[i].name)
    ELSE IF ~has THEN Says("no more")
    ELSE RealSays(RightOf(kind), IF real = None THEN Says("no more") ELSE RealIndex(kind, list[i].real))

Scanned(kind, i, says) ==
    scan' = IF i = 1 THEN [kind |-> kind, next |-> 2, got |-> <<says>>, over |-> says.is = "no more",
                           still |-> up /\ ~call.moved /\ says.is # "denied"]
            ELSE [scan EXCEPT !.next = @ + 1, !.got = Append(@, says), !.over = says.is = "no more",
                              !.still = @ /\ says.is # "denied"]

\* NtEnumerateKey and NtEnumerateValueKey, up to the read of the node: the kept list is reused
\* while the generation has not moved.  A caller starts at the first index and goes on in order.
enumerate(kind) ==
    \E i \in {1} \cup (IF scan.kind = kind /\ ~scan.over THEN {scan.next} ELSE {}) :
        /\ Begin
        /\ LET c == classify(RightOf(kind))
               k == kept[kind]
               same == i # 1 /\ k # None /\ c.to = "merge" /\ (k.real # None) = c.real
           IN \/ /\ c.to # "merge"
                 /\ LET says == IF c.to = "real"
                                THEN RealSays(RightOf(kind), IF real = None THEN Says("deleted") ELSE RealIndex(kind, i))
                                ELSE Says(c.to)
                    IN Reply(kind, says, RightOf(kind)) /\ Scanned(kind, i, says)
                 /\ UNCHANGED kept
              \/ /\ c.to = "merge" /\ RightOf(kind) \notin h.access
                 /\ Reply(kind, Says("denied"), RightOf(kind)) /\ Scanned(kind, i, Says("denied")) /\ UNCHANGED kept
              \/ /\ c.to = "merge" /\ RightOf(kind) \in h.access
                 /\ same /\ gen # 0 /\ k.gen = gen
                 /\ LET says == EntryAt(kind, k.entries, i, c.real)
                    IN Reply(kind, says, RightOf(kind)) /\ Scanned(kind, i, says)
                 /\ UNCHANGED kept
              \/ /\ c.to = "merge" /\ RightOf(kind) \in h.access
                 /\ ~(same /\ gen # 0 /\ k.gen = gen)
                 /\ kept' = [kept EXCEPT ![kind] = None]
                 /\ IF same \/ with_real(c.real).ok
                    THEN /\ call' = [call EXCEPT !.at = "node", !.kind = kind, !.index = i, !.real = c.real,
                                       !.gen = gen, !.views = {View},
                                       !.names = IF same THEN k.real
                                                 ELSE IF with_real(c.real).val = None THEN None
                                                 ELSE IF kind = "subs" THEN real.subs ELSE real.vals]
                         /\ last' = NoAnswer /\ UNCHANGED scan
                    ELSE Reply(kind, Says("denied"), RightOf(kind)) /\ Scanned(kind, i, Says("denied"))
        /\ UNCHANGED <<env, h, touched>>

\* view's second half: the node, the merge, the list put back under the generation read first.
\* With the director gone the real list alone answers, for this call only.
view ==
    LET kind == call.kind
        list == entries(kind, call.names, IF up THEN node ELSE None)
        says == EntryAt(kind, list, call.index, call.real)
    IN /\ call.at = "node"
       /\ kept' = IF up THEN [kept EXCEPT ![kind] = [real |-> call.names, gen |-> call.gen, entries |-> list]]
                  ELSE kept
       /\ Reply(kind, says, RightOf(kind)) /\ Scanned(kind, call.index, says)
       /\ UNCHANGED <<env, h, calls, touched>>

Values(names, of) == [is |-> "values", names |-> names, of |-> [i \in DOMAIN names |-> of[names[i]]]]

\* NtQueryValueKey and NtQueryMultipleValueKey: the names in order, up to the first missing one.
query_value(names) ==
    /\ Begin
    /\ LET c == classify("query")
       IN IF c.to # "merge" \/ "query" \notin h.access
          THEN LET of == [x \in InSeq(names) |-> IF real # None /\ x \in InSeq(real.vals) THEN "real" ELSE "missing"]
                   says == IF c.to = "merge" THEN Says("denied")
                           ELSE IF c.to = "real" THEN RealSays("query", Values(names, of))
                           ELSE Says(c.to)
               IN Reply("values_of", says, "query")
          ELSE /\ call' = [call EXCEPT !.at = "value", !.real = c.real, !.names = names, !.views = {View}]
               /\ last' = NoAnswer
    /\ UNCHANGED <<env, h, kept, scan, touched>>

query_multiple_value_key ==
    /\ call.at = "value"
    /\ LET where(x) == IF up THEN hit(node, x) ELSE "real"
           r == with_real(call.real)
           of == [x \in InSeq(call.names) |->
                    IF where(x) # "real" THEN IF where(x) = "overlay" THEN "overlay" ELSE "missing"
                    ELSE IF r.val # None /\ x \in InSeq(r.val.vals) THEN "real" ELSE "missing"]
           asks == \E i \in DOMAIN call.names : where(call.names[i]) = "real"
           says == IF asks /\ ~r.ok THEN Says("denied") ELSE Values(call.names, of)
       IN Reply("values_of", says, "query")
    /\ UNCHANGED <<env, h, kept, scan, calls, touched>>

\* NtQueryKey: the name needs no right; a class with counts reads the whole real key.
query_key(class) ==
    /\ Begin
    /\ LET right == IF class = "name" THEN "none" ELSE "query"
           c == classify(right)
       IN IF c.to = "merge" /\ right \in h.access /\ class = "counts"
          THEN IF with_real(c.real).ok
               THEN /\ call' = [call EXCEPT !.at = "info", !.real = c.real, !.views = {View},
                                            !.names = with_real(c.real).val]
                    /\ last' = NoAnswer
               ELSE Reply("info", Says("denied"), right)
          ELSE Reply("info", IF c.to = "merge"
                             THEN Says(IF right \in h.access \cup {"none"} THEN "named" ELSE "denied")
                             ELSE IF c.to = "real" THEN RealSays(right, Says("real")) ELSE Says(c.to), right)
    /\ UNCHANGED <<env, h, kept, scan, touched>>

\* merged_key_info: the counts of the merged key; the real key alone when the director went.
merged_key_info ==
    /\ call.at = "info"
    /\ LET r == call.names
           count == [is |-> "counts", subs |-> Len(sub_entries(IF r = None THEN None ELSE r.subs, node)),
                     vals |-> Len(val_entries(IF r = None THEN None ELSE r.vals, node))]
       IN Reply("info", IF ~up THEN IF call.real THEN RealSays("query", Says("real")) ELSE Says("deleted")
                        ELSE IF r = None /\ node = None THEN Says("deleted") ELSE count, "query")
    /\ UNCHANGED <<env, h, kept, scan, calls, touched>>

(***************************************************************************)
(* Calls that would change the real registry                               *)
(***************************************************************************)
\* key_handle: what the overlay makes of a handle.
key_handle(k) ==
    CASE k = "synthetic" -> "key" [] k = "closed synthetic" -> "invalid"
      [] k = "served" -> "key" [] k = "unreadable" -> "unresolvable" [] OTHER -> "not ours"

\* serves_handle and serves_target.
serves(k) ==
    CASE key_handle(k) = "key" \/ k = "closed synthetic" -> "yes"
      [] key_handle(k) = "unresolvable" -> "unresolvable" [] OTHER -> "no"

refusal(s) == CASE s = "yes" -> "NOT_SUPPORTED" [] s = "unresolvable" -> "UNSUCCESSFUL" [] OTHER -> "real"

\* NtSetSecurityObject: checked, accepted and dropped on a key the overlay serves.
set_security(k, rights) ==
    CASE key_handle(k) = "key" -> IF rights THEN "SUCCESS" ELSE "ACCESS_DENIED"
      [] key_handle(k) = "invalid" -> "INVALID_HANDLE"
      [] key_handle(k) = "unresolvable" -> "UNSUCCESSFUL" [] OTHER -> "real"

\* Mutant: a call made from inside the shim's own work is let through.
out_of_scope_through(op, k, entered) == IF ~entered THEN "real" ELSE refusal(serves(k))

\* Restore, Replace, Load, Unload and the transacted calls; Save, Compress and Lock change
\* nothing, and are refused only on a synthetic handle.
out_of_scope(op, k, entered) ==
    IF op = "save" THEN IF entered /\ k \in {"synthetic", "closed synthetic"} THEN "NOT_SUPPORTED" ELSE "real"
    ELSE IF ~entered THEN "UNSUCCESSFUL" ELSE refusal(serves(k))

\* NtCreateKey never makes the real create; every other key passes the open.
create_key_hook(k, entered) ==
    IF ~entered THEN "UNSUCCESSFUL" ELSE IF key_handle(k) = "key" THEN "overlay" ELSE "open"

\* Any of them, on any handle, from the game or from inside the shim.
Outside(op) ==
    \E k \in {"synthetic", "closed synthetic", "served", "unreadable", "elsewhere"}, entered, rights \in BOOLEAN :
        /\ Begin
        /\ LET to == CASE op = "security" -> IF entered THEN set_security(k, rights) ELSE "UNSUCCESSFUL"
                       [] op = "create" -> create_key_hook(k, entered)
                       [] OTHER -> out_of_scope(op, k, entered)
           IN touched' = (touched \/ (to = "real" /\ op # "save" /\ k # "elsewhere"))
        /\ last' = NoAnswer
        /\ UNCHANGED <<env, h, kept, call, scan>>

(***************************************************************************)
ViewInit ==
    /\ real \in RealKeys /\ state = "absent" /\ below = FALSE /\ node = None
    /\ gen = 0 /\ up = TRUE /\ faults = 0 /\ changes = 0
    /\ h = None /\ kept = [k \in {"subs", "vals"} |-> None]
    /\ call = IdleCall /\ scan = NoScan /\ calls = 0 /\ touched = FALSE
    /\ last = NoAnswer

\* NtDeleteKey through the handle succeeded: the overlay has the tombstone, the record the mark.
mark_deleted ==
    /\ h # None /\ Idle /\ up /\ gen < MaxGen /\ ~h.deleted /\ state # "tombstoned"
    /\ gen' = gen + 1 /\ state' = "tombstoned" /\ node' = None /\ below' = FALSE
    /\ h' = [h EXCEPT !.deleted = TRUE]
    /\ scan' = [scan EXCEPT !.still = FALSE]
    /\ UNCHANGED <<real, up, faults, changes, kept, call, last, calls, touched>>

ViewNext ==
    \/ OverlayWrite \/ WriteBelow \/ RealChange \/ Director \/ mark_deleted
    \/ \E a \in SUBSET Rights : open(a)
    \/ \E k \in {"subs", "vals"} : enumerate(k)
    \/ view
    \/ \E n \in Names : query_value(<<n>>)
    \/ \E n, m \in Names : query_value(<<n, m>>)
    \/ query_multiple_value_key
    \/ \E c \in {"name", "counts"} : query_key(c)
    \/ merged_key_info
    \/ \E op \in {"security", "create", "restore", "save"} : Outside(op)

ViewSpec == ViewInit /\ [][ViewNext]_viewVars

(***************************************************************************)
(* Properties                                                              *)
(***************************************************************************)
\* The state between calls is what the hooks keep.
ViewTypeOK ==
    /\ call.at \in {"idle", "node", "value", "info"}
    /\ gen \in 0..MaxGen
    /\ \A k \in {"subs", "vals"} : kept[k] # None => kept[k].gen \in 0..gen

\* A list kept for a handle under the current generation is the merge of the names it was made
\* from with the node as it is: reusing it (view) loses no write, in whatever order it and the
\* call that made it went.
KeptIsCurrent ==
    \A k \in {"subs", "vals"} :
        kept[k] # None /\ kept[k].gen = gen => kept[k].entries = entries(k, kept[k].real, node)

Listed(v, kind) == IF kind = "subs" THEN v.subs ELSE {x.n : x \in v.vals}

\* A whole enumeration during which nothing changed names each entry of the merged key once,
\* and nothing else.
ScanIsView ==
    (scan.over /\ scan.still /\ Says("deleted") \notin InSeq(scan.got)) =>
        /\ {s.name : s \in InSeq(scan.got)} \ {0} = Listed(View, scan.kind)
        /\ Len(scan.got) = Cardinality(Listed(View, scan.kind)) + 1

\* A value that is answered, or said to be missing, was so at some moment of the call, for
\* each name asked for together at the same moment, as long as the director answered and the
\* key was there throughout (of a key deleted between classify's lookup and the read of the
\* node the real values answer).
AnswersAreView ==
    (last.op = "values_of" /\ ~last.lost /\ last.says.is = "values" /\ \A v \in last.views : v.key) =>
        \E v \in last.views :
            \A i \in DOMAIN last.says.names :
                last.says.of[i] = IF \E x \in v.vals : x.n = last.says.names[i]
                                  THEN (CHOOSE x \in v.vals : x.n = last.says.names[i]).of ELSE "missing"

\* A caller is told nothing of a key through a handle that was not granted the right to ask,
\* whoever answers, the private handle of a synthetic key included.
RightsKept ==
    last.op # "none" /\ last.right # "none" /\ last.right \notin h.access =>
        last.says.is \in {"denied", "deleted"}

\* No call changes the real registry at a key the overlay serves, or may serve.
RealUntouched == ~touched

(***************************************************************************)
(* The buffers of the registry query calls: what the overlay writes for    *)
(* NtQueryKey, NtEnumerateKey, NtQueryValueKey and NtQueryMultipleValueKey *)
(* (vfs-registry layout), the caller that asks again with the length it    *)
(* was told, and the shim's own readers, which grow their buffer until     *)
(* the answer fits and take it apart (regquery.rs).                        *)
(*                                                                         *)
(* Lengths and offsets are bytes, as in the code.  A buffer holds its      *)
(* fixed part, and the pieces of the variable parts that were copied.      *)
(***************************************************************************)
KeyInfoClass == {"Basic", "Node", "Full", "Name", "Cached", "Flags", "Virtualization"}
ValueInfoClass == {"Basic", "Full", "Partial", "PartialAlign64"}
NoOffset == -1

layoutVars == <<ask, buf, ans, tries>>

align(n, to) == ((n + to - 1) \div to) * to
Least(a, b) == IF a < b THEN a ELSE b
Biggest(S) == IF S = {} THEN 0 ELSE CHOOSE x \in S : \A y \in S : y <= x

\* Out::tail: as much of a part as fits, and whether all of it did.
tail(p, n) == [p EXCEPT !.len = Least(p.len, IF n < p.at THEN 0 ELSE n - p.at)]

Written(l, n) ==
    IF n < l.fixed THEN [status |-> "BUFFER_TOO_SMALL", need |-> l.total, parts |-> {}, fields |-> None]
    ELSE [status |-> IF \A p \in l.parts : tail(p, n) = p THEN "SUCCESS" ELSE "BUFFER_OVERFLOW",
          need |-> l.total, parts |-> {tail(p, n) : p \in l.parts}, fields |-> l.fields]

Part(what, at, len) == [what |-> what, at |-> at, len |-> len]
Laid(fixed, total, parts, fields) ==
    [fixed |-> fixed, total |-> total, parts |-> {p \in parts : p.len > 0}, fields |-> fields]

(***************************************************************************)
(* layout/key.rs                                                           *)
(***************************************************************************)
counts(k) ==
    [subkeys |-> Cardinality(k.subkeys), max_name |-> Biggest(k.subkeys), name |-> k.name]

key_basic(k) == Laid(16, 16 + k.name, {Part("name", 16, k.name)}, [name |-> k.name])

\* Mutant: the class straight after the name.
key_node_packed(k) ==
    Laid(24, 24 + k.name + k.class, {Part("name", 24, k.name), Part("class", 24 + k.name, k.class)},
         [name |-> k.name, class |-> k.class,
          class_off |-> IF k.class = 0 THEN NoOffset ELSE align(24 + k.name, 4)])

key_node(k) ==
    LET off == align(24 + k.name, 4)
    IN Laid(24, 24 + k.name + k.class, {Part("name", 24, k.name), Part("class", off, k.class)},
            [name |-> k.name, class |-> k.class,
             class_off |-> IF k.class = 0 THEN NoOffset ELSE off])

key_full(k) ==
    Laid(44, 44 + k.class, {Part("class", 44, k.class)},
         [class |-> k.class, class_off |-> IF k.class = 0 THEN NoOffset ELSE 44, counts |-> counts(k)])

key_name(k) == Laid(4, 4 + k.path, {Part("path", 4, k.path)}, [name |-> k.path])
key_cached(k) == Laid(40, 40, {}, [name |-> k.name, counts |-> counts(k)])
key_zeroed(size) == Laid(size, size, {}, [zero |-> size])

write_key_info(class, k) ==
    CASE class = "Basic" -> key_basic(k)
      [] class = "Node" -> key_node(k)
      [] class = "Full" -> key_full(k)
      [] class = "Name" -> key_name(k)
      [] class = "Cached" -> key_cached(k)
      [] class = "Flags" -> key_zeroed(12)
      [] OTHER -> key_zeroed(4)

(***************************************************************************)
(* layout/value.rs                                                         *)
(***************************************************************************)
write_value_info(class, v) ==
    CASE class = "Basic" -> Laid(12, 12 + v.name, {Part("name", 12, v.name)}, [name |-> v.name])
      [] class = "Full" ->
           LET base == 20 + v.name
               off == IF v.data = 0 THEN base ELSE align(base, 8)
           IN Laid(20, off + v.data, {Part("name", 20, v.name), Part("data", off, v.data)},
                   [name |-> v.name, data |-> v.data, data_off |-> off])
      [] class = "Partial" -> Laid(12, 12 + v.data, {Part("data", 12, v.data)}, [data |-> v.data])
      [] OTHER -> Laid(8, 8 + v.data, {Part("data", 8, v.data)}, [data |-> v.data])

\* Mutant: a value that fits is copied even after one that did not.
write_multiple_values_on(list, n) ==
    LET step[i \in 0..Len(list)] ==
          IF i = 0 THEN [used |-> 0, need |-> 0, copied |-> <<>>, full |-> FALSE, missing |-> FALSE]
          ELSE LET s == step[i - 1]
                   used == align(s.used, 4)
               IN IF s.missing \/ list[i] = NoVal THEN [s EXCEPT !.missing = TRUE]
                  ELSE IF used + list[i] <= n
                  THEN [s EXCEPT !.copied = Append(@, [i |-> i, at |-> used, len |-> list[i]]),
                                 !.used = used + list[i], !.need = align(@, 4) + list[i]]
                  ELSE [s EXCEPT !.full = TRUE, !.used = used, !.need = align(@, 4) + list[i]]
        e == step[Len(list)]
    IN [status |-> IF e.missing THEN "OBJECT_NAME_NOT_FOUND"
                   ELSE IF e.full THEN "BUFFER_OVERFLOW" ELSE "SUCCESS",
        used |-> e.used, need |-> e.need, copied |-> e.copied]

\* Once one value does not fit no later one is copied; a missing value ends it.
write_multiple_values(list, n) ==
    LET step[i \in 0..Len(list)] ==
          IF i = 0 THEN [used |-> 0, need |-> 0, copied |-> <<>>, full |-> FALSE, missing |-> FALSE]
          ELSE LET s == step[i - 1]
                   used == align(s.used, 4)
               IN IF s.missing \/ list[i] = NoVal THEN [s EXCEPT !.missing = TRUE]
                  ELSE IF ~s.full /\ used + list[i] <= n
                  THEN [s EXCEPT !.copied = Append(@, [i |-> i, at |-> used, len |-> list[i]]),
                                 !.used = used + list[i], !.need = align(@, 4) + list[i]]
                  ELSE [s EXCEPT !.full = TRUE, !.used = used, !.need = align(@, 4) + list[i]]
        e == step[Len(list)]
    IN [status |-> IF e.missing THEN "OBJECT_NAME_NOT_FOUND"
                   ELSE IF e.full THEN "BUFFER_OVERFLOW" ELSE "SUCCESS",
        used |-> e.used, need |-> e.need, copied |-> e.copied]

(***************************************************************************)
(* The calls                                                               *)
(***************************************************************************)
Keys == [name : Names, class : Classes, path : {n + 8 : n \in Names}, subkeys : SUBSET Names]
LayoutValues == [name : Names, data : Datas]
Asks ==
    [kind : {"key"}, class : KeyInfoClass, of : Keys]
      \cup [kind : {"value"}, class : ValueInfoClass, of : LayoutValues]
      \cup [kind : {"many"}, class : {"values"}, of : Lists]

Answer(a, n) ==
    CASE a.kind = "key" -> Written(write_key_info(a.class, a.of), n)
      [] a.kind = "value" -> Written(write_value_info(a.class, a.of), n)
      [] OTHER -> write_multiple_values(a.of, n)

LayoutInit == ask = None /\ buf = 0 /\ ans = None /\ tries = 0

\* The caller's call with a buffer of its own (emit).
emit ==
    /\ ask = None
    /\ \E a \in Asks, n \in Buffers : ask' = a /\ buf' = n /\ ans' = Answer(a, n)
    /\ tries' = 1

\* It asks again with the length it was told.
emit_again ==
    /\ ask # None /\ tries = 1 /\ buf \in Buffers
    /\ ans.status \in {"BUFFER_TOO_SMALL", "BUFFER_OVERFLOW"}
    /\ buf' = ans.need /\ ans' = Answer(ask, buf') /\ tries' = 2
    /\ UNCHANGED ask

\* The shim's own call: the buffer grows while the answer does not fit.
grown ==
    \/ /\ ask = None
       /\ \E a \in Asks : a.kind # "many" /\ ask' = a /\ ans' = Answer(a, Cap0)
       /\ buf' = Cap0 /\ tries' = 11
    \/ /\ ask # None /\ tries \in 11..17
       /\ ans.status \in {"BUFFER_TOO_SMALL", "BUFFER_OVERFLOW"}
       /\ buf' = align(Biggest({ans.need, buf * 2}), 8)
       /\ ans' = Answer(ask, buf') /\ tries' = tries + 1
       /\ UNCHANGED ask

LayoutNext == emit \/ emit_again \/ grown
LayoutSpec == LayoutInit /\ [][LayoutNext]_layoutVars

(***************************************************************************)
(* The shim's readers                                                      *)
(***************************************************************************)
\* rd_units / rd_str: the part at an offset, if the buffer holds all of it.
Read(at, len) ==
    IF \E p \in ans.parts : p.at = at /\ p.len = len
    THEN (CHOOSE p \in ans.parts : p.at = at /\ p.len = len).what ELSE "none"

real_info ==
    [name |-> IF ask.class = "Node" /\ ans.fields.name > 0 THEN Read(24, ans.fields.name) ELSE "none",
     class |-> IF ans.fields.class = 0 \/ ans.fields.class_off = NoOffset THEN "none"
               ELSE Read(ans.fields.class_off, ans.fields.class)]

real_values ==
    [name |-> IF ans.fields.name > 0 THEN Read(20, ans.fields.name) ELSE "none",
     data |-> IF ans.fields.data = 0 THEN "none" ELSE Read(ans.fields.data_off, ans.fields.data)]

Succeeded(kind, classes) == ask # None /\ ask.kind = kind /\ ask.class \in classes /\ ans.status = "SUCCESS"

(***************************************************************************)
(* Properties                                                              *)
(***************************************************************************)
\* Every answer is one the calls can give.
LayoutTypeOK ==
    ask # None => /\ ans.status \in {"SUCCESS", "BUFFER_TOO_SMALL", "BUFFER_OVERFLOW",
                                     "OBJECT_NAME_NOT_FOUND"}
                  /\ ans.need \in Nat /\ tries \in {1, 2} \cup 11..18

Disjoint(S) == \A p, q \in S : p = q \/ p.at + p.len <= q.at \/ q.at + q.len <= p.at

\* Nothing is written outside the caller's buffer, over the fixed part, or over another part;
\* several values are packed in order, on ULONG boundaries, without a gap in the list.
WrittenInside ==
    ask # None =>
        IF ask.kind = "many"
        THEN LET S == {ans.copied[i] : i \in DOMAIN ans.copied}
             IN /\ \A i \in DOMAIN ans.copied : ans.copied[i].i = i
                /\ \A p \in S : p.at % 4 = 0 /\ p.at + p.len <= ans.used /\ p.at + p.len <= buf
                /\ Disjoint(S)
        ELSE /\ Disjoint({p \in ans.parts : p.len > 0})
             /\ \A p \in ans.parts : p.len > 0 => p.at + p.len <= buf

\* A caller that asks again with the length it was told gets its answer, a Node key with a
\* class after an unaligned name excepted, which NT itself misreports; the shim's own calls
\* always get theirs.
RetriesEnd ==
    /\ (tries = 2 /\ ~(ask.class = "Node" /\ ask.of.class > 0 /\ ask.of.name % 4 # 0))
          => ans.status \in {"SUCCESS", "OBJECT_NAME_NOT_FOUND"}
    /\ (tries = 18 => ans.status = "SUCCESS")

\* What the shim reads from an answer in the layout the overlay writes is what was written.
ReadBack ==
    /\ Succeeded("key", {"Node", "Full"}) =>
          real_info = [name |-> IF ask.class = "Node" /\ ask.of.name > 0 THEN "name" ELSE "none",
                       class |-> IF ask.of.class > 0 THEN "class" ELSE "none"]
    /\ Succeeded("value", {"Full"}) =>
          real_values = [name |-> IF ask.of.name > 0 THEN "name" ELSE "none",
                         data |-> IF ask.of.data > 0 THEN "data" ELSE "none"]
==============================================================================
