-------------------------------- MODULE Ring --------------------------------
(***************************************************************************)
(* The shared-memory request ring of vfs-ipc: the slot state machine       *)
(* (ring.rs), the client calls that claim slots, publish requests, wait    *)
(* for the answers and give up at a deadline (endpoint.rs, and the copy    *)
(* out of the arena banks in concurrent.rs), and the director's worker     *)
(* threads that take, serve and complete requests.                         *)
(*                                                                         *)
(* One action is one atomic access to a slot's state word together with    *)
(* the plain reads and writes that follow it up to the next one; a         *)
(* compare-and-swap that follows a separate load is an action of its own.  *)
(* A scan may end at any slot that is in the state it looks for, wherever  *)
(* it started; RingScan models the order the server looks in.  A deadline  *)
(* may pass at any poll.                                                   *)
(*                                                                         *)
(* A payload is the id of the request it belongs to and what it is: the    *)
(* bytes of the request, those of its answer, or none.  An arena bank is   *)
(* the id of the request whose handler filled it last.                     *)
(***************************************************************************)
EXTENDS Integers, Sequences

CONSTANTS Clients,     \* client threads, of every process on the ring
          Workers,     \* the director's worker threads
          Slots,       \* 0 .. geom.slot_count - 1
          NoSlot,      \* what a worker between two requests holds
          Calls,       \* the calls made: <<kind, number of requests>>
          AckMod,      \* SH_ACK is an id modulo this (2^32 in the code)
          MaxRequests  \* bound: the requests of all calls together

ASSUME RingAssumption ==
    /\ NoSlot \notin Slots
    /\ Calls \subseteq {"inline", "bulk"} \X (Nat \ {0})
    /\ AckMod \in Nat \ {0}
    /\ MaxRequests \in Nat

ReqIds == Nat

SlotStates ==
    {"FREE", "CLAIMED", "SUBMITTED", "PROCESSING", "COMPLETED", "ABANDONED"}

\* Whose bytes a slot's payload holds.  "inline" and "bulk" are the two
\* requests (a bulk read is answered through the arena bank), "answer" and
\* "bulk_answer" their replies, "overflow" the reply that did not fit.
Payload == [kind : {"inline", "bulk", "answer", "bulk_answer", "overflow"},
            id   : ReqIds]

\* What a batch copied from a bank: the request that filled it, or nothing.
NoBank == -1
Banks == ReqIds \cup {NoBank}

Answer == [resp : Payload, bank : Banks]
Request == [req_id : ReqIds, payload : Payload]

VARIABLES
    state, reqId, payload, ack, bank,   \* the slots and their arena banks
    reqSeq,                             \* RH_REQ_SEQ
    asked,                              \* the requests of the calls so far
    pc, kind, want,                     \* a client's call: what it asks for,
    held, ids, got,                     \* its slots, request ids and answers,
    pos, seen,                          \* its loop over the slots it holds
    wpc, wslot, wreq                    \* a worker's serve_one

ring == <<state, reqId, payload, ack, bank, reqSeq>>
call == <<kind, want, held, ids, got, pos, seen>>
server == <<wpc, wslot, wreq>>
vars == <<ring, asked, pc, call, server>>

NoPayload == [kind |-> "inline", id |-> 0]

\* A worker's Request: the header's req_id and the request's bytes.
NoRequest == [req_id |-> 0, payload |-> NoPayload]

Init ==
    /\ state = [s \in Slots |-> "FREE"]
    /\ reqId = [s \in Slots |-> 0]
    /\ payload = [s \in Slots |-> NoPayload]
    /\ ack = [s \in Slots |-> 0]
    /\ bank = [s \in Slots |-> NoBank]
    /\ reqSeq = 0
    /\ asked = 0
    /\ pc = [c \in Clients |-> "idle"]
    /\ kind = [c \in Clients |-> "inline"]
    /\ want = [c \in Clients |-> 0]
    /\ held = [c \in Clients |-> << >>]
    /\ ids = [c \in Clients |-> << >>]
    /\ got = [c \in Clients |-> << >>]
    /\ pos = [c \in Clients |-> 1]
    /\ seen = [c \in Clients |-> "FREE"]
    /\ wpc = [w \in Workers |-> "take"]
    /\ wslot = [w \in Workers |-> NoSlot]
    /\ wreq = [w \in Workers |-> NoRequest]

\* `req_id as u32`.
AckOf(id) == id % AckMod

-----------------------------------------------------------------------------
(***************************************************************************)
(* The client: RingClient.                                                 *)
(***************************************************************************)

\* The call is over: its slots are not its own any more, its answers went to
\* the caller.
EndCall(c) ==
    /\ pc' = [pc EXCEPT ![c] = "idle"]
    /\ kind' = [kind EXCEPT ![c] = "inline"]
    /\ want' = [want EXCEPT ![c] = 0]
    /\ held' = [held EXCEPT ![c] = << >>]
    /\ ids' = [ids EXCEPT ![c] = << >>]
    /\ got' = [got EXCEPT ![c] = << >>]
    /\ pos' = [pos EXCEPT ![c] = 1]
    /\ seen' = [seen EXCEPT ![c] = "FREE"]

\* `submit` sends one inline request; `submit_many_held`, which a fragmented
\* read uses, several bulk ones.
submit(c) ==
    /\ pc[c] = "idle"
    /\ \E a \in Calls :
          /\ asked + a[2] <= MaxRequests
          /\ asked' = asked + a[2]
          /\ kind' = [kind EXCEPT ![c] = a[1]]
          /\ want' = [want EXCEPT ![c] = a[2]]
    /\ pc' = [pc EXCEPT ![c] = "claim"]
    /\ UNCHANGED <<ring, held, ids, got, pos, seen, server>>

\* claim_slot_from: a pass over the slots swaps a FREE one to CLAIMED.
claim_free_from(c) ==
    /\ pc[c] = "claim"
    /\ \E s \in Slots :
          /\ state[s] = "FREE"
          /\ state' = [state EXCEPT ![s] = "CLAIMED"]
          /\ held' = [held EXCEPT ![c] = Append(@, s)]
    /\ pc' = [pc EXCEPT ![c] = "publish"]
    /\ UNCHANGED <<asked, reqId, payload, ack, bank, reqSeq,
                   kind, want, ids, got, pos, seen, server>>

\* Mutant: RingFull returns without giving up the slots already published.
claim_timeout_leaks(c) ==
    /\ pc[c] = "claim"
    /\ EndCall(c)
    /\ UNCHANGED <<ring, asked, server>>

\* Mutant: a caller waits for a slot for ever.
claim_timeout_never(c) ==
    /\ pc[c] = "claim"
    /\ FALSE
    /\ UNCHANGED vars

\* RingFull, after a pass that found no slot: nothing to give up for the
\* first request, else every slot claimed before it.
claim_timeout(c) ==
    /\ pc[c] = "claim"
    /\ IF held[c] = << >>
       THEN EndCall(c)
       ELSE /\ pc' = [pc EXCEPT ![c] = "abandon"]
            /\ UNCHANGED call
    /\ UNCHANGED <<ring, asked, server>>

\* publish_request up to the store of SUBMITTED: a fresh id, and the header
\* and payload of the slot just claimed.
publish_request(c) ==
    LET s == held[c][Len(held[c])] IN
    /\ pc[c] = "publish"
    /\ reqSeq' = reqSeq + 1
    /\ reqId' = [reqId EXCEPT ![s] = reqSeq]
    /\ payload' = [payload EXCEPT ![s] = [kind |-> kind[c], id |-> reqSeq]]
    /\ ids' = [ids EXCEPT ![c] = Append(@, reqSeq)]
    /\ pc' = [pc EXCEPT ![c] = "publish_store"]
    /\ UNCHANGED <<asked, state, ack, bank, kind, want, held, got, pos, seen, server>>

\* SUBMITTED.  A batch claims a slot for its next request.
publish_store(c) ==
    /\ pc[c] = "publish_store"
    /\ state' = [state EXCEPT ![held[c][Len(held[c])]] = "SUBMITTED"]
    /\ pc' = [pc EXCEPT ![c] =
                IF Len(held[c]) = want[c] THEN "await" ELSE "claim"]
    /\ UNCHANGED <<asked, reqId, payload, ack, bank, reqSeq, call, server>>

\* The poll of the next request that finds it COMPLETED: take_response.  An
\* ack that names another request is BadResponse, and the call gives up all
\* its slots.  After the last answer a batch copies its banks, `submit` frees
\* its slot.
await_response(c) ==
    LET k == Len(got[c]) + 1
        s == held[c][k] IN
    /\ pc[c] = "await"
    /\ state[s] = "COMPLETED"
    /\ IF ack[s] = AckOf(ids[c][k])
       THEN /\ got' = [got EXCEPT ![c] =
                         Append(@, [resp |-> payload[s], bank |-> NoBank])]
            /\ pc' = [pc EXCEPT ![c] =
                        IF k < want[c] THEN "await"
                        ELSE IF kind[c] = "bulk" THEN "copy"
                        ELSE "release"]
       ELSE /\ pc' = [pc EXCEPT ![c] = "abandon"]
            /\ UNCHANGED got
    /\ UNCHANGED <<ring, asked, kind, want, held, ids, pos, seen, server>>

\* Mutant: a timeout frees its slots as an answered call does.
await_timeout_frees(c) ==
    /\ pc[c] = "await"
    /\ pc' = [pc EXCEPT ![c] = "release"]
    /\ UNCHANGED <<ring, asked, call, server>>

\* Timeout, after a poll that found no answer (one may have come since): every
\* slot of the call is given up, the answered ones included.
await_timeout(c) ==
    /\ pc[c] = "await"
    /\ pc' = [pc EXCEPT ![c] = "abandon"]
    /\ UNCHANGED <<ring, asked, call, server>>

\* abandon_slots: the load of `abandon` for the next slot.
abandon_load(c) ==
    /\ pc[c] = "abandon"
    /\ seen' = [seen EXCEPT ![c] = state[held[c][pos[c]]]]
    /\ pc' = [pc EXCEPT ![c] = "abandon_cas"]
    /\ UNCHANGED <<ring, asked, kind, want, held, ids, got, pos, server>>

\* What abandon swaps a slot it saw in state `st` to.
AbandonTo(st) == IF st = "PROCESSING" THEN "ABANDONED" ELSE "FREE"

\* Mutant: a store in place of the compare-and-swap.
abandon_stores(c) ==
    /\ pc[c] = "abandon_cas"
    /\ state' = [state EXCEPT ![held[c][pos[c]]] = AbandonTo(seen[c])]
    /\ IF pos[c] = Len(held[c])
       THEN EndCall(c)
       ELSE /\ pos' = [pos EXCEPT ![c] = @ + 1]
            /\ pc' = [pc EXCEPT ![c] = "abandon"]
            /\ UNCHANGED <<kind, want, held, ids, got, seen>>
    /\ UNCHANGED <<asked, reqId, payload, ack, bank, reqSeq, server>>

\* Its compare-and-swap (none for a slot already FREE or ABANDONED); one that
\* fails loads again.  After the last slot the call returns its error.
abandon(c) ==
    LET s == held[c][pos[c]]
        swap == seen[c] \notin {"FREE", "ABANDONED"}
        done == swap => state[s] = seen[c] IN
    /\ pc[c] = "abandon_cas"
    /\ state' = IF swap /\ done THEN [state EXCEPT ![s] = AbandonTo(seen[c])]
                                ELSE state
    /\ IF done /\ pos[c] = Len(held[c])
       THEN EndCall(c)
       ELSE /\ pos' = [pos EXCEPT ![c] = IF done THEN @ + 1 ELSE @]
            /\ pc' = [pc EXCEPT ![c] = "abandon"]
            /\ UNCHANGED <<kind, want, held, ids, got, seen>>
    /\ UNCHANGED <<asked, reqId, payload, ack, bank, reqSeq, server>>

\* Mutant: every answer is copied from the bank of the slot claimed last.
copy_bank_last(c) ==
    LET k == pos[c] IN
    /\ pc[c] = "copy"
    /\ got' = [got EXCEPT ![c][k].bank =
                 IF got[c][k].resp.kind = "bulk_answer"
                 THEN bank[held[c][Len(held[c])]] ELSE NoBank]
    /\ pos' = [pos EXCEPT ![c] = IF k = Len(held[c]) THEN 1 ELSE k + 1]
    /\ pc' = [pc EXCEPT ![c] = IF k = Len(held[c]) THEN "release" ELSE "copy"]
    /\ UNCHANGED <<ring, asked, kind, want, held, ids, seen, server>>

\* read_fragmented copies the arena bank of the next answer into the caller's
\* buffer, before any slot of the batch is freed.
copy_bank(c) ==
    LET k == pos[c] IN
    /\ pc[c] = "copy"
    /\ got' = [got EXCEPT ![c][k].bank =
                 IF got[c][k].resp.kind = "bulk_answer"
                 THEN bank[held[c][k]] ELSE NoBank]
    /\ pos' = [pos EXCEPT ![c] = IF k = Len(held[c]) THEN 1 ELSE k + 1]
    /\ pc' = [pc EXCEPT ![c] = IF k = Len(held[c]) THEN "release" ELSE "copy"]
    /\ UNCHANGED <<ring, asked, kind, want, held, ids, seen, server>>

\* free_slot of the next slot: `submit`'s own, or release_slots.
free_slot(c) ==
    /\ pc[c] = "release"
    /\ state' = [state EXCEPT ![held[c][pos[c]]] = "FREE"]
    /\ IF pos[c] = Len(held[c])
       THEN EndCall(c)
       ELSE /\ pos' = [pos EXCEPT ![c] = @ + 1]
            /\ UNCHANGED <<pc, kind, want, held, ids, got, seen>>
    /\ UNCHANGED <<asked, reqId, payload, ack, bank, reqSeq, server>>

-----------------------------------------------------------------------------
(***************************************************************************)
(* The director's worker: RingServer::serve_one in a loop.                 *)
(***************************************************************************)

\* The worker is done with its slot and looks for another.
EndServe(w) ==
    /\ wpc' = [wpc EXCEPT ![w] = "take"]
    /\ wslot' = [wslot EXCEPT ![w] = NoSlot]
    /\ wreq' = [wreq EXCEPT ![w] = NoRequest]

server_take_from(w) ==
    /\ wpc[w] = "take"
    /\ \E s \in Slots :
          /\ state[s] = "SUBMITTED"
          /\ state' = [state EXCEPT ![s] = "PROCESSING"]
          /\ wslot' = [wslot EXCEPT ![w] = s]
    /\ wpc' = [wpc EXCEPT ![w] = "read"]
    /\ UNCHANGED <<asked, reqId, payload, ack, bank, reqSeq, pc, call, wreq>>

read_request(w) ==
    /\ wpc[w] = "read"
    /\ wreq' = [wreq EXCEPT ![w] = [req_id  |-> reqId[wslot[w]],
                                    payload |-> payload[wslot[w]]]]
    /\ wpc' = [wpc EXCEPT ![w] = "handle"]
    /\ UNCHANGED <<ring, asked, pc, call, wslot>>

\* The director's dispatch: a bulk read fills the bank of the slot.
handler(w) ==
    /\ wpc[w] = "handle"
    /\ bank' = IF wreq[w].payload.kind = "bulk"
               THEN [bank EXCEPT ![wslot[w]] = wreq[w].payload.id] ELSE bank
    /\ wpc' = [wpc EXCEPT ![w] = "complete"]
    /\ UNCHANGED <<asked, state, reqId, payload, ack, reqSeq, pc, call, wslot, wreq>>

\* The replies a request can get: one too large for the slot is replaced by
\* the overflow status and no bytes; a bulk reply (length, offset) fits.
Replies(req) ==
    [kind : IF req.kind = "bulk" THEN {"bulk_answer"} ELSE {"answer", "overflow"},
     id   : {req.id}]

\* server_complete up to its last compare-and-swap: the id and state checks,
\* and the response written into the slot.
server_complete(w) ==
    LET s == wslot[w]
        same == reqId[s] = wreq[w].req_id IN
    /\ wpc[w] = "complete"
    /\ IF same /\ state[s] = "PROCESSING"
       THEN /\ \E r \in Replies(wreq[w].payload) :
                  payload' = [payload EXCEPT ![s] = r]
            /\ ack' = [ack EXCEPT ![s] = AckOf(wreq[w].req_id)]
            /\ wpc' = [wpc EXCEPT ![w] = "complete_cas"]
            /\ UNCHANGED <<wslot, wreq>>
       ELSE /\ IF same /\ state[s] = "ABANDONED"
               THEN /\ wpc' = [wpc EXCEPT ![w] = "drain"]
                    /\ UNCHANGED <<wslot, wreq>>
               ELSE EndServe(w)
            /\ UNCHANGED <<payload, ack>>
    /\ UNCHANGED <<asked, state, reqId, bank, reqSeq, pc, call>>

\* PROCESSING -> COMPLETED, unless the client gave up in the meantime.
complete_cas(w) ==
    LET s == wslot[w] IN
    /\ wpc[w] = "complete_cas"
    /\ IF state[s] = "ABANDONED"
       THEN /\ wpc' = [wpc EXCEPT ![w] = "drain"]
            /\ UNCHANGED <<state, wslot, wreq>>
       ELSE /\ state' = IF state[s] = "PROCESSING"
                        THEN [state EXCEPT ![s] = "COMPLETED"] ELSE state
            /\ EndServe(w)
    /\ UNCHANGED <<asked, reqId, payload, ack, bank, reqSeq, pc, call>>

\* ABANDONED -> FREE: the late reply is dropped.
drain(w) ==
    LET s == wslot[w] IN
    /\ wpc[w] = "drain"
    /\ state' = IF state[s] = "ABANDONED"
                THEN [state EXCEPT ![s] = "FREE"] ELSE state
    /\ EndServe(w)
    /\ UNCHANGED <<asked, reqId, payload, ack, bank, reqSeq, pc, call>>

-----------------------------------------------------------------------------
ClientStep(c) ==
    \/ submit(c) \/ claim_free_from(c) \/ claim_timeout(c)
    \/ publish_request(c) \/ publish_store(c)
    \/ await_response(c) \/ await_timeout(c)
    \/ abandon_load(c) \/ abandon(c) \/ copy_bank(c) \/ free_slot(c)

ServerStep(w) ==
    \/ server_take_from(w) \/ read_request(w) \/ handler(w)
    \/ server_complete(w) \/ complete_cas(w) \/ drain(w)

Next ==
    \/ \E c \in Clients : ClientStep(c)
    \/ \E w \in Workers : ServerStep(w)

Spec == Init /\ [][Next]_vars

\* A client thread keeps running, and its clock with it: a call that has begun
\* takes its next step, the one at a deadline included.  Nothing is assumed of
\* the director.
ClientProgress(c) == ClientStep(c) /\ pc[c] # "idle"
ClientFairness == \A c \in Clients : WF_vars(ClientProgress(c))

\* A worker thread keeps running and every handler returns.
ServerFairness == \A w \in Workers : WF_vars(ServerStep(w))

ClientSpec == Spec /\ ClientFairness

-----------------------------------------------------------------------------
\* Every variable has its type (the layout of the segment, layout.rs, and the
\* locals of the calls).
TypeOK ==
    /\ state \in [Slots -> SlotStates]
    /\ reqId \in [Slots -> ReqIds]
    /\ payload \in [Slots -> Payload]
    /\ ack \in [Slots -> 0 .. AckMod - 1]
    /\ bank \in [Slots -> Banks]
    /\ reqSeq \in Nat
    /\ asked \in Nat
    /\ pc \in [Clients -> {"idle", "claim", "publish", "publish_store", "await",
                           "abandon", "abandon_cas", "copy", "release"}]
    /\ kind \in [Clients -> {"inline", "bulk"}]
    /\ want \in [Clients -> Nat]
    /\ held \in [Clients -> Seq(Slots)]
    /\ ids \in [Clients -> Seq(ReqIds)]
    /\ got \in [Clients -> Seq(Answer)]
    /\ pos \in [Clients -> Nat \ {0}]
    /\ seen \in [Clients -> SlotStates]
    /\ wpc \in [Workers -> {"take", "read", "handle", "complete",
                            "complete_cas", "drain"}]
    /\ wslot \in [Workers -> Slots \cup {NoSlot}]
    /\ wreq \in [Workers -> Request]

\* The positions in held[c] of the slots the call still has: the loops of
\* abandon_slots and release_slots let go of them one by one.
Own(c) ==
    IF pc[c] \in {"abandon", "abandon_cas", "release"}
    THEN pos[c] .. Len(held[c])
    ELSE 1 .. Len(held[c])

HeldBy(s, c) == \E i \in Own(c) : held[c][i] = s
ServedBy(s, w) == wslot[w] = s

\* Who owns a slot, by its state (ring.rs: "From server_take until this
\* function stores a state the slot is this server thread's alone"): a FREE
\* slot belongs to nobody, an ABANDONED one to one worker and no client, one
\* that is being processed to one worker and to the client that waits for
\* it, any other to one client.  A slot two calls believe to hold, or one
\* that is free while a worker still writes into it, violates this.
SlotOwnership ==
    /\ \A s \in Slots :
          /\ state[s] \in {"FREE", "ABANDONED"}
                <=> \A c \in Clients : ~ HeldBy(s, c)
          /\ state[s] \in {"PROCESSING", "ABANDONED"}
                <=> \E w \in Workers : ServedBy(s, w)
          /\ \A w, v \in Workers : ServedBy(s, w) /\ ServedBy(s, v) => w = v
    /\ \A c, d \in Clients : \A i \in Own(c), j \in Own(d) :
          held[c][i] = held[d][j] => c = d /\ i = j

\* What a call hands to its caller belongs to its own requests, in the order
\* they were sent: the reply, and for a bulk read the bytes it copied out of
\* the arena bank, never those of an earlier request that timed out in the
\* same slot or of a later one (abandon, server_complete, submit_many_held:
\* "Freeing early lets a concurrent claim reuse the bank and corrupt bulk
\* data").
OwnReplies ==
    \A c \in Clients : \A i \in 1 .. Len(got[c]) :
        /\ got[c][i].resp.id = ids[c][i]
        /\ got[c][i].resp.kind \in
              (IF kind[c] = "bulk" THEN {"bulk_answer"} ELSE {"answer", "overflow"})
        /\ kind[c] = "bulk" /\ (pc[c] = "release" \/ (pc[c] = "copy" /\ i < pos[c]))
              => got[c][i].bank = ids[c][i]

\* The defensive exits are never taken: no reply is Stale (server_complete
\* finds its own request, still PROCESSING or ABANDONED), and no answered
\* slot carries the ack of another request (take_response's BadResponse),
\* although an ack is only the low half of an id.
NeverStale ==
    /\ \A w \in Workers :
          /\ wpc[w] = "complete" =>
                /\ reqId[wslot[w]] = wreq[w].req_id
                /\ state[wslot[w]] \in {"PROCESSING", "ABANDONED"}
          /\ wpc[w] = "complete_cas" =>
                state[wslot[w]] \in {"PROCESSING", "ABANDONED"}
          /\ wpc[w] = "drain" => state[wslot[w]] = "ABANDONED"
    /\ \A c \in Clients :
          LET k == Len(got[c]) + 1 IN
          pc[c] = "await" /\ state[held[c][k]] = "COMPLETED"
             => ack[held[c][k]] = AckOf(ids[c][k])

\* Every call returns, whatever the director does: with no worker running, a
\* handler that never comes back, or two batches that each hold a slot the
\* other waits for (claim_slot_from and await_response are bounded by the
\* deadline, and abandon's loop ends).
CallReturns == \A c \in Clients : pc[c] # "idle" ~> pc[c] = "idle"

\* No slot is lost: if the workers run, then once the calls are over and the
\* handlers have returned every slot is FREE again, whichever calls timed out
\* and in whatever state their slots were (submit_reporting: "or a stalled
\* director costs the ring a slot permanently").
SlotsComeBack == <>[](\A s \in Slots : state[s] = "FREE")
NoSlotLeak == ServerFairness => SlotsComeBack
=============================================================================
