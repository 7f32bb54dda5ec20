------------------------------- MODULE SteamCm -------------------------------
(***************************************************************************)
(* The connection to a Steam CM server: calls and their split answers over *)
(* one socket, and the login over it. Each section is a state machine of   *)
(* its own; they share no state.                                           *)
(***************************************************************************)
EXTENDS Integers, Sequences, FiniteSets, SequencesExt

CONSTANTS
    \* cm
    Callers, Rpc,   \* who calls, and what each asks: "key", "ticket", "owns"
    Parts,   \* how many messages a package-info answer is split into
    MaxTrips, MaxBeats, Attempts,
    \* login
    Method,   \* "qr" or "password"
    Offered,   \* what Steam Guard offers: subset of {"code", "approval"}; {} none needed
    MaxAttempts, MaxPolls,
    None

VARIABLES
    \* cm
    calls,   \* caller -> [pc, ans]
    queue,   \* callers whose jobs wait in the channel
    job,   \* the job being served, or None
    conn,   \* logged on?
    owed, inbox,   \* replies Steam has yet to send; messages that arrived
    licenses,   \* has a licence list been kept
    trips, beats,
    \* login
    pc, call, client, in_flight, wire, sent,
    steam,   \* Steam's side: sessions opened, codes received, the challenge, the token given
    begun, typed,   \* sign-ins begun, codes the user entered
    pend, shown, takes_code, polls, file

(***************************************************************************)
(* The Steam CM connection: one actor task that takes requests from a      *)
(* queue and runs them one at a time on a connection whose replies carry   *)
(* no request number.  A timeout or a lost connection drops it, and the    *)
(* request is sent once more on a new one.                                 *)
(*                                                                         *)
(* A request is a sequence of round trips; a reply is its kind and the     *)
(* round trip it answers (`of`, which only the model sees).  After a logon *)
(* Steam pushes the licence list by itself.                                *)
(***************************************************************************)
cmVars == <<calls, queue, job, conn, owed, inbox, licenses, trips, beats>>
cm_wire == <<owed, inbox, trips>>

Push == [kind |-> "licences", of |-> 0, refused |-> FALSE]
Idle == [pc |-> "idle", ans |-> 0]

\* Cm::start: logged on before the actor runs.
CmInit ==
  /\ calls = [c \in Callers |-> Idle] /\ queue = <<>> /\ job = None
  /\ conn = TRUE /\ owed = <<Push>> /\ inbox = <<>> /\ licenses = FALSE
  /\ trips = 0 /\ beats = 0

cm_call(c) ==
  /\ calls[c].pc = "idle"
  /\ calls' = [calls EXCEPT ![c].pc = "waiting"]
  /\ queue' = Append(queue, c)
  /\ UNCHANGED <<job, conn, licenses, cm_wire, beats>>

\* The actor takes the next job.
run ==
  /\ job = None /\ queue # <<>>
  /\ job' = [caller |-> Head(queue), try |-> 1, stage |-> "connect", trip |-> 0, left |-> 0]
  /\ queue' = Tail(queue)
  /\ UNCHANGED <<calls, conn, licenses, cm_wire, beats>>

Drop == conn' = FALSE /\ owed' = <<>> /\ inbox' = <<>> /\ licenses' = FALSE

heartbeat ==
  /\ job = None /\ conn /\ beats < MaxBeats
  /\ beats' = beats + 1 /\ Drop
  /\ UNCHANGED <<calls, queue, job, trips>>

Answer(ans) ==
  /\ calls' = [calls EXCEPT ![job.caller] = [pc |-> "done", ans |-> ans]]
  /\ job' = None

connect ==
  /\ job # None /\ job.stage = "connect"
  /\ \/ /\ conn
        /\ job' = [job EXCEPT !.stage = "send"]
        /\ UNCHANGED <<calls, conn, licenses, owed, inbox>>
     \/ /\ ~conn
        /\ conn' = TRUE /\ owed' = <<Push>> /\ inbox' = <<>> /\ licenses' = FALSE
        /\ job' = [job EXCEPT !.stage = "send"]
        /\ UNCHANGED calls
     \/ /\ ~conn /\ Answer(-1)
        /\ UNCHANGED <<conn, licenses, owed, inbox>>
  /\ UNCHANGED <<queue, trips, beats>>

Lost_keeps ==
  /\ job # None /\ job.stage # "connect"
  /\ UNCHANGED <<conn, owed, inbox, licenses>>
  /\ \/ job.try < Attempts /\ job' = [job EXCEPT !.try = @ + 1, !.stage = "connect"] /\ UNCHANGED calls
     \/ job.try = Attempts /\ Answer(-1)
  /\ UNCHANGED <<queue, trips, beats>>

\* A deadline passes, the transport fails or an answer cannot be trusted: the
\* connection goes, and the request is tried again or given up.
Lost ==
  /\ job # None /\ job.stage # "connect" /\ Drop
  /\ \/ job.try < Attempts /\ job' = [job EXCEPT !.try = @ + 1, !.stage = "connect"] /\ UNCHANGED calls
     \/ job.try = Attempts /\ Answer(-1)
  /\ UNCHANGED <<queue, trips, beats>>

(***************************************************************************)
(* The round trips of a request.  steamroom's own calls ("key", "tokens")  *)
(* and LoggedInConn::recv read and drop whatever is not their answer, and  *)
(* only recv keeps a licence list it passes.                               *)
(***************************************************************************)
First(rpc) == IF rpc = "owns" THEN "ownership" ELSE rpc
Replies(kind) == [i \in 1..(IF kind = "info" THEN Parts ELSE 1) |-> [kind |-> kind, of |-> trips + 1, refused |-> FALSE]]
Ask(kind) ==
  /\ trips < MaxTrips /\ trips' = trips + 1
  /\ owed' \in {owed \o Replies(kind), owed \o [i \in 1..1 |-> [kind |-> kind, of |-> trips + 1, refused |-> TRUE]]}
  /\ job' = [job EXCEPT !.stage = kind, !.trip = trips + 1, !.left = IF kind = "info" THEN Parts ELSE 1]

send ==
  /\ job # None /\ job.stage = "send"
  /\ Ask(First(Rpc[job.caller]))
  /\ UNCHANGED <<calls, queue, conn, inbox, licenses, beats>>

\* Messages arrive in order, one or several (MULTI) at a time.
Arrive(n) ==
  /\ conn /\ n <= Len(owed)
  /\ inbox' = Append(inbox, SubSeq(owed, 1, n)) /\ owed' = SubSeq(owed, n + 1, Len(owed))
  /\ UNCHANGED <<calls, queue, job, conn, licenses, trips, beats>>

Waiting == job # None /\ job.stage \notin {"connect", "send", "ask_tokens", "ask_info"} /\ inbox # <<>>
Matching(batch) == {i \in DOMAIN batch : batch[i].kind = job.stage}
ByRecv == job.stage \notin {"key", "tokens"}
take(batch) == licenses' = (licenses \/ (ByRecv /\ \E i \in DOMAIN batch : batch[i].kind = "licences"))

recv ==
  /\ Waiting /\ Matching(Head(inbox)) = {}
  /\ inbox' = Tail(inbox) /\ take(Head(inbox))
  /\ UNCHANGED <<calls, queue, job, conn, owed, trips, beats>>

\* The answer of one round trip.  A refusal is Steam's answer to the request;
\* a refused or broken part of the package info costs the connection (Lost).
Proceed(reply) ==
  CASE reply.refused /\ job.stage # "info" -> Answer(reply.of) /\ UNCHANGED <<owed, trips>>
    [] ~reply.refused /\ job.stage \in {"key", "ticket"} -> Answer(reply.of) /\ UNCHANGED <<owed, trips>>
    [] ~reply.refused /\ job.stage = "ownership" ->
         /\ UNCHANGED <<owed, trips>>
         /\ \/ Answer(reply.of)
            \/ /\ job' = [job EXCEPT !.stage = IF licenses' THEN "ask_tokens" ELSE "licences"]
               /\ UNCHANGED calls
    [] ~reply.refused /\ job.stage = "licences" -> job' = [job EXCEPT !.stage = "ask_tokens"] /\ UNCHANGED <<calls, owed, trips>>
    [] ~reply.refused /\ job.stage = "tokens" -> job' = [job EXCEPT !.stage = "ask_info"] /\ UNCHANGED <<calls, owed, trips>>
    [] ~reply.refused /\ job.stage = "info" ->
         /\ UNCHANGED <<owed, trips>>
         /\ IF job.left > 1 THEN job' = [job EXCEPT !.left = @ - 1] /\ UNCHANGED calls
            ELSE Answer(reply.of)
    [] OTHER -> FALSE

Reply ==
  LET batch == Head(inbox) IN
  /\ Waiting /\ Matching(batch) # {}
  /\ inbox' = Tail(inbox) /\ take(batch)
  /\ Proceed(batch[CHOOSE i \in Matching(batch) : \A j \in Matching(batch) : i <= j])
  /\ UNCHANGED <<queue, conn, beats>>

owns ==
  /\ job # None /\ job.stage \in {"ask_tokens", "ask_info"}
  /\ Ask(IF job.stage = "ask_tokens" THEN "tokens" ELSE "info")
  /\ UNCHANGED <<calls, queue, conn, inbox, licenses, beats>>

Return(c) ==
  /\ calls[c].pc = "done"
  /\ calls' = [calls EXCEPT ![c] = Idle]
  /\ UNCHANGED <<queue, job, conn, licenses, cm_wire, beats>>

Step == run \/ connect \/ send \/ recv \/ Reply \/ owns \/ Lost
CmNext ==
  \/ \E c \in Callers : cm_call(c) \/ Return(c)
  \/ Step \/ heartbeat \/ \E n \in 1..2 : Arrive(n)

CmSpec == CmInit /\ [][CmNext]_cmVars
LiveSpec == CmSpec /\ WF_cmVars(Step)

(***************************************************************************)
(* Properties.                                                             *)
(***************************************************************************)
\* Types of the queue, the job and the connection.
CmTypeOK ==
  /\ Len(queue) <= Cardinality(Callers) /\ conn \in BOOLEAN /\ licenses \in BOOLEAN
  /\ job # None => job.caller \in Callers /\ job.try \in 1..Attempts /\ job.left \in 0..Parts
  /\ \A c \in Callers : calls[c].ans \in -1..MaxTrips

Coming == FlattenSeq(inbox) \o owed

\* Between two requests nothing that was asked is still on its way: no
\* leftover can be read as the answer to the next request.
NothingLeftOver == job = None => \A i \in DOMAIN Coming : Coming[i].kind = "licences"

\* What a request takes for its answer was sent for that very round trip.
AnswersOwn ==
  Waiting => \A i \in Matching(Head(inbox)) : Head(inbox)[i].of \in {job.trip, 0}

\* Every part of a split answer is read: while parts are missing, as many are
\* still to come.
PartsRead ==
  job # None /\ job.stage = "info" /\ (\A i \in DOMAIN Coming : ~Coming[i].refused) =>
     Cardinality({i \in DOMAIN Coming : Coming[i].kind = "info"}) >= job.left

\* Every call is answered, whatever Steam does.
CallsAnswered == \A c \in Callers : calls[c].pc = "waiting" ~> calls[c].pc = "done"

(***************************************************************************)
(* Signing in to Steam: by QR code or by password and Steam Guard code,    *)
(* over a connection on which a reply is known only by its place.  Calls   *)
(* that only ask are repeated once after a lost connection; calls that     *)
(* open a session or spend a code are sent once.                           *)
(*                                                                         *)
(* `wire` holds the replies still to be read on the open connection; each  *)
(* names the attempt it answers, which only the model sees.                *)
(***************************************************************************)
loginVars == <<pc, call, client, in_flight, wire, sent, steam, begun, typed, pend, shown, takes_code, polls, file>>
login_conn == <<call, client, in_flight, wire, sent, steam>>
user == <<begun, typed, pend, shown, takes_code, polls, file>>

LoginInit ==
  /\ pc = "start" /\ call = None /\ client = FALSE /\ in_flight = FALSE /\ wire = <<>> /\ sent = 0
  /\ steam = [sessions |-> 0, codes |-> 0, challenge |-> 0]
  /\ begun = 0 /\ typed = 0 /\ pend = 0 /\ shown = 0 /\ takes_code = FALSE /\ polls = 0
  /\ file \in {None, "old"}

(***************************************************************************)
(* AuthConn.                                                               *)
(***************************************************************************)
Call_repeats(method, idempotent) == call' = [method |-> method, left |-> 2, stage |-> "attempt"]

\* One attempt, or two when the call only asks.
Call(method, idempotent) == call' = [method |-> method, left |-> IF idempotent THEN 2 ELSE 1, stage |-> "attempt"]

\* What Steam answers to a request it received, and what it did for it.
Does(method) ==
  CASE method = "begin" -> {<<[steam EXCEPT !.sessions = @ + 1, !.challenge = @ + 1], "begun">>}
    [] method = "poll" -> {<<steam, a>> : a \in {"pending", "token", "expired"}} \cup
                          (IF Method = "qr" /\ steam.challenge < 2 THEN {<<[steam EXCEPT !.challenge = @ + 1], "challenge">>} ELSE {})
    [] method = "code" -> {<<[steam EXCEPT !.codes = @ + 1], a>> : a \in {"accepted", "wrong", "duplicate"}}
    [] OTHER -> {<<steam, "key">>}

Fail == IF call.left > 1 THEN call' = [call EXCEPT !.left = @ - 1, !.stage = "attempt"] ELSE call' = [call EXCEPT !.stage = "failed"]

attempt_reuses ==
  /\ call # None /\ call.stage = "attempt" /\ sent < MaxAttempts
  /\ \/ /\ ~client /\ Fail /\ UNCHANGED <<client, in_flight, wire, sent, steam>>
     \/ \E d \in Does(call.method), arrives \in BOOLEAN :
          /\ client' = TRUE /\ in_flight' = TRUE /\ sent' = sent + 1
          /\ wire' = IF arrives THEN Append(wire, [of |-> sent + 1, ans |-> d[2], ch |-> d[1].challenge]) ELSE wire
          /\ steam' = IF arrives THEN d[1] ELSE steam
          /\ call' = [call EXCEPT !.stage = "sent"]
  /\ UNCHANGED <<pc, user>>

\* A connection on which a call was cancelled is not used again.  Connecting may
\* fail; the request may be lost on its way.
attempt ==
  LET fresh == ~client \/ in_flight
      old == IF fresh THEN <<>> ELSE wire IN
  /\ call # None /\ call.stage = "attempt" /\ sent < MaxAttempts
  /\ \/ /\ fresh /\ client' = FALSE /\ in_flight' = FALSE /\ wire' = <<>> /\ Fail /\ UNCHANGED <<sent, steam>>
     \/ \E d \in Does(call.method), arrives \in BOOLEAN :
          /\ client' = TRUE /\ in_flight' = TRUE /\ sent' = sent + 1
          /\ wire' = IF arrives THEN Append(old, [of |-> sent + 1, ans |-> d[2], ch |-> d[1].challenge]) ELSE old
          /\ steam' = IF arrives THEN d[1] ELSE steam
          /\ call' = [call EXCEPT !.stage = "sent"]
  /\ UNCHANGED <<pc, user>>

\* The next reply on the connection is the answer.
reply ==
  /\ call # None /\ call.stage = "sent" /\ wire # <<>>
  /\ call' = [method |-> call.method, left |-> 0, stage |-> "answered", reply |-> Head(wire)]
  /\ wire' = Tail(wire) /\ in_flight' = FALSE
  /\ UNCHANGED <<pc, client, sent, steam, user>>

LoginLost ==
  /\ call # None /\ call.stage = "sent"
  /\ client' = FALSE /\ in_flight' = FALSE /\ wire' = <<>> /\ Fail
  /\ UNCHANGED <<pc, sent, steam, user>>

\* The deadline drops the attempt where it stands.
Timeout ==
  /\ call # None /\ call.stage = "sent" /\ Fail
  /\ UNCHANGED <<pc, client, in_flight, wire, sent, steam, user>>

Answered(a) == call # None /\ call.stage = "answered" /\ (call.stage = "answered" => call.reply.ans = a)
Over == call' = None /\ UNCHANGED <<client, in_flight, wire, sent, steam>>
NewConn == client' = FALSE /\ in_flight' = FALSE /\ wire' = <<>> /\ UNCHANGED <<sent, steam>>

\* A failed call ends the sign-in; an expired QR session starts another one.
failed ==
  /\ \/ call # None /\ call.stage = "failed"
     \/ Answered("expired") /\ Method = "password"
  /\ pc' = "failed" /\ Over /\ UNCHANGED user

(***************************************************************************)
(* login_interactive.                                                      *)
(***************************************************************************)
begin ==
  /\ pc = "start" /\ begun < 2 /\ begun' = begun + 1 /\ NewConn
  /\ IF Method = "qr" THEN pc' = "begin" /\ Call("begin", FALSE) ELSE pc' = "rsa" /\ Call("key", TRUE)
  /\ UNCHANGED <<typed, pend, shown, takes_code, polls, file>>

begin_password_login ==
  /\ pc = "rsa" /\ Answered("key") /\ pc' = "begin" /\ Call("begin", FALSE)
  /\ UNCHANGED <<client, in_flight, wire, sent, steam, user>>

\* The session is open: show the code, or what Steam Guard offers.
guard_offer ==
  /\ pc = "begin" /\ Answered("begun") /\ Over
  /\ pc' = "wait" /\ pend' = call.reply.ch
  /\ shown' = IF Method = "qr" THEN call.reply.ch ELSE shown
  /\ takes_code' = (Method = "password" /\ "code" \in Offered)
  /\ UNCHANGED <<begun, typed, polls, file>>

\* The poll interval passes.
poll ==
  /\ pc = "wait" /\ call = None /\ polls < MaxPolls /\ polls' = polls + 1
  /\ pc' = "poll" /\ Call("poll", TRUE)
  /\ UNCHANGED <<client, in_flight, wire, sent, steam, begun, typed, pend, shown, takes_code, file>>

\* A code is typed; it is spent once.
submit_code ==
  /\ pc = "wait" /\ call = None /\ takes_code /\ typed < 2 /\ typed' = typed + 1
  /\ pc' = "code" /\ Call("code", FALSE)
  /\ UNCHANGED <<client, in_flight, wire, sent, steam, begun, pend, shown, takes_code, polls, file>>

\* No more input: an approval elsewhere may still come.
next_code_ended ==
  /\ pc = "wait" /\ call = None /\ takes_code
  /\ takes_code' = FALSE /\ pc' = IF "approval" \in Offered THEN "wait" ELSE "failed"
  /\ UNCHANGED <<login_conn, begun, typed, pend, shown, polls, file>>

\* Steam is asked at once after a code it took (a repeat counts as taken), and
\* the user again after a wrong one.
drive_guard ==
  /\ pc = "code"
  /\ \/ /\ (Answered("accepted") \/ Answered("duplicate")) /\ polls < MaxPolls /\ polls' = polls + 1
        /\ pc' = "poll" /\ Call("poll", TRUE) /\ UNCHANGED <<client, in_flight, wire, sent, steam>>
     \/ Answered("wrong") /\ pc' = "wait" /\ Over /\ UNCHANGED polls
  /\ UNCHANGED <<begun, typed, pend, shown, takes_code, file>>

interpret_poll ==
  /\ pc = "poll" /\ polls' = polls
  /\ \/ Answered("pending") /\ pc' = "wait" /\ Over /\ UNCHANGED <<pend, shown>>
     \/ Answered("challenge") /\ pc' = "wait" /\ Over /\ pend' = call.reply.ch /\ shown' = call.reply.ch
     \/ Answered("token") /\ pc' = "save" /\ Over /\ UNCHANGED <<pend, shown>>
     \/ Answered("expired") /\ Method = "qr" /\ pc' = "start" /\ Over /\ UNCHANGED <<pend, shown>>
  /\ UNCHANGED <<begun, typed, takes_code, file>>

\* write_atomic: the old login stays until the new one is whole.
save ==
  /\ pc = "save"
  /\ \/ file' = "new" /\ pc' = "done"
     \/ UNCHANGED file /\ pc' = "failed"
  /\ UNCHANGED <<login_conn, begun, typed, pend, shown, takes_code, polls>>

\* The deadline for the whole sign-in.
deadline ==
  /\ pc \notin {"start", "save", "done", "failed"} /\ pc' = "failed" /\ call' = None
  /\ UNCHANGED <<client, in_flight, wire, sent, steam, user>>

LoginNext ==
  \/ attempt \/ reply \/ LoginLost \/ Timeout \/ failed
  \/ begin \/ begin_password_login \/ guard_offer \/ poll \/ submit_code \/ next_code_ended
  \/ drive_guard \/ interpret_poll \/ save \/ deadline

LoginSpec == LoginInit /\ [][LoginNext]_loginVars

(***************************************************************************)
(* Properties.                                                             *)
(***************************************************************************)
\* Types of the call and the counters.
LoginTypeOK ==
  /\ call # None => call.left \in 0..2
  /\ polls \in 0..MaxPolls /\ sent \in 0..MaxAttempts

\* The reply a call reads is the reply to its own last attempt, after timeouts,
\* cancelled attempts and repeats.
RepliesOwn == call # None => (call.stage = "answered" => call.reply.of = sent)

\* Steam opens at most one session per sign-in begun, and is sent a code at most
\* once for each time it was typed.
SentOnce == steam.sessions <= begun /\ steam.codes <= typed

\* While a QR sign-in waits, the code on the screen is the session's challenge.
ShownIsCurrent == Method = "qr" /\ pc \in {"wait", "poll"} => shown = pend
==============================================================================
