------------------------------- MODULE MCLive --------------------------------
(***************************************************************************)
(* What must happen in the end, in instances side by side, each with       *)
(* variables of its own: `which` picks one.                                *)
(***************************************************************************)
EXTENDS Integers, Sequences, FiniteSets, TLC

CONSTANTS None, w1, w2, t1, t2, p1, p2

VARIABLES which, scan_state, scan_next, scan_i, scan_serving, scan_passed, cache_mountGen,
    cache_mounted, cache_file, cache_used, cache_changed, cache_pc, cache_hd, cache_op,
    notify_version, notify_changed, notify_published, notify_opened, notify_open, notify_pc,
    notify_call, notify_waiters, notify_running, notify_notifier, notify_ended, notify_began,
    notify_calls, notify_faults, http_server, http_hosts, http_global, http_dl, http_req,
    http_sink, tree_st, tree_shim, tree_job, tree_parent, tree_pc, tree_want, tree_said,
    tree_turned, tree_tree

vars == <<which, scan_state, scan_next, scan_i, scan_serving, scan_passed, cache_mountGen,
    cache_mounted, cache_file, cache_used, cache_changed, cache_pc, cache_hd, cache_op,
    notify_version, notify_changed, notify_published, notify_opened, notify_open, notify_pc,
    notify_call, notify_waiters, notify_running, notify_notifier, notify_ended, notify_began,
    notify_calls, notify_faults, http_server, http_hosts, http_global, http_dl, http_req,
    http_sink, tree_st, tree_shim, tree_job, tree_parent, tree_pc, tree_want, tree_said,
    tree_turned, tree_tree>>

\* Two workers looking for requests in three slots.
Scan == INSTANCE RingScan WITH Workers <- {w1, w2}, NSlots <- 3, state <- scan_state,
    next <- scan_next, i <- scan_i, serving <- scan_serving, passed <- scan_passed
\* Two threads at the read cache, one of which may be killed in a fetch.
Cache == INSTANCE ReadCache WITH Threads <- {t1, t2}, Killable <- {t2}, Names <- {"a"},
    Under <- ("a" :> {"a"}), UnitsPerFile <- 1, MaxUnits <- 1, BlocksPerFile <- 2, MaxRun <- 2,
    ColdReads <- 1, MaxGen <- 1, mountGen <- cache_mountGen, mounted <- cache_mounted,
    file <- cache_file, used <- cache_used, changed <- cache_changed, pc <- cache_pc,
    hd <- cache_hd, op <- cache_op
\* Registry notifications.
Notify == INSTANCE RegKeys WITH Threads <- {t1, t2}, MAX_WAITERS <- 1, MaxWrites <- 1,
    MaxCalls <- 2, MaxOpens <- 1, MaxFaults <- 1, AskFails <- FALSE, Reuse <- FALSE,
    version <- notify_version, changed <- notify_changed, published <- notify_published,
    opened <- notify_opened, open <- notify_open, pc <- notify_pc, call <- notify_call,
    waiters <- notify_waiters, running <- notify_running, notifier <- notify_notifier,
    ended <- notify_ended, began <- notify_began, calls <- notify_calls,
    faults <- notify_faults, Keys <- None, Elsewhere <- None, NewName <- None, Values <- None,
    Slots <- None, MaxNotOurs <- None, MaxEnums <- None, kern <- None, synth <- None,
    pass <- None, not_ours <- None, enums <- None, job <- None, user <- None
\* A download in parts.
Http == INSTANCE HttpFile WITH Downloads <- {"d1"}, Host <- ("d1" :> "h"), Global <- 1,
    PerHost <- 2, LenOf <- <<3, 2>>, HonoursRange <- TRUE, expected <- None, expected_len <- 3,
    parallel_parts <- 2, max_attempts <- 2, STREAM_WRITE <- 2, server <- http_server,
    hosts <- http_hosts, global <- http_global, dl <- http_dl, req <- http_req,
    sink <- http_sink
\* Processes that start others.
Tree == INSTANCE Launch WITH Procs <- {p1, p2}, First <- p1, st <- tree_st, shim <- tree_shim,
    job <- tree_job, parent <- tree_parent, pc <- tree_pc, want <- tree_want, said <- tree_said,
    turned <- tree_turned, tree <- tree_tree, Threads <- None, Stoppers <- None, Proton <- None,
    MaxLaunches <- None, starting <- None, stop_pending <- None, detached <- None,
    waiting <- None, latest <- None, staged <- None, lock <- None, ring <- None,
    launches <- None
scanVars == <<scan_state, scan_next, scan_i, scan_serving, scan_passed>>
cacheVars == <<cache_mountGen, cache_mounted, cache_file, cache_used, cache_changed, cache_pc,
    cache_hd, cache_op>>
notifyVars == <<notify_version, notify_changed, notify_published, notify_opened, notify_open,
    notify_pc, notify_call, notify_waiters, notify_running, notify_notifier, notify_ended,
    notify_began, notify_calls, notify_faults>>
httpVars == <<http_server, http_hosts, http_global, http_dl, http_req, http_sink>>
treeVars == <<tree_st, tree_shim, tree_job, tree_parent, tree_pc, tree_want, tree_said,
    tree_turned, tree_tree>>

Init ==
    \/ which = "scan" /\ Scan!Init /\ Cache!Init /\ Notify!NotifyInit /\ Http!Init /\ Tree!TreeInit
    \/ which = "cache" /\ Cache!Init /\ Scan!Init /\ Notify!NotifyInit /\ Http!Init /\ Tree!TreeInit
    \/ which = "notify" /\ Notify!NotifyInit /\ Scan!Init /\ Cache!Init /\ Http!Init /\ Tree!TreeInit
    \/ which = "http" /\ Http!Init /\ Scan!Init /\ Cache!Init /\ Notify!NotifyInit /\ Tree!TreeInit
    \/ which = "tree" /\ Tree!TreeInit /\ Scan!Init /\ Cache!Init /\ Notify!NotifyInit /\ Http!Init

Next ==
    /\ UNCHANGED which
    /\ \/ which = "scan" /\ Scan!Next /\ UNCHANGED <<cache_mountGen, cache_mounted, cache_file,
               cache_used, cache_changed, cache_pc, cache_hd, cache_op, notify_version,
               notify_changed, notify_published, notify_opened, notify_open, notify_pc,
               notify_call, notify_waiters, notify_running, notify_notifier, notify_ended,
               notify_began, notify_calls, notify_faults, http_server, http_hosts, http_global,
               http_dl, http_req, http_sink, tree_st, tree_shim, tree_job, tree_parent, tree_pc,
               tree_want, tree_said, tree_turned, tree_tree>>
       \/ which = "cache" /\ Cache!Next /\ UNCHANGED <<scan_state, scan_next, scan_i,
               scan_serving, scan_passed, notify_version, notify_changed, notify_published,
               notify_opened, notify_open, notify_pc, notify_call, notify_waiters,
               notify_running, notify_notifier, notify_ended, notify_began, notify_calls,
               notify_faults, http_server, http_hosts, http_global, http_dl, http_req,
               http_sink, tree_st, tree_shim, tree_job, tree_parent, tree_pc, tree_want,
               tree_said, tree_turned, tree_tree>>
       \/ which = "notify" /\ Notify!NotifyNext /\ UNCHANGED <<scan_state, scan_next, scan_i,
               scan_serving, scan_passed, cache_mountGen, cache_mounted, cache_file, cache_used,
               cache_changed, cache_pc, cache_hd, cache_op, http_server, http_hosts,
               http_global, http_dl, http_req, http_sink, tree_st, tree_shim, tree_job,
               tree_parent, tree_pc, tree_want, tree_said, tree_turned, tree_tree>>
       \/ which = "http" /\ Http!Next /\ UNCHANGED <<scan_state, scan_next, scan_i,
               scan_serving, scan_passed, cache_mountGen, cache_mounted, cache_file, cache_used,
               cache_changed, cache_pc, cache_hd, cache_op, notify_version, notify_changed,
               notify_published, notify_opened, notify_open, notify_pc, notify_call,
               notify_waiters, notify_running, notify_notifier, notify_ended, notify_began,
               notify_calls, notify_faults, tree_st, tree_shim, tree_job, tree_parent, tree_pc,
               tree_want, tree_said, tree_turned, tree_tree>>
       \/ which = "tree" /\ Tree!TreeNext /\ UNCHANGED <<scan_state, scan_next, scan_i,
               scan_serving, scan_passed, cache_mountGen, cache_mounted, cache_file, cache_used,
               cache_changed, cache_pc, cache_hd, cache_op, notify_version, notify_changed,
               notify_published, notify_opened, notify_open, notify_pc, notify_call,
               notify_waiters, notify_running, notify_notifier, notify_ended, notify_began,
               notify_calls, notify_faults, http_server, http_hosts, http_global, http_dl,
               http_req, http_sink>>

Spec == Init /\ [][Next]_vars

\* The director's workers run and their handlers return; a thread whose wait is over is scheduled;
\* the notifier thread, tokio's tasks and the threads that start a process run.
LiveSpec ==
    /\ Spec
    /\ \A w \in {w1, w2} : WF_scanVars(which = "scan" /\ (Scan!server_take_from(w) \/ Scan!serve(w)))
    /\ \A t \in {t1, t2} :
          /\ WF_cacheVars(which = "cache" /\ Cache!PassDeadline(t))
          /\ WF_cacheVars(which = "cache" /\ Cache!Wait(t))
          /\ WF_notifyVars(which = "notify" /\ Notify!register(t))
          /\ WF_notifyVars(which = "notify" /\ Notify!cleanup(t))
    /\ WF_notifyVars(which = "notify" /\ Notify!publish)
    /\ WF_notifyVars(which = "notify" /\ Notify!Notifier)
    /\ WF_httpVars(which = "http" /\ Http!Step("d1"))
    /\ \A p \in Http!Parts : SF_httpVars(which = "http" /\ Http!acquire("d1", p))
    /\ \A p \in {p1, p2} : /\ WF_treeVars(which = "tree" /\ Tree!Make(p))
                           /\ WF_treeVars(which = "tree" /\ Tree!Load(p))

\* As in RingScan: every request submitted is taken by a worker, or taken back.
EverySlotTaken ==
    which = "scan" => Scan!EverySlotTaken

\* As in ReadCache, RegKeys, HttpFile and Launch: a wait on another thread's fetch ends, a
\* registry change wakes who waits for it, a download ends and the start of a process returns.
WaitsEnd ==
    /\ which = "cache" => \A t \in {t1, t2} : cache_pc[t] = "wait" ~> cache_pc[t] # "wait"
    /\ which = "notify" => Notify!ChangesWake
    /\ which = "http" => Http!DownloadEnds
    /\ which = "tree" => Tree!StartReturns
==============================================================================
