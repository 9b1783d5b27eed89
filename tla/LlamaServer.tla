----------------------------- MODULE LlamaServer -----------------------------
(***************************************************************************)
(* The llama-server child process: started, probed, used, replaced and     *)
(* killed by callers that take turns on the lifecycle lock, and reaped by  *)
(* a monitor thread that never takes it (llama_vulkan.rs).                 *)
(*                                                                         *)
(* A route is a model on a card.  The process identity is the generation   *)
(* that spawned it: pid = g for the child of generation g, 0 for none.     *)
(* `proofs' are the routes slm.rs holds as serveable.  One caller stands   *)
(* for all of them: they differ in nothing and the lock admits one.        *)
(* Only the newest child and its monitor are kept: every earlier one was   *)
(* reaped before the lock was free for the next start.                     *)
(***************************************************************************)
EXTENDS Naturals, FiniteSets

CONSTANTS
    Routes, None,
    MaxStarts,     \* bound: children spawned
    MaxCalls       \* bound: calls made

VARIABLES
    available, port, pid, generation, exiting, identity,
    child,         \* the newest child: "none", "alive", "dead" or "reaped"
    monitor,       \* where the newest child's monitor thread is
    was_up, taken, \* what the monitor's cleanup has read so far
    rx,            \* the starter still listens for the spawn report
    proofs, owed,  \* proven routes; routes with a success not yet recorded
    evicted,       \* EVICTED, and no device pinned by the operator: other threads set it
    c,             \* the caller: where it is, in what call, and what the last returned
    calls

server == <<available, port, pid, generation, exiting, identity, child, monitor, was_up, taken, rx,
            proofs, owed, evicted, c, calls>>

NoId == [route |-> None, gen |-> 0]
Id == [route: Routes \cup {None}, gen: 0..MaxStarts]

Idle == [at |-> "idle", op |-> "none", route |-> None, withdraw |-> FALSE, then |-> "none", ok |-> TRUE]

Init ==
    /\ available = FALSE /\ port = FALSE /\ pid = 0 /\ generation = 0 /\ exiting = 0 /\ identity = NoId
    /\ child = "none" /\ monitor = "off" /\ was_up = FALSE /\ taken = NoId /\ rx = FALSE
    /\ proofs = {} /\ owed = {} /\ evicted = FALSE /\ c = Idle /\ calls = 0

exact_process_owner(gen, seen) == seen # 0 /\ gen = generation /\ gen = seen

exact_process_publishable(gen) == exact_process_owner(gen, pid) /\ exiting # gen

available_for(route) ==
    /\ available /\ pid # 0 /\ exiting # generation
    /\ exact_process_owner(identity.gen, pid) /\ identity.route = route

take_identity_for_generation(gen) == IF identity.gen = gen THEN identity ELSE NoId

Withdrawn(id) == proofs \ {id.route}

-----------------------------------------------------------------------------
(* The caller.  Returning frees the lifecycle lock. *)

CallerOnly == UNCHANGED <<available, port, pid, generation, exiting, identity, child, monitor, was_up, taken, rx,
                          proofs, owed, calls>>

Goto(at) == c' = [c EXCEPT !.at = at]

(* stop_locked(true, ...) and then the failure of the whole call. *)
Retiring == [c EXCEPT !.at = "stop", !.withdraw = TRUE, !.then = "refused"]

Return(ok) == c' = [c EXCEPT !.at = "idle", !.ok = ok]

Call(op, route) ==
    /\ c.at = "idle" /\ calls < MaxCalls
    /\ c' = [Idle EXCEPT !.at = op, !.op = op, !.route = route]
    /\ calls' = calls + 1
    /\ UNCHANGED <<available, port, pid, generation, exiting, identity, child, monitor, was_up, taken, rx, proofs, owed, evicted>>

(* try_start_on's first early return: the card's memory was given to the   *)
(* blob.  It comes before any look at the server that runs, which is left  *)
(* as it is; the start counts as denied.                                   *)
DenyStart ==
    /\ c.at = "start" /\ evicted
    /\ c' = [c EXCEPT !.at = "idle", !.op = "denied", !.ok = FALSE]
    /\ CallerOnly

(* reuse_exact_or_stop, and the head of try_start_on after that return: an *)
(* exact server is kept, any other is retired.                             *)
reuse_exact_or_stop ==
    /\ c.at = "reuse" \/ (c.at = "start" /\ ~evicted)
    /\ IF available_for(c.route) THEN Return(TRUE) ELSE Goto("retire")
    /\ CallerOnly

AfterRetire == IF c.op = "start" THEN "launch" ELSE "refused"

(* current_server_responsive_locked: the probe is answered by a live child *)
(* only.                                                                   *)
current_server_responsive_locked ==
    available /\ exiting # generation /\ exact_process_owner(identity.gen, pid) /\ child = "alive"

(* replacement_action, and what each one does. *)
retire_server_for_replacement_locked ==
    /\ c.at = "retire"
    /\ c' = IF pid = 0 THEN [c EXCEPT !.at = AfterRetire]
            ELSE IF exiting = generation THEN [c EXCEPT !.at = "await"]
            ELSE [c EXCEPT !.at = "stop", !.withdraw = ~current_server_responsive_locked, !.then = AfterRetire]
    /\ CallerOnly

WaitForMonitor == c.at = "await" /\ pid = 0 /\ Goto(AfterRetire) /\ CallerOnly

(* The end of an operation that leaves no server behind. *)
Refuse == c.at = "refused" /\ Return(FALSE) /\ CallerOnly

(* try_start_on's later early returns: no binary, no file, no port, no     *)
(* device.                                                                 *)
CannotLaunch == c.at = "launch" /\ Return(FALSE) /\ CallerOnly

LaunchMonitor ==
    /\ c.at = "launch" /\ generation < MaxStarts
    /\ generation' = generation + 1
    /\ monitor' = "spawning" /\ child' = "none" /\ was_up' = FALSE /\ taken' = NoId /\ rx' = TRUE
    /\ Goto("spawned")
    /\ UNCHANGED <<available, port, pid, exiting, identity, proofs, owed, calls>>

(* rx.recv_timeout: a pid, an error, or ten seconds of nothing. *)
ReceivePid ==
    /\ c.at = "spawned" /\ monitor = "handing"
    /\ pid' = generation /\ Goto("acknowledge")
    /\ UNCHANGED <<available, port, generation, exiting, identity, child, monitor, was_up, taken, rx, proofs, owed, calls>>

SpawnFailed == c.at = "spawned" /\ monitor = "failed" /\ Return(FALSE) /\ CallerOnly

SpawnTimesOut ==
    /\ c.at = "spawned" /\ rx
    /\ rx' = FALSE /\ Goto("cleanup")
    /\ UNCHANGED <<available, port, pid, generation, exiting, identity, child, monitor, was_up, taken, proofs, owed, calls>>

(* wait_for_spawn_cleanup: the monitor's completion token. *)
wait_for_spawn_cleanup ==
    /\ c.at = "cleanup" /\ monitor \in {"done", "failed"} /\ Return(FALSE) /\ CallerOnly

(* variant: an abandoned handoff is not waited for. *)
acknowledge_spawn_or_wait_cleanupNow ==
    /\ c.at = "acknowledge"
    /\ \/ /\ monitor = "handing" /\ monitor' = "waiting" /\ Goto("health") /\ pid' = pid
       \/ /\ monitor \in {"abandoning", "done"} /\ pid' = 0 /\ Return(FALSE) /\ monitor' = monitor
    /\ UNCHANGED <<available, port, generation, exiting, identity, child, was_up, taken, rx, proofs, owed, calls>>

(* The rendezvous with a monitor that waits for it, or with one that has   *)
(* given up and reaped its child.                                          *)
acknowledge_spawn_or_wait_cleanup ==
    /\ c.at = "acknowledge"
    /\ \/ /\ monitor = "handing" /\ monitor' = "waiting" /\ Goto("health") /\ pid' = pid
       \/ /\ monitor = "done" /\ pid' = 0 /\ Return(FALSE) /\ monitor' = monitor
    /\ UNCHANGED <<available, port, generation, exiting, identity, child, was_up, taken, rx, proofs, owed, calls>>

(* The health loop: the child's exit, a healthy answer, or the deadline.   *)
ExitedDuringStart == c.at = "health" /\ pid = 0 /\ Return(FALSE) /\ CallerOnly

Healthy ==
    /\ c.at = "health" /\ child = "alive"
    /\ identity' = [route |-> c.route, gen |-> generation] /\ Goto("up")
    /\ UNCHANGED <<available, port, pid, generation, exiting, child, monitor, was_up, taken, rx, proofs, owed, calls>>

PublishAvailable ==
    /\ c.at = "up" /\ available' = TRUE /\ Goto("port")
    /\ UNCHANGED <<port, pid, generation, exiting, identity, child, monitor, was_up, taken, rx, proofs, owed, calls>>

PublishPort ==
    /\ c.at = "port" /\ port' = TRUE /\ Goto("verify")
    /\ UNCHANGED <<available, pid, generation, exiting, identity, child, monitor, was_up, taken, rx, proofs, owed, calls>>

VerifyPublished ==
    /\ c.at = "verify"
    /\ IF exact_process_publishable(generation)
       THEN Return(TRUE) /\ UNCHANGED <<available, port, identity>>
       ELSE /\ available' = FALSE /\ port' = FALSE /\ identity' = NoId
            /\ Return(FALSE)
    /\ UNCHANGED <<pid, generation, exiting, child, monitor, was_up, taken, rx, proofs, owed, calls>>

StartDeadline ==
    /\ c.at = "health" /\ pid # 0
    /\ c' = Retiring /\ CallerOnly

-----------------------------------------------------------------------------
(* stop_locked, store by store. *)

stop == c.at = "halt" /\ c' = Retiring /\ CallerOnly

StopHides ==
    /\ c.at = "stop" /\ available' = FALSE /\ port' = FALSE /\ Goto("take")
    /\ UNCHANGED <<pid, generation, exiting, identity, child, monitor, was_up, taken, rx, proofs, owed, calls>>

StopTakes ==
    /\ c.at = "take"
    /\ LET stopped == take_identity_for_generation(generation) IN
       /\ identity' = IF stopped # NoId THEN NoId ELSE identity
       /\ proofs' = IF c.withdraw THEN Withdrawn(stopped) ELSE proofs
    /\ Goto("kill")
    /\ UNCHANGED <<available, port, pid, generation, exiting, child, monitor, was_up, taken, rx, owed, calls>>

StopKills ==
    /\ c.at = "kill" /\ Goto("reap")
    /\ child' = IF pid # 0 /\ child = "alive" THEN "dead" ELSE child
    /\ UNCHANGED <<available, port, pid, generation, exiting, identity, monitor, was_up, taken, rx, proofs, owed, calls>>

StopReaps == c.at = "reap" /\ pid = 0 /\ Goto(c.then) /\ CallerOnly

-----------------------------------------------------------------------------
(* Requests: generate_for, and the later record of its success. *)

generate_for ==
    /\ c.at = "generate"
    /\ IF available_for(c.route) THEN Goto("post") ELSE Return(FALSE)
    /\ CallerOnly

(* The identity is read again for its key, and may have gone since. *)
ReadKey == c.at = "post" /\ (IF identity = NoId THEN Return(FALSE) ELSE Goto("asking")) /\ CallerOnly

Completion ==
    /\ c.at = "asking" /\ child = "alive"
    /\ owed' = owed \cup {c.route} /\ Return(TRUE)
    /\ UNCHANGED <<available, port, pid, generation, exiting, identity, child, monitor, was_up, taken, rx, proofs, calls>>

(* No answer in time, an unreadable one, or none at all. *)
CompletionFails == c.at = "asking" /\ c' = Retiring /\ CallerOnly

(* Checked and recorded with the identity held. *)
commit_route_success ==
    /\ c.at = "commit" /\ c.route \in owed
    /\ owed' = owed \ {c.route}
    /\ proofs' = IF available_for(c.route) THEN proofs \cup {c.route} ELSE proofs
    /\ Return(available_for(c.route))
    /\ UNCHANGED <<available, port, pid, generation, exiting, identity, child, monitor, was_up, taken, rx, calls>>

NothingOwed == c.at = "commit" /\ c.route \notin owed /\ Return(FALSE) /\ CallerOnly

CallerSteps ==
    \/ DenyStart \/ reuse_exact_or_stop \/ retire_server_for_replacement_locked \/ WaitForMonitor \/ Refuse
    \/ CannotLaunch \/ LaunchMonitor \/ ReceivePid \/ SpawnFailed \/ SpawnTimesOut
    \/ wait_for_spawn_cleanup \/ acknowledge_spawn_or_wait_cleanup
    \/ ExitedDuringStart \/ Healthy \/ PublishAvailable \/ PublishPort \/ VerifyPublished \/ StartDeadline
    \/ stop \/ StopHides \/ StopTakes \/ StopKills \/ StopReaps
    \/ generate_for \/ ReadKey \/ Completion \/ CompletionFails \/ commit_route_success \/ NothingOwed

CallerStep == CallerSteps /\ UNCHANGED evicted

-----------------------------------------------------------------------------
(* The monitor thread of the newest child, and the child itself. *)

MonitorOnly == UNCHANGED <<generation, rx, owed, evicted, c, calls>>

MonitorSpawns ==
    /\ monitor = "spawning"
    /\ \/ monitor' = "handing" /\ child' = "alive"
       \/ monitor' = "failed" /\ child' = child
    /\ MonitorOnly /\ UNCHANGED <<available, port, pid, exiting, identity, was_up, taken, proofs>>

(* The starter hung up, or took ten seconds to acknowledge. *)
MonitorAbandons ==
    /\ monitor = "handing" /\ monitor' = "abandoning"
    /\ MonitorOnly /\ UNCHANGED <<available, port, pid, exiting, identity, child, was_up, taken, proofs>>

MonitorKills ==
    /\ monitor = "abandoning" /\ monitor' = "done" /\ child' = "reaped"
    /\ MonitorOnly /\ UNCHANGED <<available, port, pid, exiting, identity, was_up, taken, proofs>>

(* wait() returned: the exit is marked before anything else. *)
MarkExit ==
    /\ monitor = "waiting" /\ child = "dead"
    /\ child' = "reaped"
    /\ exiting' = generation /\ monitor' = "closing"
    /\ MonitorOnly /\ UNCHANGED <<available, port, pid, identity, was_up, taken, proofs>>

ClosePort ==
    /\ monitor = "closing" /\ port' = FALSE /\ monitor' = "swapping"
    /\ MonitorOnly /\ UNCHANGED <<available, pid, exiting, identity, child, was_up, taken, proofs>>

SwapAvailable ==
    /\ monitor = "swapping" /\ was_up' = available /\ available' = FALSE /\ monitor' = "taking"
    /\ MonitorOnly /\ UNCHANGED <<port, pid, exiting, identity, child, taken, proofs>>

MonitorTakes ==
    /\ monitor = "taking" /\ taken' = take_identity_for_generation(generation)
    /\ identity' = IF identity.gen = generation THEN NoId ELSE identity
    /\ monitor' = "withdrawing"
    /\ MonitorOnly /\ UNCHANGED <<available, port, pid, exiting, child, was_up, proofs>>

MonitorWithdraws ==
    /\ monitor = "withdrawing" /\ monitor' = "clearing"
    /\ proofs' = IF was_up THEN Withdrawn(taken) ELSE proofs
    /\ MonitorOnly /\ UNCHANGED <<available, port, pid, exiting, identity, child, was_up, taken>>

(* variant: the pid of a server that was not up is not cleared. *)
finish_monitor_cleanupUp ==
    /\ monitor = "clearing" /\ pid' = (IF was_up THEN 0 ELSE pid) /\ monitor' = "done"
    /\ MonitorOnly /\ UNCHANGED <<available, port, exiting, identity, child, was_up, taken, proofs>>

(* The pid is cleared last. *)
finish_monitor_cleanup ==
    /\ monitor = "clearing" /\ pid' = 0 /\ monitor' = "done"
    /\ MonitorOnly /\ UNCHANGED <<available, port, exiting, identity, child, was_up, taken, proofs>>

MonitorStep ==
    \/ MonitorSpawns \/ MonitorKills \/ MarkExit \/ ClosePort \/ SwapAvailable \/ MonitorTakes
    \/ MonitorWithdraws \/ finish_monitor_cleanup

(* The child crashes, is killed from outside, or runs out of memory. *)
ChildExits ==
    /\ child = "alive" /\ child' = "dead"
    /\ MonitorOnly /\ UNCHANGED <<available, port, pid, exiting, identity, monitor, was_up, taken, proofs>>

(* A worker chose mining memory over inference, or an engine on a suspect  *)
(* device was unloaded.  Nothing takes it back.                            *)
mark_gpu_inference_unfit ==
    /\ ~evicted /\ evicted' = TRUE
    /\ CallerOnly /\ UNCHANGED c

Calls == \E op \in {"reuse", "start", "halt", "generate", "commit"}, route \in Routes : Call(op, route)

Next == Calls \/ CallerStep \/ MonitorStep \/ MonitorAbandons \/ ChildExits \/ mark_gpu_inference_unfit

(* The threads run; the ten-second limits may fire or not, and the starter *)
(* that hung up is noticed.                                                *)
Fairness ==
    /\ WF_server(CallerStep) /\ WF_server(MonitorStep) /\ WF_server(~rx /\ MonitorAbandons)

Spec == Init /\ [][Next]_server
FairSpec == Spec /\ Fairness

-----------------------------------------------------------------------------
TypeOK ==
    /\ pid \in {0, generation} /\ identity \in Id /\ taken \in Id
    /\ child \in {"none", "alive", "dead", "reaped"} /\ exiting \in 0..generation
    /\ proofs \subseteq Routes /\ owed \subseteq Routes /\ calls \in 0..MaxCalls

(* A stop or reuse that returned FALSE, and a start that did once it had   *)
(* looked at the server, left no child alive: this is what                 *)
(* acknowledge_spawn_or_wait_cleanup calls a GPU-ownership barrier, and    *)
(* the in-process engine is loaded behind it.  A start denied because of   *)
(* the eviction is the exception: it looked at nothing, so its FALSE may   *)
(* leave a child alive, of the very route it was asked for.  And what any  *)
(* returned call leaves available is the child of the current generation,  *)
(* alive or with its exit still to be handled by its monitor.              *)
FalseMeansFree ==
    c.at = "idle" =>
        /\ (~c.ok /\ c.op \in {"reuse", "start", "halt"}) => child # "alive"
        /\ available => pid = generation /\ identity.gen = generation /\ monitor \in {"waiting", "closing", "swapping"}

(* A request that failed and retired its server leaves the route           *)
(* unproven.  stop_locked says a request failure closes the exact route    *)
(* just as a natural exit does; but a monitor that swaps AVAILABLE after   *)
(* stop_locked has cleared it, and takes the identity before stop_locked   *)
(* does, leaves neither of them to withdraw the proof.                     *)
FailedRouteIsWithdrawn ==
    (c.at = "idle" /\ c.op = "generate" /\ ~c.ok /\ c.withdraw) => c.route \notin proofs

(* A commit that lost its server records nothing: whatever is proven while *)
(* nobody stops anything belongs to a server that is up or is being        *)
(* withdrawn (commit_with_owned_identity).                                 *)
CommitIsOwned ==
    [][\A r \in proofs' \ proofs : available /\ identity.route = r /\ identity.gen = pid /\ exiting # pid]_server

(* Every call returns, whatever the child and the ten-second limits do.    *)
EveryCallReturns == []<>(c.at = "idle")
=============================================================================
