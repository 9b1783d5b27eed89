--------------------------- MODULE WorkerShutdown ---------------------------
(***************************************************************************)
(* How dropping a MinerManager gets rid of its workers (src/miner.rs, the  *)
(* Linux and macOS build).  Close has been sent; the dropping thread pops  *)
(* one handle after the other, starts a watcher thread for it and joins    *)
(* it.  The watcher polls kill_switch for the grace period and then sends  *)
(* SIGUSR1, whose handler unwinds the worker.                              *)
(*                                                                         *)
(* One action is one access to kill_switch, one poll, or one of the join   *)
(* and signal calls.  Time is the number of polls of a watcher.            *)
(***************************************************************************)
EXTENDS Integers

CONSTANTS
    NumWorkers,     \* handles of the manager
    GracePolls      \* FREEZE_GRACE / FREEZE_POLL

ShutdownAssumption == NumWorkers \in Nat \ {0} /\ GracePolls \in Nat \ {0}

Workers == 1..NumWorkers

VARIABLES
    handles,        \* handles[1..n] are still to be popped
    joining,        \* the handle in join(), 0 for none
    worker,         \* worker[w]: "busy", "frozen" or "exited"
    kill_switch,
    watcher,        \* watcher[w]: "none", "check", "sleep", "kill" or "done"
    waited,         \* polls of the watcher so far
    signalled,      \* SIGUSR1 was sent to w
    clearedAt       \* history: value of waited when kill_switch[w] was cleared, -1 before

vars == <<handles, joining, worker, kill_switch, watcher, waited, signalled, clearedAt>>

Init ==
    /\ handles = NumWorkers
    /\ joining = 0
    /\ worker \in [Workers -> {"busy", "frozen", "exited"}]
    /\ kill_switch = [w \in Workers |-> TRUE]
    /\ watcher = [w \in Workers |-> "none"]
    /\ waited = [w \in Workers |-> 0]
    /\ signalled = [w \in Workers |-> FALSE]
    /\ clearedAt = [w \in Workers |-> -1]

\* handles.pop(), a fresh kill switch, and trigger_freeze_handler.
PopHandle ==
    /\ joining = 0 /\ handles > 0
    /\ joining' = handles
    /\ handles' = handles - 1
    /\ watcher' = [watcher EXCEPT ![handles] = "check"]
    /\ UNCHANGED <<worker, kill_switch, waited, signalled, clearedAt>>

\* join() returns once the worker has exited; kill_switch is cleared after it.
Joined ==
    /\ joining # 0 /\ worker[joining] = "exited"
    /\ kill_switch' = [kill_switch EXCEPT ![joining] = FALSE]
    /\ clearedAt' = [clearedAt EXCEPT ![joining] = waited[joining]]
    /\ joining' = 0
    /\ UNCHANGED <<handles, worker, watcher, waited, signalled>>

\* Variant for the sensitivity of DropReturns: a worker still alive after the
\* grace period is left alone.
CheckKillSwitchNoKill(w) ==
    /\ watcher[w] = "check"
    /\ watcher' = [watcher EXCEPT ![w] =
          IF ~kill_switch[w] \/ waited[w] >= GracePolls THEN "done" ELSE "sleep"]
    /\ UNCHANGED <<handles, joining, worker, kill_switch, waited, signalled, clearedAt>>

\* The watcher loads kill_switch: at the top of the loop, and once more after the
\* full grace.
CheckKillSwitch(w) ==
    /\ watcher[w] = "check"
    /\ watcher' = [watcher EXCEPT ![w] =
          IF ~kill_switch[w] THEN "done"
          ELSE IF waited[w] < GracePolls THEN "sleep" ELSE "kill"]
    /\ UNCHANGED <<handles, joining, worker, kill_switch, waited, signalled, clearedAt>>

\* sleep(FREEZE_POLL).
Poll(w) ==
    /\ watcher[w] = "sleep"
    /\ waited' = [waited EXCEPT ![w] = @ + 1]
    /\ watcher' = [watcher EXCEPT ![w] = "check"]
    /\ UNCHANGED <<handles, joining, worker, kill_switch, signalled, clearedAt>>

\* pthread_kill(SIGUSR1): signal_panic unwinds a worker that is still there.
Kill(w) ==
    /\ watcher[w] = "kill"
    /\ watcher' = [watcher EXCEPT ![w] = "done"]
    /\ signalled' = [signalled EXCEPT ![w] = TRUE]
    /\ worker' = [worker EXCEPT ![w] = "exited"]
    /\ UNCHANGED <<handles, joining, kill_switch, waited, clearedAt>>

\* A worker honours Close, or freezes in the GPU runtime.
Exit(w) ==
    /\ worker[w] = "busy"
    /\ worker' = [worker EXCEPT ![w] = "exited"]
    /\ UNCHANGED <<handles, joining, kill_switch, watcher, waited, signalled, clearedAt>>

Freeze(w) ==
    /\ worker[w] = "busy"
    /\ worker' = [worker EXCEPT ![w] = "frozen"]
    /\ UNCHANGED <<handles, joining, kill_switch, watcher, waited, signalled, clearedAt>>

Returned == handles = 0 /\ joining = 0

Next ==
    \/ PopHandle \/ Joined
    \/ \E w \in Workers :
          CheckKillSwitch(w) \/ Poll(w) \/ Kill(w) \/ Exit(w) \/ Freeze(w)

Spec == Init /\ [][Next]_vars

\* The dropping thread and the watchers run; a worker may stay busy for ever.
Fairness ==
    /\ WF_vars(PopHandle) /\ WF_vars(Joined)
    /\ \A w \in Workers : WF_vars(CheckKillSwitch(w) \/ Poll(w) \/ Kill(w))

FairSpec == Spec /\ Fairness

-----------------------------------------------------------------------------
\* Handles are joined from the last to the first, one at a time: the worker of a
\* handle that is neither waiting nor being joined has exited.
TypeOK ==
    /\ handles \in 0..NumWorkers
    /\ joining \in {0, handles + 1}
    /\ worker \in [Workers -> {"busy", "frozen", "exited"}]
    /\ kill_switch \in [Workers -> BOOLEAN]
    /\ watcher \in [Workers -> {"none", "check", "sleep", "kill", "done"}]
    /\ waited \in [Workers -> 0..GracePolls]
    /\ \A w \in Workers : watcher[w] # "none" /\ w # joining => worker[w] = "exited"
    /\ signalled \in [Workers -> BOOLEAN]
    /\ clearedAt \in [Workers -> -1..GracePolls]

\* A worker joined before its grace period is over is never sent SIGUSR1: "poll it
\* and bail out early" in trigger_freeze_handler.
EarlyExitNotSignalled ==
    \A w \in Workers : clearedAt[w] \in 0..(GracePolls - 1) => ~signalled[w]

\* The drop of the manager returns whatever the workers do: a frozen worker is
\* unwound after the grace period and its join() returns.
DropReturns == []<>Returned

============================================================================
