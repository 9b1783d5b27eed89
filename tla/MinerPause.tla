----------------------------- MODULE MinerPause -----------------------------
(***************************************************************************)
(* The job gate of src/miner.rs: successive MinerManagers (one per         *)
(* connection), their workers, and the process-wide inference pause that   *)
(* outlives them.                                                          *)
(*                                                                         *)
(* Three kinds of threads meet here.  The connection thread calls          *)
(* process_block, creates a manager and drops it; inference tasks take and *)
(* drop pause guards, also across reconnects; workers take commands from   *)
(* their manager's channel.  What runs under the mutex of                  *)
(* inference_pause_state is one action; the send of process_block(None)    *)
(* comes after the mutex is released and is an action of its own.          *)
(*                                                                         *)
(* The channel is the register of WatchRegister: a worker obtains the      *)
(* content of the moment, and what it records as observed may lag behind   *)
(* what it obtained (see NeverStale in WatchChannel).                      *)
(***************************************************************************)
EXTENDS Integers, FiniteSets

CONSTANTS
    Workers,        \* worker threads of each manager
    Guards,         \* inference tasks, each holding at most one pause guard
    MaxGen,         \* bound: number of connections (managers)
    MaxCalls        \* bound: calls of process_block per manager

ASSUME GuardsAssumption == IsFiniteSet(Guards)
ASSUME BoundsAssumption == MaxGen \in Nat /\ MaxCalls \in Nat

VARIABLES
    inflight,       \* InferencePauseState::inflight
    current,        \* InferencePauseState::current_miner: a generation, 0 for None
    guard,          \* guard[i]: "fresh", "armed" or "dropped"
    gen,            \* generation of the newest manager, 0 before the first
    phase,          \* phase of that manager: "none", "live", "closing" (the pause
                    \* state has forgotten it), "joining" (Close sent), "closed"
    ver,            \* version of the command in its channel
    cmd,            \* the command in its channel
    retained,       \* resumable_stratum_job, Idle for None
    active,         \* opoi_challenge_active
    is_synced,
    unsent,         \* process_block(None) has released the mutex, not yet sent
    calls,          \* calls of process_block so far: the source of job ids
    worker,         \* worker[w]: the command w works on, "exited" when it left
    observed,       \* observed[w]: version w has recorded as observed
    newest          \* history: what the last process_block call asked for

pauseVars == <<inflight, current, guard>>
chanVars == <<ver, cmd>>
workerVars == <<worker, observed>>
vars == <<inflight, current, guard, gen, phase, ver, cmd, retained, active,
          is_synced, unsent, calls, worker, observed, newest>>

Idle == [type |-> "none", id |-> 0, stratum |-> FALSE]
Close == [type |-> "close", id |-> 0, stratum |-> FALSE]
Exited == [type |-> "exited", id |-> 0, stratum |-> FALSE]
Job(n, s) == [type |-> "job", id |-> n, stratum |-> s]

IsJob(c) == c.type = "job"

Init ==
    /\ inflight = 0
    /\ current = 0
    /\ guard = [i \in Guards |-> "fresh"]
    /\ gen = 0
    /\ phase = "none"
    /\ ver = 1
    /\ cmd = Idle
    /\ retained = Idle
    /\ active = FALSE
    /\ is_synced = TRUE
    /\ unsent = FALSE
    /\ calls = 0
    /\ worker = [w \in Workers |-> Exited]
    /\ observed = [w \in Workers |-> 0]
    /\ newest = Idle

AllExited == \A w \in Workers : worker[w] = Exited

\* Sender::send on the manager's channel, an error once every receiver is gone.
Send(c) ==
    IF AllExited
    THEN UNCHANGED chanVars
    ELSE ver' = ver + 1 /\ cmd' = c

CanProcess == phase = "live" /\ ~unsent /\ ~AllExited /\ calls < MaxCalls

(***************************************************************************)
(* The connection thread.                                                  *)
(***************************************************************************)

\* MinerManager::new_with_stats, after the previous manager was dropped.
NewManager ==
    /\ phase \in {"none", "closed"}
    /\ gen < MaxGen
    /\ gen' = gen + 1
    /\ phase' = "live"
    /\ current' = gen + 1
    /\ active' = (inflight # 0)
    /\ ver' = 1
    /\ cmd' = Idle
    /\ retained' = Idle
    /\ is_synced' = TRUE
    /\ calls' = 0
    /\ worker' = [w \in Workers |-> Idle]
    /\ observed' = [w \in Workers |-> 0]
    /\ newest' = Idle
    /\ UNCHANGED <<inflight, guard, unsent>>

\* Variant for the sensitivity of PausedChannelHasNoJob: the job is published
\* although an inference owns the gate.
ProcessJobIgnoringPause(stratum) ==
    LET job == Job(calls + 1, stratum) IN
    /\ CanProcess
    /\ calls' = calls + 1
    /\ newest' = job
    /\ retained' = IF stratum THEN job ELSE Idle
    /\ is_synced' = TRUE
    /\ Send(job)
    /\ UNCHANGED <<pauseVars, gen, phase, active, unsent, workerVars>>

\* process_block(Some(b)): the job is retained if it is a Stratum one, and is
\* published unless an inference owns the gate.
ProcessJob(stratum) ==
    LET job == Job(calls + 1, stratum) IN
    /\ CanProcess
    /\ calls' = calls + 1
    /\ newest' = job
    /\ retained' = IF stratum THEN job ELSE Idle
    /\ IF inflight # 0
       THEN /\ active' = TRUE
            /\ is_synced' = stratum
            /\ Send(Idle)
       ELSE /\ is_synced' = TRUE
            /\ Send(job)
            /\ UNCHANGED active
    /\ UNCHANGED <<pauseVars, gen, phase, unsent, workerVars>>

\* Variant for the sensitivity of WorkersGetNewest: a suspension leaves the
\* retained job behind.
ProcessNoneKeepingJob ==
    /\ CanProcess
    /\ calls' = calls + 1
    /\ newest' = Idle
    /\ is_synced' = FALSE
    /\ unsent' = is_synced
    /\ UNCHANGED <<pauseVars, gen, phase, chanVars, retained, active, workerVars>>

\* process_block(None) under the mutex; an unsynced manager returns at once.
ProcessNone ==
    /\ CanProcess
    /\ calls' = calls + 1
    /\ newest' = Idle
    /\ retained' = Idle
    /\ is_synced' = FALSE
    /\ unsent' = is_synced
    /\ UNCHANGED <<pauseVars, gen, phase, chanVars, active, workerVars>>

\* ... and its send, after the mutex was released.
SendNone ==
    /\ phase = "live" /\ unsent /\ ~AllExited
    /\ unsent' = FALSE
    /\ Send(Idle)
    /\ UNCHANGED <<pauseVars, gen, phase, retained, active, is_synced, calls,
                   workerVars, newest>>

\* Drop of the manager: first the pause state forgets it.  The connection ended,
\* or process_block failed: pow::State::new refused the template, or no worker is
\* left to send to ...
BeginDrop ==
    /\ phase = "live"
    /\ unsent => AllExited
    /\ phase' = "closing"
    /\ current' = IF current = gen THEN 0 ELSE current
    /\ unsent' = FALSE
    /\ UNCHANGED <<inflight, guard, gen, chanVars, retained, active, is_synced,
                   calls, workerVars, newest>>

\* ... then Close is sent ...
SendClose ==
    /\ phase = "closing"
    /\ phase' = "joining"
    /\ Send(Close)
    /\ UNCHANGED <<pauseVars, gen, retained, active, is_synced, unsent,
                   calls, workerVars, newest>>

\* ... and every worker is joined.
JoinWorkers ==
    /\ phase = "joining"
    /\ AllExited
    /\ phase' = "closed"
    /\ UNCHANGED <<pauseVars, gen, chanVars, retained, active, is_synced, unsent,
                   calls, workerVars, newest>>

(***************************************************************************)
(* Inference tasks.                                                        *)
(***************************************************************************)

\* begin_inference_pause.
BeginPause(i) ==
    /\ guard[i] = "fresh"
    /\ guard' = [guard EXCEPT ![i] = "armed"]
    /\ inflight' = inflight + 1
    /\ IF current # 0
       THEN active' = TRUE /\ Send(Idle)
       ELSE UNCHANGED <<active, chanVars>>
    /\ UNCHANGED <<current, gen, phase, retained, is_synced, unsent, calls,
                   workerVars, newest>>

\* Drop of an armed InferencePauseGuard: the last one resumes the live manager.
DropGuard(i) ==
    /\ guard[i] = "armed"
    /\ guard' = [guard EXCEPT ![i] = "dropped"]
    /\ inflight' = inflight - 1
    /\ IF inflight = 1 /\ current # 0
       THEN /\ active' = FALSE
            /\ IF retained # Idle THEN Send(retained) ELSE UNCHANGED chanVars
       ELSE UNCHANGED <<active, chanVars>>
    /\ UNCHANGED <<current, gen, phase, retained, is_synced, unsent, calls,
                   workerVars, newest>>

(***************************************************************************)
(* Workers.                                                                *)
(***************************************************************************)

\* Variant for the sensitivity of PauseReachesWorkers: a busy worker does not
\* poll its channel before it has finished its job.
TakeCommandWhenIdle(w) ==
    /\ worker[w] = Idle
    /\ observed[w] < ver
    /\ \E o \in (observed[w] + 1)..ver : observed' = [observed EXCEPT ![w] = o]
    /\ worker' = [worker EXCEPT ![w] = IF cmd = Close THEN Exited ELSE cmd]
    /\ UNCHANGED <<pauseVars, gen, phase, chanVars, retained, active, is_synced,
                   unsent, calls, newest>>

\* wait_for_change or get_changed hands the worker the command of the moment.
TakeCommand(w) ==
    /\ worker[w] # Exited
    /\ observed[w] < ver
    /\ \E o \in (observed[w] + 1)..ver : observed' = [observed EXCEPT ![w] = o]
    /\ worker' = [worker EXCEPT ![w] = IF cmd = Close THEN Exited ELSE cmd]
    /\ UNCHANGED <<pauseVars, gen, phase, chanVars, retained, active, is_synced,
                   unsent, calls, newest>>

\* A solo block was found and handed over: the worker clears its state.  A pool
\* share leaves the state alone.
MineBlock(w) ==
    /\ IsJob(worker[w]) /\ ~worker[w].stratum
    /\ worker' = [worker EXCEPT ![w] = Idle]
    /\ UNCHANGED <<pauseVars, gen, phase, chanVars, retained, active, is_synced,
                   unsent, calls, observed, newest>>

\* A worker leaves its loop on a result that fails its re-check, or crashes.
WorkerDies(w) ==
    /\ IsJob(worker[w])
    /\ worker' = [worker EXCEPT ![w] = Exited]
    /\ UNCHANGED <<pauseVars, gen, phase, chanVars, retained, active, is_synced,
                   unsent, calls, observed, newest>>

Next ==
    \/ NewManager \/ BeginDrop \/ SendClose \/ JoinWorkers
    \/ ProcessNone \/ SendNone
    \/ \E s \in BOOLEAN : ProcessJob(s)
    \/ \E i \in Guards : BeginPause(i) \/ DropGuard(i)
    \/ \E w \in Workers : TakeCommand(w) \/ MineBlock(w) \/ WorkerDies(w)

Spec == Init /\ [][Next]_vars

(***************************************************************************)
(* Fairness: threads that have begun an operation finish it, and a worker  *)
(* polls its channel between batches.  Nothing obliges a connection to     *)
(* deliver jobs or an inference to start.                                  *)
(***************************************************************************)
Fairness ==
    /\ WF_vars(SendNone) /\ WF_vars(SendClose) /\ WF_vars(JoinWorkers)
    /\ \A w \in Workers : WF_vars(TakeCommand(w))

FairSpec == Spec /\ Fairness

-----------------------------------------------------------------------------
Commands == [type : {"none", "close", "exited", "job"}, id : Nat, stratum : BOOLEAN]

\* The pause state, the newest manager and its workers are well typed, and the
\* pause counter is the number of armed guards: saturating_sub never saturates.
TypeOK ==
    /\ inflight = Cardinality({i \in Guards : guard[i] = "armed"})
    /\ guard \in [Guards -> {"fresh", "armed", "dropped"}]
    /\ gen \in Nat
    /\ current \in {0, gen}
    /\ phase \in {"none", "live", "closing", "joining", "closed"}
    /\ ver \in Nat
    /\ cmd \in Commands
    /\ retained \in Commands
    /\ active \in BOOLEAN
    /\ is_synced \in BOOLEAN
    /\ unsent \in BOOLEAN
    /\ calls \in Nat
    /\ worker \in [Workers -> Commands]
    /\ observed \in [Workers -> Nat]
    /\ newest \in Commands

\* While any inference holds a guard, the command in the channel of the live
\* manager is not a job, whatever interleaving of notifies, guards and reconnects
\* led here: begin_inference_pause and process_block share one mutex so that
\* "either order ends paused before generation" (process_block).
PausedChannelHasNoJob ==
    phase = "live" /\ inflight # 0 /\ ~AllExited => ~IsJob(cmd)

\* Once no inference is left, workers are offered what the last process_block
\* call asked for: the newest Stratum job without a further notify, never a job
\* suspended or superseded meanwhile, and for solo the newest template or nothing
\* (the client requests a fresh one after an inference).
WorkersGetNewest ==
    phase = "live" /\ inflight = 0 /\ ~unsent /\ ~AllExited =>
        \/ cmd = newest
        \/ cmd = Idle /\ ~newest.stratum

\* The early return of process_block(None) on an unsynced manager is right: the
\* channel offers no job then, so there is nothing to suspend.
UnsyncedChannelHasNoJob ==
    phase = "live" /\ ~is_synced /\ ~unsent /\ ~AllExited => ~IsJob(cmd)

\* A pause that lasts reaches the workers: every worker of the live manager stops
\* working on a job, or the pause ends, or the manager is replaced.
PauseReachesWorkers ==
    \A w \in Workers :
        []<>(inflight = 0 \/ phase # "live" \/ ~IsJob(worker[w]))

\* Dropping a manager terminates: its workers see Close and are joined, so the
\* reconnect loop comes back.
DropTerminates == []<>(phase \notin {"closing", "joining"})

============================================================================
