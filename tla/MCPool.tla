------------------------------- MODULE MCPool -------------------------------
(* The parts of the pool client, each on a small instance of its own: the  *)
(* variable `part' names the one that moves, the others stay as they       *)
(* begin.                                                                  *)
EXTENDS StratumShares

CONSTANTS
    SwitchEvery, CheckEvery, IdleTimeout, JobTimeout, StallRestart,
    ReconnectMin, ReconnectMax, HealthySession,
    Models, Bits, Daas, SaltV4, H10, H14, BlockTask, MaxChanges,
    Challenges, Chats, Tasks, FollowerCap, FlightCap, TableCap, ResultCap,
    MaxFlights, MaxFollowers,
    Requests, Traced, WithId, Foreign, Gpus, Keep, MaxTime, MaxRestarts,
    MaxOpenings, MaxFaults,
    N, FailoverAfter, Grace, ProbeSecs, Stick, MaxBackoff, Lag,
    None

VARIABLES
    part,
    peer, writer, client, loop, conn_dead, moved, sess, share, checkIn, due, quiet,
    assigned, block_bits, last_daa, forced, eta_passed, task, serveable,
    changes, declared, recent, pool_view, fed, asked,
    gen, tasks, flights, followers, cache,
    live_conn, handler, ask, open, lease, kept, queue, disk, now, received, left,
    pool, desired, active, jobs, monitor, prober

session == <<peer, writer, client, loop, conn_dead, moved, sess, share, checkIn, due, quiet>>
feed == <<assigned, block_bits, last_daa, forced, eta_passed, task, serveable,
          changes, declared, recent, pool_view, fed, asked>>
inference == <<gen, tasks, flights, followers, cache>>
traced == <<live_conn, handler, ask, open, lease, kept, queue, disk, now, received, left>>
pools == <<pool, desired, active, jobs, monitor, prober>>

Session == INSTANCE PoolSession
Jobs == INSTANCE StratumJobs
Flights == INSTANCE StratumTasks
Traces == INSTANCE PoolAnswers WITH conn <- live_conn, pool <- received
Failover == INSTANCE PoolFailover

ASSUME PeriodsAssumption == Session!TimesAssumption

InSession == part = "session"
InShares == part = "shares"
InJobs == part = "jobs"
InTasks == part = "tasks"
InAnswers == part = "answers"
InFailover == part = "failover"

(* Connections, flights and requests are bounded, so these come to an end. *)
MayStop == InShares \/ InTasks \/ InAnswers

PoolInit ==
    /\ part \in {"session", "shares", "jobs", "tasks", "answers", "failover"}
    /\ Init /\ Session!Init /\ Jobs!Init /\ Flights!Init /\ Traces!Init /\ Failover!Init
    /\ ~InSession => peer = "live" /\ checkIn = 1

PoolNext ==
    /\ UNCHANGED part
    /\ \/ InSession /\ UNCHANGED <<vars, feed, inference, traced, pools>> /\ Session!Next
       \/ InShares /\ UNCHANGED <<session, feed, inference, traced, pools>> /\ Next
       \/ InJobs /\ UNCHANGED <<session, vars, inference, traced, pools>> /\ Jobs!Next
       \/ InTasks /\ UNCHANGED <<session, vars, feed, traced, pools>> /\ Flights!Next
       \/ InAnswers /\ UNCHANGED <<session, vars, feed, inference, pools>> /\ Traces!Next
       \/ InFailover /\ UNCHANGED <<session, vars, feed, inference, traced>> /\ Failover!Next
       \/ MayStop /\ UNCHANGED <<session, vars, feed, inference, traced, pools>>

(* The weak fairness of the parts. *)
PoolFairness ==
    /\ WF_session(InSession /\ Session!ClientStep) /\ WF_session(InSession /\ Session!Supervise)
    /\ WF_feed(InJobs /\ Jobs!DeclarationAges)
    /\ \A f \in 1..MaxFlights :
          WF_inference(InTasks /\ f \in DOMAIN flights /\ Flights!FlightStep(f))
    /\ \A w \in 1..MaxFollowers :
          WF_inference(InTasks /\ w \in DOMAIN followers /\ Flights!FollowerStep(w))
    /\ \A r \in Requests : WF_traced(InAnswers /\ Traces!TaskStep(r))
    /\ \A r \in Requests \cup Foreign : WF_traced(InAnswers /\ Traces!OpenStep(r))
    /\ WF_pools(InFailover /\ Failover!Serve) /\ WF_pools(InFailover /\ Failover!Monitor)
    /\ WF_pools(InFailover /\ Failover!Wake) /\ WF_pools(InFailover /\ Failover!Probed)
    /\ WF_pools(InFailover /\ Failover!Judged) /\ WF_pools(InFailover /\ Failover!Job)

PoolSpec ==
    PoolInit /\ [][PoolNext]_<<part, session, vars, feed, inference, traced, pools>> /\ PoolFairness

-----------------------------------------------------------------------------
\* The reconnect loop, its watchdogs and the supervisor: a connection that talks
\* but delivers no jobs is given up in time, no restart is hasty, and, while
\* time passes and the jobs of a live pool are read, no session stays stuck and
\* a live pool serves again and again (listen, the connection task, main).
SessionRecovers ==
    /\ []Session!JoblessBounded
    /\ Session!NoHastyRestart
    /\ []<><<InSession /\ Session!Tick>>_session /\ SF_session(InSession /\ Session!Message("job"))
          => Session!StuckSessionEnds /\ Session!ServedAgain

\* A job that reaches the workers can become a block, and a pool that hears
\* some of infinitely many declarations knows what the rig serves
\* (handle_message, declare_capabilities_if_changed).
JobsFitThePool ==
    /\ []Jobs!FedJobIsMineable
    /\ []<>InJobs /\ SF_feed(InJobs /\ Jobs!Heard) => Jobs!PoolLearnsModels

\* One generation per content over all connections, no count or marker is
\* leaked, no result is cleared before it is kept, and every task and every
\* opening ends (detached_inference_tasks, InferenceCache, handle_ai_opening).
TasksSettle ==
    /\ []Flights!TaskBooksHold
    /\ Flights!ClearedMeansKept
    /\ Flights!EveryTaskEnds
    /\ Traces!OpeningEnds

\* A traced answer the pool holds can be opened while it may be audited, a lease
\* is held by the task that runs, and no opening ends unanswered (traces.rs,
\* handle_ai_opening).
TracesStayOpenable == Traces!TracesStayOpenable

\* The monitor and the prober settle on a pool that serves (main.rs).
FailoverSettles == []<><<InFailover /\ Failover!Tick>>_pools => Failover!FailoverSettles
=============================================================================
