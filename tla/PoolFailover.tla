---------------------------- MODULE PoolFailover ----------------------------
(***************************************************************************)
(* Several pools in order of preference: the failover monitor steps down   *)
(* the list when jobs stop coming, the failback prober steps up to a pool  *)
(* that can be reached again, and the reconnect loop follows desired_pool. *)
(* The two tasks share nothing but that number: the prober reads it before *)
(* it probes and writes it after, and the monitor does not know when the   *)
(* prober has moved it.                                                    *)
(*                                                                         *)
(* Time advances in units, between which whatever is due has run; within a *)
(* unit the tasks run in any order.                                        *)
(***************************************************************************)
EXTENDS Integers

CONSTANTS
    N,              \* pools.len(), at least two
    FailoverAfter,  \* KERYX_FAILOVER_AFTER_SECS
    Grace,          \* KERYX_FAILBACK_GRACE_SECS
    ProbeSecs,      \* KERYX_FAILBACK_PROBE_SECS
    Stick,          \* the 120 s after which a switch up is judged
    MaxBackoff,     \* max_backoff
    Lag             \* longest a pool that serves takes to deliver a job

VARIABLES
    pool,       \* what each pool does: "good", "jobless" (reachable) or "dead"
    desired,    \* DESIRED_POOL
    active,     \* ACTIVE_POOL
    jobs,       \* ctr # last_ctr; whether a job came in this unit; units without
    monitor,    \* its interval has ticked; last_job.elapsed()
    prober      \* pc, time left, backoff, cur, and the pool it probes or switched to

pools == <<pool, desired, active, jobs, monitor, prober>>

AtMostF(n, m) == IF n > m THEN m ELSE n

Init ==
    /\ pool = [i \in 0 .. N - 1 |-> "good"]
    /\ desired = 0
    /\ active = 0
    /\ jobs = [seen |-> FALSE, now |-> FALSE, without |-> 0]
    /\ monitor = [due |-> TRUE, age |-> 0]
    /\ prober = [pc |-> "sleep", left |-> Grace, backoff |-> Grace, cur |-> 0, i |-> 0]

pool_switch_requested == active # desired

\* the switch check of listen, or the end of the session: the loop serves the
\* pool that is wanted now
Serve ==
    /\ pool_switch_requested
    /\ active' = AtMostF(desired, N - 1)
    /\ jobs' = [jobs EXCEPT !.now = FALSE, !.without = 0]
    /\ UNCHANGED <<pool, desired, monitor, prober>>

\* a job of the pool served moves block_template_ctr
Job ==
    /\ pool[active] = "good"
    /\ ~jobs.now
    /\ jobs' = [seen |-> TRUE, now |-> TRUE, without |-> 0]
    /\ UNCHANGED <<pool, desired, active, monitor, prober>>

MonitorAs(down) ==
    /\ monitor.due
    /\ monitor' = [due |-> FALSE,
                   age |-> IF jobs.seen \/ monitor.age >= FailoverAfter THEN 0
                           ELSE monitor.age]
    /\ jobs' = [jobs EXCEPT !.seen = FALSE]
    /\ desired' = IF ~jobs.seen /\ monitor.age >= FailoverAfter /\ desired + 1 < N
                  THEN down ELSE desired
    /\ UNCHANGED <<pool, active, prober>>

\* variant: after the last pool the first one is next, and the one before
\* the last is never left
MonitorSkipsLast == MonitorAs(IF desired + 2 < N THEN desired + 1 ELSE 0)

\* a tick of the failover monitor
Monitor == MonitorAs(desired + 1)

Sleep(backoff) == [prober EXCEPT !.pc = "sleep", !.left = backoff, !.backoff = backoff]

\* the prober wakes and reads desired_pool
Wake ==
    /\ prober.pc = "sleep" /\ prober.left = 0
    /\ prober' = IF desired = 0 THEN Sleep(ProbeSecs)
                 ELSE [prober EXCEPT !.pc = "probe", !.left = 1, !.cur = desired, !.i = 0]
    /\ UNCHANGED <<pool, desired, active, jobs, monitor>>

\* tcp_pool_reachable answers for pool i: switch there, or go on to the next,
\* up to the pool that was wanted when the round began
Probed ==
    /\ prober.pc = "probe"
    /\ LET up == pool[prober.i] # "dead"
       IN  /\ desired' = IF up THEN prober.i ELSE desired
           /\ prober' = IF up THEN [prober EXCEPT !.pc = "stick", !.left = Stick]
                        ELSE IF prober.i + 1 < prober.cur
                        THEN [prober EXCEPT !.i = @ + 1, !.left = 1]
                        ELSE Sleep(AtMostF(2 * (IF prober.backoff < ProbeSecs THEN ProbeSecs
                                                ELSE prober.backoff), MaxBackoff))
    /\ UNCHANGED <<pool, active, jobs, monitor>>

\* has the switch lasted; one that did not doubles the backoff
Judged ==
    /\ prober.pc = "stick" /\ prober.left = 0
    /\ prober' = Sleep(IF desired <= prober.i THEN ProbeSecs
                       ELSE AtMostF(2 * prober.backoff, MaxBackoff))
    /\ UNCHANGED <<pool, desired, active, jobs, monitor>>

\* pools come and go between units
Tick ==
    /\ ~monitor.due
    /\ ~pool_switch_requested
    /\ prober.left > 0
    /\ pool[active] = "good" => jobs.now \/ jobs.without < Lag
    /\ \E i \in DOMAIN pool, s \in {"good", "jobless", "dead"} :
          pool' = [pool EXCEPT ![i] = s]
    /\ jobs' = [jobs EXCEPT !.now = FALSE,
                  !.without = IF jobs.now \/ pool[active] # "good" THEN 0 ELSE @ + 1]
    /\ monitor' = [due |-> TRUE, age |-> AtMostF(monitor.age + 1, FailoverAfter)]
    /\ prober' = [prober EXCEPT !.left = @ - 1]
    /\ UNCHANGED <<desired, active>>

Next == Serve \/ Job \/ Monitor \/ Wake \/ Probed \/ Judged \/ Tick

Spec == Init /\ [][Next]_pools

\* timers fire and the runtime polls what is ready; a pool that is served has
\* delivered by the end of its lag
Fairness ==
    /\ WF_pools(Serve) /\ WF_pools(Monitor) /\ WF_pools(Wake)
    /\ WF_pools(Probed) /\ WF_pools(Judged) /\ WF_pools(Job) /\ []<><<Tick>>_pools

FairSpec == Spec /\ Fairness

-----------------------------------------------------------------------------
Good(i) == pool[i] = "good"

\* Two tasks steer one number without a lock, and still: when the primary serves
\* for good, and the other pools no longer change, the miner comes back to it and
\* stays (a switch up may be undone by a monitor whose window had nearly run out,
\* which the prober does not reset, but not forever); and when any pool of the
\* list serves for good, jobs keep coming, whatever the others do.  With three
\* pools that needs a Lag short against FailoverAfter: a pool in the middle that
\* is slow to deliver can be left again each time before its first job.
FailoverSettles ==
    /\ (<>[]Good(0) /\ \A i \in 1 .. N - 1 : <>[]Good(i) \/ <>[]~Good(i))
          => <>[](active = 0)
    /\ \A i \in 0 .. N - 1 : <>[]Good(i) => []<>(jobs.now)
=============================================================================
