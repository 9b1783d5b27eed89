---------------------------- MODULE PoolSession ----------------------------
(***************************************************************************)
(* One Stratum pool seen from the miner: the reconnect loop of main(), the *)
(* select loop of StratumHandler::listen with its backstops against a      *)
(* connection that has died silently, and the wedge supervisor, which      *)
(* watches the accepted shares from outside.                               *)
(*                                                                         *)
(* Time advances in units; the periodic checks fall due together every     *)
(* CheckEvery units, the pool-switch check every SwitchEvery units, and    *)
(* time waits for whatever is due on a loop that runs.  Timers are         *)
(* relative and stop at the value they are compared with.                  *)
(***************************************************************************)
EXTENDS Integers

CONSTANTS
    SwitchEvery,    \* switch_watch, 3 s
    CheckEvery,     \* telemetry, job watchdog and supervisor: 30 s and more
    IdleTimeout,    \* KERYX_POOL_IDLE_TIMEOUT, 120 s
    JobTimeout,     \* KERYX_POOL_JOB_TIMEOUT, 300 s
    StallRestart,   \* KERYX_STALL_RESTART_SECS, 600 s
    ReconnectMin,   \* RECONNECT_MIN, 1 s
    ReconnectMax,   \* RECONNECT_MAX, 30 s
    HealthySession  \* HEALTHY_SESSION, 60 s

TimesAssumption ==
    /\ {SwitchEvery, CheckEvery, IdleTimeout, JobTimeout, StallRestart,
        ReconnectMin, ReconnectMax, HealthySession} \subseteq Nat \ {0}
    /\ ReconnectMin <= ReconnectMax

VARIABLES
    peer,       \* what the pool does: "live", "jobless" (it may talk, but sends
                \* no jobs), "silent" (half open) or "closed"
    writer,     \* the task that forwards to the socket runs
    client,     \* the reconnect loop: "sleeping", "connecting", "listening",
                \* or "blocked" in an await inside an arm of the select
    loop,       \* its sleep before the next attempt, backoff and
                \* started.elapsed()
    conn_dead,  \* the Notify holds a permit
    moved,      \* pool_switch_requested()
    sess,       \* listen: when switch_watch ticks, the age of the timeout around
                \* try_next, job_ctr # last_ctr, last_job_at.elapsed()
    share,      \* the supervisor: acc > last_acc, last_change.elapsed(), armed;
                \* and, a history, the time since the last accepted share
    checkIn,    \* until the periodic checks fall due
    due,        \* those that are
    quiet       \* history: time listened since the last message and job

vars == <<peer, writer, client, loop, conn_dead, moved, sess, share, checkIn,
          due, quiet>>

session == <<writer, client, loop, conn_dead, moved>>
outside == <<peer, share, checkIn>>

Checks == {"telemetry", "job", "supervisor"}
FreshLoop == [sleep |-> 0, backoff |-> ReconnectMin, age |-> 0]
FreshSess == [switchIn |-> 0, idle |-> 0, seen |-> FALSE, jobAge |-> 0]
FreshShare == [seen |-> FALSE, age |-> 0, since |-> 0, armed |-> FALSE]
FreshQuiet == [msg |-> 0, job |-> 0]

AtMost(n, m) == IF n > m THEN m ELSE n
Less(n) == IF n = 0 THEN 0 ELSE n - 1

-----------------------------------------------------------------------------
(* The reconnect loop.                                                     *)

\* client_main: the socket is tried, without a timeout of its own
Connect ==
    /\ client = "sleeping" /\ loop.sleep = 0
    /\ client' = "connecting"
    /\ loop' = [loop EXCEPT !.age = 0]
    /\ UNCHANGED <<outside, writer, conn_dead, moved, sess, due, quiet>>

\* register and listen: last_ctr and the timers are taken afresh, and the
\* first tick of every interval but the telemetry's is immediate
Listen ==
    /\ client = "connecting"
    /\ peer # "closed"
    /\ client' = "listening"
    /\ due' = due \cup {"job"}
    /\ UNCHANGED <<outside, writer, loop, conn_dead, moved, sess, quiet>>

\* what the handler held is gone with it
Dropped ==
    /\ client' = "sleeping"
    /\ writer' = TRUE
    /\ conn_dead' = FALSE
    /\ moved' = FALSE
    /\ sess' = FreshSess
    /\ due' = due \ {"telemetry", "job"}
    /\ quiet' = FreshQuiet

\* client_main has returned: the pause before the next attempt
EndSession ==
    LET pause == IF loop.age >= HealthySession \/ moved
                 THEN ReconnectMin ELSE loop.backoff
    IN  /\ Dropped
        /\ loop' = [sleep |-> pause, backoff |-> AtMost(2 * pause, ReconnectMax), age |-> 0]
        /\ UNCHANGED outside

ConnectFails ==
    /\ client = "connecting"
    /\ peer # "live" \/ ~writer
    /\ EndSession

-----------------------------------------------------------------------------
(* The arms of the select, in their biased order.  Each turn of the loop   *)
(* drops the futures of the other arms and makes them anew, the timeout    *)
(* around try_next included.                                               *)

Ready(arm) ==
    CASE arm = "conn_dead" -> conn_dead
      [] arm = "switch" -> sess.switchIn = 0
      [] OTHER -> arm \in due

\* none of these arms is ready
Passed(arms) == client = "listening" /\ \A arm \in arms : ~Ready(arm)
AllPassed == Passed({"conn_dead", "switch", "telemetry", "job"})

Turn == [sess EXCEPT !.idle = 0]

\* conn_dead.notified()
ConnDead ==
    /\ client = "listening" /\ conn_dead
    /\ EndSession

\* switch_watch.tick()
SwitchWatch ==
    /\ Passed({"conn_dead"}) /\ Ready("switch")
    /\ \/ moved /\ EndSession
       \/ /\ ~moved
          /\ sess' = [Turn EXCEPT !.switchIn = SwitchEvery]
          /\ UNCHANGED <<outside, session, due, quiet>>

\* telemetry_watch.tick(): send_telemetry waits for room in the channel to
\* the writer, which a peer that reads nothing keeps full
TelemetryWatch ==
    /\ Passed({"conn_dead", "switch"}) /\ Ready("telemetry")
    /\ due' = due \ {"telemetry"}
    /\ sess' = Turn
    /\ client' \in {"listening"} \cup IF peer = "silent" THEN {"blocked"} ELSE {}
    /\ UNCHANGED <<outside, writer, loop, conn_dead, moved, quiet>>

\* job_watch.tick()
JobWatch ==
    /\ Passed({"conn_dead", "switch", "telemetry"}) /\ Ready("job")
    /\ \/ ~sess.seen /\ sess.jobAge >= JobTimeout /\ EndSession
       \/ /\ sess.seen \/ sess.jobAge < JobTimeout
          /\ sess' = IF sess.seen THEN [Turn EXCEPT !.seen = FALSE, !.jobAge = 0] ELSE Turn
          /\ due' = due \ {"job"}
          /\ UNCHANGED <<outside, session, quiet>>

\* handle_message: a job moves block_template_ctr, the answer to a share may
\* move the accepted count; the handler may block
Message(kind) ==
    /\ AllPassed
    /\ peer = "live" \/ (peer = "jobless" /\ kind # "job")
    /\ sess' = [Turn EXCEPT !.seen = @ \/ kind = "job"]
    /\ share' = IF kind = "share" THEN [share EXCEPT !.seen = TRUE, !.since = 0] ELSE share
    /\ quiet' = [msg |-> 0, job |-> IF kind = "job" THEN 0 ELSE quiet.job]
    /\ client' \in {"listening", "blocked"}
    /\ UNCHANGED <<peer, writer, loop, conn_dead, moved, checkIn, due>>

\* the end of the stream, a line that does not parse, a fatal error code
StreamEnds ==
    /\ AllPassed
    /\ peer \in {"jobless", "closed"}
    /\ EndSession

\* Err(_elapsed)
IdleElapsed ==
    /\ AllPassed
    /\ sess.idle = IdleTimeout
    /\ EndSession

\* an await inside an arm completes: the workers take the job, or the writer
\* has room again or is gone
Unblock ==
    /\ client = "blocked"
    /\ client' = "listening"
    /\ UNCHANGED <<outside, writer, loop, conn_dead, moved, sess, due, quiet>>

-----------------------------------------------------------------------------
(* The writer, the wedge supervisor and time.                              *)

\* the forwarder ends, or a submit finds it gone: notify_one leaves a permit
WriterDies ==
    /\ client \in {"connecting", "listening", "blocked"}
    /\ writer
    /\ writer' = FALSE
    /\ conn_dead' = TRUE
    /\ UNCHANGED <<outside, client, loop, moved, sess, due, quiet>>

\* the failover controller picks another pool
SwitchRequested ==
    /\ client # "sleeping"
    /\ ~moved
    /\ moved' = TRUE
    /\ UNCHANGED <<outside, writer, client, loop, conn_dead, sess, due, quiet>>

\* the process exits with code 75 and its wrapper starts it anew
Restart ==
    /\ Dropped
    /\ loop' = FreshLoop
    /\ share' = FreshShare
    /\ UNCHANGED <<peer, checkIn>>

SuperviseAs(stalled) ==
    /\ "supervisor" \in due
    /\ \/ stalled /\ Restart
       \/ /\ ~stalled
          /\ share' = IF share.seen
                      THEN [share EXCEPT !.seen = FALSE, !.armed = TRUE, !.age = 0]
                      ELSE share
          /\ due' = due \ {"supervisor"}
          /\ UNCHANGED <<peer, checkIn, session, sess, quiet>>

\* variant: it never exits
SuperviseNoExit == SuperviseAs(FALSE)
\* a tick of the supervisor
Supervise == SuperviseAs(~share.seen /\ share.armed /\ share.age >= StallRestart)

\* Nothing due is left behind; an attempt to connect takes a unit at most; a live pool sends a job in every unit it is
\* listened to; what the pool does changes between units.
Tick ==
    /\ "supervisor" \notin due
    /\ client = "sleeping" => loop.sleep > 0
    /\ client = "connecting" => loop.age = 0
    /\ client = "listening" => AllPassed /\ sess.idle < IdleTimeout /\ peer # "closed"
    /\ client = "listening" /\ peer = "live" => quiet.job = 0
    /\ peer' \in IF client = "blocked" /\ peer = "closed" THEN {"closed"}
                ELSE {"live", "jobless", "silent", "closed"}
    /\ loop' = [loop EXCEPT !.sleep = Less(@), !.age = AtMost(@ + 1, HealthySession)]
    /\ sess' = [sess EXCEPT !.switchIn = Less(@),
                            !.idle = IF client = "listening" THEN @ + 1 ELSE @,
                            !.jobAge = IF client \in {"listening", "blocked"}
                                       THEN AtMost(@ + 1, JobTimeout) ELSE @]
    /\ share' = [share EXCEPT !.age = AtMost(@ + 1, StallRestart),
                              !.since = AtMost(@ + 1, StallRestart)]
    /\ checkIn' = IF checkIn = 1 THEN CheckEvery ELSE checkIn - 1
    /\ due' = IF checkIn # 1 THEN due
              ELSE IF client \in {"listening", "blocked"} THEN Checks ELSE {"supervisor"}
    /\ quiet' = IF client = "listening"
                THEN [msg |-> quiet.msg + 1, job |-> quiet.job + 1] ELSE quiet
    /\ UNCHANGED <<writer, client, conn_dead, moved>>

-----------------------------------------------------------------------------
Init ==
    /\ peer \in {"live", "closed"}
    /\ writer = TRUE
    /\ client = "sleeping"
    /\ loop = FreshLoop
    /\ conn_dead = FALSE
    /\ moved = FALSE
    /\ sess = FreshSess
    /\ share = FreshShare
    /\ checkIn \in 1 .. CheckEvery
    /\ due = {"supervisor"}
    /\ quiet = FreshQuiet

ClientStep ==
    \/ Connect \/ Listen \/ ConnectFails
    \/ ConnDead \/ SwitchWatch \/ TelemetryWatch \/ JobWatch
    \/ StreamEnds \/ IdleElapsed

Next ==
    \/ ClientStep
    \/ \E kind \in {"job", "share", "other"} : Message(kind)
    \/ Unblock
    \/ WriterDies \/ SwitchRequested
    \/ Supervise
    \/ Tick

Spec == Init /\ [][Next]_vars

\* The runtime polls tasks that are ready and timers fire; time passes, no unit
\* holds infinitely many steps.  The stream is in order, so the job of a live
\* pool is read whatever came before it: that one is strong.  Nothing makes an
\* await inside an arm complete.
Fairness ==
    /\ WF_vars(ClientStep)
    /\ WF_vars(Supervise)
    /\ SF_vars(Message("job"))
    /\ []<><<Tick>>_vars

FairSpec == Spec /\ Fairness

-----------------------------------------------------------------------------
\* Every variable has its type.
TypeOK ==
    /\ peer \in {"live", "jobless", "silent", "closed"}
    /\ client \in {"sleeping", "connecting", "listening", "blocked"}
    /\ {writer, conn_dead, moved} \subseteq BOOLEAN
    /\ loop \in [sleep : 0 .. ReconnectMax, backoff : ReconnectMin .. ReconnectMax,
                 age : 0 .. HealthySession]
    /\ sess \in [switchIn : 0 .. SwitchEvery, idle : 0 .. IdleTimeout,
                 seen : BOOLEAN, jobAge : 0 .. JobTimeout]
    /\ share \in [seen : BOOLEAN, age : 0 .. StallRestart, since : 0 .. StallRestart,
                  armed : BOOLEAN]
    /\ checkIn \in 1 .. CheckEvery
    /\ due \subseteq Checks
    /\ quiet \in [msg : Nat, job : Nat]

\* A connection that keeps talking but delivers no jobs is given up: listen
\* never waits longer than the job timeout and two rounds of its check
\* (the JOB watchdog).
JoblessBounded == quiet.job <= JobTimeout + 2 * CheckEvery

\* "no pool message at all for this long" forces a reconnect (the second
\* backstop of listen), late by less than a round of the other checks.
SilenceBounded == quiet.msg < IdleTimeout + SwitchEvery + CheckEvery

\* The supervisor never restarts a process that had a share accepted within
\* the stall window, however its ticks fall.
NoHastyRestart ==
    [][share.armed /\ ~share'.armed => share.since >= StallRestart]_vars

\* No session stays stuck: a write side that died before listen waits for it
\* or while an arm is blocked is noticed (conn_dead), and a loop wedged inside
\* an arm is left to the supervisor, which is armed by the first share.
StuckSessionEnds ==
    []<>~(share.armed /\ (client = "blocked" \/ (client = "listening" /\ ~writer)))

\* When the pool is live for good and neither the writer fails nor the
\* failover interferes any more, the miner is given jobs again and again
\* (the reconnect loop), unless it wedged before the first accepted share.
ServedAgain ==
    /\ <>[](peer = "live" /\ writer /\ ~moved)
    /\ ~<>[](client = "blocked" /\ ~share.armed)
    => []<>(sess.seen)

=============================================================================
