------------------------- MODULE LlamaServerProofs -------------------------
(***************************************************************************)
(* Proofs about the llama-server child process, LlamaServer, for any       *)
(* routes, number of starts and number of calls.                           *)
(*                                                                         *)
(* The invariant Fits relates where the caller is to where the monitor of  *)
(* the newest child is: outside a start the process identity is set        *)
(* exactly while a monitor still has a child to reap or its traces to      *)
(* clear, a call reaches a launch or a refusal only when it is not set,    *)
(* and the server counts as available only between its publication and     *)
(* the first step of its retirement.                                       *)
(***************************************************************************)
EXTENDS LlamaServer, TLAPS

\* The backends that try a leaf, in turn, unless it names its own.
USE SMTT(30), ZenonT(30), Z3T(30)

Labels ==
    {"idle", "start", "reuse", "halt", "generate", "commit", "retire", "await", "launch", "refused",
     "spawned", "acknowledge", "cleanup", "health", "up", "port", "verify",
     "stop", "take", "kill", "reap", "post", "asking"}
Called == {"start", "reuse", "halt", "generate", "commit"}
Ops == Called \cup {"none", "denied"}
Callers == [at : Labels, op : Ops, route : Routes \cup {None}, withdraw : BOOLEAN,
            then : {"none", "launch", "refused"}, ok : BOOLEAN]
Ids == [route : Routes \cup {None}, gen : Nat]

\* Monitors that have no child yet, that hold one, and that have reaped it.
Childless == {"off", "spawning", "failed"}
Holding == {"handing", "abandoning", "waiting"}
Cleaning == {"closing", "swapping", "taking", "withdrawing", "clearing"}

\* The child and the mark of its exit, from the monitor's place.
ChildFits(mon, ch, p, g, ex) ==
    /\ g \in Nat /\ ex \in Nat /\ ex <= g /\ p \in {0, g}
    /\ mon \in Childless \cup Holding \cup Cleaning \cup {"done"}
    /\ mon # "off" => g > 0
    /\ mon \in Childless => ch = "none"
    /\ mon \in Holding => ch \in {"alive", "dead"}
    /\ mon \in Cleaning \cup {"done"} => ch = "reaped"
    /\ mon = "spawning" => ex < g
    /\ mon \in Cleaning => ex = g
    /\ ex = g => ch \in {"none", "reaped"}

\* The process identity, from the places of both.
PidFits(at, mon, p, g) ==
    /\ at \in {"spawned", "cleanup"} =>
         p = 0 /\ mon \in {"spawning", "handing", "failed", "abandoning", "done"}
    /\ at = "acknowledge" => p = g /\ mon \in {"handing", "abandoning", "done"}
    /\ at \notin {"spawned", "cleanup", "acknowledge"} =>
         \/ p = 0 /\ mon \in {"off", "failed", "done"}
         \/ p = g /\ mon \in Cleaning \cup {"waiting"}
    /\ at \in {"launch", "refused"} => p = 0

\* What is published, and the generation of the identity that goes with it.
PublishedFits(at, mon, p, g, up, ig) ==
    /\ up \in BOOLEAN
    /\ at \in {"up", "port", "verify"} /\ mon \in {"waiting", "closing", "swapping", "taking"} => ig = g
    /\ up /\ at \notin {"port", "verify"} =>
         /\ p = g /\ ig = g /\ mon \in {"waiting", "closing", "swapping"}
         /\ at \in {"idle", "start", "reuse", "halt", "generate", "commit", "retire", "await", "stop",
                    "post", "asking"}

Fits ==
    /\ c \in Callers /\ identity \in Ids
    /\ c.at \in {"stop", "take", "kill", "reap"} => c.then \in {"launch", "refused"}
    /\ c.at \in {"generate", "post", "asking", "commit"} => c.op \in {"generate", "commit"}
    /\ c.at = "idle" /\ ~c.ok /\ c.op \in {"reuse", "start", "halt"} => child # "alive"
    /\ ChildFits(monitor, child, pid, generation, exiting)
    /\ PidFits(c.at, monitor, pid, generation)
    /\ PublishedFits(c.at, monitor, pid, generation, available, identity.gen)

-----------------------------------------------------------------------------
(* How the caller moves.                                                   *)

LEMMA Goes ==
    ASSUME c \in Callers, NEW at \in Labels, c' = [c EXCEPT !.at = at]
    PROVE  c' \in Callers /\ c'.at = at /\ c'.op = c.op /\ c'.ok = c.ok /\ c'.then = c.then
  BY DEF Callers

LEMMA Returns ==
    ASSUME c \in Callers, NEW ok \in BOOLEAN, Return(ok)
    PROVE  c' \in Callers /\ c'.at = "idle" /\ c'.op = c.op /\ c'.ok = ok /\ c'.then = c.then
  BY Zenon DEF Callers, Labels, Return

LEMMA Retires ==
    ASSUME c \in Callers, c' = Retiring
    PROVE  c' \in Callers /\ c'.at = "stop" /\ c'.op = c.op /\ c'.ok = c.ok /\ c'.then = "refused"
  BY Zenon DEF Callers, Labels, Retiring

-----------------------------------------------------------------------------
(* The steps of the caller.                                                *)

LEMMA CallStep ==
    ASSUME Fits, NEW op \in Called, NEW route \in Routes, Call(op, route)
    PROVE  Fits'
  <1>1. /\ c.at = "idle" /\ c' = [Idle EXCEPT !.at = op, !.op = op, !.route = route]
        /\ UNCHANGED <<available, pid, generation, exiting, identity, child, monitor>>
    BY DEF Call
  <1>2. c' \in Callers /\ c'.at = op /\ c'.op = op
    BY <1>1, Zenon DEF Idle, Callers, Labels, Ops, Called
  <1>3. QED
    BY <1>1, <1>2 DEF Called, Fits, ChildFits, PidFits, PublishedFits, Childless, Holding, Cleaning

LEMMA DenyStep ==
    ASSUME Fits, DenyStart
    PROVE  Fits'
  <1>1. /\ c.at = "start" /\ c' = [c EXCEPT !.at = "idle", !.op = "denied", !.ok = FALSE]
        /\ UNCHANGED <<available, pid, generation, exiting, identity, child, monitor>>
    BY DEF DenyStart, CallerOnly
  <1>2. c' \in Callers /\ c'.at = "idle" /\ c'.op = "denied"
    BY <1>1, Zenon DEF Fits, Callers, Labels, Ops
  <1>3. QED
    BY <1>1, <1>2 DEF Fits, ChildFits, PidFits, PublishedFits, Childless, Holding, Cleaning

LEMMA ReuseStep ==
    ASSUME Fits, reuse_exact_or_stop
    PROVE  Fits'
  <1>1. /\ c.at \in {"reuse", "start"}
        /\ UNCHANGED <<available, pid, generation, exiting, identity, child, monitor>>
        /\ Return(TRUE) \/ c' = [c EXCEPT !.at = "retire"]
    BY Zenon DEF reuse_exact_or_stop, CallerOnly, Goto
  <1>2. c' \in Callers /\ (c'.at = "retire" \/ (c'.at = "idle" /\ c'.ok))
    BY <1>1, Returns, Goes, Zenon DEF Fits, Labels
  <1>3. QED
    BY <1>1, <1>2 DEF Fits, ChildFits, PidFits, PublishedFits, Childless, Holding, Cleaning

LEMMA RetireStep ==
    ASSUME Fits, retire_server_for_replacement_locked
    PROVE  Fits'
  <1> DEFINE w == ~current_server_responsive_locked
             next == AfterRetire
  <1>1. /\ c.at = "retire" /\ UNCHANGED <<available, pid, generation, exiting, identity, child, monitor>>
        /\ \/ pid = 0 /\ c' = [c EXCEPT !.at = next]
           \/ c' = [c EXCEPT !.at = "await"]
           \/ c' = [c EXCEPT !.at = "stop", !.withdraw = w, !.then = next]
    BY DEF retire_server_for_replacement_locked, CallerOnly
  <1>2. next \in {"launch", "refused"} /\ w \in BOOLEAN /\ c \in Callers
    BY DEF AfterRetire, Fits, current_server_responsive_locked
  <1> HIDE DEF w, next
  <1>3. c' \in Callers /\ \/ pid = 0 /\ c'.at \in {"launch", "refused"}
                          \/ c'.at = "await"
                          \/ c'.at = "stop" /\ c'.then \in {"launch", "refused"}
    BY <1>1, <1>2, ZenonT(60) DEF Callers, Labels
  <1>4. QED
    BY <1>1, <1>3 DEF Fits, ChildFits, PidFits, PublishedFits, Childless, Holding, Cleaning

LEMMA WaitForMonitorStep ==
    ASSUME Fits, WaitForMonitor
    PROVE  Fits'
  <1>1. /\ c.at = "await" /\ pid = 0 /\ c' = [c EXCEPT !.at = AfterRetire]
        /\ UNCHANGED <<available, pid, generation, exiting, identity, child, monitor>>
        /\ AfterRetire \in {"launch", "refused"}
    BY DEF WaitForMonitor, CallerOnly, Goto, AfterRetire
  <1>2. c' \in Callers /\ c'.at \in {"launch", "refused"}
    BY <1>1 DEF Fits, Callers, Labels
  <1>3. QED
    BY <1>1, <1>2 DEF Fits, ChildFits, PidFits, PublishedFits, Childless, Holding, Cleaning

LEMMA RefuseStep ==
    ASSUME Fits, Refuse
    PROVE  Fits'
  <1>1. /\ c.at = "refused" /\ Return(FALSE)
        /\ UNCHANGED <<available, pid, generation, exiting, identity, child, monitor>>
    BY Zenon DEF Refuse, CallerOnly
  <1>2. c' \in Callers /\ c'.at = "idle" /\ c'.op = c.op /\ c'.ok = FALSE /\ c'.then = c.then
    BY <1>1, Returns, Zenon DEF Fits
  <1>3. QED
    BY <1>1, <1>2 DEF Fits, ChildFits, PidFits, PublishedFits, Childless, Holding, Cleaning

LEMMA CannotLaunchStep ==
    ASSUME Fits, CannotLaunch
    PROVE  Fits'
  <1>1. /\ c.at = "launch" /\ Return(FALSE)
        /\ UNCHANGED <<available, pid, generation, exiting, identity, child, monitor>>
    BY Zenon DEF CannotLaunch, CallerOnly
  <1>2. c' \in Callers /\ c'.at = "idle" /\ c'.op = c.op /\ c'.ok = FALSE /\ c'.then = c.then
    BY <1>1, Returns, Zenon DEF Fits
  <1>3. QED
    BY <1>1, <1>2 DEF Fits, ChildFits, PidFits, PublishedFits, Childless, Holding, Cleaning

LEMMA LaunchStep ==
    ASSUME Fits, LaunchMonitor
    PROVE  Fits'
  <1>1. /\ c.at = "launch" /\ c' = [c EXCEPT !.at = "spawned"]
        /\ generation' = generation + 1 /\ monitor' = "spawning" /\ child' = "none"
        /\ UNCHANGED <<available, pid, exiting, identity>>
    BY DEF LaunchMonitor, Goto
  <1>2. c' \in Callers /\ c'.at = "spawned" /\ c'.op = c.op /\ c'.ok = c.ok /\ c'.then = c.then
    BY <1>1, Goes DEF Fits, Labels
  <1>3. QED
    BY <1>1, <1>2 DEF Fits, ChildFits, PidFits, PublishedFits, Childless, Holding, Cleaning

LEMMA ReceivePidStep ==
    ASSUME Fits, ReceivePid
    PROVE  Fits'
  <1>1. /\ c.at = "spawned" /\ c' = [c EXCEPT !.at = "acknowledge"] /\ monitor = "handing" /\ pid' = generation
        /\ UNCHANGED <<available, generation, exiting, identity, child, monitor>>
    BY DEF ReceivePid, Goto
  <1>2. c' \in Callers /\ c'.at = "acknowledge" /\ c'.op = c.op /\ c'.ok = c.ok /\ c'.then = c.then
    BY <1>1, Goes DEF Fits, Labels
  <1>3. QED
    BY <1>1, <1>2 DEF Fits, ChildFits, PidFits, PublishedFits, Childless, Holding, Cleaning

LEMMA SpawnFailedStep ==
    ASSUME Fits, SpawnFailed
    PROVE  Fits'
  <1>1. /\ c.at = "spawned" /\ Return(FALSE) /\ monitor = "failed"
        /\ UNCHANGED <<available, pid, generation, exiting, identity, child, monitor>>
    BY Zenon DEF SpawnFailed, CallerOnly
  <1>2. c' \in Callers /\ c'.at = "idle" /\ c'.op = c.op /\ c'.ok = FALSE /\ c'.then = c.then
    BY <1>1, Returns, Zenon DEF Fits
  <1>3. QED
    BY <1>1, <1>2 DEF Fits, ChildFits, PidFits, PublishedFits, Childless, Holding, Cleaning

LEMMA SpawnTimesOutStep ==
    ASSUME Fits, SpawnTimesOut
    PROVE  Fits'
  <1>1. /\ c.at = "spawned" /\ c' = [c EXCEPT !.at = "cleanup"]
        /\ UNCHANGED <<available, pid, generation, exiting, identity, child, monitor>>
    BY DEF SpawnTimesOut, Goto
  <1>2. c' \in Callers /\ c'.at = "cleanup" /\ c'.op = c.op /\ c'.ok = c.ok /\ c'.then = c.then
    BY <1>1, Goes DEF Fits, Labels
  <1>3. QED
    BY <1>1, <1>2 DEF Fits, ChildFits, PidFits, PublishedFits, Childless, Holding, Cleaning

LEMMA CleanupStep ==
    ASSUME Fits, wait_for_spawn_cleanup
    PROVE  Fits'
  <1>1. /\ c.at = "cleanup" /\ Return(FALSE) /\ monitor \in {"done", "failed"}
        /\ UNCHANGED <<available, pid, generation, exiting, identity, child, monitor>>
    BY Zenon DEF wait_for_spawn_cleanup, CallerOnly
  <1>2. c' \in Callers /\ c'.at = "idle" /\ c'.op = c.op /\ c'.ok = FALSE /\ c'.then = c.then
    BY <1>1, Returns, Zenon DEF Fits
  <1>3. QED
    BY <1>1, <1>2 DEF Fits, ChildFits, PidFits, PublishedFits, Childless, Holding, Cleaning

LEMMA AcknowledgeStep ==
    ASSUME Fits, acknowledge_spawn_or_wait_cleanup
    PROVE  Fits'
  <1>1. /\ c.at = "acknowledge"
        /\ \/ monitor = "handing" /\ monitor' = "waiting" /\ c' = [c EXCEPT !.at = "health"] /\ pid' = pid
           \/ monitor = "done" /\ pid' = 0 /\ Return(FALSE) /\ monitor' = monitor
        /\ UNCHANGED <<available, generation, exiting, identity, child>>
    BY Zenon DEF acknowledge_spawn_or_wait_cleanup, Goto
  <1>2. /\ c' \in Callers
        /\ \/ monitor = "handing" /\ monitor' = "waiting" /\ c'.at = "health" /\ pid' = pid
           \/ monitor = "done" /\ pid' = 0 /\ c'.at = "idle" /\ monitor' = monitor
    BY <1>1, Goes, Returns, Zenon DEF Fits, Labels
  <1>3. QED
    BY <1>1, <1>2 DEF Fits, ChildFits, PidFits, PublishedFits, Childless, Holding, Cleaning

LEMMA ExitedDuringStartStep ==
    ASSUME Fits, ExitedDuringStart
    PROVE  Fits'
  <1>1. /\ c.at = "health" /\ Return(FALSE) /\ pid = 0
        /\ UNCHANGED <<available, pid, generation, exiting, identity, child, monitor>>
    BY Zenon DEF ExitedDuringStart, CallerOnly
  <1>2. c' \in Callers /\ c'.at = "idle" /\ c'.op = c.op /\ c'.ok = FALSE /\ c'.then = c.then
    BY <1>1, Returns, Zenon DEF Fits
  <1>3. QED
    BY <1>1, <1>2 DEF Fits, ChildFits, PidFits, PublishedFits, Childless, Holding, Cleaning

LEMMA HealthyStep ==
    ASSUME Fits, Healthy
    PROVE  Fits'
  <1>1. /\ c.at = "health" /\ c' = [c EXCEPT !.at = "up"]
        /\ identity' = [route |-> c.route, gen |-> generation]
        /\ UNCHANGED <<available, pid, generation, exiting, child, monitor>>
    BY DEF Healthy, Goto
  <1>2. c' \in Callers /\ c'.at = "up"
    BY <1>1, Goes DEF Fits, Labels
  <1>3. identity' \in Ids /\ identity'.gen = generation
    BY <1>1 DEF Fits, Ids, Callers, ChildFits
  <1>4. QED
    BY <1>1, <1>2, <1>3 DEF Fits, ChildFits, PidFits, PublishedFits, Childless, Holding, Cleaning

LEMMA PublishAvailableStep ==
    ASSUME Fits, PublishAvailable
    PROVE  Fits'
  <1>1. /\ c.at = "up" /\ c' = [c EXCEPT !.at = "port"] /\ available' = TRUE
        /\ UNCHANGED <<pid, generation, exiting, identity, child, monitor>>
    BY DEF PublishAvailable, Goto
  <1>2. c' \in Callers /\ c'.at = "port" /\ c'.op = c.op /\ c'.ok = c.ok /\ c'.then = c.then
    BY <1>1, Goes DEF Fits, Labels
  <1>3. QED
    BY <1>1, <1>2 DEF Fits, ChildFits, PidFits, PublishedFits, Childless, Holding, Cleaning

LEMMA PublishPortStep ==
    ASSUME Fits, PublishPort
    PROVE  Fits'
  <1>1. /\ c.at = "port" /\ c' = [c EXCEPT !.at = "verify"]
        /\ UNCHANGED <<available, pid, generation, exiting, identity, child, monitor>>
    BY DEF PublishPort, Goto
  <1>2. c' \in Callers /\ c'.at = "verify" /\ c'.op = c.op /\ c'.ok = c.ok /\ c'.then = c.then
    BY <1>1, Goes DEF Fits, Labels
  <1>3. QED
    BY <1>1, <1>2 DEF Fits, ChildFits, PidFits, PublishedFits, Childless, Holding, Cleaning

LEMMA VerifyPublishedStep ==
    ASSUME Fits, VerifyPublished
    PROVE  Fits'
  <1>1. c.at = "verify" /\ UNCHANGED <<pid, generation, exiting, child, monitor>>
    BY DEF VerifyPublished
  <1>2. CASE exact_process_publishable(generation)
    <2>1. /\ Return(TRUE) /\ UNCHANGED <<available, identity>>
          /\ pid # 0 /\ exiting # generation
      BY <1>2, Zenon DEF VerifyPublished, exact_process_publishable, exact_process_owner
    <2>2. c' \in Callers /\ c'.at = "idle" /\ c'.ok
      BY <2>1, Returns, Zenon DEF Fits
    <2>3. monitor = "waiting"
      BY <1>1, <2>1 DEF Fits, ChildFits, PidFits, PublishedFits, Childless, Holding, Cleaning
    <2>4. QED
      BY <1>1, <2>1, <2>2, <2>3 DEF Fits, ChildFits, PidFits, PublishedFits, Childless, Holding, Cleaning
  <1>3. CASE ~exact_process_publishable(generation)
    <2>1. /\ Return(FALSE) /\ available' = FALSE /\ identity' = NoId
          /\ pid = 0 \/ pid # generation \/ exiting = generation
      BY <1>3, Zenon DEF VerifyPublished, exact_process_publishable, exact_process_owner
    <2>2. c' \in Callers /\ c'.at = "idle" /\ identity' \in Ids
      BY <2>1, Returns, Zenon DEF Fits, Ids, NoId
    <2>3. child # "alive"
      BY <1>1, <2>1 DEF Fits, ChildFits, PidFits, PublishedFits, Childless, Holding, Cleaning
    <2>4. QED
      BY <1>1, <2>1, <2>2, <2>3, Zenon DEF Fits, ChildFits, PidFits, PublishedFits, Childless, Holding, Cleaning
  <1>4. QED
    BY <1>2, <1>3

LEMMA StartDeadlineStep ==
    ASSUME Fits, StartDeadline
    PROVE  Fits'
  <1>1. /\ c.at = "health" /\ c' = Retiring
        /\ UNCHANGED <<available, pid, generation, exiting, identity, child, monitor>>
    BY DEF StartDeadline, CallerOnly
  <1>2. c' \in Callers /\ c'.at = "stop" /\ c'.op = c.op /\ c'.ok = c.ok /\ c'.then = "refused"
    BY <1>1, Retires DEF Fits
  <1>3. QED
    BY <1>1, <1>2 DEF Fits, ChildFits, PidFits, PublishedFits, Childless, Holding, Cleaning

LEMMA StopStep ==
    ASSUME Fits, stop
    PROVE  Fits'
  <1>1. /\ c.at = "halt" /\ c' = Retiring
        /\ UNCHANGED <<available, pid, generation, exiting, identity, child, monitor>>
    BY DEF stop, CallerOnly
  <1>2. c' \in Callers /\ c'.at = "stop" /\ c'.op = c.op /\ c'.ok = c.ok /\ c'.then = "refused"
    BY <1>1, Retires DEF Fits
  <1>3. QED
    BY <1>1, <1>2 DEF Fits, ChildFits, PidFits, PublishedFits, Childless, Holding, Cleaning

LEMMA StopHidesStep ==
    ASSUME Fits, StopHides
    PROVE  Fits'
  <1>1. /\ c.at = "stop" /\ c' = [c EXCEPT !.at = "take"] /\ available' = FALSE
        /\ UNCHANGED <<pid, generation, exiting, identity, child, monitor>>
    BY DEF StopHides, Goto
  <1>2. c' \in Callers /\ c'.at = "take" /\ c'.op = c.op /\ c'.ok = c.ok /\ c'.then = c.then
    BY <1>1, Goes DEF Fits, Labels
  <1>3. QED
    BY <1>1, <1>2, Zenon DEF Fits, ChildFits, PidFits, PublishedFits, Childless, Holding, Cleaning

LEMMA StopTakesStep ==
    ASSUME Fits, StopTakes
    PROVE  Fits'
  <1>1. /\ c.at = "take" /\ c' = [c EXCEPT !.at = "kill"] /\ identity' \in {NoId, identity}
        /\ UNCHANGED <<available, pid, generation, exiting, child, monitor>>
    BY DEF StopTakes, Goto
  <1>2. c' \in Callers /\ c'.at = "kill" /\ c'.op = c.op /\ c'.ok = c.ok /\ c'.then = c.then
    BY <1>1, Goes DEF Fits, Labels
  <1>3. identity' \in Ids
    BY <1>1 DEF Fits, Ids, NoId
  <1>4. QED
    BY <1>1, <1>2, <1>3 DEF Fits, ChildFits, PidFits, PublishedFits, Childless, Holding, Cleaning

LEMMA StopKillsStep ==
    ASSUME Fits, StopKills
    PROVE  Fits'
  <1>1. /\ c.at = "kill" /\ c' = [c EXCEPT !.at = "reap"]
        /\ child' = IF pid # 0 /\ child = "alive" THEN "dead" ELSE child
        /\ UNCHANGED <<available, pid, generation, exiting, identity, monitor>>
    BY DEF StopKills, Goto
  <1>2. c' \in Callers /\ c'.at = "reap" /\ c'.op = c.op /\ c'.ok = c.ok /\ c'.then = c.then
    BY <1>1, Goes DEF Fits, Labels
  <1>3. QED
    BY <1>1, <1>2 DEF Fits, ChildFits, PidFits, PublishedFits, Childless, Holding, Cleaning

LEMMA StopReapsStep ==
    ASSUME Fits, StopReaps
    PROVE  Fits'
  <1>1. /\ c.at = "reap" /\ pid = 0 /\ c' = [c EXCEPT !.at = c.then]
        /\ UNCHANGED <<available, pid, generation, exiting, identity, child, monitor>>
        /\ c.then \in {"launch", "refused"} /\ c \in Callers
    BY DEF StopReaps, CallerOnly, Goto, Fits
  <1>2. c' \in Callers /\ c'.at \in {"launch", "refused"}
    BY <1>1 DEF Callers, Labels
  <1>3. QED
    BY <1>1, <1>2 DEF Fits, ChildFits, PidFits, PublishedFits, Childless, Holding, Cleaning

LEMMA RequestSteps ==
    ASSUME Fits, generate_for \/ ReadKey \/ Completion \/ commit_route_success \/ NothingOwed
    PROVE  Fits'
  <1>1. /\ c.at \in {"generate", "post", "asking", "commit"}
        /\ c' = [c EXCEPT !.at = "post"] \/ c' = [c EXCEPT !.at = "asking"]
           \/ \E ok \in BOOLEAN : Return(ok)
        /\ UNCHANGED <<available, pid, generation, exiting, identity, child, monitor>>
    BY Zenon DEF generate_for, ReadKey, Completion, commit_route_success, NothingOwed, CallerOnly, Goto,
           available_for, exact_process_owner
  <1>2. c' \in Callers /\ c'.op = c.op /\ c'.at \in {"post", "asking", "idle"}
    BY <1>1, Goes, Returns DEF Fits, Labels
  <1>3. c.op \notin {"reuse", "start", "halt"}
    BY <1>1 DEF Fits
  <1>4. QED
    BY <1>1, <1>2, <1>3 DEF Fits, ChildFits, PidFits, PublishedFits, Childless, Holding, Cleaning

LEMMA CompletionFailsStep ==
    ASSUME Fits, CompletionFails
    PROVE  Fits'
  <1>1. /\ c.at = "asking" /\ c' = Retiring
        /\ UNCHANGED <<available, pid, generation, exiting, identity, child, monitor>>
    BY DEF CompletionFails, CallerOnly
  <1>2. c' \in Callers /\ c'.at = "stop" /\ c'.op = c.op /\ c'.ok = c.ok /\ c'.then = "refused"
    BY <1>1, Retires DEF Fits
  <1>3. QED
    BY <1>1, <1>2 DEF Fits, ChildFits, PidFits, PublishedFits, Childless, Holding, Cleaning

-----------------------------------------------------------------------------
(* The steps of the monitor, and of the child.                             *)

LEMMA MonitorSpawnsStep ==
    ASSUME Fits, MonitorSpawns
    PROVE  Fits'
  <1>1. /\ monitor = "spawning" /\ \/ monitor' = "handing" /\ child' = "alive"
                                   \/ monitor' = "failed" /\ child' = child
        /\ UNCHANGED <<c, available, pid, generation, exiting, identity>>
    BY DEF MonitorSpawns, MonitorOnly
  <1>2. QED
    BY <1>1 DEF Fits, ChildFits, PidFits, PublishedFits, Childless, Holding, Cleaning

LEMMA MonitorAbandonsStep ==
    ASSUME Fits, MonitorAbandons
    PROVE  Fits'
  <1>1. /\ monitor = "handing" /\ monitor' = "abandoning"
        /\ UNCHANGED <<c, available, pid, generation, exiting, identity, child>>
    BY DEF MonitorAbandons, MonitorOnly
  <1>2. QED
    BY <1>1 DEF Fits, ChildFits, PidFits, PublishedFits, Childless, Holding, Cleaning

LEMMA MonitorKillsStep ==
    ASSUME Fits, MonitorKills
    PROVE  Fits'
  <1>1. /\ monitor = "abandoning" /\ monitor' = "done" /\ child' = "reaped"
        /\ UNCHANGED <<c, available, pid, generation, exiting, identity>>
    BY DEF MonitorKills, MonitorOnly
  <1>2. QED
    BY <1>1 DEF Fits, ChildFits, PidFits, PublishedFits, Childless, Holding, Cleaning

LEMMA MarkExitStep ==
    ASSUME Fits, MarkExit
    PROVE  Fits'
  <1>1. /\ monitor = "waiting" /\ monitor' = "closing" /\ child' = "reaped" /\ exiting' = generation
        /\ UNCHANGED <<c, available, pid, generation, identity>>
    BY DEF MarkExit, MonitorOnly
  <1>2. QED
    BY <1>1 DEF Fits, ChildFits, PidFits, PublishedFits, Childless, Holding, Cleaning

LEMMA ClosePortStep ==
    ASSUME Fits, ClosePort
    PROVE  Fits'
  <1>1. /\ monitor = "closing" /\ monitor' = "swapping"
        /\ UNCHANGED <<c, available, pid, generation, exiting, identity, child>>
    BY DEF ClosePort, MonitorOnly
  <1>2. QED
    BY <1>1 DEF Fits, ChildFits, PidFits, PublishedFits, Childless, Holding, Cleaning

LEMMA SwapAvailableStep ==
    ASSUME Fits, SwapAvailable
    PROVE  Fits'
  <1>1. /\ monitor = "swapping" /\ monitor' = "taking" /\ available' = FALSE
        /\ UNCHANGED <<c, pid, generation, exiting, identity, child>>
    BY DEF SwapAvailable, MonitorOnly
  <1>2. QED
    BY <1>1, Zenon DEF Fits, ChildFits, PidFits, PublishedFits, Childless, Holding, Cleaning

LEMMA MonitorTakesStep ==
    ASSUME Fits, MonitorTakes
    PROVE  Fits'
  <1>1. /\ monitor = "taking" /\ monitor' = "withdrawing" /\ identity' \in {NoId, identity}
        /\ UNCHANGED <<c, available, pid, generation, exiting, child>>
    BY DEF MonitorTakes, MonitorOnly
  <1>2. identity' \in Ids
    BY <1>1 DEF Fits, Ids, NoId
  <1>3. QED
    BY <1>1, <1>2 DEF Fits, ChildFits, PidFits, PublishedFits, Childless, Holding, Cleaning

LEMMA MonitorWithdrawsStep ==
    ASSUME Fits, MonitorWithdraws
    PROVE  Fits'
  <1>1. /\ monitor = "withdrawing" /\ monitor' = "clearing"
        /\ UNCHANGED <<c, available, pid, generation, exiting, identity, child>>
    BY DEF MonitorWithdraws, MonitorOnly
  <1>2. QED
    BY <1>1 DEF Fits, ChildFits, PidFits, PublishedFits, Childless, Holding, Cleaning

LEMMA FinishStep ==
    ASSUME Fits, finish_monitor_cleanup
    PROVE  Fits'
  <1>1. /\ monitor = "clearing" /\ monitor' = "done" /\ pid' = 0
        /\ UNCHANGED <<c, available, generation, exiting, identity, child>>
    BY DEF finish_monitor_cleanup, MonitorOnly
  <1>2. QED
    BY <1>1 DEF Fits, ChildFits, PidFits, PublishedFits, Childless, Holding, Cleaning

LEMMA ChildExitsStep ==
    ASSUME Fits, ChildExits
    PROVE  Fits'
  <1>1. /\ child = "alive" /\ child' = "dead"
        /\ UNCHANGED <<c, available, pid, generation, exiting, identity, monitor>>
    BY DEF ChildExits, MonitorOnly
  <1>2. QED
    BY <1>1 DEF Fits, ChildFits, PidFits, PublishedFits, Childless, Holding, Cleaning

LEMMA UnfitStep ==
    ASSUME Fits, mark_gpu_inference_unfit
    PROVE  Fits'
  <1>1. UNCHANGED <<c, available, pid, generation, exiting, identity, child, monitor>>
    BY DEF mark_gpu_inference_unfit, CallerOnly
  <1>2. QED
    BY <1>1 DEF Fits, ChildFits, PidFits, PublishedFits, Childless, Holding, Cleaning

-----------------------------------------------------------------------------
LEMMA FitsInit == ASSUME Init PROVE Fits
  <1>1. /\ available = FALSE /\ pid = 0 /\ generation = 0 /\ exiting = 0 /\ child = "none" /\ monitor = "off"
        /\ identity = NoId /\ c = Idle
    BY DEF Init
  <1>2. identity \in Ids
    BY <1>1 DEF NoId, Ids
  <1>3. c \in Callers /\ c.at = "idle" /\ c.op = "none"
    BY <1>1 DEF Idle, Callers, Labels, Ops, Called
  <1>4. ChildFits(monitor, child, pid, generation, exiting)
    BY <1>1 DEF ChildFits, Childless, Holding, Cleaning
  <1>5. PidFits(c.at, monitor, pid, generation)
    BY <1>1, <1>3 DEF PidFits
  <1>6. PublishedFits(c.at, monitor, pid, generation, available, identity.gen)
    BY <1>1, <1>3, Zenon DEF PublishedFits
  <1>7. QED
    BY <1>1, <1>2, <1>3, <1>4, <1>5, <1>6 DEF Fits

LEMMA FitsStep ==
    ASSUME Fits, [Next]_server
    PROVE  Fits'
  <1>1. CASE Calls
    BY <1>1, CallStep DEF Calls, Called
  <1>2. CASE CallerStep
    BY <1>2, DenyStep, ReuseStep, RetireStep, WaitForMonitorStep, RefuseStep, CannotLaunchStep, LaunchStep,
       ReceivePidStep, SpawnFailedStep, SpawnTimesOutStep, CleanupStep, AcknowledgeStep,
       ExitedDuringStartStep, HealthyStep, PublishAvailableStep, PublishPortStep, VerifyPublishedStep,
       StartDeadlineStep, StopStep, StopHidesStep, StopTakesStep, StopKillsStep, StopReapsStep,
       RequestSteps, CompletionFailsStep DEF CallerStep, CallerSteps
  <1>3. CASE MonitorStep \/ MonitorAbandons \/ ChildExits \/ mark_gpu_inference_unfit
    BY <1>3, UnfitStep, MonitorSpawnsStep, MonitorAbandonsStep, MonitorKillsStep, MarkExitStep, ClosePortStep,
       SwapAvailableStep, MonitorTakesStep, MonitorWithdrawsStep, FinishStep, ChildExitsStep DEF MonitorStep
  <1>4. CASE UNCHANGED server
    BY <1>4 DEF server, Fits, ChildFits, PidFits, PublishedFits, Childless, Holding, Cleaning
  <1>5. QED
    BY <1>1, <1>2, <1>3, <1>4 DEF Next

\* A stop or reuse that returned FALSE left no child alive, whatever the child,
\* its monitor and the ten-second limits of the handoff do meanwhile: the caller
\* may allocate the card's memory (reuse_exact_or_stop, stop_locked).  So did a
\* start that returned FALSE, unless it was denied because the card's memory had
\* been given away, before it looked at the server (try_start_on).  And between
\* calls only the current generation's server counts as available.
THEOREM FalseFreesTheCard == Spec => []FalseMeansFree
  <1>1. Fits => FalseMeansFree
    BY DEF FalseMeansFree, Fits, ChildFits, PidFits, PublishedFits, Childless, Holding, Cleaning
  <1>2. QED
    BY <1>1, FitsInit, FitsStep, PTL DEF Spec

\* A success is recorded only for the route of the server that is up, and not
\* for one whose exit is marked (commit_route_success).
THEOREM CommitsAreOwned == Spec => CommitIsOwned
  <1>1. ASSUME Next, ~commit_route_success
        PROVE  proofs' \subseteq proofs
    <2>1. CASE Calls
      BY <2>1 DEF Calls, Call
    <2>2. CASE CallerStep
      BY <1>1, <2>2, Zenon DEF CallerStep, CallerSteps, CallerOnly, DenyStart, reuse_exact_or_stop, retire_server_for_replacement_locked,
         WaitForMonitor, Refuse, CannotLaunch, LaunchMonitor, ReceivePid, SpawnFailed, SpawnTimesOut,
         wait_for_spawn_cleanup, acknowledge_spawn_or_wait_cleanup, ExitedDuringStart, Healthy,
         PublishAvailable, PublishPort, VerifyPublished, StartDeadline, stop, StopHides, StopTakes,
         StopKills, StopReaps, generate_for, ReadKey, Completion, CompletionFails, NothingOwed, Withdrawn
    <2>3. CASE MonitorStep \/ MonitorAbandons \/ ChildExits \/ mark_gpu_inference_unfit
      BY <2>3 DEF mark_gpu_inference_unfit, CallerOnly, MonitorStep, MonitorSpawns, MonitorAbandons, MonitorKills, MarkExit, ClosePort,
         SwapAvailable, MonitorTakes, MonitorWithdraws, finish_monitor_cleanup, ChildExits, Withdrawn
    <2>4. QED
      BY <1>1, <2>1, <2>2, <2>3 DEF Next
  <1>2. ASSUME commit_route_success, NEW r \in proofs' \ proofs
        PROVE  available /\ identity.route = r /\ identity.gen = pid /\ exiting # pid
    BY <1>2 DEF commit_route_success, available_for, exact_process_owner
  <1>3. [Next]_server => [\A r \in proofs' \ proofs :
              available /\ identity.route = r /\ identity.gen = pid /\ exiting # pid]_server
    BY <1>1, <1>2
  <1>4. QED
    BY <1>3, PTL DEF Spec, CommitIsOwned
=============================================================================
