--------------------------- MODULE MCWatchChannel ---------------------------
(* The channel and the statistics hub the threads of the process share,    *)
(* each on a small instance of its own: the variable `part' names the one  *)
(* that moves, the others stay as they begin.  WatchChannel has two        *)
(* threads that share the Sender, as the MinerManager and the inference    *)
(* pause control do, and two receivers; the hub of RuntimeStats moves in   *)
(* one of its four groups of gauges at a time.                             *)
EXTENDS WatchChannel

CONSTANTS
    s1, s2, r1, r2,
    Requests, Keys, AllCards, Claims, MaxGenerations, MaxGuards, MaxTime

VARIABLES
    part,
    now, generation, connection, queue, difficulty, network, pending, conns,
    requested, served, failed, busy, active, attempt, pauses, pause_started,
    pause_total, inference_paused, sampler, escrow, claims, spent

MCSenders == {s1, s2}
MCReceivers == {r1, r2}

hub == <<now, generation, connection, queue, difficulty, network, pending, conns,
         requested, served, failed, busy, active, attempt, pauses, pause_started,
         pause_total, inference_paused, sampler, escrow, claims, spent>>

Hub == INSTANCE RuntimeStats

InChannel == part = "channel"

SharedInit ==
    /\ part \in {"channel", "connections", "inferences", "pauses", "escrow"}
    /\ Init /\ Hub!Init

SharedNext ==
    /\ UNCHANGED part
    /\ \/ InChannel /\ UNCHANGED hub /\ Next
       \/ part = "connections" /\ UNCHANGED vars /\ Hub!ConnectionStep
       \/ part = "inferences" /\ UNCHANGED vars /\ Hub!InferenceStep
       \/ part = "pauses" /\ UNCHANGED vars /\ (Hub!PauseStep \/ Hub!Tick)
       \/ part = "escrow" /\ UNCHANGED vars /\ Hub!EscrowStep

SharedSpec == SharedInit /\ [][SharedNext]_<<part, vars, hub>> /\ (InChannel => Fairness)

-----------------------------------------------------------------------------
\* The statistics add up (runtime_stats.rs).
StatsAddUp == Hub!StatsAddUp
=============================================================================
