---------------------------- MODULE RuntimeStats ----------------------------
(***************************************************************************)
(* The process-wide statistics hub (runtime_stats.rs) and the ten-second   *)
(* sampler that feeds it (miner.rs, log_hashrate).  Connections are        *)
(* replaced while their detached tasks live on, several cards pause at     *)
(* once, requests are dropped half way: the hub must still add up.         *)
(*                                                                         *)
(* A gauge that belongs to a connection is modelled by the generation that *)
(* wrote it, 0 when it is unset.  Time is a counter of ticks.              *)
(***************************************************************************)
EXTENDS Naturals, FiniteSets

CONSTANTS
    Requests,      \* inference attempts
    Keys,          \* what can be paused: AllCards, or one card
    AllCards,
    Claims,        \* escrow claims
    MaxGenerations, MaxGuards, MaxTime

VARIABLES
    now,
    generation, connection,
    queue,         \* [depth, by]: the queue gauge and the generation that set it
    difficulty,    \* the generation that set the pool difficulty
    network,       \* the generation that set the network difficulty
    pending,       \* shares sent and not answered
    conns,         \* each connection's task
    requested, served, failed, busy, active,
    attempt,       \* each attempt: "none", "active", "counted", "finished", "dropped"
    pauses, pause_started, pause_total, inference_paused,
    sampler,       \* [at, paused]: what log_hashrate read before it publishes
    escrow,        \* [enabled, held, validating, degraded, in_flight, status]
    claims,        \* the watcher's claims in flight
    spent          \* history: ticks during which anything was paused

hub == <<now, generation, connection, queue, difficulty, network, pending, conns, requested, served, failed, busy,
         active, attempt, pauses, pause_started, pause_total, inference_paused, sampler, escrow, claims, spent>>

connection_vars == <<generation, connection, queue, difficulty, network, pending, conns>>
inference_vars == <<requested, served, failed, busy, active, attempt>>
pause_vars == <<pauses, pause_started, pause_total, inference_paused, sampler>>
escrow_vars == <<escrow, claims>>

UNSET == MaxTime + 1

NoEscrow == [enabled |-> FALSE, held |-> FALSE, validating |-> FALSE, degraded |-> FALSE, in_flight |-> 0,
             status |-> "disabled"]

(* RuntimeStats::new. *)
Init ==
    /\ now = 0
    /\ generation = 0 /\ connection = "offline" /\ queue = [depth |-> 0, by |-> 0]
    /\ difficulty = 0 /\ network = 0 /\ pending = 0
    /\ conns = [g \in 1..MaxGenerations |-> "none"]
    /\ requested = 0 /\ served = 0 /\ failed = 0 /\ busy = 0 /\ active = 0
    /\ attempt = [r \in Requests |-> "none"]
    /\ pauses = [k \in Keys |-> 0] /\ pause_started = UNSET /\ pause_total = 0
    /\ inference_paused = FALSE /\ sampler = [at |-> "asleep", paused |-> FALSE]
    /\ escrow = NoEscrow /\ claims = {} /\ spent = 0

saturating_decrement(n) == IF n = 0 THEN 0 ELSE n - 1

-----------------------------------------------------------------------------
(* Connections.  What is done under the queue lock is one step. *)

begin_connection ==
    /\ generation < MaxGenerations
    /\ generation' = generation + 1
    /\ connection' = "connecting"
    /\ queue' = [depth |-> 0, by |-> 0] /\ difficulty' = 0 /\ network' = 0 /\ pending' = 0
    /\ conns' = [conns EXCEPT ![generation'] = "opening"]
    /\ UNCHANGED <<now, inference_vars, pause_vars, escrow_vars, spent>>

(* The generation is compared first and stored under later: the two are    *)
(* not under the lock.                                                     *)
connection_established(g) ==
    /\ conns[g] = "opening" /\ conns' = [conns EXCEPT ![g] = IF generation = g THEN "compared" ELSE "open"]
    /\ UNCHANGED <<now, generation, connection, queue, difficulty, network, pending, inference_vars, pause_vars,
                   escrow_vars, spent>>

StoreEstablished(g) ==
    /\ conns[g] = "compared" /\ conns' = [conns EXCEPT ![g] = "open"]
    /\ connection' = "connected"
    /\ UNCHANGED <<now, generation, queue, difficulty, network, pending, inference_vars, pause_vars, escrow_vars, spent>>

(* The connection ends; its detached tasks may still report afterwards. *)
connection_lost(g) ==
    /\ conns[g] \in {"opening", "open"} /\ conns' = [conns EXCEPT ![g] = "closed"]
    /\ IF generation = g
       THEN queue' = [depth |-> 0, by |-> 0] /\ connection' = "offline" /\ pending' = 0
       ELSE UNCHANGED <<queue, connection, pending>>
    /\ UNCHANGED <<now, generation, difficulty, network, inference_vars, pause_vars, escrow_vars, spent>>

(* variant: any connection that is up sets the gauge. *)
set_connection_inference_queueAny(g, depth) ==
    /\ conns[g] \in {"open", "closed"} /\ connection # "offline" /\ queue.depth # depth
    /\ queue' = [depth |-> depth, by |-> g]
    /\ UNCHANGED <<now, generation, connection, difficulty, network, pending, conns, inference_vars, pause_vars,
                   escrow_vars, spent>>

set_connection_inference_queue(g, depth) ==
    /\ conns[g] \in {"open", "closed"} /\ queue.depth # depth
    /\ generation = g /\ connection # "offline"
    /\ queue' = [depth |-> depth, by |-> g]
    /\ UNCHANGED <<now, generation, connection, difficulty, network, pending, conns, inference_vars, pause_vars,
                   escrow_vars, spent>>

record_job(g, compact) ==
    /\ conns[g] = "open" /\ generation = g
    /\ network' = IF compact THEN g ELSE 0
    /\ UNCHANGED <<now, generation, connection, queue, difficulty, pending, conns, inference_vars, pause_vars,
                   escrow_vars, spent>>

set_pool_difficulty(g) ==
    /\ conns[g] = "open" /\ generation = g /\ difficulty # g
    /\ difficulty' = g
    /\ UNCHANGED <<now, generation, connection, queue, network, pending, conns, inference_vars, pause_vars, escrow_vars, spent>>

record_share_submitted(g) ==
    /\ conns[g] = "open" /\ pending = 0
    /\ pending' = pending + 1
    /\ UNCHANGED <<now, generation, connection, queue, difficulty, network, conns, inference_vars, pause_vars,
                   escrow_vars, spent>>

(* Accepted, rejected or abandoned. *)
record_share_accepted(g) ==
    /\ conns[g] = "open" /\ pending > 0
    /\ pending' = saturating_decrement(pending)
    /\ UNCHANGED <<now, generation, connection, queue, difficulty, network, conns, inference_vars, pause_vars,
                   escrow_vars, spent>>

ConnectionStep ==
    \/ begin_connection
    \/ \E g \in 1..generation :
        \/ connection_established(g) \/ StoreEstablished(g) \/ connection_lost(g)
        \/ \E depth \in 0..1 : set_connection_inference_queue(g, depth)
        \/ \E compact \in BOOLEAN : record_job(g, compact)
        \/ set_pool_difficulty(g) \/ record_share_submitted(g) \/ record_share_accepted(g)

-----------------------------------------------------------------------------
(* Inference attempts.  A verdict is counted, then the attempt finishes;   *)
(* dropping an unfinished one counts it as failed.                         *)

InferenceOnly == UNCHANGED <<now, connection_vars, pause_vars, escrow_vars, spent>>

begin_inference(r) ==
    /\ attempt[r] = "none" /\ attempt' = [attempt EXCEPT ![r] = "active"]
    /\ requested' = requested + 1 /\ active' = active + 1
    /\ InferenceOnly /\ UNCHANGED <<served, failed, busy>>

Verdict(r) ==
    /\ attempt[r] = "active" /\ attempt' = [attempt EXCEPT ![r] = "counted"]
    /\ \/ served' = served + 1 /\ UNCHANGED <<failed, busy>>
       \/ failed' = failed + 1 /\ UNCHANGED <<served, busy>>
       \/ busy' = busy + 1 /\ UNCHANGED <<served, failed>>
    /\ InferenceOnly /\ UNCHANGED <<requested, active>>

finish(r) ==
    /\ attempt[r] = "counted" /\ attempt' = [attempt EXCEPT ![r] = "finished"]
    /\ active' = saturating_decrement(active)
    /\ InferenceOnly /\ UNCHANGED <<requested, served, failed, busy>>

drop(r) ==
    /\ attempt[r] \in {"active", "finished"}
    /\ failed' = IF attempt[r] = "active" THEN failed + 1 ELSE failed
    /\ attempt' = [attempt EXCEPT ![r] = IF attempt[r] = "active" THEN "counted" ELSE "dropped"]
    /\ InferenceOnly /\ UNCHANGED <<requested, served, busy, active>>

(* A queued request lost with its connection was never active. *)
record_inference_abandoned_requests(r) ==
    /\ attempt[r] = "none" /\ attempt' = [attempt EXCEPT ![r] = "dropped"]
    /\ requested' = requested + 1 /\ failed' = failed + 1
    /\ InferenceOnly /\ UNCHANGED <<served, busy, active>>

InferenceStep ==
    \E r \in Requests :
        begin_inference(r) \/ Verdict(r) \/ finish(r) \/ drop(r) \/ record_inference_abandoned_requests(r)

-----------------------------------------------------------------------------
(* Pauses: the clock runs from the first guard to the last. *)

PauseOnly == UNCHANGED <<now, connection_vars, inference_vars, escrow_vars, spent>>

PauseStarts(k) ==
    /\ pauses[k] < MaxGuards
    /\ pauses' = [pauses EXCEPT ![k] = @ + 1]
    /\ pause_started' = IF pause_started = UNSET THEN now ELSE pause_started
    /\ inference_paused' = (pauses'[AllCards] > 0)
    /\ PauseOnly /\ UNCHANGED <<pause_total, sampler>>

PauseEnds(k) ==
    /\ pauses[k] > 0
    /\ pauses' = [pauses EXCEPT ![k] = @ - 1]
    /\ inference_paused' = (pauses'[AllCards] > 0)
    /\ IF \A j \in Keys : pauses'[j] = 0
       THEN pause_started' = UNSET /\ pause_total' = pause_total + (now - pause_started)
       ELSE UNCHANGED <<pause_started, pause_total>>
    /\ PauseOnly /\ UNCHANGED sampler

(* log_hashrate reads the flag at the start of a tick and publishes it     *)
(* with the sample, after the cards' sensors were read.                    *)
log_hashrate ==
    /\ sampler.at = "asleep" /\ sampler' = [at |-> "sampling", paused |-> inference_paused]
    /\ PauseOnly /\ UNCHANGED <<pauses, pause_started, pause_total, inference_paused>>

publish_mining_snapshot ==
    /\ sampler.at = "sampling" /\ sampler' = [at |-> "asleep", paused |-> FALSE]
    /\ inference_paused' = sampler.paused
    /\ PauseOnly /\ UNCHANGED <<pauses, pause_started, pause_total>>

PauseStep ==
    \/ \E k \in Keys : PauseStarts(k) \/ PauseEnds(k)
    \/ log_hashrate \/ publish_mining_snapshot

-----------------------------------------------------------------------------
(* Escrow.  Every writer ends by recomputing the status. *)

refresh_escrow_status(e) ==
    [e EXCEPT !.status =
        CASE ~e.enabled -> "disabled"
          [] e.enabled /\ e.degraded -> "degraded"
          [] e.enabled /\ ~e.degraded /\ e.held -> "held"
          [] e.enabled /\ ~e.degraded /\ ~e.held /\ e.validating -> "validating"
          [] OTHER -> IF e.in_flight # 0 THEN "claiming" ELSE "ready"]

EscrowOnly == UNCHANGED <<now, connection_vars, inference_vars, pause_vars, spent>>

escrow_enabled(on) ==
    /\ escrow.enabled # on /\ (~on => claims = {})
    /\ escrow' = refresh_escrow_status(IF on THEN [escrow EXCEPT !.enabled = TRUE] ELSE NoEscrow)
    /\ EscrowOnly /\ UNCHANGED claims

escrow_claims_held(held) ==
    /\ escrow.enabled /\ escrow' = refresh_escrow_status([escrow EXCEPT !.held = held])
    /\ EscrowOnly /\ UNCHANGED claims

escrow_validation_progress(blocks) ==
    /\ escrow.enabled /\ escrow' = refresh_escrow_status([escrow EXCEPT !.validating = (blocks # 0)])
    /\ EscrowOnly /\ UNCHANGED claims

escrow_claim_attempt(x) ==
    /\ escrow.enabled /\ x \notin claims /\ claims' = claims \cup {x}
    /\ escrow' = refresh_escrow_status([escrow EXCEPT !.in_flight = @ + 1])
    /\ EscrowOnly

(* escrow_remove_inflight: accepted, rejected or timed out. *)
escrow_remove_inflight(x) ==
    /\ x \in claims /\ claims' = claims \ {x}
    /\ escrow' = refresh_escrow_status([escrow EXCEPT !.in_flight = saturating_decrement(@)])
    /\ EscrowOnly

publish_escrow_gauges ==
    /\ escrow.enabled
    /\ escrow' = refresh_escrow_status([escrow EXCEPT !.in_flight = Cardinality(claims)])
    /\ EscrowOnly /\ UNCHANGED claims

escrow_persistence_result(success) ==
    /\ escrow.enabled /\ escrow' = refresh_escrow_status([escrow EXCEPT !.degraded = ~success])
    /\ EscrowOnly /\ UNCHANGED claims

EscrowStep ==
    \/ \E b \in BOOLEAN : escrow_enabled(b) \/ escrow_claims_held(b) \/ escrow_persistence_result(b)
    \/ \E n \in 0..1 : escrow_validation_progress(n)
    \/ \E x \in Claims : escrow_claim_attempt(x) \/ escrow_remove_inflight(x)
    \/ publish_escrow_gauges

Tick ==
    /\ now < MaxTime /\ now' = now + 1
    /\ spent' = IF \E k \in Keys : pauses[k] > 0 THEN spent + 1 ELSE spent
    /\ UNCHANGED <<connection_vars, inference_vars, pause_vars, escrow_vars>>

Next == ConnectionStep \/ InferenceStep \/ PauseStep \/ EscrowStep \/ Tick

Spec == Init /\ [][Next]_hub

-----------------------------------------------------------------------------
(* What the dashboard reads. *)
try_snapshot ==
    [queue_depth |-> queue.depth,
     pow_pause_total |-> pause_total + (IF pause_started = UNSET THEN 0 ELSE now - pause_started),
     inference_paused |-> pauses[AllCards] > 0 \/ inference_paused,
     active |-> active, in_flight |-> escrow.in_flight, status |-> escrow.status]

At(phases) == Cardinality({r \in Requests : attempt[r] \in phases})

(* The hub adds up whatever the connections, cards, requests and claims do *)
(* meanwhile.  A gauge of a connection is the current connection's, never  *)
(* one a detached task of an older connection wrote after the reconnect.   *)
(* Every request counted has one verdict or is still running, and the      *)
(* active gauge counts the running ones.  The pause total is the time in   *)
(* which anything was paused, overlapping pauses counted once.  The claims *)
(* shown in flight are the watcher's and the status follows from them.     *)
StatsAddUp ==
    /\ queue.depth > 0 => queue.by = generation
    /\ difficulty \in {0, generation} /\ network \in {0, generation}
    /\ requested = served + failed + busy + At({"active"})
    /\ active = At({"active", "counted"})
    /\ try_snapshot.pow_pause_total = spent
    /\ (pauses[AllCards] > 0) => try_snapshot.inference_paused
    /\ try_snapshot.in_flight = Cardinality(claims)
    /\ escrow = refresh_escrow_status(escrow)
=============================================================================
