------------------------------- MODULE MCSolo -------------------------------
(* The parts of the solo client, each on a small instance of its own: the  *)
(* variable `part' names the one that moves, the others stay as they       *)
(* begin.  SoloRequests has two rewarded requests for a queue of one, so   *)
(* that one evicts the other: r1 in a private envelope, traced and another *)
(* rig's first, r2 in plaintext.                                           *)
EXTENDS SoloRequests

CONSTANTS
    Parts,      \* the parts a run is about
    r1, r2,
    MaxLost,
    None, Response, SeedDelay, Page, Inflight, UnanchoredToo,
    MaxHeight, MaxDepth, MaxInbox, MaxReorgs, MaxFaults,
    Children, Depth, MaxIdle, MaxCut, MaxFailures

VARIABLES
    part,
    link, info, asked, challenge, request, replay, orphans, deferred,
    serveable, channel, stopped, lost,
    chain, past, accepts, mempool, inbox, k, disk, faults, pulse,
    blocks, minted, pool, txids, took, path, child_blocks, opened, dropped,
    late, rebuild, built_phase, left

MCKind == (r1 :> "private") @@ (r2 :> "plain")

templates == <<link, info, asked, challenge, request, replay, orphans, deferred,
               serveable, channel, stopped, lost>>
traces == <<chain, past, accepts, mempool, inbox, k, disk, faults, pulse>>
phases == <<blocks, minted, pool, txids, took, path, child_blocks, opened, dropped,
            late, rebuild, built_phase, left>>

Templates == INSTANCE SoloTemplates
Traces == INSTANCE SoloTraces
Phases == INSTANCE AttnPhases WITH chain <- blocks, accepted <- took, replay <- rebuild

InRequests == part = "requests"
InTemplates == part = "templates"
InTraces == part = "traces"
InPhases == part = "phases"

(* The chain of the last two is bounded, so these come to an end. *)
MayStop == InTraces \/ InPhases

SoloInit ==
    /\ part \in Parts
    /\ Init /\ Templates!Init /\ Traces!Init /\ Phases!Init

SoloNext ==
    /\ UNCHANGED part
    /\ \/ InRequests /\ UNCHANGED <<templates, traces, phases>> /\ Next
       \/ InTemplates /\ UNCHANGED <<vars, traces, phases>> /\ Templates!Next
       \/ InTraces /\ UNCHANGED <<vars, templates, phases>> /\ Traces!Next
       \/ InPhases /\ UNCHANGED <<vars, templates, traces>> /\ Phases!Next
       \/ MayStop /\ UNCHANGED <<vars, templates, traces, phases>>

(* The weak fairness of the parts. *)
SoloFairness ==
    /\ WF_vars(InRequests /\ Connect) /\ WF_vars(InRequests /\ StreamEnds)
    /\ WF_vars(InRequests /\ JobDone) /\ WF_vars(InRequests /\ ReplayEnds)
    /\ \A r \in Requests : WF_vars(InRequests /\ DelayPasses(r))
    /\ WF_templates(InTemplates /\ Templates!Connect)
    /\ WF_templates(InTemplates /\ Templates!StreamEnds)
    /\ WF_templates(InTemplates /\ Templates!GotInfo)
    /\ WF_templates(InTemplates /\ Templates!Tick)
    /\ WF_templates(InTemplates /\ Templates!ChallengeEnds)
    /\ WF_templates(InTemplates /\ Templates!RequestEnds)
    /\ WF_templates(InTemplates /\ Templates!ReplayEnds)
    /\ WF_templates(InTemplates /\ Templates!OrphanEnds)
    /\ WF_phases(InPhases /\ Phases!resolve_traces)
    /\ WF_phases(InPhases /\ Phases!start_replay)
    /\ WF_phases(InPhases /\ \E ok \in BOOLEAN : Phases!on_attention_phase_built(ok))
    /\ WF_phases(InPhases /\ Phases!Grow)

SoloSpec ==
    SoloInit /\ [][SoloNext]_<<part, vars, templates, traces, phases>> /\ SoloFairness

-----------------------------------------------------------------------------
\* While templates arrive, the timer fires and audits end, a queued request
\* leaves the queue (try_start_inference, trace_tick).
QueueDrains ==
    []<>m.daa /\ TimerFires /\ []<>(m.traces = {}) => RequestLeavesQueue

\* After a request or a challenge, and when models become ready, the workers get
\* a job again from a node that announces no template (the timer of listen).
MinesAgain ==
    SF_templates(InTemplates /\ request # "ready" /\ Templates!Reply) => Templates!MinesAgain

\* Through reorganisations, failed answers, reconnects and restarts: the seed
\* block drawn is the node's, an answer on the network has its trace on disk,
\* and the phases held as accepted, with the children drawn, are the chain's
\* (seed_block_after, release_persisted_responses, AttnPhases::on_removed).
AuditFollowsTheChain ==
    Traces!DrawIsTheNodes /\ Traces!SentIsOnDisk /\ Phases!PathIsTheChains

\* An audit whose seed block is known is answered with an opening for it, and
\* once reorganisations end every attention phase is accepted (trace_tick,
\* resolve_traces, on_attention_phase_built).
AuditIsAnswered ==
    /\ Traces!Fairness => Traces!AuditIsAnswered
    /\ []<>InPhases => Phases!AllPhasesAccepted
=============================================================================
