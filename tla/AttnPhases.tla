----------------------------- MODULE AttnPhases -----------------------------
(***************************************************************************)
(* The attention phases of one audited response (client/grpc.rs).  Each    *)
(* phase is a transaction; the block some delay after the one that accepts *)
(* it draws the child the next phase opens.  Chain reorgs take back blocks *)
(* that accepted or drew, while replays that build bodies are under way.   *)
(*                                                                         *)
(* A transaction is the path it opens: bodies, and so transaction ids, are *)
(* a function of the draws.  A block is [id, accepts, draw], draw being    *)
(* the child its hash selects.  The first block accepted the response's    *)
(* opening's seed and is never removed here: SoloTraces resets the whole   *)
(* audit then.                                                             *)
(***************************************************************************)
EXTENDS Naturals, Sequences, FiniteSets

CONSTANTS
    Children,      \* what a draw can select
    Depth,         \* draws until a phase has no partials left
    SeedDelay,     \* blocks from acceptance to the draw
    None,
    MaxIdle, MaxReorgs, MaxCut, MaxFailures   \* bounds

VARIABLES
    chain, minted, pool,
    txids,         \* the phases submitted, first to last
    accepted,      \* per phase: the block id that accepted it, or 0
    path, child_blocks,
    opened,        \* the next phase is being built
    dropped, late, \* phases cut by a reorg; the blocks that accepted them since
    replay,        \* [path, live]: the replay under way
    built_phase,   \* a body built for a path that was not current
    left           \* what remains of each bound

phases == <<chain, minted, pool, txids, accepted, path, child_blocks, opened, dropped, late, replay, built_phase, left>>

NoPath == <<None>>
NoReplay == [path |-> NoPath, live |-> FALSE]

(* AttnPhases::new: phase 0 is submitted. *)
Init ==
    /\ chain = << [id |-> 1, accepts |-> {}, draw |-> CHOOSE x \in Children : TRUE] >> /\ minted = 1
    /\ pool = {<< >>}
    /\ txids = << << >> >> /\ accepted = <<0>> /\ path = << >> /\ child_blocks = << >>
    /\ opened = FALSE /\ dropped = {} /\ late = [t \in {} |-> 0]
    /\ replay = NoReplay /\ built_phase = NoPath
    /\ left = [idle |-> MaxIdle, reorgs |-> MaxReorgs, failures |-> MaxFailures]

Last(s) == s[Len(s)]

Position(c, id) == CHOOSE i \in 1..Len(c) : c[i].id = id

OnChain(c, id) == \E i \in 1..Len(c) : c[i].id = id

(* seed_block_after: defined once the chain is long enough. *)
HasSeed(c, id) == OnChain(c, id) /\ Position(c, id) + SeedDelay <= Len(c)
seed_block_after(c, id) == c[Position(c, id) + SeedDelay]

(* awaiting_draw: the last phase has partials and is accepted. *)
awaiting_draw == Len(path) + 1 = Len(txids) /\ Len(path) < Depth /\ Last(accepted) # 0

next_phase_owed == Len(path) = Len(txids)

-----------------------------------------------------------------------------
(* What the miner does with a chain notification. *)

(* The phases left by on_removed, as a record. *)
Cut(gone) ==
    LET hit == {i \in 1..Len(accepted) : accepted[i] \in gone}
        miss == {i \in 1..Len(child_blocks) : child_blocks[i] \in gone}
        cut == CHOOSE i \in hit \cup miss : \A j \in hit \cup miss : i <= j
    IN  IF hit \cup miss = {}
        THEN [txids |-> txids, accepted |-> accepted, path |-> path, child_blocks |-> child_blocks,
              dropped |-> {}, opened |-> opened]
        ELSE [txids |-> SubSeq(txids, 1, cut),
              accepted |-> IF cut \in hit THEN [SubSeq(accepted, 1, cut) EXCEPT ![cut] = 0] ELSE SubSeq(accepted, 1, cut),
              path |-> SubSeq(path, 1, cut - 1), child_blocks |-> SubSeq(child_blocks, 1, cut - 1),
              dropped |-> {txids[i] : i \in cut + 1..Len(txids)}, opened |-> FALSE]

on_removed(gone) == Cut(gone)

(* note_phase_acceptances: the last phase if it is not accepted yet, and   *)
(* any phase a reorg has cut.                                              *)
Noted(a, block) ==
    IF Last(a.txids) \in block.accepts /\ Last(a.accepted) = 0
    THEN [a.accepted EXCEPT ![Len(a.accepted)] = block.id] ELSE a.accepted

note_phase_acceptances(a, all_dropped, block, kept) ==
    LET others == IF Last(a.txids) \in block.accepts /\ Last(a.accepted) = 0
                  THEN (block.accepts \cap all_dropped) \ {Last(a.txids)} ELSE block.accepts \cap all_dropped
    IN  [t \in DOMAIN kept \cup others |-> IF t \in others THEN block.id ELSE kept[t]]

Block(accepts, draw) == [id |-> minted + 1, accepts |-> accepts, draw |-> draw]

(* on_virtual_chain_changed: blocks removed first, then the new one. *)
Sees(gone, block) ==
    LET a == on_removed(gone)
        kept == [t \in {u \in DOMAIN late : late[u] \notin gone} |-> late[t]] IN
    /\ txids' = a.txids /\ path' = a.path /\ child_blocks' = a.child_blocks /\ opened' = a.opened
    /\ dropped' = dropped \cup a.dropped
    /\ accepted' = Noted(a, block)
    /\ late' = note_phase_acceptances(a, dropped \cup a.dropped, block, kept)
    /\ UNCHANGED <<replay, built_phase>>

(* The chain grows: with a transaction to accept, with a draw awaited, or  *)
(* otherwise while the bound lasts.                                        *)
Wanted == pool # {} \/ \E i \in 1..Len(accepted) : accepted[i] # 0 /\ ~HasSeed(chain, accepted[i])

Extend(takes, draw) ==
    /\ Wanted \/ left.idle > 0
    /\ takes \/ (left.idle > 0 /\ pool # {})
    /\ LET block == Block(IF takes THEN pool ELSE {}, draw) IN
       /\ chain' = Append(chain, block) /\ minted' = minted + 1
       /\ pool' = pool \ block.accepts
       /\ Sees({}, block)
    /\ left' = IF Wanted /\ takes THEN left ELSE [left EXCEPT !.idle = @ - 1]

Reorg(n, takes, draw) ==
    /\ left.reorgs > 0 /\ n < Len(chain)
    /\ LET base == SubSeq(chain, 1, Len(chain) - n)
           cut == {chain[i] : i \in Len(chain) - n + 1..Len(chain)}
           back == pool \cup UNION {b.accepts : b \in cut}
           block == Block(IF takes THEN back ELSE {}, draw) IN
       /\ chain' = Append(base, block) /\ minted' = minted + 1
       /\ pool' = back \ block.accepts
       /\ Sees({b.id : b \in cut}, block)
    /\ left' = [left EXCEPT !.reorgs = @ - 1]

-----------------------------------------------------------------------------
(* The draw of the next child, in resolve_traces. *)
resolve_traces ==
    /\ awaiting_draw /\ HasSeed(chain, Last(accepted))
    /\ LET b == seed_block_after(chain, Last(accepted)) IN
       /\ path' = Append(path, b.draw) /\ child_blocks' = Append(child_blocks, b.id)
    /\ opened' = FALSE
    /\ UNCHANGED <<chain, minted, pool, txids, accepted, dropped, late, replay, built_phase, left>>

(* The phase is signed and sent.  The node refuses one already accepted.   *)
Submit(p) ==
    /\ txids' = Append(txids, p)
    /\ accepted' = Append(accepted, IF p \in DOMAIN late THEN late[p] ELSE 0)
    /\ late' = [t \in DOMAIN late \ {p} |-> late[t]]
    /\ pool' = IF \E i \in 1..Len(chain) : p \in chain[i].accepts THEN pool ELSE pool \cup {p}

(* start_replay: a body kept from an earlier draw, or a new replay. *)
start_replay ==
    /\ ~replay.live /\ next_phase_owed /\ ~opened
    /\ opened' = TRUE
    /\ IF built_phase = path
       THEN /\ Submit(path) /\ built_phase' = NoPath /\ UNCHANGED replay
       ELSE /\ replay' = [path |-> path, live |-> TRUE]
            /\ UNCHANGED <<pool, txids, accepted, late, built_phase>>
    /\ UNCHANGED <<chain, minted, path, child_blocks, dropped, left>>

(* on_attention_phase_built: sent if its path is still the drawn one, else *)
(* kept; a failed one is tried again.                                      *)
on_attention_phase_built(ok) ==
    /\ replay.live /\ replay' = NoReplay
    /\ IF next_phase_owed /\ replay.path = path
       THEN IF ok THEN Submit(path) /\ UNCHANGED <<opened, built_phase, left>>
            ELSE /\ left.failures > 0 /\ left' = [left EXCEPT !.failures = @ - 1]
                 /\ opened' = FALSE /\ UNCHANGED <<pool, txids, accepted, late, built_phase>>
       ELSE /\ ok /\ built_phase' = replay.path /\ UNCHANGED <<pool, txids, accepted, late, opened, left>>
    /\ UNCHANGED <<chain, minted, path, child_blocks, dropped>>

MinerStep == resolve_traces \/ start_replay \/ \E ok \in BOOLEAN : on_attention_phase_built(ok)

Grow == \E takes \in BOOLEAN, draw \in Children : Extend(takes, draw)

Next ==
    \/ MinerStep \/ Grow
    \/ \E n \in 1..MaxCut, takes \in BOOLEAN, draw \in Children : Reorg(n, takes, draw)

(* The miner's timer runs its steps, a replay ends, and blocks are found   *)
(* that take what waits.                                                   *)
Fairness ==
    /\ WF_phases(resolve_traces) /\ WF_phases(start_replay)
    /\ WF_phases(\E ok \in BOOLEAN : on_attention_phase_built(ok))
    /\ WF_phases(Grow)

Spec == Init /\ [][Next]_phases
FairSpec == Spec /\ Fairness

-----------------------------------------------------------------------------
(* The miner's books are the chain's, after any reorgs: every phase it     *)
(* holds as accepted is accepted by that block of the current chain, and   *)
(* every child it follows is the one drawn by the block the delay after    *)
(* (on_removed, note_phase_acceptances, resolve_traces).                   *)
PathIsTheChains ==
    /\ \A i \in 1..Len(accepted) : accepted[i] # 0 =>
        OnChain(chain, accepted[i]) /\ txids[i] \in chain[Position(chain, accepted[i])].accepts
    /\ \A i \in 1..Len(path) :
        /\ accepted[i] # 0 /\ HasSeed(chain, accepted[i])
        /\ seed_block_after(chain, accepted[i]).id = child_blocks[i]
        /\ seed_block_after(chain, accepted[i]).draw = path[i]
    /\ \A i \in 1..Len(txids) : txids[i] = SubSeq(path, 1, i - 1)

(* Once the reorgs end every phase is answered: the last one is accepted.  *)
(* A phase that a reorg cut and that was accepted again meanwhile, while   *)
(* it was not the miner's last, must not be waited for (late, dropped).    *)
AllPhasesAccepted == <>[](Len(txids) = Depth + 1 /\ Last(accepted) # 0)
=============================================================================
