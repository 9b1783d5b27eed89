--------------------------- MODULE EscrowWatcher ----------------------------
(***************************************************************************)
(* The escrow watcher (escrow.rs) and the part of the gRPC handler that    *)
(* feeds it (client/grpc.rs): outputs are tracked from chain blocks and    *)
(* from answered AiRequests, claimed in batches, and repaired by bisection *)
(* when the node rejects a batch.  A claim is known by its inputs in       *)
(* order: the same inputs give the same txid.                              *)
(*                                                                         *)
(* The node is external: it extends and retracts its selected chain, takes *)
(* or rejects claims, and its answers may be late or never arrive.  A lost *)
(* connection makes a new watcher from the state file.                     *)
(*                                                                         *)
(* First, the entries as data: what one entry records, how time and a      *)
(* node's answer change it, and which entries the next claim spends        *)
(* (select_claim_batch).                                                   *)
(*                                                                         *)
(* Scores are kept relative to the score of the last block seen: age is    *)
(* how far that score is past confirm_daa, capAge how far past             *)
(* cap_set_daa, and rest how far it is before orphan_retry_after_daa (0    *)
(* when it is None or past).  Each saturates where no comparison of the    *)
(* code tells more apart; only in the dead pool does it matter how long    *)
(* ago a cooldown ended.                                                   *)
(***************************************************************************)
EXTENDS Integers, Sequences, FiniteSets, Functions

CONSTANTS
    Outs,             \* outpoints paying the escrow script
    Inference,        \* those of AiRequests, always of the legacy window
    Bonded,           \* those locked for the service-bond window
    Dust,             \* those whose amounts do not add up to the claim fee
    LegacyLock,       \* CHALLENGE_WINDOW_BLOCKS and the margin of 10
    BondLock,         \* SERVICE_BOND_CSV_WINDOW_BLOCKS and the margin
    MaxBatch,         \* MAX_CLAIM_BATCH = MIN_CLAIM_BATCH
    CapExpiry,        \* CAP_EXPIRY_DAA
    OrphanCooldown,   \* ORPHAN_RETRY_COOLDOWN_BLOCKS
    SeqCooldown,      \* SEQ_LOCK_RETRY_COOLDOWN_BLOCKS
    UnknownBase,      \* UNKNOWN_RETRY_BASE_COOLDOWN_DAA
    UnknownMax,       \* UNKNOWN_RETRY_MAX_COOLDOWN_DAA
    MaxSubmits,       \* where submit_retries saturates
    MaxOrphanRetries  \* MAX_ORPHAN_RETRIES

ASSUME EntriesAssumption ==
    /\ IsFiniteSet(Outs)
    /\ Inference \subseteq Outs /\ Bonded \subseteq Outs /\ Dust \subseteq Outs
    /\ Inference \cap Bonded = {}
    /\ {LegacyLock, BondLock, CapExpiry, OrphanCooldown, SeqCooldown,
        UnknownBase, UnknownMax, MaxSubmits} \subseteq Nat
    /\ MaxBatch \in Nat \ {0}
    /\ MaxOrphanRetries \in Nat \ {0}

CONSTANTS
    Blocks,       \* chain blocks with escrow outputs in their coinbase
    BlockOf,      \* the block of each output that is not an inference escrow
    Phantom,      \* inference escrows whose request never reached the chain
    Reorgs,       \* blocks the selected chain may lose again
    LateReorgs,   \* it may lose them while the miner is connected
    Pruned,       \* blocks the node may have forgotten
    MaxInFlight,  \* MAX_IN_FLIGHT_CLAIMS
    MaxOnWire,    \* bound: claims, and answers, on the wire at once; a claim
                  \* beyond it is lost
    Timeout,      \* CLAIM_RESPONSE_TIMEOUT_DAA
    MaxLosses,    \* bound: answers the connection may lose
    Prompt,       \* answers arrive, or are lost, before the score advances
    Hiccups,      \* the node may reject sound claims for passing reasons
    MaxRestarts,  \* bound: how often the connection is lost
    Flushes,      \* whether a save falls due: {FALSE} where the file does
                  \* not matter because the watcher is never restarted
    CompactEvery, \* COMPACT_EVERY_BLOCKS
    Holds         \* the verdicts on the node's version: TRUE holds claims

ASSUME WatcherAssumption ==
    /\ BlockOf \in [Outs \ Inference -> Blocks]
    /\ Phantom \subseteq Inference
    /\ Reorgs \subseteq Blocks /\ Pruned \subseteq Blocks
    /\ MaxInFlight \in Nat \ {0} /\ Timeout \in Nat /\ MaxOnWire \in Nat \ {0}
    /\ MaxLosses \in Nat /\ Prompt \in BOOLEAN /\ LateReorgs \in BOOLEAN /\ Hiccups \in BOOLEAN
    /\ MaxRestarts \in Nat /\ Holds \subseteq BOOLEAN /\ Flushes \subseteq BOOLEAN
    /\ CompactEvery \in Nat \ {0}

-----------------------------------------------------------------------------
(* The entries as data *)

AtMost(n, bound) == IF n <= bound THEN n ELSE bound
AtLeast(n, bound) == IF n >= bound THEN n ELSE bound

Lock(o) == IF o \in Bonded THEN BondLock ELSE LegacyLock

\* how long after its cooldown an orphaned entry stays in the dead pool
Holdoff(retries) == CapExpiry * 2 ^ AtMost(retries, 10)

Fresh(o) ==
    [out |-> o, claimed |-> FALSE, slashed |-> FALSE, orphan_slashed |-> FALSE,
     orphan_retries |-> 0, rest |-> 0, submit_retries |-> 0,
     batch_cap |-> 0, capAge |-> 0, age |-> 0]

Entries ==
    [out : Outs, claimed : BOOLEAN, slashed : BOOLEAN, orphan_slashed : BOOLEAN,
     orphan_retries : 0 .. MaxOrphanRetries,
     rest : -Holdoff(MaxOrphanRetries) .. AtLeast(AtLeast(OrphanCooldown, SeqCooldown), UnknownMax),
     submit_retries : 0 .. MaxSubmits, batch_cap : 0 .. MaxBatch,
     capAge : 0 .. CapExpiry, age : 0 .. AtLeast(LegacyLock, BondLock)]

Pending(e) == ~e.claimed /\ ~e.slashed

\* the score advances by d; it matters to an entry only while it is pending
Older(e, d) ==
    IF ~Pending(e) THEN e ELSE
    [e EXCEPT !.age = AtMost(@ + d, Lock(e.out)),
              !.rest = AtLeast(@ - d, IF e.orphan_slashed THEN -Holdoff(e.orphan_retries) ELSE 0),
              !.capAge = IF e.batch_cap = 0 THEN 0 ELSE AtMost(@ + d, CapExpiry)]

-----------------------------------------------------------------------------
(* What find_claim forgives, and what on_submit_response records.          *)

Healed(e) ==
    LET uncapped == e.batch_cap # 0 /\ e.capAge >= CapExpiry
        forgiven == e.orphan_slashed /\ e.rest <= -Holdoff(e.orphan_retries)
    IN  [e EXCEPT !.batch_cap = IF uncapped THEN 0 ELSE @,
                  !.capAge = IF uncapped THEN 0 ELSE @,
                  !.orphan_slashed = @ /\ ~forgiven,
                  !.rest = IF forgiven THEN 0 ELSE @]

HalvedCap(n) == AtLeast(n \div 2, 1)

Capped(e, cap) == [e EXCEPT !.batch_cap = cap, !.capAge = 0]

\* an orphan rejection counts against an entry only when it was alone
SoloOrphaned(e) ==
    LET retries == e.orphan_retries + 1
    IN  IF retries >= MaxOrphanRetries
        THEN [e EXCEPT !.orphan_retries = retries, !.orphan_slashed = FALSE,
                       !.slashed = TRUE]
        ELSE [e EXCEPT !.orphan_retries = retries, !.orphan_slashed = TRUE,
                       !.rest = OrphanCooldown]

\* variant: every member of an orphaned batch is charged
AfterOrphanCharged(e, n) == SoloOrphaned(e)

AfterOrphan(e, n) == IF n > 1 THEN Capped(e, HalvedCap(n)) ELSE SoloOrphaned(e)

AfterSeqLock(e) == [e EXCEPT !.rest = SeqCooldown]

AfterUnknown(e, n) ==
    LET tries == AtMost(e.submit_retries + 1, MaxSubmits)
        bisected == IF n > 1 THEN Capped(e, HalvedCap(n)) ELSE e
    IN  [bisected EXCEPT
           !.submit_retries = tries,
           !.rest = AtMost(UnknownBase * 2 ^ AtMost(tries, 9), UnknownMax)]

-----------------------------------------------------------------------------
(* select_claim_batch, over the entries in order.  bond says which       *)
(* window coinbases mint now, flying which outputs a claim already spends. *)

InPass(pass, e, bond) ==
    CASE pass = 0 -> e.batch_cap = 0 /\ ~e.orphan_slashed
      [] pass = 1 -> e.batch_cap # 0 /\ ~e.orphan_slashed
      [] pass = 2 -> /\ e.batch_cap = 0 /\ ~e.orphan_slashed
                     /\ (e.out \in Bonded) # bond
      [] pass = 3 -> e.orphan_slashed

Eligible(e, flying) ==
    Pending(e) /\ e.age >= Lock(e.out) /\ e.rest <= 0 /\ e.out \notin flying

CapOf(e) == IF e.batch_cap = 0 THEN MaxBatch ELSE AtMost(e.batch_cap, MaxBatch)

First(S) == CHOOSE n \in S : \A m \in S : n <= m

\* the members of S in es, in order
Among(es, S) ==
    LET kept[n \in 0 .. Len(es)] ==
          IF n = 0 THEN <<>>
          ELSE IF es[n] \in S THEN Append(kept[n - 1], es[n]) ELSE kept[n - 1]
    IN  kept[Len(es)]

\* the outputs one candidate batch takes: those of one lock, in order, as
\* long as no member's cap is exceeded
Gather(es, locks) ==
    LET Join(acc, e) ==
          LET limit == AtMost(CapOf(e), acc.limit)
          IN  IF Lock(e.out) \in acc.locks /\ Len(acc.batch) + 1 <= limit
              THEN [batch |-> Append(acc.batch, e.out), limit |-> limit,
                    locks |-> {Lock(e.out)}]
              ELSE acc
        taken[n \in 0 .. Len(es)] ==
          IF n = 0 THEN [batch |-> <<>>, limit |-> MaxBatch, locks |-> locks]
          ELSE Join(taken[n - 1], es[n])
    IN  taken[Len(es)].batch

\* the first releasable candidate: a full batch of the window minted now, a
\* full one of the other, then repair, drain and dead pool at any size
SelectClaimBatch(es, bond, flying) ==
    LET ready == Among(es, {e \in Range(es) : Eligible(e, flying)})
        pass == [n \in 0 .. 3 |-> Among(ready, {e \in Range(ready) : InPass(n, e, bond)})]
        inference == {e \in Range(ready) : e.out \in Inference}
        nominal == Among(pass[0], inference) \o Among(pass[0], Range(ready) \ inference)
        minted == IF bond THEN BondLock ELSE LegacyLock
        other == IF bond THEN LegacyLock ELSE BondLock
        candidates == [n \in 1 .. 5 |->
            CASE n = 1 -> Gather(nominal, {minted})
              [] n = 2 -> Gather(nominal, {other})
              [] OTHER -> Gather(pass[n - 2], {minted, other})]
        releasable == {n \in 1 .. 5 : Len(candidates[n]) >= IF n <= 2 THEN MaxBatch ELSE 1}
    IN  IF ready = <<>> \/ releasable = {} THEN <<>> ELSE candidates[First(releasable)]

\* build_claim_tx refuses a batch that cannot pay the fee
Buildable(batch) == \E i \in DOMAIN batch : batch[i] \notin Dust

-----------------------------------------------------------------------------
(* The watcher *)

VARIABLES
    entries,   \* state.entries
    inFlight,  \* in_flight: the claims awaiting an answer and their age
    held,      \* claims_held
    checking,  \* validation_pending
    online,    \* GetInfo was answered and notifications are registered
    bonded,    \* the last score is past the service-bond gate
    blocks_since_compact,
    disk,      \* the state file
    answered,  \* requests this miner has answered
    chain,     \* node: the selected chain
    fetching,  \* chain blocks asked for with GetBlock
    spent,     \* node: outputs our claims have spent
    accepted,  \* node: claims it took
    requests,  \* claims on their way to the node
    replies,   \* answers on their way back
    lost,      \* how many answers the connection has lost
    restarts   \* how often it was lost itself

watcher == <<entries, inFlight, held, checking, online, bonded, disk, answered,
             blocks_since_compact>>
node == <<chain, spent, accepted>>
wire == <<fetching, requests, replies, lost>>
vars == <<watcher, node, wire, restarts>>

Txs == UNION {[1 .. n -> Outs] : n \in 1 .. MaxBatch}
Errors == {"none", "duplicate", "orphan", "seqlock", "other"}
Tracked == {e.out : e \in Range(entries)}
OutsOf(b) == {o \in Outs \ Inference : BlockOf[o] = b}

\* the output is in the node's UTXO set
Live(o) ==
    /\ o \notin spent
    /\ IF o \in Inference THEN o \notin Phantom ELSE BlockOf[o] \in chain

Flying(flights) == UNION {Range(f.tx) : f \in flights}

-----------------------------------------------------------------------------
(* The node.                                                               *)

\* the virtual chain advances; the handler asks for the block in full, if it
\* is there to hear of it
Extend(b) ==
    /\ b \notin chain
    /\ chain' = chain \cup {b}
    /\ fetching' = IF online THEN fetching \cup {b} ELSE fetching
    /\ UNCHANGED <<watcher, spent, accepted, requests, replies, lost, restarts>>

\* a reorganisation; never one deep enough to undo a claim
Retract(b) ==
    /\ b \in chain \cap Reorgs
    /\ LateReorgs \/ ~online
    /\ OutsOf(b) \cap spent = {}
    /\ chain' = chain \ {b}
    /\ UNCHANGED <<watcher, spent, accepted, wire, restarts>>

\* the verdicts the node may give on a claim
Verdicts(tx) ==
    IF tx \in accepted THEN {"duplicate"}
    ELSE IF \E o \in Range(tx) : ~Live(o)
    THEN IF Range(tx) \cap spent # {} THEN {"orphan", "other"} ELSE {"orphan"}
    ELSE {"none"} \cup IF Hiccups THEN {"seqlock", "other"} ELSE {}

NodeAnswers(tx, err) ==
    /\ tx \in requests
    /\ Cardinality(replies) < MaxOnWire
    /\ err \in Verdicts(tx)
    /\ requests' = requests \ {tx}
    /\ replies' = replies \cup {[tx |-> tx, err |-> err]}
    /\ accepted' = IF err = "none" THEN accepted \cup {tx} ELSE accepted
    /\ spent' = IF err = "none" THEN spent \cup Range(tx) ELSE spent
    /\ UNCHANGED <<watcher, chain, fetching, lost, restarts>>

LoseReply(r) ==
    /\ r \in replies
    /\ lost < MaxLosses
    /\ lost' = lost + 1
    /\ replies' = replies \ {r}
    /\ UNCHANGED <<watcher, node, fetching, requests, restarts>>

-----------------------------------------------------------------------------
(* The watcher.                                                            *)

\* maybe_flush: the write is debounced, so a change may or may not reach the
\* file at once
MaybeFlush(flush, es, old) == disk' = IF flush THEN es ELSE old

\* a set in some order
Listing(S) == CHOOSE s \in Injection(1 .. Cardinality(S), S) : TRUE

Map(F(_), es) == [n \in DOMAIN es |-> F(es[n])]

Slashed(e) == [e EXCEPT !.slashed = @ \/ Pending(e)]

\* variant: claims go out while the state is being validated
MayClaimUnchecked(flights) == ~held /\ Cardinality(flights) < MaxInFlight

\* the early returns of find_claim
MayClaim(flights) ==
    /\ ~held
    /\ Cardinality(flights) < MaxInFlight
    /\ checking = {}

\* find_claim ships the batch it selected, unless there is none or it cannot be
\* built
Ships(batch) == batch # <<>> /\ Buildable(batch)

\* variant: a claim whose answer never comes is never given up
ExpireNever(flights) == flights

\* expire_in_flight
Expire(flights) == {f \in flights : f.age < Timeout}

\* what a block d scores later makes of an entry: its coinbase may be undone,
\* and find_claim heals the entries it looks at
Judged(e, d, undone, claiming) ==
    LET aged == Older(e, d)
        judged == IF e.out \in undone THEN Slashed(aged) ELSE aged
    IN  IF claiming THEN Healed(judged) ELSE judged

\* handle_block for a block d scores later, with these reds, whose coinbase
\* pays new
HandleBlock(reds, new, d, gate, flush) ==
    LET compacts == blocks_since_compact + 1 >= CompactEvery
        flights == Expire({[f EXCEPT !.age = AtMost(@ + d, Timeout)] : f \in inFlight})
        kept == IF compacts THEN Among(entries, {e \in Range(entries) : Pending(e)})
                ELSE entries
        fresh == new \ {e.out : e \in Range(kept)}
        undone == UNION {OutsOf(b) : b \in reds}
        claiming == MayClaim(flights)
        tracked == Map(LAMBDA e : Judged(e, d, undone, claiming), kept)
                     \o Map(Fresh, Listing(fresh))
        batch == IF claiming
                 THEN SelectClaimBatch(tracked, gate, Flying(flights)) ELSE <<>>
    IN  /\ bonded' = gate
        /\ entries' = tracked
        /\ blocks_since_compact' = IF compacts THEN 0 ELSE blocks_since_compact + 1
        /\ inFlight' = IF Ships(batch) THEN flights \cup {[tx |-> batch, age |-> 0]} ELSE flights
        /\ requests' = IF Ships(batch) /\ Cardinality(requests) < MaxOnWire
                       THEN requests \cup {batch} ELSE requests
        /\ MaybeFlush(flush, tracked, Map(LAMBDA e : Older(e, d), disk))
        /\ UNCHANGED <<held, checking, online, answered, replies, lost>>

\* the score and the gate it may have passed
Advances(d, gate) ==
    /\ d \in 0 .. 1
    /\ gate \in {bonded, bonded \/ d > 0}
    /\ Prompt /\ d > 0 => requests = {} /\ replies = {}

\* BlockAdded: a block that is not on the chain when it is announced.  Only
\* blocks off the chain are taken to be reported red.
BlockAdded(reds, d, gate, flush) ==
    /\ online
    /\ reds \subseteq Blocks \ chain
    /\ Advances(d, gate)
    /\ HandleBlock(reds, {}, d, gate, flush)
    /\ UNCHANGED <<node, fetching, restarts>>

\* on_block_validated
Validated(b, onChain, flush) ==
    /\ checking' = checking \ {b}
    /\ LET After(e) == IF ~onChain /\ e.out \in OutsOf(b) THEN Slashed(e) ELSE e
       IN  entries' = Map(After, entries)
    /\ MaybeFlush(flush /\ checking' = {}, entries', disk)
    /\ UNCHANGED <<inFlight, held, online, bonded, answered, blocks_since_compact>>

\* a chain block in full: an answer to a pending validation is consumed as
\* such, anything else is scanned, by the node's current verdict on it
GotChainBlock(b, reds, d, gate, flush) ==
    /\ online
    /\ b \in fetching
    /\ fetching' = fetching \ {b}
    /\ IF b \in checking
       THEN Validated(b, b \in chain, flush) /\ UNCHANGED <<requests, replies, lost>>
       ELSE /\ reds \subseteq Blocks \ chain
            /\ Advances(d, gate)
            /\ gate \/ OutsOf(b) \cap Bonded = {}
            /\ HandleBlock(reds, IF b \in chain THEN OutsOf(b) ELSE {}, d, gate, flush)
    /\ UNCHANGED <<node, restarts>>

\* the answer to a validation request: the block, or an error for one the
\* node does not know, which leaves its entries alone
GotValidation(b, flush) ==
    /\ b \in checking
    /\ \E onChain \in BOOLEAN :
          /\ onChain <=> b \in chain \/ (onChain /\ b \in Pruned)
          /\ Validated(b, onChain, flush)
    /\ UNCHANGED <<node, wire, restarts>>

Unvalidated ==
    {BlockOf[e.out] : e \in {f \in Range(entries) : Pending(f) /\ f.out \notin Inference}}

\* GetInfoResponse
GotInfo(old) ==
    /\ ~online
    /\ online' = TRUE
    /\ held' = old
    /\ checking' = Unvalidated
    /\ UNCHANGED <<entries, inFlight, bonded, disk, answered, blocks_since_compact, node, wire, restarts>>

\* poll_inference has answered a request; its reward is locked in the request
TrackInferenceEscrow(o, flush) ==
    /\ online
    /\ o \in Inference \ answered
    /\ answered' = answered \cup {o}
    /\ IF o \in Tracked THEN UNCHANGED <<entries, disk>>
       ELSE /\ entries' = Append(entries, Fresh(o))
            /\ MaybeFlush(flush, entries', disk)
    /\ UNCHANGED <<inFlight, held, checking, online, bonded, blocks_since_compact, node, wire, restarts>>

\* what an answer does to one entry of a claim of n outputs
AfterAnswer(e, err, n) ==
    CASE err \in {"none", "duplicate"} -> [e EXCEPT !.claimed = TRUE]
      [] err = "orphan" -> AfterOrphan(e, n)
      [] err = "seqlock" -> AfterSeqLock(e)
      [] err = "other" -> AfterUnknown(e, n)

\* variant: the answer is taken for the oldest claim in flight
MatchedByPosition(r) ==
    IF inFlight = {} THEN {}
    ELSE {CHOOSE f \in inFlight : \A g \in inFlight : f.age >= g.age}

\* the claim an answer belongs to, by its txid
Matched(r) == {f \in inFlight : f.tx = r.tx}

\* on_submit_response; an answer that matches no claim in flight is not ours
OnSubmitResponse(r, flush) ==
    /\ r \in replies
    /\ replies' = replies \ {r}
    /\ inFlight' = inFlight \ Matched(r)
    /\ IF Matched(r) = {} THEN UNCHANGED <<entries, disk>>
       ELSE LET outs == Flying(Matched(r))
                After(e) == IF e.out \in outs
                            THEN AfterAnswer(e, r.err, Cardinality(outs)) ELSE e
            IN  /\ entries' = Map(After, entries)
                /\ MaybeFlush(flush, entries', disk)
    /\ UNCHANGED <<held, checking, online, bonded, answered, blocks_since_compact,
                   node, fetching, requests, lost, restarts>>

\* The connection or the process is lost: the handler and its watcher are
\* built again from the file.  A file torn by a crash during the write does
\* not parse and is taken for an empty one.
Restart(torn) ==
    /\ online
    /\ restarts < MaxRestarts
    /\ restarts' = restarts + 1
    /\ disk' = IF torn THEN <<>> ELSE disk
    /\ entries' = disk'
    /\ inFlight' = {} /\ requests' = {} /\ replies' = {} /\ fetching' = {}
    /\ held' = FALSE /\ checking' = {} /\ online' = FALSE /\ blocks_since_compact' = 0
    /\ UNCHANGED <<bonded, answered, node, lost>>

-----------------------------------------------------------------------------
Init ==
    /\ entries = <<>> /\ disk = <<>>
    /\ inFlight = {} /\ held = FALSE /\ checking = {} /\ online = FALSE
    /\ bonded = FALSE /\ answered = {} /\ blocks_since_compact = 0
    /\ chain = {} /\ fetching = {} /\ spent = {} /\ accepted = {}
    /\ requests = {} /\ replies = {} /\ lost = 0 /\ restarts = 0

Node ==
    \/ \E b \in Blocks : Extend(b) \/ Retract(b)
    \/ \E tx \in requests, err \in Errors : NodeAnswers(tx, err)
    \/ \E r \in replies : LoseReply(r)

Watcher ==
    \/ \E old \in Holds : GotInfo(old)
    \/ \E reds \in SUBSET Reorgs, d \in 0 .. 1, gate \in BOOLEAN, flush \in Flushes :
          \/ BlockAdded(reds, d, gate, flush)
          \/ \E b \in Blocks : GotChainBlock(b, reds, d, gate, flush)
    \/ \E b \in Blocks, flush \in Flushes : GotValidation(b, flush)
    \/ \E o \in Inference, flush \in Flushes : TrackInferenceEscrow(o, flush)
    \/ \E r \in replies, flush \in Flushes : OnSubmitResponse(r, flush)
    \/ \E torn \in BOOLEAN : Restart(torn)

Next == Node \/ Watcher

Spec == Init /\ [][Next]_vars

\* Blocks keep arriving and the score advances, the node answers what it is
\* asked, and what it sends arrives unless it is lost.
Fairness ==
    /\ WF_vars(\E old \in Holds : GotInfo(old))
    /\ \A b \in Blocks : WF_vars(\E flush \in Flushes : GotValidation(b, flush))
    /\ WF_vars(\E tx \in requests, err \in Errors : NodeAnswers(tx, err))
    /\ WF_vars(\E r \in replies, flush \in Flushes : OnSubmitResponse(r, flush))
    /\ []<><<\E flush \in Flushes : BlockAdded({}, 1, bonded, flush)>>_vars

FairSpec == Spec /\ Fairness

-----------------------------------------------------------------------------
\* Every variable has its type.
TypeOK ==
    /\ Range(entries) \cup Range(disk) \subseteq Entries
    /\ Len(entries) = Cardinality(Tracked)
    /\ inFlight \subseteq [tx : Txs, age : 0 .. Timeout]
    /\ checking \subseteq Blocks
    /\ {held, online, bonded} \subseteq BOOLEAN
    /\ answered \subseteq Inference
    /\ blocks_since_compact \in 0 .. CompactEvery - 1
    /\ chain \subseteq Blocks /\ fetching \subseteq Blocks
    /\ spent \subseteq Outs
    /\ accepted \subseteq Txs /\ requests \subseteq Txs
    /\ replies \subseteq [tx : Txs, err : Errors]
    /\ lost \in 0 .. MaxLosses /\ restarts \in 0 .. MaxRestarts

\* An entry is recorded as claimed only when the node has taken a claim that
\* spends it: no late, repeated or foreign answer marks the wrong entries
\* (the matching by txid in on_submit_response).
ClaimedIsSpent == \A e \in Range(entries) : e.claimed => e.out \in spent

\* An output the node still holds is never put in the dead pool or slashed,
\* whatever dead inputs it was batched with ("a valid entry repeatedly
\* batched with a dead one can never be slashed by association"), however
\* late the answers and however often the watcher is restarted.  For a chain
\* that loses no block.
LiveIsNotWrittenOff ==
    \A e \in Range(entries) : Live(e.out) => ~e.slashed /\ ~e.orphan_slashed

\* When the chain only loses blocks while the miner is away, no claim in
\* flight spends a coinbase that the reorganisation undid: the entries of the
\* file are checked against the node first (start_state_validation, the gate
\* in find_claim).
NoGhostIsClaimed ==
    \A o \in Flying(inFlight) \ Inference : BlockOf[o] \in chain

\* Once coinbases mint the other window, every output of the old one that
\* can pay the fee is spent in the end: it waits for no full batch, no lost
\* answer holds it back, and bisection frees it from any dead input ("it
\* ends").
StrandedOutputsDrain ==
    \A o \in Outs \ (Bonded \cup Dust) :
        (bonded /\ o \in Tracked /\ Live(o)) ~> (o \in spent)

(* For TLC: every coinbase escrow is of the same block. *)
OneBlock == [o \in Outs \ Inference |-> CHOOSE b \in Blocks : TRUE]
=============================================================================
