----------------------------- MODULE SoloTraces -----------------------------
(***************************************************************************)
(* The audit of one traced response of a solo miner: client/grpc.rs keeps  *)
(* a log of the node's virtual chain, finds the chain block that accepted  *)
(* the response, draws the seed block behind it, replays the trace for     *)
(* that seed and submits the opening.  The chain reorganises, block and    *)
(* chain answers fail, the connection is lost and the process is killed;   *)
(* trace_store.rs keeps what a restart needs.  Every response is audited   *)
(* (audit_all_active) and no deadline passes; the later phases of an audit *)
(* are module AttnPhases.                                                  *)
(***************************************************************************)
EXTENDS Integers, FiniteSets, SequencesExt

CONSTANTS
    None,           \* no block
    Response,       \* the response's transaction
    SeedDelay,      \* TRACE_SEED_DELAY_DAA
    Page,           \* CHAIN_RESTORE_PAGE_MIN, and what the node answers at most
    Inflight,       \* CHAIN_RESTORE_INFLIGHT
    UnanchoredToo,  \* the response may be signed before any chain block is logged
    MaxHeight,      \* bound: height of the chain
    MaxDepth,       \* bound: depth of a reorganisation
    MaxInbox,       \* bound: chain notifications not handled yet
    MaxReorgs,      \* bound: reorganisations
    MaxFaults       \* bound: reorganisations, lost connections, kills, failed answers and replays

VARIABLES
    chain,      \* the node's selected chain, in order; a block is [h, f]: height, branch
    past,       \* the chains it has abandoned
    accepts,    \* for each block of the chain, what it accepts: the response, seeds of openings
    mempool,    \* the same, waiting to be accepted
    inbox,      \* notifications and answers on their way to the client, in order
    k,          \* the client: the handler's fields, and the store's queued writes
    disk,       \* the record of the trace store, None if there is none
    faults,     \* how many of them happened
    pulse        \* turned over by every tick in which all timers are due

traces == <<chain, past, accepts, mempool, inbox, k, disk, faults, pulse>>

-----------------------------------------------------------------------------
(* The chain.  A block's DAA score is its height here.                     *)

\* the block of ch that accepts the response
Acceptor(ch) ==
    LET at == {b \in ToSet(ch) : Response \in accepts[b]}
    IN  IF at = {} THEN None ELSE CHOOSE b \in at : TRUE

\* the seed block of the response on ch, as the node computes it
SeedOn(ch) ==
    LET a == Acceptor(ch)
        late == {i \in DOMAIN ch : a # None /\ ch[i].h >= a.h + SeedDelay /\ ch[i] # a}
    IN  IF late = {} THEN None ELSE ch[Min(late)]

Opened(ch) == \E b \in ToSet(ch) : accepts[b] \ {Response} # {}

Entry(log, b) == SelectInSeq(log, LAMBDA e : e.b = b)     \* its position, 0 if it has none
Known(log, b) == Entry(log, b) # 0 /\ log[Entry(log, b)].daa

\* seed_block_after
SeedAfter(log, a) ==
    LET stop == {i \in DOMAIN log : /\ i > Entry(log, a)
                                    /\ ~log[i].daa \/ log[i].b.h >= a.h + SeedDelay}
    IN  IF ~Known(log, a) \/ stop = {} \/ ~log[Min(stop)].daa THEN None
        ELSE log[Min(stop)].b

\* variant: blocks already logged stay where they are
PlaceChainAfterKept(log, start, added) ==
    LET fresh == SelectSeq(added, LAMBDA b : Entry(log, b) = 0)
        p == IF Entry(log, start) = 0 THEN Len(log) ELSE Entry(log, start)
    IN  SubSeq(log, 1, p) \o [i \in DOMAIN fresh |-> [b |-> fresh[i], daa |-> FALSE]]
                          \o SubSeq(log, p + 1, Len(log))

\* place_chain_after
PlaceChainAfter(log, start, added) ==
    LET kept == SelectSeq(log, LAMBDA e : e.b \notin ToSet(added))
        p == IF Entry(kept, start) = 0 THEN Len(kept) ELSE Entry(kept, start)
        new == [i \in DOMAIN added |-> [b |-> added[i], daa |-> Known(log, added[i])]]
    IN  SubSeq(kept, 1, p) \o new \o SubSeq(kept, p + 1, Len(kept))

-----------------------------------------------------------------------------
(* The trace and its record.                                               *)

\* the trace of a response just signed: PendingTrace
NewTrace(anchor) ==
    [accepted |-> None, anchor |-> anchor, draw |-> None, opened |-> FALSE,
     opening |-> None, built |-> {}]

\* trace_record: what the store keeps of it
Record(t) == [accepted |-> t.accepted, anchor |-> t.anchor, opening |-> t.opening]

\* persist_trace
Persist(c) == IF c.trace = None THEN c ELSE [c EXCEPT !.wq = Append(@, Record(c.trace))]

\* a handler as it connects: what the process parked, and restore_traces
Handler(resp, replay, stored) ==
    [up |-> TRUE, registered |-> FALSE, resp |-> resp, replay |-> replay,
     trace |-> IF stored = None THEN None
               ELSE [NewTrace(stored.anchor) EXCEPT !.accepted = stored.accepted,
                                                    !.opening = stored.opening],
     inflight |-> IF stored = None \/ stored.opening = None THEN {} ELSE {stored.opening},
     log |-> <<>>, starts |-> <<>>, cont |-> {}, failed |-> {}, retry |-> {},
     queue |-> <<>>, pending |-> {}, asked |-> <<>>, again |-> {},
     wq |-> <<>>]

Genesis == [h |-> 1, f |-> 0]

Init ==
    /\ chain = <<Genesis>> /\ past = {}
    /\ accepts = [b \in {Genesis} |-> {}]
    /\ mempool = {} /\ inbox = <<>>
    /\ k = [Handler("none", None, None) EXCEPT
              !.registered = TRUE, !.log = <<[b |-> Genesis, daa |-> TRUE]>>]
    /\ disk = None
    /\ faults = 0 /\ pulse = FALSE

-----------------------------------------------------------------------------
(* What the handler does with its fields.  Each operator maps the client   *)
(* c to the client after the call.                                         *)

RestoreNeeded(c) == c.trace # None /\ c.trace.accepted # None /\ c.trace.draw = None

\* the GetBlock requests not answered yet, in order
Ask(asked, bs) == asked \o SelectSeq(bs, LAMBDA b : b \notin ToSet(asked))

\* chain_restore_pump: GetBlock for the blocks of a rebuilt chain, few at a time
Pump(c) ==
    IF ~RestoreNeeded(c) THEN [c EXCEPT !.queue = <<>>]
    ELSE FoldLeft(LAMBDA d, b : IF Cardinality(d.pending) >= Inflight
                                THEN [d EXCEPT !.queue = Append(@, b)]
                                ELSE [d EXCEPT !.pending = @ \union {b}, !.asked = Ask(@, <<b>>)],
                  [c EXCEPT !.queue = <<>>], c.queue)

\* rebuild_pending_after
RebuildPendingAfter(c, a) ==
    /\ Entry(c.log, a) # 0
    /\ \E i \in DOMAIN c.log : /\ i >= Entry(c.log, a)
                               /\ c.log[i].b \in c.failed \union c.cont \union c.retry

\* resolve_traces: a stored opening keeps its seed while that is on the chain
Resolve(c) ==
    LET t == c.trace IN
    IF ~RestoreNeeded(c) \/ t.accepted \in ToSet(c.starts) \/ RebuildPendingAfter(c, t.accepted)
    THEN c
    ELSE LET s == IF t.opening # None /\ Known(c.log, t.opening) /\ Known(c.log, t.accepted)
                  THEN t.opening ELSE SeedAfter(c.log, t.accepted)
         IN  IF s = None THEN c
             ELSE [c EXCEPT !.trace = [t EXCEPT !.draw = s, !.opened = t.opening = s]]

\* on_chain_blocks_removed
Removed(c, gone) ==
    LET d == [c EXCEPT !.log = SelectSeq(@, LAMBDA e : e.b \notin gone)]
        t == d.trace
    IN  IF t # None /\ (t.accepted \in gone \/ t.draw \in gone)
        THEN Persist([d EXCEPT
               !.trace = [t EXCEPT !.accepted = IF @ \in gone THEN None ELSE @,
                                   !.draw = None, !.opened = FALSE, !.opening = None],
               !.inflight = {}])
        ELSE d

\* acceptances of the response and of its openings by the blocks of bs
Noted(c, acc) ==
    LET d == [c EXCEPT !.inflight = @ \ UNION {acc[b] : b \in DOMAIN acc}]
        at == {b \in DOMAIN acc : Response \in acc[b]}
    IN  IF d.trace # None /\ d.trace.accepted = None /\ at # {}
        THEN Persist([d EXCEPT !.trace.accepted = CHOOSE b \in at : TRUE])
        ELSE d

\* on_virtual_chain_changed, and the GetBlock of every added block
ChainChanged(c, m) ==
    LET r == Removed(c, m.removed)
        fresh == SelectSeq(m.added, LAMBDA b : Entry(r.log, b) = 0)
        l == r.log \o [i \in DOMAIN fresh |-> [b |-> fresh[i], daa |-> FALSE]]
    IN  Noted([r EXCEPT !.log = l, !.asked = Ask(@, m.added)], m.accepts)

\* the answer of the node to a chain request, for the start in front
ChainRestored(c, m) ==
    LET start == Head(c.starts)
        last == IF Len(m.added) >= Page THEN {Last(m.added)} ELSE {}
        popped == [c EXCEPT !.starts = IF last = {} THEN Tail(@) ELSE <<Last(m.added)>> \o Tail(@)]
        gone == IF m.error
                THEN [c EXCEPT !.starts = Tail(@), !.failed = @ \union {start},
                               !.retry = @ \union {start}]
                ELSE LET r == Removed([popped EXCEPT !.failed = @ \ {start},
                                                     !.cont = (@ \ {start}) \union last], m.removed)
                         l == PlaceChainAfter(r.log, start, m.added)
                     IN  Noted([r EXCEPT !.log = l,
                                         !.queue = @ \o SelectSeq(m.added, LAMBDA b : ~Known(l, b))],
                               m.accepts)
    IN  Pump(Resolve(gone))

\* variant: only an accepted response is looked for on the chain
RegisteredAccepted(c) ==
    LET start == IF c.trace = None THEN None ELSE c.trace.accepted
        add == IF start = None THEN <<>> ELSE <<start>>
        new == SelectSeq(add, LAMBDA b : Entry(c.log, b) = 0)
    IN  Pump([c EXCEPT !.registered = TRUE, !.starts = add,
                       !.log = @ \o [i \in DOMAIN new |-> [b |-> new[i], daa |-> FALSE]],
                       !.queue = @ \o new])

\* start_chain_restore, once the notifications are registered
Registered(c) ==
    LET start == IF c.trace = None \/ c.trace.draw # None THEN None
                 ELSE IF c.trace.accepted # None THEN c.trace.accepted ELSE c.trace.anchor
        add == IF start = None THEN <<>> ELSE <<start>>
        new == SelectSeq(add, LAMBDA b : Entry(c.log, b) = 0)
    IN  Pump([c EXCEPT !.registered = TRUE, !.starts = add,
                       !.log = @ \o [i \in DOMAIN new |-> [b |-> new[i], daa |-> FALSE]],
                       !.queue = @ \o new])

\* GetBlockResponse: note_chain_block, resolve_traces, chain_restore_pump
BlockKnown(c, b) ==
    LET l == [i \in DOMAIN c.log |-> [c.log[i] EXCEPT !.daa = @ \/ c.log[i].b = b]]
        d == Resolve([c EXCEPT !.log = l, !.asked = Tail(@)])
    IN  IF b \in d.pending THEN Pump([d EXCEPT !.pending = @ \ {b}]) ELSE d

\* the error of a GetBlock: asked again later if the log still misses it
BlockFailed(c, b) ==
    LET d == [c EXCEPT !.asked = Tail(@),
                       !.again = IF Entry(c.log, b) # 0 /\ ~Known(c.log, b) THEN @ \union {b} ELSE @]
    IN  IF b \in d.pending THEN Pump([d EXCEPT !.pending = @ \ {b}]) ELSE d

\* apply_awaited_openings: the node awaits the opening of seed s (None: it awaits none)
Awaited(c, s) ==
    LET t == c.trace
        idle == c.inflight = {} /\ c.replay = None
        kept == t.opening = s
    IN  IF s = None \/ t = None THEN c
        ELSE IF t.draw # s
             THEN IF Entry(c.log, s) = 0 THEN c
                  ELSE Persist([c EXCEPT
                         !.trace = [t EXCEPT !.draw = s, !.opened = kept,
                                             !.opening = IF kept THEN @ ELSE None],
                         !.inflight = IF kept THEN @ ELSE {}])
             ELSE IF t.opened /\ idle
                  THEN IF kept THEN [c EXCEPT !.inflight = {s}]
                       ELSE Persist([c EXCEPT !.trace.opened = FALSE])
                  ELSE c

\* submit_opening; the transactions reach the node with the next retry
Submit(c, s) ==
    Persist([c EXCEPT !.trace.opened = TRUE, !.trace.opening = s, !.inflight = @ \union {s}])

\* poll_replay
PollReplay(c) ==
    LET s == c.replay.seed
        d == [c EXCEPT !.replay = None]
    IN  IF c.replay = None \/ c.replay.st = "running" THEN c
        ELSE IF d.trace = None THEN d
        ELSE IF c.replay.st = "built"
             THEN LET e == [d EXCEPT !.trace.built = @ \union {s}]
                  IN  IF d.trace.draw = s THEN Submit(e, s) ELSE e
             ELSE IF d.trace.draw = s THEN [d EXCEPT !.trace.opened = FALSE] ELSE d

\* try_start_replay; that a request goes first only delays it
TryStartReplay(c) ==
    LET owed(d) == d.trace # None /\ d.trace.draw # None /\ ~d.trace.opened
        e == IF owed(c) /\ c.trace.draw \in c.trace.built THEN Submit(c, c.trace.draw) ELSE c
    IN  IF e.replay = None /\ owed(e)
        THEN [e EXCEPT !.trace.opened = TRUE, !.replay = [seed |-> e.trace.draw, st |-> "running"]]
        ELSE e

\* release_persisted_responses
Release(c) == IF c.resp = "persisting" THEN [c EXCEPT !.resp = "sent"] ELSE c

\* retry_chain_restores: a start still wanted is asked for again
RetryRestores(c) ==
    LET wanted(b) == \/ RestoreNeeded(c) /\ b \in c.cont
                     \/ c.trace # None /\ b = IF c.trace.accepted # None THEN c.trace.accepted
                                              ELSE c.trace.anchor
    IN  [c EXCEPT !.retry = {},
                  !.starts = @ \o SetToSeq({b \in c.retry : wanted(b)}),
                  !.failed = @ \ {b \in c.retry : ~wanted(b)},
                  !.cont = @ \ {b \in c.retry : ~wanted(b)}]

\* retry_chain_blocks
RetryBlocks(c) ==
    LET still == {b \in c.again : Entry(c.log, b) # 0 /\ ~Known(c.log, b)}
    IN  [c EXCEPT !.again = still, !.asked = Ask(@, SetToSeq(still))]

\* trace_tick: the replay is polled, then whatever is due by now, in this order
TraceTick(c, due) ==
    LET a == PollReplay(c)
        b == Release(a)
        d == IF due THEN RetryBlocks(RetryRestores(b)) ELSE b
    IN  TryStartReplay(d)

-----------------------------------------------------------------------------
(* The node (external).                                                    *)

\* what block b may accept of the mempool when it extends ch
Acceptable(ch, pool) == {x \in pool : x = Response \/ (x = SeedOn(ch) /\ ~Opened(ch))}

Room == Cardinality({i \in DOMAIN inbox : inbox[i].t = "chain"}) < MaxInbox
Notify(m) == inbox' = IF k.up THEN Append(inbox, m) ELSE inbox

\* a block extends the chain
Mined ==
    /\ Len(chain) < MaxHeight /\ Room
    /\ LET b == [h |-> Len(chain) + 1, f |-> Cardinality(past)]
       IN  \E x \in SUBSET Acceptable(chain, mempool) :
             /\ chain' = Append(chain, b)
             /\ accepts' = accepts @@ (b :> x)
             /\ mempool' = mempool \ x
             /\ Notify([t |-> "chain", added |-> <<b>>, removed |-> {}, accepts |-> (b :> x)])
    /\ UNCHANGED <<past, k, disk, faults, pulse>>

\* the last n blocks are replaced by n others; a response they accepted is back
\* in the mempool, an opening is dropped
Reorged ==
    /\ faults < MaxFaults /\ Cardinality(past) < MaxReorgs /\ Room
    /\ \E n \in 1..Min({MaxDepth, Len(chain) - 1}) :
         LET base == SubSeq(chain, 1, Len(chain) - n)
             gone == ToSet(chain) \ ToSet(base)
             new == [i \in 1..n |-> [h |-> Len(base) + i, f |-> Cardinality(past) + 1]]
             pool == (mempool \ gone) \union (UNION {accepts[b] : b \in gone} \intersect {Response})
         IN  \E x \in SUBSET (pool \intersect {Response}) :
               LET acc == [b \in ToSet(new) |-> IF b = new[1] THEN x ELSE {}]
               IN  /\ chain' = base \o new
                   /\ past' = past \union {chain}
                   /\ accepts' = Restrict(accepts, ToSet(base)) @@ acc
                   /\ mempool' = pool \ x
                   /\ Notify([t |-> "chain", added |-> new, removed |-> gone, accepts |-> acc])
    /\ faults' = faults + 1
    /\ UNCHANGED <<k, disk, pulse>>

\* the blocks up to b on the chain b was on, and those of them abandoned since
Abandoned(b) ==
    LET ch == CHOOSE c \in past \union {chain} : b \in ToSet(c)
    IN  {x \in ToSet(ch) : x.h <= b.h /\ x \notin ToSet(chain)}

Unanswered == \A i \in DOMAIN inbox : inbox[i].t # "restored"

\* GetVirtualSelectedParentChainFromBlock for the start in front
AnswersChain ==
    /\ k.up /\ k.starts # <<>> /\ Unanswered
    /\ \E error \in BOOLEAN :
         LET start == Head(k.starts)
             gone == Abandoned(start)
             from == {i \in DOMAIN chain : chain[i].h > start.h - Cardinality(gone)}
             rest == IF from = {} THEN <<>> ELSE SubSeq(chain, Min(from), Len(chain))
             page == SubSeq(rest, 1, Min({Page, Len(rest)}))
         IN  /\ error => faults < MaxFaults
             /\ faults' = faults + IF error THEN 1 ELSE 0
             /\ inbox' = Append(inbox, [t |-> "restored", error |-> error, added |-> page,
                                        removed |-> gone,
                                        accepts |-> [b \in ToSet(page) |-> accepts[b]]])
    /\ UNCHANGED <<chain, past, accepts, mempool, k, disk, pulse>>

\* GetAwaitedOpenings, asked by poll_awaited_openings and answered at once
AnswersAwaited ==
    IF k.trace = None \/ k.trace.accepted = None \/ \E i \in DOMAIN inbox : inbox[i].t = "awaited"
    THEN inbox
    ELSE Append(inbox, [t |-> "awaited", seed |-> IF Opened(chain) THEN None ELSE SeedOn(chain)])

-----------------------------------------------------------------------------
(* The client.                                                             *)

\* poll_inference: the response is signed, its trace queued for the disk;
\* its anchor is the last block logged, if this connection has logged one
Answers ==
    /\ k.up /\ k.resp = "none" /\ (UnanchoredToo \/ k.log # <<>>)
    /\ k' = Persist([k EXCEPT !.resp = "persisting",
                              !.trace = NewTrace(IF k.log = <<>> THEN None ELSE Last(k.log).b)])
    /\ UNCHANGED <<chain, past, accepts, mempool, inbox, disk, faults, pulse>>

\* handle_message of a notification or of an answer
Handles ==
    /\ k.up /\ inbox # <<>>
    /\ LET m == Head(inbox)
       IN  k' = CASE m.t = "chain" -> ChainChanged(k, m)
                  [] m.t = "restored" -> ChainRestored(k, m)
                  [] m.t = "awaited" -> Awaited(k, m.seed)
    /\ inbox' = Tail(inbox)
    /\ UNCHANGED <<chain, past, accepts, mempool, disk, faults, pulse>>

Registers ==
    /\ k.up /\ ~k.registered
    /\ k' = Registered(k)
    /\ UNCHANGED <<chain, past, accepts, mempool, inbox, disk, faults, pulse>>

\* the answer to a GetBlock
BlockArrives ==
    /\ k.up /\ k.asked # <<>>
    /\ \/ k' = BlockKnown(k, Head(k.asked)) /\ UNCHANGED faults
       \/ /\ faults < MaxFaults
          /\ k' = BlockFailed(k, Head(k.asked))
          /\ faults' = faults + 1
    /\ UNCHANGED <<chain, past, accepts, mempool, inbox, disk, pulse>>

\* the 200 ms tick: the writes queued before it are done by then; what it sends
\* reaches the mempool if the node takes it, an opening only of the seed it
\* awaits, a response once
Ticks(due) ==
    /\ k.up
    /\ k' = TraceTick([k EXCEPT !.wq = <<>>], due)
    /\ disk' = IF k.wq = <<>> THEN disk ELSE Last(k.wq)
    /\ mempool' = mempool
         \union {s \in IF due THEN k'.inflight ELSE k'.inflight \ k.inflight :
                   s = SeedOn(chain) /\ ~Opened(chain)}
         \union (IF k'.resp = "sent" /\ (due \/ k.resp = "persisting") /\ Acceptor(chain) = None
                 THEN {Response} ELSE {})
    /\ inbox' = IF due THEN AnswersAwaited ELSE inbox
    /\ pulse' = (pulse # due)
    /\ UNCHANGED <<chain, past, accepts, faults>>

Running == k.replay # None /\ k.replay.st = "running"

\* the blocking task of the replay ends
ReplayEnds(st) ==
    /\ Running
    /\ st = "failed" => faults < MaxFaults
    /\ k' = [k EXCEPT !.replay.st = st]
    /\ faults' = faults + IF st = "failed" THEN 1 ELSE 0
    /\ UNCHANGED <<chain, past, accepts, mempool, inbox, disk, pulse>>

\* the connection is lost: Drop flushes the store and parks the rest
Disconnects ==
    /\ k.up /\ faults < MaxFaults
    /\ disk' = IF k.wq = <<>> THEN disk ELSE Last(k.wq)
    /\ k' = [Handler(k.resp, k.replay, None) EXCEPT !.up = FALSE]
    /\ inbox' = <<>>
    /\ faults' = faults + 1
    /\ UNCHANGED <<chain, past, accepts, mempool, pulse>>

\* the process is killed: of the queued writes, the first n are on disk
Killed ==
    /\ k.up /\ faults < MaxFaults
    /\ \E n \in 0..Len(k.wq) : disk' = IF n = 0 THEN disk ELSE k.wq[n]
    /\ k' = [Handler(IF k.resp = "none" THEN "none" ELSE "gone", None, None) EXCEPT !.up = FALSE]
    /\ inbox' = <<>>
    /\ faults' = faults + 1
    /\ UNCHANGED <<chain, past, accepts, mempool, pulse>>

Connects ==
    /\ ~k.up
    /\ k' = Handler(k.resp, k.replay, disk)
    /\ UNCHANGED <<chain, past, accepts, mempool, inbox, disk, faults, pulse>>

Next ==
    \/ Mined \/ Reorged \/ AnswersChain
    \/ Answers \/ Handles \/ Registers
    \/ BlockArrives
    \/ \E due \in BOOLEAN : Ticks(due)
    \/ \E st \in {"built", "failed"} : ReplayEnds(st)
    \/ Disconnects \/ Killed \/ Connects

Spec == Init /\ [][Next]_traces

\* The connection comes back and registers, the event loop handles what it is
\* sent, the node answers the questions where the chain stands, and timers keep
\* falling due (the two halves of `pulse'); of block requests that keep being
\* sent some are answered, and a replay that keeps being started succeeds.  Each
\* conjunct is the fairness of one action, stated by what the action does.
Fairness ==
    /\ []<>k.up /\ []<>(k.up => k.registered)
    /\ []<>(inbox = <<>>)
    /\ []<>~(k.up /\ k.starts # <<>> /\ Unanswered)
    /\ []<>pulse /\ []<>~pulse
    /\ []<>(k.up /\ k.asked # <<>>)
         => []<><<k.asked # <<>> /\ (k'.asked = <<>> \/ Head(k'.asked) # Head(k.asked))>>_traces
    /\ []<>Running => []<><<Running /\ k'.replay # None /\ k'.replay.st = "built">>_traces

FairSpec == Spec /\ Fairness

-----------------------------------------------------------------------------
(* Properties.                                                             *)

\* Once the client has handled every notification sent to it, the seed block it
\* has drawn for the response is the one the node computes on its chain:
\* reorganisations, failed block answers, and a chain rebuilt page by page
\* among live notifications never shift the draw.
DrawIsTheNodes ==
    inbox = <<>> /\ k.trace # None /\ k.trace.draw # None => k.trace.draw = SeedOn(chain)

\* A response the network can see has its trace on disk: release_persisted_responses
\* sends it only once the store has written it.
SentIsOnDisk ==
    (Response \in mempool \/ Acceptor(chain) # None) => disk # None

\* An audit is answered: as long as the response has a seed block, an opening built
\* for that seed is in the mempool or on the chain again and again, so for good
\* once the chain settles, whatever reorganisation, lost connection or restart
\* came before.
AuditIsAnswered ==
    []<>(SeedOn(chain) = None \/ SeedOn(chain) \in mempool \/ Opened(chain))
=============================================================================
