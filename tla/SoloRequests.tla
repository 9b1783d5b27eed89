---------------------------- MODULE SoloRequests ----------------------------
(***************************************************************************)
(* The inference service of the solo (gRPC) client, client/grpc.rs: the    *)
(* AI requests it observes on chain, queues, runs, answers and resubmits,  *)
(* the replays that compete with them, and what a reconnect keeps.         *)
(*                                                                         *)
(* `m` is the KeryxdHandler.  One handler runs at a time, so an operation  *)
(* is a function from handler to handler and an action applies the whole   *)
(* chain of them one message, or one 200 ms tick, sets off.  Around it run *)
(* the blocking inference tasks, the trace writer and the node.  Whether a *)
(* model is serveable may differ from one call to the next (`ready`).      *)
(* Challenges, template requests and the mining pause are left out.        *)
(***************************************************************************)
EXTENDS Naturals, Sequences, FiniteSets, SequencesExt

CONSTANTS Requests,     \* the AI requests on chain
          Rewarded,     \* those that carry an inference reward
          Kind,         \* what each one asks: see Kinds
          Ranked,       \* those another rig of the same owner is to try first
          QueueCap,     \* AI_REQUEST_QUEUE_CAPACITY
          SeenCap,      \* AI_SEEN_CAPACITY
          MaxAttempts,  \* AI_RESPONSE_MAX_ATTEMPTS
          MaxDrops      \* bound: how many connections are lost

\* In plaintext, in a private envelope this key opens, in one it cannot open,
\* or in one whose model has no audited tier.
Kinds == {"plain", "private", "unreadable", "untraceable"}

ASSUME SoloAssumption == /\ Rewarded \subseteq Requests /\ Ranked \subseteq Requests
                         /\ Kind \in [Requests -> Kinds]
                         /\ QueueCap \in Nat \ {0}
                         /\ SeenCap \in Nat \ {0}
                         /\ MaxAttempts \in Nat \ {0}

VARIABLES m,          \* the handler; what it parks when it is dropped stays here
          accepted,   \* the requests whose answer the node has taken
          drops,      \* connections lost so far
          beat        \* turned by each tick while a request waits, to say that the
                      \* timer keeps firing

vars == <<m, accepted, drops, beat>>

NoJob == [key |-> "none", st |-> "none"]
Verdicts == {"none", "awaited", "closed"}

NewHandler ==
  [queue |-> <<>>, seen |-> <<>>, txids |-> {}, aged |-> {}, siblings |-> FALSE,
   checks |-> [r \in Requests |-> "none"], job |-> NoJob, answered |-> {},
   persisting |-> {}, written |-> {}, responses |-> [r \in Requests |-> 0],
   traces |-> {}, replay |-> NoJob,
   up |-> TRUE, broken |-> FALSE, err |-> FALSE, daa |-> FALSE, polled |-> {}, wire |-> {},
   tracked |-> {}, saved |-> {}, forgotten |-> {}, unsent |-> {}, abandoned |-> {}]

-----------------------------------------------------------------------------
(* The request books.                                                      *)

Pending(k) == ToSet(k.queue) \cup (IF k.job = NoJob THEN {} ELSE {k.job.key})

\* finish_ai_request: the metadata always goes, the replay marker if retryable.
FinishAll(k, done, keepSeen) ==
  [k EXCEPT !.txids = @ \ done,
            !.aged = @ \ done,
            !.checks = [r \in Requests |-> IF r \in done THEN "none" ELSE @[r]],
            !.seen = IF keepSeen THEN @ ELSE SelectSeq(@, LAMBDA r : r \notin done)]

\* The end of an awaited window counts as a verdict that closes.
Closed(k, r) == k.checks[r] = "closed"

Startable(k, r) == ~Closed(k, r) /\ (k.siblings /\ r \in Ranked => r \in k.aged)

\* Mutant: withdrawn requests leave the queue and nothing else.
DropUnawaitedSilently(k) ==
  [k EXCEPT !.queue = SelectSeq(@, LAMBDA r : ~Closed(k, r))]

DropUnawaited(k) ==
  LET gone == {r \in ToSet(k.queue) : Closed(k, r)}
  IN  FinishAll([k EXCEPT !.queue = SelectSeq(@, LAMBDA r : r \notin gone)], gone, TRUE)

\* push_back: a full queue gives up its oldest request.
PushBack(k, r) ==
  IF Len(k.queue) = QueueCap
    THEN [FinishAll(k, {Head(k.queue)}, FALSE) EXCEPT !.queue = Append(Tail(@), r)]
    ELSE [k EXCEPT !.queue = Append(@, r)]

Enqueue(k, r) ==
  LET idle == SelectSeq(k.seen, LAMBDA q : q \notin Pending(k))
      full == Len(k.seen) = SeenCap
      out  == IF full THEN {Head(idle)} ELSE {}
      marked == [k EXCEPT !.seen = Append(SelectSeq(@, LAMBDA q : q \notin out), r),
                          !.txids = @ \ out]
  IN  IF r \in ToSet(k.seen) \/ (full /\ idle = <<>>)
        THEN k
        ELSE PushBack(DropUnawaited(marked), r)

RememberTxid(k, r) ==
  [k EXCEPT !.txids = IF r \in Rewarded \cap Pending(k) THEN @ \cup {r} ELSE @]

\* What a block shows of interest: a request, an answer signed with our key,
\* or nothing.
Transactions == [kind : {"request", "answer", "none"}, r : Requests]

\* Mutant: the reward is noted before the request is queued.
ScanRememberingFirst(k, tx, ready) ==
  LET answered == IF tx.kind = "answer" THEN k.answered \cup {tx.r} ELSE k.answered
      noted == [k EXCEPT !.answered = IF Cardinality(answered) > SeenCap THEN {} ELSE answered]
  IN  IF tx.kind = "request" /\ ready /\ tx.r \notin noted.answered
        THEN Enqueue(RememberTxid(noted, tx.r), tx.r)
        ELSE noted

ScanForRequests(k, tx, ready) ==
  LET answered == IF tx.kind = "answer" THEN k.answered \cup {tx.r} ELSE k.answered
      noted == [k EXCEPT !.answered = IF Cardinality(answered) > SeenCap THEN {} ELSE answered]
  IN  IF tx.kind = "request" /\ ready /\ tx.r \notin noted.answered
        THEN RememberTxid(Enqueue(noted, tx.r), tx.r)
        ELSE noted

-----------------------------------------------------------------------------
(* Running and answering.                                                  *)

Busy(k) == k.job # NoJob \/ k.replay # NoJob

OwnRequest(k) == \E r \in ToSet(k.queue) : Startable(k, r)

\* Takes startable requests off the queue, oldest first, until one can run.
TryStartInference(k0, ready, urgent) ==
  LET k == DropUnawaited(k0)
      forever(r) == r \in k.answered \/ Kind[r] = "untraceable"
      runs(r) == Startable(k, r) /\ ~forever(r) /\ (ready \/ Kind[r] = "unreadable")
      first == SelectInSeq(k.queue, runs)
      ahead == IF first = 0 THEN ToSet(k.queue) ELSE ToSet(SubSeq(k.queue, 1, first - 1))
      tried == {r \in ahead : Startable(k, r)}
      kept == {r \in tried : forever(r)}
      swept == FinishAll(FinishAll(k, kept, TRUE), tried \ kept, FALSE)
      left(out) == SelectSeq(k.queue, LAMBDA r : r \notin out)
      started(r) == [swept EXCEPT
                       !.queue = left(tried \cup {r}), !.checks[r] = "none", !.aged = @ \ {r},
                       !.job = [key |-> r, st |-> IF Kind[r] = "unreadable" THEN "answer" ELSE "running"]]
  IN  IF Busy(k0) \/ ~k0.daa THEN k0
      ELSE IF OwnRequest(k) /\ k.traces # {} /\ urgent THEN k
      ELSE IF first = 0 THEN [swept EXCEPT !.queue = left(tried)]
      ELSE started(k.queue[first])

Finished(k) == k.job.st \in {"answer", "nothing"}

AllOutcomes == {"skip", "retry", "traced", "plain"}

\* What can become of a generated answer: it carries no trace and never will
\* ("skip"), sealing or uploading it fails ("retry"), it is traced and waits
\* for the disk, or it is submitted at once.  The height decides the format.
Outcomes(k) ==
  CASE k.job.st # "answer" -> {"retry"}
    [] k.job.st = "answer" /\ Kind[k.job.key] = "private" /\ k.daa -> {"skip", "retry", "traced"}
    [] OTHER -> {"retry", "plain"}

\* client_send(submit_transaction): lost when the transport is gone.
Submit(k, rs) == [k EXCEPT !.wire = IF k.broken THEN @ ELSE @ \cup rs]

\* maybe_flush: the escrow state file is written at most once in two seconds.
MaybeFlush(k, due) == [k EXCEPT !.saved = IF due THEN k.tracked ELSE @]

\* track_inference_escrow.
TrackReward(k, r, due) == MaybeFlush([k EXCEPT !.tracked = @ \cup {r}], due)

\* The answer counts as served: remembered, and its reward outpoint tracked.
Served(k, r, due) ==
  LET done == FinishAll([k EXCEPT !.answered = @ \cup {r}], {r}, TRUE)
  IN  IF r \in k.txids THEN TrackReward(done, r, due) ELSE done

PollInference(k0, how, due) ==
  LET r == k0.job.key
      k == [k0 EXCEPT !.job = NoJob]
      sent == Submit([k EXCEPT !.responses[r] = 1], {r})
  IN  IF ~Finished(k0) THEN k0
      ELSE CASE how = "skip" -> FinishAll(k, {r}, TRUE)
             [] how = "retry" -> FinishAll(k, {r}, FALSE)
             [] how = "traced" -> Served([k EXCEPT !.persisting = @ \cup {r},
                                                   !.traces = @ \cup {r}], r, due)
             [] how = "plain" -> IF k.broken
                                   THEN FinishAll([sent EXCEPT !.unsent = @ \cup ({r} \cap k.txids)], {r}, FALSE)
                                   ELSE Served(sent, r, due)

-----------------------------------------------------------------------------
(* The periodic trace work: trace_tick.                                    *)

\* Mutant: a replay that built nothing keeps its slot.
PollReplayStuck(k, opened) ==
  IF k.replay.st # "ready" \/ ~opened THEN k
  ELSE [k EXCEPT !.replay = NoJob, !.traces = @ \ {k.replay.key}]

PollReplay(k, opened) ==
  IF k.replay.st # "ready" THEN k
  ELSE [k EXCEPT !.replay = NoJob,
                 !.traces = IF opened THEN @ \ {k.replay.key} ELSE @]

PollAwaited(k, due) ==
  IF ~due \/ k.queue = <<>> THEN k
  ELSE [k EXCEPT !.polled = ToSet(k.queue), !.err = k.broken]

\* Mutant: a released answer is sent and not kept for a resend.
ReleasePersistedOnce(k) ==
  LET ready == k.persisting \cap k.written
  IN  Submit([k EXCEPT !.persisting = @ \ ready, !.written = {}], ready)

ReleasePersisted(k) ==
  LET ready == k.persisting \cap k.written
  IN  Submit([k EXCEPT !.persisting = @ \ ready,
                       !.written = {},
                       !.responses = [r \in Requests |-> IF r \in ready THEN 1 ELSE @[r]]], ready)

RetryResponses(k, due) ==
  LET late == {r \in Requests : k.responses[r] > 0}
      over == {r \in late : k.responses[r] = MaxAttempts}
  IN  IF ~due \/ late = {} THEN k
      ELSE [Submit([k EXCEPT !.abandoned = @ \cup over,
                             !.responses = [r \in Requests |-> IF r \in over THEN 0
                                             ELSE IF r \in late THEN @[r] + 1 ELSE @[r]]],
                   late \ over)
              EXCEPT !.err = k.broken /\ late # over]

\* prune_traces: the windows of the pending traces have closed.
Prune(k, lapse) == [k EXCEPT !.traces = IF lapse THEN {} ELSE @]

\* The replay of t, due now, starts if no request of ours waits or it is urgent.
TryStartReplay(k, t, urgent) ==
  IF Busy(k) \/ t \notin k.traces \/ (OwnRequest(k) /\ ~urgent) THEN k
  ELSE [k EXCEPT !.replay = [key |-> t, st |-> "running"]]

TraceTick(k, c) ==
  LET a == PollAwaited(PollReplay(k, c.opened), c.poll)
      b == RetryResponses(ReleasePersisted(a), c.retry)
  IN  IF a.err THEN a
      ELSE IF b.err THEN b
      ELSE TryStartReplay(Prune(b, c.lapse), c.due, c.urgent)

-----------------------------------------------------------------------------
(* Connections.                                                            *)

\* Drop for KeryxdHandler: the requests, the job and the answers are parked and
\* every trace write is flushed; the height and the polls are not kept.  Nor is
\* the escrow watcher: the next connection loads what its state file holds.
Drop(k) ==
  [k EXCEPT !.up = FALSE, !.broken = FALSE, !.err = FALSE, !.daa = FALSE,
            !.polled = {}, !.wire = {}, !.written = k.persisting,
            !.tracked = k.saved, !.forgotten = @ \cup (k.tracked \ k.saved)]

\* A failed send ends listen, which drops the handler.
Return(k) == m' = IF k.err THEN Drop(k) ELSE k

\* connect with restore_parked_requests: what the node said is forgotten.
Connect ==
  /\ ~m.up
  /\ m' = [m EXCEPT !.up = TRUE, !.siblings = FALSE, !.checks = [r \in Requests |-> "none"]]
  /\ UNCHANGED <<accepted, drops, beat>>

TransportBreaks ==
  /\ m.up /\ ~m.broken
  /\ drops < MaxDrops
  /\ m' = [m EXCEPT !.broken = TRUE]
  /\ drops' = drops + 1
  /\ UNCHANGED <<accepted, beat>>

StreamEnds ==
  /\ m.up /\ m.broken
  /\ m' = Drop(m)
  /\ UNCHANGED <<accepted, drops, beat>>

-----------------------------------------------------------------------------
(* The handlers of the node's messages, and the tick.                      *)

\* GetBlockTemplateResponse: a finished inference is answered and a fresh
\* template asked for; else the template's transactions are scanned.
TemplateReply(tx, how, ready, urgent, due) ==
  LET a == [m EXCEPT !.daa = TRUE]
      b == PollInference(a, how, due)
  IN  /\ m.up
      /\ how \in Outcomes(a)
      /\ Return(IF Finished(a) THEN [b EXCEPT !.err = b.broken]
                ELSE IF ~ready THEN b
                ELSE TryStartInference(ScanForRequests(b, tx, ready), ready, urgent))
      /\ UNCHANGED <<accepted, drops, beat>>

\* A block with its transactions, announced or asked for, that is not part of
\* the escrow validation: scanned, and handed to the escrow watcher.
BlockReply(tx, ready, urgent, due) ==
  /\ m.up
  /\ m' = MaybeFlush(TryStartInference(ScanForRequests(m, tx, ready), ready, urgent), due)
  /\ UNCHANGED <<accepted, drops, beat>>

\* GetAwaitedOpeningsResponse; a request finished since the poll is left alone.
AwaitedReply(verdict) ==
  LET live == m.polled \cap ToSet(m.queue)
      said(r) == IF r \in live /\ verdict[r] # "none" THEN verdict[r] ELSE m.checks[r]
  IN  /\ m.up /\ m.polled # {}
      /\ m' = DropUnawaited([m EXCEPT !.polled = {}, !.checks = [r \in Requests |-> said(r)]])
      /\ UNCHANGED <<accepted, drops, beat>>

ProvidersReply(first) ==
  /\ m.up
  /\ m' = [m EXCEPT !.siblings = ~first]
  /\ UNCHANGED <<accepted, drops, beat>>

\* SubmitTransactionResponse: taken or already known, or refused for now.
SubmitReply(r) ==
  /\ m.up /\ r \in m.wire
  /\ m' = [m EXCEPT !.wire = @ \ {r}, !.responses[r] = IF r \in accepted THEN 0 ELSE @]
  /\ UNCHANGED <<accepted, drops, beat>>

\* The timer branch of listen.
Tick(how, ready, c) ==
  LET b == TraceTick(PollInference(m, how, c.save), c)
      d == TryStartInference(b, ready, c.urgent)
  IN  /\ m.up
      /\ how \in Outcomes(m)
      /\ Return(IF b.err THEN b ELSE [d EXCEPT !.err = Finished(m) /\ d.broken])
      /\ beat' = (m'.queue # <<>> /\ ~beat)
      /\ UNCHANGED <<accepted, drops>>

-----------------------------------------------------------------------------
(* The surroundings.                                                       *)

\* The inference task leaves its result, or none, for the handler to poll.
JobEnds(result) ==
  /\ m.job.st = "running"
  /\ m' = [m EXCEPT !.job.st = result]
  /\ UNCHANGED <<accepted, drops, beat>>

ReplayEnds ==
  /\ m.replay.st = "running"
  /\ m' = [m EXCEPT !.replay.st = "ready"]
  /\ UNCHANGED <<accepted, drops, beat>>

\* The trace writer has the record of r on disk.
TraceWritten(r) ==
  /\ r \in m.persisting \ m.written
  /\ m' = [m EXCEPT !.written = @ \cup {r}]
  /\ UNCHANGED <<accepted, drops, beat>>

\* The sibling delay of a queued request has run out.
DelayPasses(r) ==
  /\ r \in (Ranked \cap ToSet(m.queue)) \ m.aged
  /\ m' = [m EXCEPT !.aged = @ \cup {r}]
  /\ UNCHANGED <<accepted, drops, beat>>

\* The node takes an answer into its mempool.
NodeTakes(r) ==
  /\ r \in m.wire \ accepted
  /\ accepted' = accepted \cup {r}
  /\ UNCHANGED <<m, drops, beat>>

-----------------------------------------------------------------------------
Init ==
  /\ m = NewHandler
  /\ accepted = {}
  /\ drops = 0
  /\ beat = FALSE

\* A rewarded request is about to be answered, and the escrow state is dirty.
RewardEnds == Finished(m) /\ m.job.key \in m.txids
Unsaved == m.tracked # m.saved

Maybe(P) == IF P THEN BOOLEAN ELSE {FALSE}

\* The audits whose replay could be due.
Replayable == IF (m.job = NoJob \/ Finished(m)) /\ m.replay.st # "running" THEN m.traces ELSE {}

\* What the clock, the chain and the replay decide of a tick, and the models
\* (`ready') of a start, where it makes a difference.
TickChoices ==
  {c \in [opened : Maybe(m.replay.st = "ready"),
          poll   : Maybe(m.queue # <<>>),
          save   : Maybe(RewardEnds),
          retry  : Maybe(m.persisting # {} \/ Finished(m) \/ \E r \in Requests : m.responses[r] > 0),
          lapse  : Maybe(m.traces # {}),
          urgent : Maybe(Replayable # {}),
          due    : Replayable \cup {"none"}] :
     /\ c.urgent => c.due # "none"
     /\ c.due # "none" => ~c.lapse}

Readies ==
  IF m.queue = <<>> \/ ~m.daa \/ "running" \in {m.job.st, m.replay.st} THEN {TRUE} ELSE BOOLEAN

Ticks == \E how \in Outcomes(m), ready \in Readies, c \in TickChoices : Tick(how, ready, c)

Urgencies == Maybe(m.traces # {} /\ ~Busy(m))

\* Only an answer the node took can show up in a block, and one is news once; a
\* request matters only when its model is ready.
ChainShows(ready) ==
  {tx \in Transactions : /\ tx.kind = "request" => ready
                         /\ tx.kind = "answer" => tx.r \in accepted \ m.answered
                         /\ tx.kind = "none" => tx.r = CHOOSE r \in Requests : TRUE}

TemplateArrives ==
  \/ \E how \in AllOutcomes, tx \in ChainShows(FALSE), due \in Maybe(RewardEnds) :
        Finished(m) /\ tx.kind = "none" /\ TemplateReply(tx, how, TRUE, FALSE, due)
  \/ \E ready \in BOOLEAN, urgent \in Urgencies : \E tx \in ChainShows(ready) :
        ~Finished(m) /\ TemplateReply(tx, "retry", ready, urgent, FALSE)

BlockArrives ==
  \E ready \in BOOLEAN, urgent \in Urgencies, due \in Maybe(Unsaved) : \E tx \in ChainShows(ready) :
    BlockReply(tx, ready, urgent, due)

AwaitedArrives ==
  \E verdict \in [Requests -> Verdicts] :
    /\ \A r \in Requests \ (m.polled \cap ToSet(m.queue)) : verdict[r] = "none"
    /\ AwaitedReply(verdict)

JobDone == \E result \in {"answer", "nothing"} : JobEnds(result)

Next ==
  \/ Connect \/ TransportBreaks \/ StreamEnds
  \/ TemplateArrives
  \/ BlockArrives
  \/ AwaitedArrives
  \/ \E first \in BOOLEAN : ProvidersReply(first)
  \/ \E r \in Requests : SubmitReply(r) \/ TraceWritten(r) \/ DelayPasses(r) \/ NodeTakes(r)
  \/ Ticks
  \/ JobDone \/ ReplayEnds

Spec == Init /\ [][Next]_vars

\* A request that waits for ever sees the timer fire for ever.
TimerFires == []<>(m.queue = <<>>) \/ ([]<>beat /\ []<>~beat)

\* The node can be reached again, and answers the template request that follows
\* a connect; the timer fires; tasks end (an inference has a deadline); sibling
\* delays and audit windows run out.
Fairness ==
  /\ WF_vars(Connect) /\ WF_vars(StreamEnds)
  /\ []<>m.daa
  /\ TimerFires
  /\ []<>(m.traces = {})
  /\ WF_vars(JobDone) /\ WF_vars(ReplayEnds)
  /\ \A r \in Requests : WF_vars(DelayPasses(r))

FairSpec == Spec /\ Fairness

-----------------------------------------------------------------------------
\* The handler and the node keep their types.
TypeOK ==
  /\ m.queue \in Seq(Requests) /\ Len(m.queue) <= QueueCap
  /\ m.seen \in Seq(Requests) /\ Len(m.seen) <= SeenCap
  /\ {m.txids, m.aged, m.answered, m.persisting, m.written, m.traces, m.polled, m.wire,
      m.tracked, m.saved, m.forgotten, m.unsent, m.abandoned, accepted} \subseteq SUBSET Requests
  /\ m.checks \in [Requests -> Verdicts]
  /\ m.responses \in [Requests -> 0..MaxAttempts]
  /\ m.job = NoJob \/ m.job \in [key : Requests, st : {"running", "answer", "nothing"}]
  /\ m.replay = NoJob \/ m.replay \in [key : Requests, st : {"running", "ready"}]
  /\ {m.siblings, m.up, m.broken, m.daa} \subseteq BOOLEAN /\ ~m.err
  /\ drops \in 0..MaxDrops /\ beat \in BOOLEAN

\* The books agree with the work there is, through eviction, withdrawal by the
\* node, retry and reconnect: no request is queued twice or queued while it
\* runs, every live one is in the replay filter (so it cannot be queued again),
\* and metadata is kept for live requests only, so that the maps are bounded by
\* the queue ("so this map remains bounded by live queue/in-flight work").
BooksMatchWork ==
  /\ IsInjective(m.queue) /\ IsInjective(m.seen)
  /\ m.job # NoJob => m.job.key \notin ToSet(m.queue)
  /\ Pending(m) \subseteq ToSet(m.seen)
  /\ m.txids \subseteq Pending(m)
  /\ m.aged \subseteq ToSet(m.queue)
  /\ \A r \in Requests : m.checks[r] # "none" => r \in ToSet(m.queue)

\* An answer that counts as served is not lost on the way: until the node has
\* it, it waits for the disk or for a resend, also across a reconnect, or its
\* resends are used up.
NoAnswerIsLost ==
  m.answered \subseteq accepted \cup m.persisting \cup m.abandoned
                       \cup {r \in Requests : m.responses[r] > 0}

\* The reward of every request the node took our answer to is registered for a
\* claim, through eviction, withdrawal, retry and reconnect, with two exceptions.
\* The first submission of that answer failed on a dying transport: then
\* poll_inference forgets the reward, while the answer itself is parked and
\* resent.  Or the connection was lost before the debounced save of the escrow
\* state: the answer stays marked as given, so the request is not scanned for
\* its reward again.  What a save has written stays registered.
RewardIsTracked ==
  /\ accepted \cap Rewarded \subseteq m.tracked \cup m.unsent \cup m.forgotten
  /\ m.saved \subseteq m.tracked

\* A queued request leaves the queue: run, answered elsewhere, withdrawn or
\* evicted, it never waits forever behind audit replays or other rigs.
RequestLeavesQueue == \A r \in Requests : []<>(r \notin ToSet(m.queue))
=============================================================================
