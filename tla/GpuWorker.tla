------------------------------ MODULE GpuWorker ------------------------------
(***************************************************************************)
(* The loop of one GPU worker thread (launch_gpu_miner in miner.rs, CUDA   *)
(* build): the job it holds, the task root it commits into the header, the *)
(* cursor over the nonces the pool assigned (MaskedNonceCursor in pom.rs), *)
(* the launch on the card, and the proof of a winner, built on a detached  *)
(* thread for a pool share and in place for a solo block.                  *)
(*                                                                         *)
(* The job channel is the register that WatchChannel implements: the last  *)
(* command and whether this worker has read it.  What the card answers (it *)
(* is paused, not staged, not ready, failed, done) is any of the outcomes  *)
(* the loop tells apart; GpuCard and WaitReady say which happen when.  A   *)
(* nonce has Width bits; a mask is the set of the bits that are set.       *)
(***************************************************************************)
EXTENDS Integers, FiniteSets, FiniteSetsExt

CONSTANTS
    Width,          \* bits of a nonce (64 in the code)
    JobKinds,       \* what a template may look like: [mask, fixed, solo, task]
    Roots,          \* roots of block task traces
    NoneYet,        \* the absent value
    Closing,        \* the command WorkerCommand::Close
    Batch,          \* nonces asked of one launch
    ProofCap,       \* MAX_INFLIGHT_PROOFS
    MaxJobs         \* bound: templates published

VARIABLES
    worker,         \* the thread: [pc, state, task_state, cursor, range, found]
    feed,           \* its end of the job channel: [cmd, fresh, jobs]
    inflight,       \* InflightProofPermit's counter: the detached proof builders
    hashes_tried,   \* its growth since the cursor's job was taken
    walked,         \* what was walked for the cursor's job: [job, root, nonce]
    proved          \* what went to a proof for it and was not walked, and the blocks sent for it

workers == <<worker, feed, inflight, hashes_tried, walked, proved>>

-----------------------------------------------------------------------------
(* MaskedNonceCursor *)

\* The bits a nonce may vary in; a bit that is fixed cannot vary.
BitsOf(n) == {b \in 0..Width - 1 : (n \div 2^b) % 2 = 1}
NumberOf(bits) == SumSet({2^b : b \in bits})

NewCursor(job, seed) ==
    LET variable == job.mask \ BitsOf(job.fixed)
        domain   == 2^Cardinality(variable)
    IN  [job |-> job.id, variable |-> variable, fixed |-> job.fixed,
         rank |-> seed % domain, remaining |-> domain, domain |-> domain]

\* Bit i of the rank goes to the i-th lowest bit of the mask.
Deposit(rank, mask) ==
    NumberOf({b \in mask : (rank \div 2^Cardinality({c \in mask : c < b})) % 2 = 1})

TrailingOnes(mask) == CHOOSE n \in 0..Width : 0..n - 1 \subseteq mask /\ n \notin mask

\* variant: the launch may run past the end of the run of low bits
PeekWholeDomain(c) ==
    [start |-> NumberOf(BitsOf(c.fixed) \cup BitsOf(Deposit(c.rank, c.variable))),
     len   |-> Min({Batch, c.remaining, c.domain - c.rank})]

Peek(c) ==
    LET period == 2^TrailingOnes(c.variable)
    IN  [start |-> NumberOf(BitsOf(c.fixed) \cup BitsOf(Deposit(c.rank, c.variable))),
         len   |-> Min({Batch, c.remaining, period - (c.rank % period), c.domain - c.rank})]

Commit(c, len) ==
    [c EXCEPT !.rank = IF c.rank + len = c.domain THEN 0 ELSE c.rank + len,
              !.remaining = c.remaining - len]

-----------------------------------------------------------------------------
(* The loop.  pc: top (no job), poll, gate, grind, launched, found, tail, gone. *)

\* The loop goes back to its top with the job it holds.
Again(w) == [w EXCEPT !.pc = IF w.state = NoneYet THEN "top" ELSE "poll"]

\* block_channel.get_changed(), then the loop goes on at pc.
GetChanged(w, pc) ==
    CASE ~feed.fresh -> [w EXCEPT !.pc = pc]
      [] feed.cmd = Closing -> [w EXCEPT !.pc = "gone"]
      [] feed.cmd = NoneYet -> [w EXCEPT !.state = NoneYet, !.pc = "top"]
      [] OTHER -> [w EXCEPT !.state = feed.cmd, !.pc = pc]

Init ==
    /\ worker = [pc |-> "top", state |-> NoneYet, task_state |-> NoneYet, cursor |-> NoneYet,
                 range |-> NoneYet, found |-> NoneYet]
    /\ feed = [cmd |-> NoneYet, fresh |-> FALSE, jobs |-> 0]
    /\ inflight = 0
    /\ hashes_tried = 0
    /\ walked = {}
    /\ proved = [stray |-> {}, blocks |-> 0]

\* The manager publishes a template, suspends mining, or closes its workers.
Publish(cmd) ==
    /\ feed.cmd # Closing
    /\ feed' = [feed EXCEPT !.cmd = cmd, !.fresh = TRUE]
    /\ UNCHANGED <<worker, inflight, hashes_tried, walked, proved>>

\* State::new: a solo template leaves the whole nonce to the miner, a pool job
\* the bits it was assigned.
StateNew(id, kind) ==
    [id |-> id, solo |-> kind.solo, task |-> kind.task,
     mask |-> IF kind.solo THEN 0..Width - 1 ELSE kind.mask,
     fixed |-> IF kind.solo THEN 0 ELSE kind.fixed]

NewJob ==
    /\ feed.cmd # Closing
    /\ feed.jobs < MaxJobs
    /\ \E kind \in JobKinds :
          feed' = [cmd |-> StateNew(feed.jobs + 1, kind), fresh |-> TRUE, jobs |-> feed.jobs + 1]
    /\ UNCHANGED <<worker, inflight, hashes_tried, walked, proved>>

WaitForChange ==
    /\ worker.pc = "top"
    /\ feed.fresh
    /\ worker' = GetChanged(worker, "poll")
    /\ feed' = [feed EXCEPT !.fresh = FALSE]
    /\ UNCHANGED <<inflight, hashes_tried, walked, proved>>

\* variant: commands are polled only after a batch that was completed
PollNothing ==
    /\ worker.pc = "poll"
    /\ worker' = [worker EXCEPT !.pc = "gate"]
    /\ UNCHANGED <<feed, inflight, hashes_tried, walked, proved>>

\* Commands are polled at the top of every pass.
Poll ==
    /\ worker.pc = "poll"
    /\ worker' = GetChanged(worker, "gate")
    /\ feed' = [feed EXCEPT !.fresh = FALSE]
    /\ UNCHANGED <<inflight, hashes_tried, walked, proved>>

\* A job that needs a block task is ground with this device's root in its
\* header; without a task the device idles.
Gate ==
    /\ worker.pc = "gate"
    /\ LET s == worker.state
       IN  IF s.task
           THEN \E root \in Roots \cup {NoneYet} :
                   IF root = NoneYet
                   THEN /\ worker' = GetChanged([worker EXCEPT !.task_state = NoneYet], "poll")
                        /\ feed' = [feed EXCEPT !.fresh = FALSE]
                   ELSE /\ worker' = [worker EXCEPT !.task_state = [job |-> s.id, root |-> root],
                                                    !.pc = "grind"]
                        /\ UNCHANGED feed
           ELSE /\ worker' = [worker EXCEPT !.task_state = NoneYet, !.pc = "grind"]
                /\ UNCHANGED feed
    /\ UNCHANGED <<inflight, hashes_tried, walked, proved>>

\* The cursor of this job: a new one, from a random seed, for a new job.
CursorOf(w) ==
    IF w.cursor # NoneYet /\ w.cursor.job = w.state.id
    THEN {w.cursor}
    ELSE {NewCursor(w.state, seed) : seed \in 0..2^Width - 1}

\* Its next range, and what the card lets the worker do with it: nothing (an
\* inference or a swap owns the card, staging failed, the rig is not ready),
\* or a launch.  A template whose nonces are all walked is put away.
Grind ==
    /\ worker.pc = "grind"
    /\ \E c \in CursorOf(worker) :
          LET w == [worker EXCEPT !.cursor = c]
              same == c = worker.cursor
          IN  /\ hashes_tried' = IF same THEN hashes_tried ELSE 0
              /\ walked' = IF same THEN walked ELSE {}
              /\ proved' = IF same THEN proved ELSE [stray |-> {}, blocks |-> 0]
              /\ IF c.remaining = 0
                 THEN worker' = [w EXCEPT !.state = NoneYet, !.pc = "top"]
                 ELSE \/ worker' = [w EXCEPT !.range = Peek(c), !.pc = "launched"]
                      \/ worker' = Again(w)
    /\ UNCHANGED <<feed, inflight>>

\* The root in the header that was walked, if the job carries a task.
RootOf(w) == IF w.task_state = NoneYet THEN NoneYet ELSE w.task_state.root

\* mine_v4 reports what it completed and perhaps a winner among it.
LaunchEnds ==
    /\ worker.pc = "launched"
    /\ \E done \in 1..worker.range.len :
          \E winner \in (worker.range.start..worker.range.start + done - 1) \cup {NoneYet} :
             /\ worker' = [worker EXCEPT !.cursor = Commit(worker.cursor, done),
                                         !.range = NoneYet,
                                         !.found = winner,
                                         !.pc = IF winner = NoneYet THEN "tail" ELSE "found"]
             /\ hashes_tried' = hashes_tried + done
             /\ walked' = walked \cup {[job |-> worker.state.id, root |-> RootOf(worker), nonce |-> n] :
                                         n \in worker.range.start..worker.range.start + done - 1}
    /\ UNCHANGED <<feed, inflight, proved>>

\* It failed, was paused, or its answer is not one the range allows: nothing
\* is counted and the cursor stays.
LaunchFails ==
    /\ worker.pc = "launched"
    /\ worker' = Again([worker EXCEPT !.range = NoneYet])
    /\ UNCHANGED <<feed, inflight, hashes_tried, walked, proved>>

\* What a proof of the winner is about: the state that was ground.
Effective(w) == [job |-> w.state.id, root |-> RootOf(w), nonce |-> w.found]

\* generate_block_if_pom_task: the proof of a winner, unless the context pad
\* cannot be seeded, the walk fails on the host or misses the target there,
\* the self-check disagrees, or a candidate's opening cannot be made.  Only a
\* pool job's network-target hit carries the opening of the device's task.
GenerateBlock(w) ==
    {NoneYet} \cup
    {[share |-> Effective(w), opening |-> candidate /\ ~w.state.solo /\ w.task_state # NoneYet] :
        candidate \in BOOLEAN}

\* A pool share is proved on a detached thread while a permit is free.
Overlap ==
    /\ worker.pc = "found"
    /\ ~worker.state.solo
    /\ inflight < ProofCap
    /\ inflight' = inflight + 1
    /\ proved' = [proved EXCEPT !.stray = @ \cup ({Effective(worker)} \ walked)]
    /\ worker' = [worker EXCEPT !.found = NoneYet, !.pc = "tail"]
    /\ UNCHANGED <<feed, hashes_tried, walked>>

\* A solo block, and a share no permit was left for, is proved by the worker;
\* a template whose block was built is put away.  A false positive is dropped.
ProveInPlace ==
    /\ worker.pc = "found"
    /\ worker.state.solo \/ inflight >= ProofCap
    /\ \E block_seed \in GenerateBlock(worker) :
          LET block == block_seed # NoneYet /\ worker.state.solo
          IN  /\ worker' = [worker EXCEPT !.found = NoneYet, !.pc = "tail",
                                          !.state = IF block THEN NoneYet ELSE @]
              /\ proved' = [stray |-> proved.stray \cup ({Effective(worker)} \ walked),
                            blocks |-> proved.blocks + (IF block THEN 1 ELSE 0)]
    /\ UNCHANGED <<feed, inflight, hashes_tried, walked>>

\* A newer job is picked up before the next batch.
Tail ==
    /\ worker.pc = "tail"
    /\ IF worker.state = NoneYet
       THEN worker' = [worker EXCEPT !.pc = "top"] /\ UNCHANGED feed
       ELSE worker' = GetChanged(worker, "poll") /\ feed' = [feed EXCEPT !.fresh = FALSE]
    /\ UNCHANGED <<inflight, hashes_tried, walked, proved>>

\* A builder ends: the share is sent, or it was a false positive, the
\* connection is gone, or the build panicked; the permit is given back.
BuilderEnds ==
    /\ inflight > 0
    /\ inflight' = inflight - 1
    /\ UNCHANGED <<worker, feed, hashes_tried, walked, proved>>

LoopStep ==
    \/ WaitForChange
    \/ Poll
    \/ Gate
    \/ Grind
    \/ LaunchEnds
    \/ LaunchFails
    \/ Overlap
    \/ ProveInPlace
    \/ Tail

Next == NewJob \/ Publish(NoneYet) \/ Publish(Closing) \/ LoopStep \/ BuilderEnds

Spec == Init /\ [][Next]_workers

\* A thread is scheduled; whatever the card answers, it goes on.
Fairness == WF_workers(LoopStep)

FairSpec == Spec /\ Fairness

-----------------------------------------------------------------------------
(* Properties *)

\* Every nonce is walked at most once for a template, it is one the pool
\* assigned ((raw & nonce_mask) | nonce_fixed), none is skipped, and the hash
\* count is the number of nonces walked, through failed launches, short
\* completions, wraps of the domain and changes of the root.
NoncesWalkedOnce ==
    /\ hashes_tried = Cardinality({x.nonce : x \in walked})
    /\ worker.cursor # NoneYet =>
          LET c == worker.cursor
              done == {x.nonce : x \in walked}
          IN  /\ Cardinality(done) = c.domain - c.remaining
              /\ \A n \in done : /\ BitsOf(n) \subseteq c.variable \cup BitsOf(c.fixed)
                                 /\ BitsOf(c.fixed) \subseteq BitsOf(n)

\* What is proved was walked, with the same root in its header, and one block
\* is sent for a solo template.
ProvedWasWalked == proved.stray = {} /\ proved.blocks <= 1

\* A worker that is told to close ends, whatever its card does.
CloseIsObeyed == []<>(feed.cmd = Closing => worker.pc = "gone")
=============================================================================
