------------------------------ MODULE CpuWorker ------------------------------
(***************************************************************************)
(* The loop of one CPU worker thread (launch_cpu_miner in miner.rs): it    *)
(* takes a job when it has none, walks nonces one by one inside the job's  *)
(* mask, and polls for a newer command when the nonce is a multiple of     *)
(* PollEvery.  The mask and the fixed bits are locals that only the        *)
(* blocking read of a job sets.  A mask is the set of its bits.            *)
(***************************************************************************)
EXTENDS Integers, FiniteSetsExt

CONSTANTS
    Bits,           \* bits of a nonce (64 in the code)
    PollEvery,      \* 128 in the code
    Assignments,    \* templates and their nonce assignment: [mask, fixed, solo]
    NoJob,
    Closed,         \* the command WorkerCommand::Close
    MaxAssigned     \* bound: jobs published

VARIABLES cpu, jobs

cpus == <<cpu, jobs>>

BitSet(n) == {b \in 0..Bits - 1 : (n \div 2^b) % 2 = 1}
Masked(n, mask, fixed) == SumSet({2^b : b \in (BitSet(n) \cap mask) \cup BitSet(fixed)})

Init ==
    /\ cpu \in {[state |-> NoJob, mask |-> {}, fixed |-> 0, nonce |-> n, tried |-> NoJob] :
                  n \in 0..2^Bits - 1}
    /\ jobs = [cmd |-> NoJob, fresh |-> FALSE, count |-> 0]

\* The manager publishes a job under the assignment of that moment, or suspends or closes
\* its workers.
PublishJob ==
    /\ jobs.count < MaxAssigned
    /\ jobs.cmd # Closed
    /\ \E a \in Assignments \cup {NoJob, Closed} :
          jobs' = [cmd |-> a, fresh |-> TRUE, count |-> jobs.count + 1]
    /\ UNCHANGED cpu

\* wait_for_change: the only place the mask and the fixed bits are read.
TakeJob ==
    /\ cpu.state = NoJob
    /\ jobs.fresh
    /\ jobs' = [jobs EXCEPT !.fresh = FALSE]
    /\ cpu' = IF jobs.cmd \in {NoJob, Closed} THEN [cpu EXCEPT !.state = jobs.cmd]
              ELSE [cpu EXCEPT !.state = jobs.cmd, !.mask = jobs.cmd.mask,
                               !.fixed = jobs.cmd.fixed]

\* One nonce: tried, a solo template put away when it gave a block, and every
\* PollEvery nonces the channel polled.
TryNonce ==
    /\ cpu.state \notin {NoJob, Closed}
    /\ \E block \in BOOLEAN :
          LET n    == Masked(cpu.nonce, cpu.mask, cpu.fixed)
              next == (n + 1) % 2^Bits
              poll == next % PollEvery = 0 /\ jobs.fresh
          IN  /\ cpu' = [cpu EXCEPT !.nonce = next,
                                    !.tried = [nonce |-> n, under |-> cpu.state],
                                    !.state = IF poll THEN jobs.cmd
                                              ELSE IF block /\ @.solo THEN NoJob ELSE @]
              /\ jobs' = IF poll THEN [jobs EXCEPT !.fresh = FALSE] ELSE jobs

Next == PublishJob \/ TakeJob \/ TryNonce

Spec == Init /\ [][Next]_cpus

\* A thread is scheduled.
Fairness == WF_cpus(TakeJob) /\ WF_cpus(TryNonce)

FairSpec == Spec /\ Fairness

-----------------------------------------------------------------------------
\* A worker that is told to close ends: its nonces come by a multiple of
\* PollEvery again and again.
CloseIsObeyed == []<>(jobs.cmd = Closed => cpu.state = Closed)

\* The worker tries a nonce only if the pool assigned it for the job it mines:
\* it is (raw & nonce_mask) | nonce_fixed of that job.
TriesAssigned ==
    cpu.tried # NoJob =>
       LET a == cpu.tried.under
       IN  Masked(cpu.tried.nonce, a.mask, a.fixed) = cpu.tried.nonce
=============================================================================
