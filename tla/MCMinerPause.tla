---------------------------- MODULE MCMinerPause ----------------------------
(* The managers with their pause, and the two kinds of worker threads,     *)
(* each on a small instance of its own: the variable `part' names the one  *)
(* that moves, the others stay as they begin.  MinerPause has two workers, *)
(* two inference tasks and one reconnect.                                  *)
EXTENDS MinerPause

CONSTANTS
    w1, w2, g1, g2,
    Width, Roots, NoneYet, Closing, Batch, ProofCap, MaxJobs,
    Bits, PollEvery, NoJob, Closed, MaxAssigned

VARIABLES
    part,
    thread, feed, builders, hashes_tried, walked, proved,
    cpu, jobs

MCWorkers == {w1, w2}
MCGuards == {g1, g2}

(* A pool job with a gap in its mask, a solo template. *)
JobKinds == {[mask |-> {0, 2}, fixed |-> 2, solo |-> FALSE, task |-> TRUE],
             [mask |-> {0, 1}, fixed |-> 0, solo |-> TRUE, task |-> FALSE]}

(* Masks a pool assigns: the bits below PollEvery vary. *)
Assignments == {[mask |-> {0, 1}, fixed |-> 0, solo |-> FALSE],
                [mask |-> {0, 1}, fixed |-> 4, solo |-> TRUE]}

gpus == <<thread, feed, builders, hashes_tried, walked, proved>>
cpus == <<cpu, jobs>>

Gpu == INSTANCE GpuWorker WITH worker <- thread, inflight <- builders
Cpu == INSTANCE CpuWorker

InPause == part = "pause"
InGpu == part = "gpu"
InCpu == part = "cpu"

MinerInit ==
    /\ part \in {"pause", "gpu", "cpu"}
    /\ Init /\ Gpu!Init /\ Cpu!Init
    /\ ~InCpu => cpu.nonce = 0

(* Connections and templates are bounded, so each part comes to an end. *)
MinerNext ==
    /\ UNCHANGED part
    /\ \/ InPause /\ UNCHANGED <<gpus, cpus>> /\ Next
       \/ InGpu /\ UNCHANGED <<vars, cpus>> /\ Gpu!Next
       \/ InCpu /\ UNCHANGED <<vars, gpus>> /\ Cpu!Next

(* The weak fairness of the parts. *)
MinerFairness ==
    /\ WF_vars(InPause /\ SendNone) /\ WF_vars(InPause /\ SendClose)
    /\ WF_vars(InPause /\ JoinWorkers)
    /\ \A w \in Workers : WF_vars(InPause /\ TakeCommand(w))
    /\ WF_gpus(InGpu /\ Gpu!LoopStep)
    /\ WF_cpus(InCpu /\ Cpu!TakeJob) /\ WF_cpus(InCpu /\ Cpu!TryNonce)

MinerSpec ==
    /\ MinerInit
    /\ [][MinerNext]_<<part, vars, gpus, cpus>>
    /\ MinerFairness

-----------------------------------------------------------------------------
\* A pause that lasts reaches every worker, and dropping a manager terminates
\* (begin_inference_pause, Drop for MinerManager).
PauseAndDropReachWorkers == PauseReachesWorkers /\ DropTerminates

\* Every nonce of a GPU job is walked at most once, is one the pool assigned and
\* is counted once, and what goes to a proof was walked with the same root
\* (MaskedNonceCursor, launch_gpu_miner).
NoncesWalkedOnce == Gpu!NoncesWalkedOnce /\ Gpu!ProvedWasWalked

\* A worker that is told to close ends, whatever its card does (launch_gpu_miner,
\* launch_cpu_miner).
CloseIsObeyed == Gpu!CloseIsObeyed /\ Cpu!CloseIsObeyed

=============================================================================
