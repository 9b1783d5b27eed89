----------------------------- MODULE ModelFiles -----------------------------
(***************************************************************************)
(* The staging of one model file: `download_file', `ensure_gguf' and the   *)
(* loops that call them (slm.rs, main.rs).  The GGUF is Size blocks; the   *)
(* gateway serves block i at position i.  A file on disk is the sequence   *)
(* of the blocks written to it, Hole where a writer skipped over a part    *)
(* another one had truncated away.  A task is one thread that stages the   *)
(* model: the background prefetch, the per-card staging of a mixed rig, an *)
(* era's prefetch or an engine load.  Nothing serialises two tasks.        *)
(*                                                                         *)
(* The gateway answers a request with an error, the range that was asked,  *)
(* the whole file (a gateway that ignores Range), or 416 for a range past  *)
(* the end; a total may be missing from the answer, and a stream may break *)
(* or end early.  The process may be killed at any point.                  *)
(***************************************************************************)
EXTENDS Naturals, Sequences, FiniteSets, TLC

CONSTANTS
    Tasks,        \* the threads that stage this model
    Size,         \* blocks of the genuine file
    Small,        \* a local part of at most Small blocks may be truncated (1 MB)
    MaxAttempts,  \* MAX_ATTEMPTS of one download_file
    MaxFaults     \* bad answers, broken streams, full disks and kills

VARIABLES
    disk,    \* [exists, blocks]
    ok,      \* the .ok sentinel
    task,    \* task |-> its program counter and locals
    faults   \* faults so far

files == <<disk, ok, task, faults>>

Hole == 0
Genuine == [i \in 1..Size |-> i]
NoFile == [exists |-> FALSE, blocks |-> << >>]

(* Locals of a thread; `got' is `downloaded', `total' is whether it is known. *)
Idle == [pc |-> "check", attempt |-> 0, got |-> 0, total |-> FALSE, append |-> FALSE]

Init ==
    /\ disk = NoFile
    /\ ok = FALSE
    /\ task = [t \in Tasks |-> Idle]
    /\ faults = 0

(* A tolerated fault of the gateway, the disk or the host. *)
Fault == faults < MaxFaults /\ faults' = faults + 1

Move(t, upd) == task' = [task EXCEPT ![t] = upd @@ @]

(* The header (block 1) parses and the length covers every tensor. *)
is_complete_file(f) ==
    /\ f.exists
    /\ Len(f.blocks) >= Size
    /\ f.blocks[1] = 1

(* prefetch_models returns Ok and the caller's loop is left. *)
Staged(t) == Move(t, [pc |-> "done"])

(* ensure_gguf, up to the download: a complete file is adopted. *)
Adopt(t) ==
    /\ task[t].pc = "check"
    /\ is_complete_file(disk)
    /\ ok' = TRUE
    /\ Staged(t)
    /\ UNCHANGED <<disk, faults>>

NotReady(t) ==
    /\ task[t].pc = "check"
    /\ ~is_complete_file(disk)
    /\ ok' = FALSE
    /\ Move(t, [pc |-> "request", attempt |-> 0])
    /\ UNCHANGED <<disk, faults>>

(* One more failed attempt: back off and ask again, or give the call up. *)
Again(t) ==
    IF task[t].attempt + 1 >= MaxAttempts
    THEN Move(t, [pc |-> "failed"])
    ELSE Move(t, [pc |-> "request", attempt |-> task[t].attempt + 1])

resume_from == Len(disk.blocks)

ConnectError(t) ==
    /\ task[t].pc = "request"
    /\ Fault
    /\ Again(t)
    /\ UNCHANGED <<disk, ok>>

(* 416: the range starts at or past the end. *)
AlreadyComplete(t) ==
    /\ task[t].pc = "request"
    /\ resume_from > 0 /\ resume_from >= Size
    /\ Move(t, [pc |-> "verify"])
    /\ UNCHANGED <<disk, ok, faults>>

(* 206: append what is missing. *)
Resumed(t, known) ==
    /\ task[t].pc = "request"
    /\ resume_from > 0 /\ resume_from < Size
    /\ Move(t, [pc |-> "stream", got |-> resume_from, total |-> known, append |-> TRUE])
    /\ UNCHANGED <<disk, ok>>

(* 200: a first request, or a gateway that ignores Range.  A local part    *)
(* that is not small is kept and the request repeated.                     *)
WholeFile(t, known) ==
    /\ task[t].pc = "request"
    /\ IF known /\ resume_from >= Size
       THEN Move(t, [pc |-> "verify"]) /\ UNCHANGED disk
       ELSE IF resume_from > Small
       THEN Again(t) /\ UNCHANGED disk
       ELSE /\ disk' = [exists |-> TRUE, blocks |-> << >>]
            /\ Move(t, [pc |-> "stream", got |-> 0, total |-> known, append |-> FALSE])
    /\ UNCHANGED ok

Answered(t) ==
    \/ Resumed(t, TRUE) /\ UNCHANGED faults
    \/ resume_from = 0 /\ WholeFile(t, TRUE) /\ UNCHANGED faults
    \/ Resumed(t, FALSE) /\ Fault
    \/ \E known \in BOOLEAN : WholeFile(t, known) /\ Fault

(* free_disk_bytes: with a known total, too little space refuses the download. *)
NoSpace(t) ==
    /\ task[t].pc = "stream"
    /\ task[t].total
    /\ Fault
    /\ Move(t, [pc |-> "failed"])
    /\ UNCHANGED <<disk, ok>>

(* A write at the handle's own offset, over a file that may since be shorter. *)
WriteAt(blocks, pos, b) ==
    [i \in 1..(IF pos > Len(blocks) THEN pos ELSE Len(blocks)) |->
        IF i = pos THEN b ELSE IF i <= Len(blocks) THEN blocks[i] ELSE Hole]

(* One read of the stream, written through the thread's own handle. *)
ReadBlock(t) ==
    /\ task[t].pc = "stream"
    /\ task[t].got < Size
    /\ LET b == task[t].got + 1 IN
       /\ disk' = [disk EXCEPT !.blocks =
                     IF task[t].append THEN Append(@, b) ELSE WriteAt(@, b, b)]
       /\ Move(t, [got |-> b])
    /\ UNCHANGED <<ok, faults>>

(* The stream is over; only a known total that was reached counts. *)
StreamEnds(t) ==
    /\ task[t].pc = "stream"
    /\ \/ task[t].got = Size /\ UNCHANGED faults
       \/ task[t].got < Size /\ Fault
    /\ IF task[t].total /\ task[t].got >= Size
       THEN Move(t, [pc |-> "verify"])
       ELSE Again(t)
    /\ UNCHANGED <<disk, ok>>

(* ensure_gguf, after the download: completeness again, then the sentinel. *)
Verify(t) ==
    /\ task[t].pc = "verify"
    /\ IF is_complete_file(disk)
       THEN ok' = TRUE /\ Staged(t)
       ELSE UNCHANGED ok /\ Move(t, [pc |-> "failed"])
    /\ UNCHANGED <<disk, faults>>

(* The caller's loop: staging failed, sleep 60 s and try again. *)
Retry(t) ==
    /\ task[t].pc = "failed"
    /\ Move(t, Idle)
    /\ UNCHANGED <<disk, ok, faults>>

(* The process is killed and started again; what was written stays. *)
Killed ==
    /\ Fault
    /\ task' = [t \in Tasks |-> Idle]
    /\ UNCHANGED <<disk, ok>>

Step(t) ==
    \/ Adopt(t) \/ NotReady(t)
    \/ ConnectError(t) \/ AlreadyComplete(t) \/ Answered(t)
    \/ NoSpace(t) \/ ReadBlock(t) \/ StreamEnds(t)
    \/ Verify(t) \/ Retry(t)

Next == Killed \/ \E t \in Tasks : Step(t)

Spec == Init /\ [][Next]_files

(* A thread keeps running: the gateway's bad answers are bounded, the      *)
(* download's own retries and the caller's loop are not given up.          *)
Fairness == \A t \in Tasks : WF_files(Step(t))

FairSpec == Spec /\ Fairness

(* The sentinel slm.rs writes "only after a complete download" stands      *)
(* beside exactly the bytes the gateway serves, through interrupted,       *)
(* resumed and restarted downloads.                                        *)
OkMeansGenuine == ok => SubSeq(disk.blocks, 1, Size) = Genuine

(* Every thread that stages the model is done in the end, and then the     *)
(* sentinel stands ("RETRY until the mining-tier model is actually on      *)
(* disk", main.rs).                                                        *)
StagingEnds == <>[](ok /\ \A t \in Tasks : task[t].pc = "done")
=============================================================================
