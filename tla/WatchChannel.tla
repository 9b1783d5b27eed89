---------------------------- MODULE WatchChannel ----------------------------
(***************************************************************************)
(* The watch channel of src/watch.rs at the granularity of its locks and   *)
(* atomics: the RwLock around the value, the atomic id, the mutex and      *)
(* condition variable receivers sleep on, the receiver count and the       *)
(* sender_alive flag.                                                      *)
(*                                                                         *)
(* A value is represented by the number of the write that stored it (the   *)
(* initial value is number 1), so "newer" can be said of values.  Several  *)
(* threads share one Sender behind an Arc (MinerManager and                *)
(* InferencePauseControl in miner.rs), so sends interleave with each       *)
(* other; the Sender is dropped when no thread uses it any more.           *)
(***************************************************************************)
EXTENDS Integers, FiniteSets

CONSTANTS
    Senders,        \* threads that share the Sender handle
    Receivers,      \* Receiver handles, each owned by one thread
    Root,           \* the Receiver that channel() returns
    MaxId,          \* bound on id: at most MaxId - 1 sends
    Spurious        \* TRUE for the std Condvar, which may wake spuriously

ASSUME RootAssumption == Root \in Receivers
ASSUME ReceiversAssumption == IsFiniteSet(Receivers)
ASSUME MaxIdAssumption == MaxId \in Nat \ {0}
ASSUME SpuriousAssumption == Spurious \in BOOLEAN

Nobody == "nobody"

ASSUME NobodyAssumption == Nobody \notin Senders \cup Receivers

VARIABLES
    value,              \* number of the value inside the RwLock
    id,                 \* Shared::id
    writer,             \* the sender that holds the write lock, or Nobody
    waitLock,           \* holder of Shared::wait_for_change, or Nobody
    receivers_count,    \* Shared::receivers_count
    sender_alive,       \* Shared::sender_alive
    spc,                \* spc[s]: where thread s stands inside send()
    dropPc,             \* where the Drop of the Sender stands
    rpc,                \* rpc[r]: where r stands in get_changed/wait_for_change
    mode,               \* mode[r]: which of the two calls r is in
    last_observed,      \* Receiver::last_observed
    seen                \* seen[r]: number of the last value handed to r's owner

sendVars == <<value, id, writer, spc, dropPc>>
recvVars == <<rpc, mode, last_observed, seen>>
vars == <<value, id, writer, waitLock, receivers_count, sender_alive, spc,
          dropPc, rpc, mode, last_observed, seen>>

Live(r) == rpc[r] \notin {"fresh", "gone"}

Init ==
    /\ value = 1
    /\ id = 1
    /\ writer = Nobody
    /\ waitLock = Nobody
    /\ receivers_count = 1
    /\ sender_alive = TRUE
    /\ spc = [s \in Senders |-> "idle"]
    /\ dropPc = "held"
    /\ rpc = [r \in Receivers |-> IF r = Root THEN "idle" ELSE "fresh"]
    /\ mode = [r \in Receivers |-> "poll"]
    /\ last_observed = [r \in Receivers |-> 0]
    /\ seen = [r \in Receivers |-> 0]

(***************************************************************************)
(* Sender::send.  The receiver count is read first; an empty channel       *)
(* returns an error and changes nothing.                                   *)
(***************************************************************************)
CanSend(s) ==
    /\ dropPc = "held"
    /\ spc[s] = "idle"
    /\ receivers_count # 0
    /\ value + Cardinality({t \in Senders : spc[t] = "write"}) < MaxId

\* Variant for the sensitivity of NeverStale: the id is announced before the
\* value is stored.
SendCheckEarlyId(s) ==
    /\ CanSend(s)
    /\ id' = id + 1
    /\ spc' = [spc EXCEPT ![s] = "write"]
    /\ UNCHANGED <<value, writer, waitLock, receivers_count, sender_alive,
                   dropPc, recvVars>>

SendCheck(s) ==
    /\ CanSend(s)
    /\ spc' = [spc EXCEPT ![s] = "write"]
    /\ UNCHANGED <<value, id, writer, waitLock, receivers_count, sender_alive,
                   dropPc, recvVars>>

\* replace_value: the value is stored first, under the write lock ...
StoreValue(s) ==
    /\ spc[s] = "write"
    /\ writer = Nobody
    /\ writer' = s
    /\ value' = value + 1
    /\ spc' = [spc EXCEPT ![s] = "bump"]
    /\ UNCHANGED <<id, waitLock, receivers_count, sender_alive, dropPc, recvVars>>

\* ... and the id is incremented before the lock is released.
IncrementId(s) ==
    /\ spc[s] = "bump"
    /\ id' = id + 1
    /\ writer' = Nobody
    /\ spc' = [spc EXCEPT ![s] = "notify"]
    /\ UNCHANGED <<value, waitLock, receivers_count, sender_alive, dropPc, recvVars>>

\* Every receiver asleep on the condition variable is woken.
NotifyAll ==
    rpc' = [r \in Receivers |-> IF rpc[r] = "asleep" THEN "woken" ELSE rpc[r]]

\* Variant for the sensitivity of NoLostWakeUp: notify_all without the mutex.
WakeUpThreadsUnlocked(s) ==
    /\ spc[s] = "notify"
    /\ NotifyAll
    /\ spc' = [spc EXCEPT ![s] = "idle"]
    /\ UNCHANGED <<value, id, writer, waitLock, receivers_count, sender_alive,
                   dropPc, mode, last_observed, seen>>

\* wake_up_threads at the end of send: notify_all with the mutex held.
WakeUpThreads(s) ==
    /\ spc[s] = "notify"
    /\ waitLock = Nobody
    /\ NotifyAll
    /\ spc' = [spc EXCEPT ![s] = "idle"]
    /\ UNCHANGED <<value, id, writer, waitLock, receivers_count, sender_alive,
                   dropPc, mode, last_observed, seen>>

(***************************************************************************)
(* Drop of the Sender, once no thread is inside send() any more.           *)
(***************************************************************************)
DropSender ==
    /\ dropPc = "held"
    /\ \A s \in Senders : spc[s] = "idle"
    /\ sender_alive' = FALSE
    /\ dropPc' = "notify"
    /\ UNCHANGED <<value, id, writer, waitLock, receivers_count, spc, recvVars>>

DropWakeUp ==
    /\ dropPc = "notify"
    /\ waitLock = Nobody
    /\ NotifyAll
    /\ dropPc' = "done"
    /\ UNCHANGED <<value, id, writer, waitLock, receivers_count, sender_alive,
                   spc, mode, last_observed, seen>>

(***************************************************************************)
(* get_changed_internal, shared by get_changed and wait_for_change.  The   *)
(* flag, the id and the value are read one after the other.                *)
(***************************************************************************)
Release(r) == waitLock' = IF waitLock = r THEN Nobody ELSE waitLock

\* A closed channel is reported at once.
CheckAlive(r, m) ==
    /\ rpc[r] = "idle"
    /\ sender_alive
    /\ rpc' = [rpc EXCEPT ![r] = "readId"]
    /\ mode' = [mode EXCEPT ![r] = m]
    /\ UNCHANGED <<sendVars, waitLock, receivers_count, sender_alive,
                   last_observed, seen>>

\* Nothing new: get_changed returns, wait_for_change takes the mutex or sleeps.
NextStop(r) ==
    IF waitLock = r THEN "preSleep"
    ELSE IF mode[r] = "wait" THEN "lock" ELSE "idle"

ReadId(r) ==
    /\ rpc[r] = "readId"
    /\ IF last_observed[r] = id
       THEN /\ rpc' = [rpc EXCEPT ![r] = NextStop(r)]
            /\ UNCHANGED last_observed
       ELSE /\ rpc' = [rpc EXCEPT ![r] = "clone"]
            /\ last_observed' = [last_observed EXCEPT ![r] = id]
    /\ UNCHANGED <<sendVars, waitLock, receivers_count, sender_alive, mode, seen>>

\* Variant for the sensitivity of ImplementsRegister: the value handed out is
\* the one the id read earlier stands for.
CloneObservedValue(r) ==
    /\ rpc[r] = "clone"
    /\ writer = Nobody
    /\ seen' = [seen EXCEPT ![r] = last_observed[r]]
    /\ rpc' = [rpc EXCEPT ![r] = "idle"]
    /\ Release(r)
    /\ UNCHANGED <<sendVars, receivers_count, sender_alive, mode, last_observed>>

\* clone_value, under the read lock; the mutex guard, if held, is dropped.
CloneValue(r) ==
    /\ rpc[r] = "clone"
    /\ writer = Nobody
    /\ seen' = [seen EXCEPT ![r] = value]
    /\ rpc' = [rpc EXCEPT ![r] = "idle"]
    /\ Release(r)
    /\ UNCHANGED <<sendVars, receivers_count, sender_alive, mode, last_observed>>

(***************************************************************************)
(* The rest of wait_for_change: a second look under the mutex, the sleep,  *)
(* and what happens after the wake-up.                                     *)
(***************************************************************************)
LockForWait(r) ==
    /\ rpc[r] = "lock"
    /\ waitLock = Nobody
    /\ IF sender_alive
       THEN /\ waitLock' = r
            /\ rpc' = [rpc EXCEPT ![r] = "readId"]
       ELSE /\ UNCHANGED waitLock
            /\ rpc' = [rpc EXCEPT ![r] = "idle"]
    /\ UNCHANGED <<sendVars, receivers_count, sender_alive, mode, last_observed, seen>>

\* Condvar::wait releases the mutex and sleeps in one step.
Sleep(r) ==
    /\ rpc[r] = "preSleep"
    /\ rpc' = [rpc EXCEPT ![r] = "asleep"]
    /\ Release(r)
    /\ UNCHANGED <<sendVars, receivers_count, sender_alive, mode, last_observed, seen>>

SpuriousWakeUp(r) ==
    /\ Spurious
    /\ rpc[r] = "asleep"
    /\ rpc' = [rpc EXCEPT ![r] = "woken"]
    /\ UNCHANGED <<sendVars, waitLock, receivers_count, sender_alive, mode,
                   last_observed, seen>>

\* Variant for the sensitivity of SleeperIsWoken: the drop of the Sender is not
\* looked for after the wake-up, and the loop starts over.
ResumeInLoop(r) ==
    /\ rpc[r] = "woken"
    /\ waitLock = Nobody
    /\ waitLock' = IF sender_alive THEN r ELSE Nobody
    /\ rpc' = [rpc EXCEPT ![r] = IF sender_alive THEN "takeId" ELSE "woken"]
    /\ UNCHANGED <<sendVars, receivers_count, sender_alive, mode, last_observed, seen>>

\* The mutex is taken again; a dropped Sender is reported.
Resume(r) ==
    /\ rpc[r] = "woken"
    /\ waitLock = Nobody
    /\ IF sender_alive
       THEN /\ waitLock' = r
            /\ rpc' = [rpc EXCEPT ![r] = "takeId"]
       ELSE /\ UNCHANGED waitLock
            /\ rpc' = [rpc EXCEPT ![r] = "idle"]
    /\ UNCHANGED <<sendVars, receivers_count, sender_alive, mode, last_observed, seen>>

TakeId(r) ==
    /\ rpc[r] = "takeId"
    /\ last_observed' = [last_observed EXCEPT ![r] = id]
    /\ rpc' = [rpc EXCEPT ![r] = "clone"]
    /\ UNCHANGED <<sendVars, waitLock, receivers_count, sender_alive, mode, seen>>

(***************************************************************************)
(* Clone and Drop of a Receiver.                                           *)
(***************************************************************************)

CloneReceiver(r, q) ==
    /\ rpc[r] = "idle"
    /\ rpc[q] = "fresh"
    /\ receivers_count' = receivers_count + 1
    /\ rpc' = [rpc EXCEPT ![q] = "idle"]
    /\ last_observed' = [last_observed EXCEPT ![q] = last_observed[r]]
    /\ seen' = [seen EXCEPT ![q] = seen[r]]
    /\ UNCHANGED <<sendVars, waitLock, sender_alive, mode>>

DropReceiver(r) ==
    /\ rpc[r] = "idle"
    /\ receivers_count' = receivers_count - 1
    /\ rpc' = [rpc EXCEPT ![r] = "gone"]
    /\ UNCHANGED <<sendVars, waitLock, sender_alive, mode, last_observed, seen>>

SenderStep(s) ==
    StoreValue(s) \/ IncrementId(s) \/ WakeUpThreads(s)

ReceiverStep(r) ==
    \/ ReadId(r) \/ CloneValue(r) \/ LockForWait(r) \/ Sleep(r)
    \/ Resume(r) \/ TakeId(r)

Next ==
    \/ \E s \in Senders : SendCheck(s) \/ SenderStep(s)
    \/ DropSender
    \/ DropWakeUp
    \/ \E r \in Receivers :
        \/ \E m \in {"poll", "wait"} : CheckAlive(r, m)
        \/ ReceiverStep(r)
        \/ SpuriousWakeUp(r)
        \/ DropReceiver(r)
        \/ \E q \in Receivers : CloneReceiver(r, q)

Spec == Init /\ [][Next]_vars

(***************************************************************************)
(* Fairness: a thread inside send(), get_changed() or wait_for_change()    *)
(* keeps running; the locks are parking_lot's (or std's), which let a      *)
(* waiting thread in eventually.  Nothing obliges a thread to start a call.*)
(***************************************************************************)
Fairness ==
    /\ \A s \in Senders : SF_vars(StoreValue(s) \/ IncrementId(s) \/ WakeUpThreads(s))
    /\ SF_vars(DropWakeUp)
    /\ \A r \in Receivers :
          SF_vars(\/ ReadId(r) \/ CloneValue(r) \/ LockForWait(r)
                  \/ Sleep(r) \/ Resume(r) \/ TakeId(r))

FairSpec == Spec /\ Fairness

-----------------------------------------------------------------------------
ReceiverStops == {"fresh", "idle", "readId", "clone", "lock", "preSleep",
                  "asleep", "woken", "takeId", "gone"}

\* The fields of Shared and of every handle have the types watch.rs declares.
TypeOK ==
    /\ value \in Nat
    /\ id \in Nat
    /\ writer \in Senders \cup {Nobody}
    /\ waitLock \in Receivers \cup {Nobody}
    /\ receivers_count \in Nat
    /\ sender_alive \in BOOLEAN
    /\ spc \in [Senders -> {"idle", "write", "bump", "notify"}]
    /\ dropPc \in {"held", "notify", "done"}
    /\ rpc \in [Receivers -> ReceiverStops]
    /\ mode \in [Receivers -> {"poll", "wait"}]
    /\ last_observed \in [Receivers -> Nat]
    /\ seen \in [Receivers -> Nat]

\* No receiver sleeps through a change: while a receiver is asleep, or holds the
\* mutex and is about to sleep, either the id is still the one it has observed or
\* a send() has yet to call wake_up_threads, and likewise for the drop of the
\* Sender.  This is what the mutex in wake_up_threads and the second look of
\* wait_for_change are for.
NoLostWakeUp ==
    \A r \in Receivers :
        rpc[r] \in {"preSleep", "asleep"} =>
            /\ last_observed[r] # id => \E s \in Senders : spc[s] = "notify"
            /\ ~sender_alive => dropPc = "notify"

\* A receiver's last_observed never runs ahead of the value it was handed: were
\* it to, the newest command (a job, a pause, a Close) would count as observed
\* and never reach the worker.  replace_value stores before it increments, and
\* get_changed_internal reads the id before the value.
NeverStale ==
    \A r \in Receivers :
        rpc[r] # "clone" => last_observed[r] <= seen[r]

\* A receiver does not stay in wait_for_change when there is something to tell it
\* (a newer value, or the drop of the Sender), asleep or woken in between.
SleeperIsWoken ==
    \A r \in Receivers :
        []<>~(/\ rpc[r] \in {"preSleep", "asleep", "woken", "takeId"}
              /\ last_observed[r] # id \/ ~sender_alive)

Register == INSTANCE WatchRegister WITH content <- value, alive <- sender_alive

\* The channel implements the register its users rely on: whatever the
\* interleaving of locks and atomics, a call hands out the current content.
ImplementsRegister == Register!Spec
============================================================================
