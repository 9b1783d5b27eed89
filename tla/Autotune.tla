------------------------------ MODULE Autotune ------------------------------
(***************************************************************************)
(* The launch autotune of pom_gpu.rs (v4_autotune and what it calls), run   *)
(* by every card's own worker before its first batch.  Cards of the same    *)
(* profile share one measurement through v4_profiles; a counting gate       *)
(* bounds how many profiles are measured at once; results are kept in one   *)
(* file that savers read, change and replace under a lock file.             *)
(*                                                                          *)
(* Rates are not modelled: any candidate may be the fastest.  Inexact says  *)
(* which kernels do not find the reference walk's winner on these cards.    *)
(***************************************************************************)
EXTENDS Naturals, FiniteSets, FiniteSetsExt

CONSTANTS
    Cards,          \* strings
    Keys,           \* profiles
    Profile(_),     \* v4_tune_key of a card
    None,           \* the absent value
    Candidates,     \* the walk kinds offered on these cards, "classic" among them
    Inexact,        \* those that do not reproduce the reference winner
    SmallRig,       \* V4_AUTOTUNE_SMALL_RIG_MAX_DEVICES
    LargeRigJobs,   \* V4_AUTOTUNE_LARGE_RIG_JOBS
    Forced,         \* KERYX_POM_V4_AUTOTUNE=force
    StaleLock,      \* a process that died left the lock file, older than 120 s
    MaxErrors       \* bound: CUDA errors during the sweeps

VARIABLES
    tuner,          \* card -> [pc, best, read]
    tuned,          \* v4_tune_map: card -> the kind, or None
    done,           \* DONE: the cards that are not tuned again
    profiles,       \* v4_profiles: key -> None, "running" or a kind
    gate,           \* V4AutotuneGate.active
    installed,      \* the cards with a resident table
    file,           \* v4tune.json: key -> kind or None
    lockfile,       \* the card that created v4tune.json.lock, "stale", or None
    saved,          \* the keys a saver replaced the file for
    faults

tunes == <<tuner, tuned, done, profiles, gate, installed, file, lockfile, saved, faults>>

Idle == [pc |-> "idle", best |-> None, read |-> None]

Init ==
    /\ tuner = [c \in Cards |-> Idle]
    /\ tuned = [c \in Cards |-> None]
    /\ done = {}
    /\ profiles = [k \in Keys |-> None]
    /\ gate = 0
    /\ installed = {}
    /\ file \in [Keys -> {None} \cup (Candidates \ Inexact)]
    /\ lockfile = IF StaleLock THEN "stale" ELSE None
    /\ saved = {}
    /\ faults = 0

Goto(c, pc) == tuner' = [tuner EXCEPT ![c].pc = pc]
Set(c, kind) == tuned' = [tuned EXCEPT ![c] = kind]

\* The table of a card is built.
Installs(c) ==
    /\ c \notin installed
    /\ installed' = installed \cup {c}
    /\ UNCHANGED <<tuner, tuned, done, profiles, gate, file, lockfile, saved, faults>>

-----------------------------------------------------------------------------
(* The claim on a profile *)

\* V4ProfileClaim: its owner publishes a kind, or drops the claim.
Publish(c, kind) == profiles' = [profiles EXCEPT ![Profile(c)] = kind]

\* variant: a claim that is dropped unpublished stays
UnclaimKept(c) == UNCHANGED profiles

Unclaim(c) == profiles' = [profiles EXCEPT ![Profile(c)] = None]

\* ensure_v4_autotuned: once per card, however the tune ended
ensure_v4_autotuned(c) == c \in installed \ done /\ tuner[c].pc = "idle"

\* An identical card's result is shared; a profile being measured is left alone.
Begin(c) ==
    /\ ensure_v4_autotuned(c)
    /\ profiles[Profile(c)] # "running"
    /\ IF profiles[Profile(c)] # None
       THEN /\ Set(c, profiles[Profile(c)])
            /\ done' = done \cup {c}
            /\ UNCHANGED <<tuner, profiles>>
       ELSE /\ Publish(c, "running")
            /\ Goto(c, "claimed")
            /\ UNCHANGED <<tuned, done>>
    /\ UNCHANGED <<gate, installed, file, lockfile, saved, faults>>

v4_tune_load(k) == file[k]

\* The owner alone reads the file.
Restore(c) ==
    /\ tuner[c].pc = "claimed"
    /\ IF ~Forced /\ v4_tune_load(Profile(c)) # None
       THEN /\ Set(c, v4_tune_load(Profile(c)))
            /\ Publish(c, v4_tune_load(Profile(c)))
            /\ done' = done \cup {c}
            /\ Goto(c, "idle")
       ELSE /\ Goto(c, "permit")
            /\ UNCHANGED <<tuned, profiles, done>>
    /\ UNCHANGED <<gate, installed, file, lockfile, saved, faults>>

\* v4_autotune_parallelism of the cards installed now
Parallelism ==
    LET n == Max({Cardinality(installed), 1})
    IN  IF n > SmallRig THEN Min({LargeRigJobs, n}) ELSE 1

V4AutotuneGate == gate < Parallelism

\* try_acquire; without a permit the claim is dropped and the
\* card mines with its defaults until its next batch.
Acquire(c) ==
    /\ tuner[c].pc = "permit"
    /\ IF V4AutotuneGate
       THEN gate' = gate + 1 /\ Goto(c, "walks") /\ UNCHANGED profiles
       ELSE Unclaim(c) /\ Goto(c, "idle") /\ UNCHANGED gate
    /\ UNCHANGED <<tuned, done, installed, file, lockfile, saved, faults>>

-----------------------------------------------------------------------------
(* The sweeps *)

\* v4_bench_cfg makes the candidate this card's tune for its launches.
v4_bench_cfg(c, kind) == Set(c, kind)

\* bench_all over the walk kinds, interleaved; the last one launched stays set.
BenchWalks(c) ==
    /\ tuner[c].pc = "walks"
    /\ \E kind \in Candidates : v4_bench_cfg(c, kind)
    /\ Goto(c, "select")
    /\ UNCHANGED <<done, profiles, gate, installed, file, lockfile, saved, faults>>

\* What the measured rates may choose.
select_v4_walk_kind == Candidates

\* The chosen kind is set before the batches are capped by its cost.
Select(c) ==
    /\ tuner[c].pc = "select"
    /\ \E kind \in select_v4_walk_kind :
          /\ tuner' = [tuner EXCEPT ![c].pc = "batches", ![c].best = kind]
          /\ Set(c, kind)
    /\ UNCHANGED <<done, profiles, gate, installed, file, lockfile, saved, faults>>

\* bench_all over the batches of the chosen kind
BenchBatches(c) ==
    /\ tuner[c].pc = "batches"
    /\ v4_bench_cfg(c, tuner[c].best)
    /\ Goto(c, "agree")
    /\ UNCHANGED <<done, profiles, gate, installed, file, lockfile, saved, faults>>

\* v4_classic_fallback, published to the profile but not kept on disk
Fallback(c) ==
    /\ Set(c, "classic")
    /\ Publish(c, "classic")
    /\ gate' = gate - 1
    /\ done' = done \cup {c}
    /\ Goto(c, "idle")

\* No rate could be measured.
Unmeasured(c) ==
    /\ tuner[c].pc = "select"
    /\ Fallback(c)
    /\ UNCHANGED <<installed, file, lockfile, saved, faults>>

v4_config_agrees_with_reference(kind) == kind \notin Inexact

\* Only a kind that finds the classic walk's
\* winner is kept, shared and saved.
Agree(c) ==
    /\ tuner[c].pc = "agree"
    /\ IF v4_config_agrees_with_reference(tuner[c].best)
       THEN /\ Set(c, tuner[c].best)
            /\ Publish(c, tuner[c].best)
            /\ gate' = gate - 1
            /\ Goto(c, "save")
            /\ UNCHANGED done
       ELSE Fallback(c)
    /\ UNCHANGED <<installed, file, lockfile, saved, faults>>

\* finish_v4_autotune_error: a stream that drains leaves the classic walk for
\* the profile; one that does not leaves it for this card, the claim is
\* dropped, and the card is torn down.
Drained(c) ==
    /\ tuner[c].pc \in {"walks", "batches", "agree"} /\ faults < MaxErrors
    /\ faults' = faults + 1
    /\ Fallback(c)
    /\ UNCHANGED <<installed, file, lockfile, saved>>

Poisoned(c) ==
    /\ tuner[c].pc \in {"walks", "batches", "agree"} /\ faults < MaxErrors
    /\ faults' = faults + 1
    /\ Set(c, "classic")
    /\ Unclaim(c)
    /\ gate' = gate - 1
    /\ done' = done \cup {c}
    /\ installed' = installed \ {c}
    /\ Goto(c, "idle")
    /\ UNCHANGED <<file, lockfile, saved>>

-----------------------------------------------------------------------------
(* v4_tune_save *)

\* TuneCacheLock::acquire: create_new succeeds, or the lock file is seen to be
\* older than 120 s and will be removed, or the attempts run out.
Lock(c) ==
    /\ tuner[c].pc = "save"
    /\ IF lockfile = None
       THEN lockfile' = c /\ Goto(c, "locked")
       ELSE /\ UNCHANGED lockfile
            /\ Goto(c, IF lockfile = "stale" THEN "break" ELSE "save")
    /\ UNCHANGED <<tuned, done, profiles, gate, installed, file, saved, faults>>

Break(c) ==
    /\ tuner[c].pc = "break"
    /\ lockfile' = None
    /\ Goto(c, "save")
    /\ UNCHANGED <<tuned, done, profiles, gate, installed, file, saved, faults>>

Finished(c) ==
    /\ tuner' = [tuner EXCEPT ![c] = Idle]
    /\ done' = done \cup {c}

GiveUp(c) ==
    /\ tuner[c].pc = "save" /\ lockfile \notin {None, c}
    /\ Finished(c)
    /\ UNCHANGED <<tuned, profiles, gate, installed, file, lockfile, saved, faults>>

\* The envelope is read, and replaced with one more entry by a rename.
ReadFile(c) ==
    /\ tuner[c].pc = "locked"
    /\ tuner' = [tuner EXCEPT ![c].pc = "write", ![c].read = file]
    /\ UNCHANGED <<tuned, done, profiles, gate, installed, file, lockfile, saved, faults>>

Persist(c) ==
    /\ tuner[c].pc = "write"
    /\ file' = [tuner[c].read EXCEPT ![Profile(c)] = tuned[c]]
    /\ saved' = saved \cup {Profile(c)}
    /\ lockfile' = None
    /\ Finished(c)
    /\ UNCHANGED <<tuned, profiles, gate, installed, faults>>

\* The temporary file cannot be written: the tune stays in this process.
PersistFails(c) ==
    /\ tuner[c].pc = "write"
    /\ lockfile' = None
    /\ Finished(c)
    /\ UNCHANGED <<tuned, profiles, gate, installed, file, saved, faults>>

-----------------------------------------------------------------------------
Step(c) ==
    \/ Installs(c) \/ Begin(c) \/ Restore(c) \/ Acquire(c)
    \/ BenchWalks(c) \/ Select(c) \/ BenchBatches(c) \/ Unmeasured(c) \/ Agree(c) \/ Drained(c) \/ Poisoned(c)
    \/ Lock(c) \/ Break(c) \/ GiveUp(c) \/ ReadFile(c) \/ Persist(c) \/ PersistFails(c)

Next == \E c \in Cards : Step(c)

Spec == Init /\ [][Next]_tunes

\* Every worker keeps running: a card that was deferred asks again at its next
\* batch, its launches return, and 200 attempts at the lock come to an end.
Fairness == \A c \in Cards : WF_tunes(Step(c))

FairSpec == Spec /\ Fairness

-----------------------------------------------------------------------------
(* Properties *)

Holding == {c \in Cards : tuner[c].pc \in {"walks", "select", "batches", "agree"}}

\* A card that has been through the autotune launches a kernel that found the
\* reference walk's winner, or the classic walk itself: a rejected kind is
\* never left in the map by a benchmark, shared with an identical card or
\* restored from the file.
TunedIsExact ==
    /\ \A c \in done : tuned[c] \notin Inexact \cup {None}
    /\ \A k \in Keys : profiles[k] \notin Inexact /\ file[k] \notin Inexact

\* Each profile is measured by one card at a time, and the gate counts the
\* sweeps that are running.
TuneBooks ==
    /\ gate = Cardinality(Holding)
    /\ gate <= LargeRigJobs
    /\ \A k \in Keys :
          Cardinality({c \in Cards : Profile(c) = k /\ tuner[c].pc \in
              {"claimed", "permit", "walks", "select", "batches", "agree"}})
          = (IF profiles[k] = "running" THEN 1 ELSE 0)

\* What a saver put in the file stays there although savers of other profiles
\* replace it: no entry is lost between reading and renaming.
SavedTunesKept == \A k \in saved : file[k] # None

\* Every card is tuned in the end, whoever measures its profile and however
\* that sweep ends.
EveryCardTuned == \A c \in Cards : []<>(c \in done)
=============================================================================
