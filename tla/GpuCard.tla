------------------------------ MODULE GpuCard ------------------------------
(***************************************************************************)
(* One CUDA card shared by its mining worker and by inference requests     *)
(* (pom_gpu.rs, slm.rs, llama_engine.rs).                                  *)
(*                                                                         *)
(* The worker walks a resident table.  On the inference card the table is  *)
(* not a copy: it points into the weights of the in-process llama engine.  *)
(* Inference threads swap those weights.  The code keeps the two apart     *)
(* with a nested pause count, an install guard, reference counts on the    *)
(* table, a 30 s barrier and a quarantine for tables that do not drain.    *)
(*                                                                         *)
(* A table is an Arc<PomGpuMiner>.  Its owners are the miners() map, the   *)
(* quarantine and at most one transient handle per thread, so a table is   *)
(* resident exactly while one of these names it.  Table and engine names   *)
(* are reused once nothing refers to them, which keeps the model finite.   *)
(***************************************************************************)
EXTENDS Integers, FiniteSets, TLC

CONSTANTS
    Worker,     \* the mining thread of the card (one CUDA worker per GPU)
    Clients,    \* threads that run inference on the card
    Tables,     \* names of walk tables
    Engines,    \* names of llama engine loads
    Models,     \* model files
    None,       \* no table, engine, model or thread
    Stalls      \* may a thread that holds a handle only in passing be
                \* descheduled past the 30 s barrier?

ASSUME ConstantsAssumption ==
    /\ IsFiniteSet(Clients)
    /\ Worker \notin Clients
    /\ None \notin Tables \cup Engines \cup Models \cup Clients \cup {Worker}
    /\ Stalls \in BOOLEAN

Threads == Clients \cup {Worker}

VARIABLES
    map,         \* miners(): the installed table
    handle,      \* handle[t]: the clone or the removed entry thread t holds
    quarantine,  \* QUARANTINE: a table whose walk would not let go
    source,      \* source[x]: the engine load table x points into, or None
    tableStuck,  \* TABLE_STUCK
    pause,       \* inference_pause_counts(); the mask bit is pause > 0
    installing,  \* installing_devices(): the owner of the install guard
    lease,       \* card_busy(): the thread that claimed the card
    engine,      \* the engine load resident in the card's EngineSlot
    hosted,      \* the model that load holds
    model,       \* device_model(): the model this card mines
    want,        \* want[t]: the model thread t runs inference for
    pc,          \* where each thread is
    then         \* where uninstall_released returns to

resident == <<map, handle, quarantine, source>>
gates == <<tableStuck, pause, installing, lease>>
slot == <<engine, hosted>>
vars == <<resident, gates, slot, model, want, pc, then>>

-----------------------------------------------------------------------------
(* Reference counts.                                                       *)

Holders(x) == {t \in Threads : handle[t] = x}

\* Arc::strong_count
StrongCount(x) ==
    Cardinality(Holders(x)) + (IF map = x THEN 1 ELSE 0)
                            + (IF quarantine = x THEN 1 ELSE 0)

Resident == ({map, quarantine} \cup {handle[t] : t \in Threads}) \ {None}

Paused == pause > 0

Goto(t, label) == pc' = [pc EXCEPT ![t] = label]
Hold(t, x) == handle' = [handle EXCEPT ![t] = x]

\* generate_for keeps the slot's mutex for the whole generation
EngineFree == \A t \in Threads : pc[t] # "generating"

Load(m) == \E e \in Engines \ ({engine} \cup {source[x] : x \in Resident}) :
              engine' = e /\ hosted' = m

Unload == engine' = None /\ hosted' = None

-----------------------------------------------------------------------------
(* uninstall_released, run by the worker and by clients.  It takes the     *)
(* entry out of the map and waits for every other handle to go.            *)

RemoveEntry(t) ==
    /\ pc[t] = "remove"
    /\ IF map = None
       THEN /\ Goto(t, then[t])
            /\ UNCHANGED <<map, handle>>
       ELSE /\ Hold(t, map)
            /\ map' = None
            /\ Goto(t, "barrier")
    /\ UNCHANGED <<quarantine, source, gates, slot, model, want, then>>

Barrier(t) ==
    /\ pc[t] = "barrier"
    /\ StrongCount(handle[t]) = 1
    /\ Hold(t, None)
    /\ Goto(t, then[t])
    /\ UNCHANGED <<map, quarantine, source, gates, slot, model, want, then>>

\* The caller gives up.  A client defers its request (WalkBusy), an era swap
\* is Deferred with TABLE_STUCK set, a fault recovery finishes with
\* TABLE_STUCK set; the table goes to the quarantine.
BarrierTimeout(t) ==
    /\ pc[t] = "barrier"
    /\ StrongCount(handle[t]) > 1
    /\ Stalls \/ pc[Worker] = "walk"
    /\ quarantine' = handle[t]
    /\ Hold(t, None)
    /\ tableStuck' = (tableStuck \/ t = Worker)
    /\ Goto(t, CASE then[t] = "reset" -> "stuck"
                 [] then[t] = "era" -> "unwind"
                 [] OTHER -> "finish")
    /\ UNCHANGED <<map, source, pause, installing, lease, slot, model, want, then>>

-----------------------------------------------------------------------------
(* The worker: one pass of the GPU loop (miner.rs) and mine_v4.            *)

BeginPass ==
    /\ pc[Worker] = "idle"
    /\ ~Paused
    /\ Goto(Worker, "pass")
    /\ UNCHANGED <<resident, gates, slot, model, want, then>>

\* mine_v4: the first pause check
MineCheck ==
    /\ pc[Worker] = "pass"
    /\ map # None
    /\ Goto(Worker, IF Paused THEN "idle" ELSE "checked")
    /\ UNCHANGED <<resident, gates, slot, model, want, then>>

\* mine_v4: the handle is cloned out of the map under the map's mutex
CloneMiner ==
    /\ pc[Worker] = "checked"
    /\ Hold(Worker, map)
    /\ Goto(Worker, IF map = None THEN "idle" ELSE "cloned")
    /\ UNCHANGED <<map, quarantine, source, gates, slot, model, want, then>>

\* mine_v4: the second pause check closes the race with a drain
RecheckAs(stop) ==
    /\ pc[Worker] = "cloned"
    /\ IF stop
       THEN Hold(Worker, None) /\ Goto(Worker, "idle")
       ELSE Goto(Worker, "walk") /\ UNCHANGED handle
    /\ UNCHANGED <<map, quarantine, source, gates, slot, model, want, then>>

RecheckNever == RecheckAs(FALSE)
Recheck == RecheckAs(Paused)

\* autotune, pad build and launch; the stream is synchronised before the
\* handle is dropped.  A transient fault drops it too, then recovers.
WalkEnds ==
    /\ pc[Worker] = "walk"
    /\ Hold(Worker, None)
    /\ \E label \in {"idle", "fault"} : Goto(Worker, label)
    /\ UNCHANGED <<map, quarantine, source, gates, slot, model, want, then>>

-----------------------------------------------------------------------------
(* reset_stale_gpu_state, after a fault in the walk or in a load.          *)

ResetPause ==
    /\ pc[Worker] = "fault"
    /\ pause' = pause + 1
    /\ Hold(Worker, map)
    /\ Goto(Worker, "probe")
    /\ UNCHANGED <<map, quarantine, source, tableStuck, installing, lease,
                   slot, model, want, then>>

\* the health probe drops its clone before the uninstall
ResetProbe ==
    /\ pc[Worker] = "probe"
    /\ Hold(Worker, None)
    /\ then' = [then EXCEPT ![Worker] = "reset"]
    /\ Goto(Worker, "remove")
    /\ UNCHANGED <<map, quarantine, source, gates, slot, model, want>>

\* unload_for_gpu, or abandon_for_gpu on a poisoned context: either way the
\* slot is emptied, and the pause and any install guard are released
ResetFinish ==
    /\ pc[Worker] \in {"reset", "stuck"}
    /\ EngineFree
    /\ tableStuck' = (pc[Worker] = "stuck")
    /\ Unload
    /\ pause' = pause - 1
    /\ installing' = None
    /\ Goto(Worker, "idle")
    /\ UNCHANGED <<resident, lease, model, want, then>>

-----------------------------------------------------------------------------
(* ensure_installed and ensure_installed_inner.                            *)

\* table_stuck self-heals when the quarantined handle is the last one; the
\* quarantine is looked at only when TABLE_STUCK names the card
Stage ==
    /\ pc[Worker] = "pass"
    /\ map = None
    /\ LET freed == quarantine = None \/ StrongCount(quarantine) = 1
       IN IF tableStuck
          THEN /\ tableStuck' = ~freed
               /\ quarantine' = IF freed THEN None ELSE quarantine
               /\ Goto(Worker, IF freed THEN "staged" ELSE "idle")
          ELSE /\ Goto(Worker, "staged")
               /\ UNCHANGED <<tableStuck, quarantine>>
    /\ UNCHANGED <<map, handle, source, pause, installing, lease, slot,
                   model, want, then>>

\* the low-RAM permit, the index build and the model file may send it back
StageFails ==
    /\ pc[Worker] = "staged"
    /\ Goto(Worker, "idle")
    /\ UNCHANGED <<resident, gates, slot, model, want, then>>

\* DeviceInstallGuard::begin: check and publication share one mutex.  On a card
\* that does not serve the model, or that keeps its exact llama-server, no engine
\* is touched.
BeginInstall ==
    /\ pc[Worker] = "staged"
    /\ IF ~Paused /\ installing = None
       THEN installing' = Worker /\ \E label \in {"install", "route"} : Goto(Worker, label)
       ELSE Goto(Worker, "idle") /\ UNCHANGED installing
    /\ UNCHANGED <<resident, tableStuck, pause, lease, slot, model, want, then>>

\* The engine is brought up on the inference card, or the card walks a raw
\* copy: no engine, wrong device or foreign layout.
InstallEngine ==
    /\ pc[Worker] = "install"
    /\ EngineFree
    /\ \/ hosted = model /\ UNCHANGED slot
       \/ hosted # model /\ Load(model)
       \/ Unload
    /\ Goto(Worker, "route")
    /\ UNCHANGED <<resident, gates, model, want, then>>

\* run_inference_self_test: proven already, or the exact card is claimed and
\* the drain gate entered by the thread that owns the install guard
ProbeCached ==
    /\ pc[Worker] = "route"
    /\ \E label \in {"load", "unwind"} : Goto(Worker, label)
    /\ UNCHANGED <<resident, gates, slot, model, want, then>>

ProbeClaim ==
    /\ pc[Worker] = "route"
    /\ lease = None
    /\ lease' = Worker
    /\ pause' = pause + 1
    /\ Goto(Worker, "probing")
    /\ UNCHANGED <<resident, tableStuck, installing, slot, model, want, then>>

\* The probe generates, reloading the engine if it is gone; a failure
\* demotes the card's model and unwinds the install.
ProbeEnds ==
    /\ pc[Worker] = "probing"
    /\ EngineFree
    /\ \/ hosted = model /\ UNCHANGED slot
       \/ hosted # model /\ Load(model)
       \/ Unload
    /\ lease' = None
    /\ pause' = pause - 1
    /\ \/ Goto(Worker, "load") /\ UNCHANGED model
       \/ Goto(Worker, "unwind") /\ \E m \in Models : model' = m
    /\ UNCHANGED <<resident, tableStuck, installing, want, then>>

\* load_llama over the engine's tensors or load_raw, the N-guard, install;
\* the guard goes with the return
Install ==
    /\ pc[Worker] = "load"
    /\ \E x \in Tables \ Resident :
         /\ map' = x
         /\ \E src \in {None, IF hosted = model THEN engine ELSE None} :
              source' = [source EXCEPT ![x] = src]
    /\ installing' = None
    /\ Goto(Worker, "idle")
    /\ UNCHANGED <<handle, quarantine, tableStuck, pause, lease, slot, model,
                   want, then>>

\* a transient fault resets the card under the guard; out of memory demotes;
\* any other error sits the card out
LoadFails ==
    /\ pc[Worker] = "load"
    /\ \/ Goto(Worker, "fault") /\ UNCHANGED model
       \/ Goto(Worker, "unwind") /\ \E m \in Models : model' = m
    /\ UNCHANGED <<resident, gates, slot, want, then>>

\* DeviceInstallGuard::drop
Unwind ==
    /\ pc[Worker] = "unwind"
    /\ installing' = None
    /\ Goto(Worker, "idle")
    /\ UNCHANGED <<resident, tableStuck, pause, lease, slot, model, want, then>>

-----------------------------------------------------------------------------
(* advance_era_model_if_due: the worker swaps the card's model.            *)

EraBegin ==
    /\ pc[Worker] = "pass"
    /\ ~Paused
    /\ installing = None
    /\ installing' = Worker
    /\ LET freed == quarantine = None \/ StrongCount(quarantine) = 1
       IN IF tableStuck
          THEN /\ tableStuck' = ~freed
               /\ quarantine' = IF freed THEN None ELSE quarantine
               /\ Goto(Worker, IF freed THEN "remove" ELSE "unwind")
          ELSE /\ Goto(Worker, "remove")
               /\ UNCHANGED <<tableStuck, quarantine>>
    /\ then' = [then EXCEPT ![Worker] = "era"]
    /\ UNCHANGED <<map, handle, source, pause, lease, slot, model, want>>

EraSwap ==
    /\ pc[Worker] = "era"
    /\ EngineFree
    /\ \E m \in Models \ {model} : model' = m
    /\ IF hosted = model THEN Unload ELSE UNCHANGED slot
    /\ installing' = None
    /\ Goto(Worker, "idle")
    /\ UNCHANGED <<resident, tableStuck, pause, lease, want, then>>

-----------------------------------------------------------------------------
(* An inference request: lease, drain, model swap, generation.             *)

Claim(c) ==
    /\ pc[c] = "idle"
    /\ lease = None
    /\ lease' = c
    /\ \E m \in Models : want' = [want EXCEPT ![c] = m]
    /\ Goto(c, "leased")
    /\ UNCHANGED <<resident, tableStuck, pause, installing, slot, model, then>>

\* not staged, or the low-RAM permit is taken: the lease is dropped
Refused(c) ==
    /\ pc[c] = "leased"
    /\ lease' = None
    /\ Goto(c, "idle")
    /\ UNCHANGED <<resident, tableStuck, pause, installing, slot, model, want, then>>

\* pause_and_drain_for_inference
RaisePause(c) ==
    /\ pc[c] = "leased"
    /\ pause' = pause + 1
    /\ Goto(c, "raised")
    /\ UNCHANGED <<resident, tableStuck, installing, lease, slot, model, want, then>>

CheckInstallingAs(c, busy) ==
    /\ pc[c] = "raised"
    /\ Goto(c, IF busy THEN "finish" ELSE "unstaged")
    /\ UNCHANGED <<resident, gates, slot, model, want, then>>

CheckInstallingNever(c) == CheckInstallingAs(c, FALSE)
CheckInstalling(c) == CheckInstallingAs(c, installing \notin {None, c})

CloneResident(c) ==
    /\ pc[c] = "unstaged"
    /\ Hold(c, map)
    /\ Goto(c, IF map = None THEN "drained" ELSE "draining")
    /\ UNCHANGED <<map, quarantine, source, gates, slot, model, want, then>>

\* wait_for_owner_count_at_most(2): the map and our clone
Drained(c) ==
    /\ pc[c] = "draining"
    /\ StrongCount(handle[c]) <= 2
    /\ Hold(c, None)
    /\ Goto(c, "drained")
    /\ UNCHANGED <<map, quarantine, source, gates, slot, model, want, then>>

DrainTimeout(c) ==
    /\ pc[c] = "draining"
    /\ StrongCount(handle[c]) > 2
    /\ Hold(c, None)
    /\ Goto(c, "finish")
    /\ UNCHANGED <<map, quarantine, source, gates, slot, model, want, then>>

\* variant: the model is swapped with the walk still installed
ChooseRouteKeepingWalk(c) ==
    /\ pc[c] = "drained"
    /\ EngineFree
    /\ Goto(c, IF hosted = want[c] THEN "serve" ELSE "swap")
    /\ UNCHANGED <<resident, gates, slot, model, want, then>>

\* the model is resident already, or the walk leaves before the swap
ChooseRoute(c) ==
    /\ pc[c] = "drained"
    /\ EngineFree
    /\ Goto(c, IF hosted = want[c] THEN "serve" ELSE "remove")
    /\ then' = [then EXCEPT ![c] = "swap"]
    /\ UNCHANGED <<resident, gates, slot, model, want>>

\* ensure_loaded_on frees another model first, then loads; it may fail
SwapEngine(c) ==
    /\ pc[c] = "swap"
    /\ EngineFree
    /\ IF hosted = want[c] THEN UNCHANGED slot ELSE Load(want[c]) \/ Unload
    /\ Goto(c, "serve")
    /\ UNCHANGED <<resident, gates, model, want, then>>

\* variant: a missing model is loaded again without a bound on the retries
ServeRetrying(c) ==
    /\ pc[c] = "serve"
    /\ EngineFree
    /\ Goto(c, IF hosted = want[c] THEN "generating" ELSE "swap")
    /\ UNCHANGED <<resident, gates, slot, model, want, then>>

\* generate_for looks the model up again under the slot's mutex; without it
\* the llama-server fallback removes the walk and frees the engine
Serve(c) ==
    /\ pc[c] = "serve"
    /\ EngineFree
    /\ IF hosted = want[c]
       THEN Goto(c, "generating") /\ UNCHANGED then
       ELSE /\ \E label \in {"remove", "finish"} : Goto(c, label)
            /\ then' = [then EXCEPT ![c] = "server"]
    /\ UNCHANGED <<resident, gates, slot, model, want>>

Generated(c) ==
    /\ pc[c] = "generating"
    /\ \/ Goto(c, "finish") /\ UNCHANGED then
       \/ Goto(c, "remove") /\ then' = [then EXCEPT ![c] = "server"]
    /\ UNCHANGED <<resident, gates, slot, model, want>>

StartServer(c) ==
    /\ pc[c] = "server"
    /\ EngineFree
    /\ Unload
    /\ Goto(c, "finish")
    /\ UNCHANGED <<resident, gates, model, want, then>>

\* InferenceDrainGuard and InferenceLease are dropped
FinishLowering(c, counts) ==
    /\ pc[c] = "finish"
    /\ pause' = pause - counts
    /\ lease' = None
    /\ want' = [want EXCEPT ![c] = None]
    /\ Goto(c, "idle")
    /\ UNCHANGED <<resident, tableStuck, installing, slot, model, then>>

FinishKeepingPause(c) == FinishLowering(c, 0)
Finish(c) == FinishLowering(c, 1)

-----------------------------------------------------------------------------
Init ==
    /\ map = None
    /\ handle = [t \in Threads |-> None]
    /\ quarantine = None
    /\ source = [x \in Tables |-> None]
    /\ tableStuck = FALSE
    /\ pause = 0
    /\ installing = None
    /\ lease = None
    /\ engine = None
    /\ hosted = None
    /\ model \in Models
    /\ want = [t \in Threads |-> None]
    /\ pc = [t \in Threads |-> "idle"]
    /\ then = [t \in Threads |-> "swap"]

Uninstall(t) == RemoveEntry(t) \/ Barrier(t) \/ BarrierTimeout(t)

WorkerStep ==
    \/ BeginPass \/ MineCheck \/ CloneMiner \/ Recheck \/ WalkEnds
    \/ ResetPause \/ ResetProbe \/ ResetFinish
    \/ Stage \/ StageFails \/ BeginInstall \/ InstallEngine
    \/ ProbeCached \/ ProbeClaim \/ ProbeEnds \/ Install \/ LoadFails \/ Unwind
    \/ EraBegin \/ EraSwap
    \/ Uninstall(Worker)

ClientStep(c) ==
    \/ Claim(c) \/ Refused(c) \/ RaisePause(c) \/ CheckInstalling(c)
    \/ CloneResident(c) \/ Drained(c) \/ DrainTimeout(c)
    \/ ChooseRoute(c) \/ SwapEngine(c) \/ Serve(c) \/ Generated(c)
    \/ StartServer(c) \/ Finish(c)
    \/ Uninstall(c)

Next == WorkerStep \/ \E c \in Clients : ClientStep(c)

Spec == Init /\ [][Next]_vars

Fairness ==
    /\ WF_vars(WorkerStep)
    /\ \A c \in Clients :
         WF_vars(pc[c] # "idle" /\ ClientStep(c))

FairSpec == Spec /\ Fairness

-----------------------------------------------------------------------------
(* Properties.                                                             *)

Labels ==
    {"idle", "pass", "checked", "cloned", "walk", "fault", "probe", "remove",
     "barrier", "reset", "stuck", "staged", "install", "route",
     "probing", "load", "unwind", "era", "leased", "raised", "unstaged",
     "draining", "drained", "swap", "serve", "generating", "server", "finish"}

\* Every variable has its type.
TypeOK ==
    /\ map \in Tables \cup {None}
    /\ handle \in [Threads -> Tables \cup {None}]
    /\ quarantine \in Tables \cup {None}
    /\ source \in [Tables -> Engines \cup {None}]
    /\ tableStuck \in BOOLEAN
    /\ pause \in Nat
    /\ installing \in {None, Worker}
    /\ lease \in Threads \cup {None}
    /\ engine \in Engines \cup {None}
    /\ hosted \in Models \cup {None}
    /\ model \in Models
    /\ want \in [Threads -> Models \cup {None}]
    /\ pc \in [Threads -> Labels]
    /\ then \in [Threads -> {"swap", "server", "reset", "era"}]

\* A client owns the card from a successful drain to the drop of its guard.
Serving(c) ==
    \/ pc[c] \in {"drained", "swap", "serve", "generating", "server"}
    \/ pc[c] \in {"remove", "barrier"}

\* A thread holds one count of the card's pause.
HoldsPause(t) ==
    IF t = Worker
    THEN \/ pc[t] \in {"probe", "reset", "stuck", "probing"}
         \/ pc[t] \in {"remove", "barrier"} /\ then[t] = "reset"
    ELSE pc[t] \notin {"idle", "leased"}

\* The nested pause count is exactly the number of guards alive, so the mask
\* bit is down only when no model operation runs and a card is never left
\* paused by an early return (set_inference_paused_on and its three guards).
PauseCountsGuards == pause = Cardinality({t \in Threads : HoldsPause(t)})

\* Staging and inference exclude each other: a request that passed the drain
\* never overlaps an install transaction or an era swap of the same card
\* (DeviceInstallGuard::begin against pause_and_drain_for_inference).
InstallExcludesInference ==
    \A c \in Clients : Serving(c) => installing = None

\* One request at a time owns the card, the install-time probe included
\* (try_claim_card and InferenceLease).
OneLeaseHolder ==
    \A t \in Threads :
        (IF t = Worker THEN pc[t] = "probing" ELSE pc[t] # "idle") => lease = t

\* GPU inference and the walk never overlap on the card: while a drained
\* request lives, the worker has not launched (mine_v4's second pause check
\* against the owner count of pause_and_drain_for_inference).
WalkAndInferenceExclude ==
    pc[Worker] = "walk" => \A c \in Clients : ~Serving(c)

\* A zero-dup table points into the engine load that is resident: no model
\* swap, fault recovery, era swap or fallback frees the weights under an
\* installed table or under a launched walk.
WalkReadsLiveWeights ==
    \A x \in Tables :
        (x = map \/ (pc[Worker] = "walk" /\ x = handle[Worker]))
            => source[x] \in {None, engine}

\* A card never holds two walk tables: nothing rebuilds while an older table
\* is still resident (ensure_installed, table_stuck).
OneTableResident == Cardinality(Resident) <= 1

\* A request that claimed the card gives it back: the drain, the barrier and
\* the engine's mutex never wait for one another in a circle.
RequestEnds == \A c \in Clients : []<>(pc[c] = "idle")

\* A started install transaction ends, so requests are not refused with
\* InstallBusy forever.
InstallEnds == []<>(installing = None)

(* For TLC: clients, tables, engine loads and models are interchangeable.  *)
Symmetry ==
    Permutations(Clients) \cup Permutations(Tables)
        \cup Permutations(Engines) \cup Permutations(Models)

=============================================================================
