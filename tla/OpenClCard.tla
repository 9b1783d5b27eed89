----------------------------- MODULE OpenClCard -----------------------------
(***************************************************************************)
(* The AMD backend: one mining worker per OpenCL card (pom_opencl.rs), the *)
(* in-process Vulkan engine that may host the model on one of those cards  *)
(* (llama_engine_vk.rs) and the inference request that pauses the walks,   *)
(* drains them, loads or swaps the engine and generates (slm.rs).          *)
(*                                                                         *)
(* A card's worker installs its own resident walk (upload), or claims the  *)
(* engine's resident model ("zero-dup") after a byte gate, or is dedicated *)
(* to inference and mines nothing.  The steps of a worker are separated    *)
(* wherever the code releases a lock between a check and its use.          *)
(*                                                                         *)
(* The memory planner's verdict and the identity of the card the engine    *)
(* lands on are a placement record, fixed for the process:                 *)
(*   required  model and walk do not fit one card together                 *)
(*   pinned    KERYX_LLAMA_VK_DEVICE names the device                      *)
(*   pci       the device's PCI identity can be read                       *)
(*   target    the card it lands on, None for one outside the workers      *)
(*   policy    zero_dup_policy of the target                               *)
(* Deadlines (30 s, 60 s) may strike whenever the wait is not over.        *)
(***************************************************************************)
EXTENDS Naturals, FiniteSets

CONSTANTS Cards, Models, Mined, None, Placements, HasServer, MaxRequests, MaxFaults

VARIABLES
    place,       \* the placement record
    pause,       \* INFERENCE_PAUSE_COUNT
    setup,       \* GPU_SETUP
    installing,  \* INSTALLING
    resident,    \* POM_BY_DEV: card -> "none" | "opencl" | "vulkan"
    arcs,        \* card -> does its worker hold a clone of the miner's Arc
    miner_lock,  \* card -> the resident miner's mutex is held by the worker
    vulkan_failed, \* VULKAN_FAILED
    shared,      \* SHARED_DEV
    refused,     \* ZERO_DUP_REFUSED
    index,       \* pom::active_index() exists
    dedicated,   \* DEDICATED_DEV
    engine,      \* the loaded engine [model, card], or NoEngine
    engine_lock, \* who holds the engine mutex across steps
    inflight,    \* WALK_INFLIGHT
    server,      \* the model llama-server holds, or None
    evicted,     \* EVICTED
    w,           \* card -> its worker's step, and whether it claims for a reserved card
    q,           \* the inference request
    served,      \* requests begun
    faults       \* failures of the driver, the loader or a generation

cards == <<place, pause, setup, installing, resident, arcs, miner_lock, vulkan_failed, shared,
           refused, index, dedicated, engine, engine_lock, inflight, server, evicted, w, q,
           served, faults>>

NoEngine    == [model |-> None, card |-> None]
Undedicated == [device |-> None, owner |-> "none"]
NoRequest   == [at |-> "idle", model |-> None, left |-> {}, owner |-> "none", evict |-> None,
                taken |-> "none"]

TypeOK ==
    /\ place \in Placements /\ pause \in 0..1 /\ setup \subseteq Cards
    /\ installing \subseteq Cards /\ installing \subseteq setup
    /\ resident \in [Cards -> {"none", "opencl", "vulkan"}]
    /\ arcs \in [Cards -> BOOLEAN] /\ miner_lock \in [Cards -> BOOLEAN]
    /\ vulkan_failed \subseteq Cards /\ shared \in Cards \cup {None}
    /\ refused \subseteq Cards /\ index \in BOOLEAN
    /\ dedicated.device \in Cards \cup {None}
    /\ dedicated.owner \in {"none", "provisional", "inproc", "server"}
    /\ engine \in [model : Models \cup {None}, card : Cards \cup {None}]
    /\ inflight \in 0..Cardinality(Cards)
    /\ server \in Models \cup {None} /\ served \in 0..MaxRequests /\ faults \in 0..MaxFaults

-----------------------------------------------------------------------------
(***************************************************************************)
(* Dedication of a card to inference.                                      *)
(***************************************************************************)

\* require_dedicated_inference_card: the largest card is reserved provisionally at startup.
require_dedicated_inference_card(p) ==
    IF p.required THEN [device |-> CHOOSE c \in Cards : TRUE, owner |-> "provisional"]
                  ELSE Undedicated

clear_dedication_owned_by(owner) == IF dedicated.owner = owner THEN Undedicated ELSE dedicated

\* classify_vulkan_device_scope.
classify_vulkan_device_scope ==
    IF place.target \in Cards THEN "worker" ELSE IF place.pinned THEN "external" ELSE "reject"

\* prepare_vulkan_device, up to the eviction: the card to evict (None: nothing to evict),
\* the reservation, and whether the load may go on.
prepare_vulkan_device(owner) ==
    LET keep == [ok |-> TRUE, evict |-> None, ded |-> dedicated]
        take(c) == [ok |-> TRUE, evict |-> c, ded |-> [device |-> c, owner |-> owner]]
        refuse == [ok |-> FALSE, evict |-> None,
                   ded |-> IF place.required THEN Undedicated ELSE dedicated]
    IN  CASE ~place.required /\ (place.pinned \/ ~place.pci) -> keep
          [] place.required /\ ~place.pci ->
                IF dedicated.device = None THEN refuse ELSE take(dedicated.device)
          [] OTHER ->
                CASE classify_vulkan_device_scope = "worker" ->
                        IF place.required THEN take(place.target) ELSE keep
                  [] classify_vulkan_device_scope = "external" ->
                        [keep EXCEPT !.ded = IF place.required
                                             THEN [device |-> None, owner |-> owner] ELSE dedicated]
                  [] OTHER -> refuse

\* dedicate_loaded_engine_card_if_required: the loaded engine agrees with its reservation.
dedicate_loaded_engine_card_if_required ==
    LET refuse == [ok |-> FALSE, ded |-> IF place.required THEN Undedicated ELSE dedicated]
        accept == [ok |-> TRUE, ded |-> dedicated]
    IN  IF ~place.pci
        THEN IF ~place.required /\ place.pinned THEN accept ELSE refuse
        ELSE IF engine.card \in Cards
             THEN IF place.required /\ dedicated # [device |-> engine.card, owner |-> "inproc"]
                  THEN refuse ELSE accept
             ELSE IF place.pinned
                  THEN [ok |-> TRUE, ded |-> IF place.required THEN Undedicated ELSE dedicated]
                  ELSE refuse

\* engine_hosts_card: pom_pci() of the engine equals the card's, both readable.
engine_hosts_card(c) == engine # NoEngine /\ place.pci /\ engine.card = c

\* zero_dup_policy: not switched off and not the RDNA1 family.
zero_dup_policy(c) == place.policy

Init ==
    /\ place \in Placements
    /\ pause = 0 /\ setup = {} /\ installing = {}
    /\ resident = [c \in Cards |-> "none"]
    /\ arcs = [c \in Cards |-> FALSE] /\ miner_lock = [c \in Cards |-> FALSE]
    /\ vulkan_failed = {} /\ shared = None /\ refused = {} /\ index = FALSE
    /\ dedicated = require_dedicated_inference_card(place)
    /\ engine = NoEngine /\ engine_lock = None /\ inflight = 0 /\ server = None /\ evicted = FALSE
    /\ w = [c \in Cards |-> [at |-> "idle", reserved |-> FALSE]] /\ q = NoRequest /\ served = 0 /\ faults = 0

-----------------------------------------------------------------------------
(***************************************************************************)
(* A worker installs its card.                                             *)
(***************************************************************************)

Go(c, at) == w' = [w EXCEPT ![c].at = at]

is_shared_dev(c) == shared = c
miner_for(c) == resident[c] # "none"

\* is_installed: a dedicated card counts as resolved.
is_installed(c) == dedicated.device = c \/ miner_for(c) \/ is_shared_dev(c)

\* ensure_installed, its first part: paused or resolved cards are left alone.
ensure_installed(c) ==
    /\ w[c].at = "idle" /\ ~is_installed(c) /\ pause = 0
    /\ w' = [w EXCEPT ![c] = [at |-> "index", reserved |-> FALSE]]
    /\ UNCHANGED <<place, pause, setup, installing, resident, arcs, miner_lock, vulkan_failed, shared,
                   refused, index, dedicated, engine, engine_lock, inflight, server, evicted, q,
                   served, faults>>

\* ensure_index under BUILD_LOCK; a build that fails returns to the loop.
ensure_index(c) ==
    /\ w[c].at = "index"
    /\ \/ index' = TRUE /\ Go(c, "begin") /\ UNCHANGED faults
       \/ /\ ~index /\ faults < MaxFaults /\ faults' = faults + 1
          /\ Go(c, "idle") /\ UNCHANGED index
    /\ UNCHANGED <<place, pause, setup, installing, resident, arcs, miner_lock, vulkan_failed, shared,
                   refused, dedicated, engine, engine_lock, inflight, server, evicted, q, served>>

\* GpuSetupGuard::begin.
Begin(c) ==
    /\ w[c].at = "begin"
    /\ IF pause # 0 \/ c \in setup
       THEN Go(c, "idle") /\ UNCHANGED setup
       ELSE setup' = setup \cup {c} /\ Go(c, "claim")
    /\ UNCHANGED <<place, pause, installing, resident, arcs, miner_lock, vulkan_failed, shared,
                   refused, index, dedicated, engine, engine_lock, inflight, server, evicted, q,
                   served, faults>>

\* try_claim_shared up to the byte gate.  A reserved card goes back to its loop when it may
\* not claim, any other card to its own upload.
Unclaimed(c) == IF w[c].reserved THEN "done" ELSE "install"
try_claim_shared(c) ==
    /\ w[c].at = "claim" /\ engine_lock = None
    /\ IF is_shared_dev(c) THEN Go(c, "done") /\ UNCHANGED <<refused, engine_lock>>
       ELSE IF c \in refused \/ shared # None \/ ~engine_hosts_card(c)
       THEN Go(c, Unclaimed(c)) /\ UNCHANGED <<refused, engine_lock>>
       ELSE IF ~zero_dup_policy(c)
       THEN Go(c, Unclaimed(c)) /\ refused' = refused \cup {c} /\ UNCHANGED engine_lock
       ELSE Go(c, "gate") /\ engine_lock' = c /\ UNCHANGED refused
    /\ UNCHANGED <<place, pause, setup, installing, resident, arcs, miner_lock, vulkan_failed, shared,
                   index, dedicated, engine, inflight, server, evicted, q, served, faults>>

\* pom_byte_gate: the engine's chunks are read through the walk's gather and compared with
\* the possession index; a model other than the mined one differs.
pom_byte_gate(c) ==
    /\ w[c].at = "gate" /\ engine_lock' = None
    /\ IF engine # NoEngine /\ engine.model = Mined
       THEN \/ shared' = c /\ Go(c, "done") /\ UNCHANGED <<refused, faults>>
            \/ /\ faults < MaxFaults /\ faults' = faults + 1
               /\ refused' = refused \cup {c} /\ Go(c, Unclaimed(c)) /\ UNCHANGED shared
       ELSE /\ refused' = refused \cup {c} /\ Go(c, Unclaimed(c)) /\ UNCHANGED <<shared, faults>>
    /\ UNCHANGED <<place, pause, setup, installing, resident, arcs, miner_lock, vulkan_failed, index,
                   dedicated, engine, inflight, server, evicted, q, served>>

\* install_resident up to its claim.  A failure on the card that hosts the engine unloads
\* the engine once and tries again.
Failed(c, at) == IF at = "install" /\ engine_hosts_card(c) THEN "unload" ELSE "done"
install_resident(c) ==
    /\ w[c].at \in {"install", "again"} /\ engine_lock = None
    /\ IF c \in vulkan_failed \/ (~miner_for(c) /\ pause # 0)
       THEN Go(c, Failed(c, w[c].at)) /\ UNCHANGED installing
       ELSE IF miner_for(c)
       THEN Go(c, "done") /\ UNCHANGED installing
       ELSE /\ installing' = installing \cup {c}
            /\ Go(c, IF w[c].at = "install" THEN "upload" ELSE "reupload")
    /\ UNCHANGED <<place, pause, setup, resident, arcs, miner_lock, vulkan_failed, shared, refused,
                   index, dedicated, engine, engine_lock, inflight, server, evicted, q, served, faults>>

\* MiningWalk::load / PomMiner::new and the publication in POM_BY_DEV.  The upload does not
\* fit beside an engine when the planner says so.
Fits(c) == ~(place.required /\ engine # NoEngine /\ engine.card = c)
Upload(c) ==
    /\ w[c].at \in {"upload", "reupload"} /\ engine_lock = None
    /\ installing' = installing \ {c}
    /\ \/ /\ Fits(c) /\ \E b \in {"opencl", "vulkan"} : resident' = [resident EXCEPT ![c] = b]
          /\ Go(c, "done") /\ UNCHANGED <<vulkan_failed, faults>>
       \/ /\ ~Fits(c) \/ faults < MaxFaults
          /\ faults' = IF Fits(c) THEN faults + 1 ELSE faults
          /\ \/ UNCHANGED vulkan_failed
             \/ Fits(c) /\ vulkan_failed' = vulkan_failed \cup {c}
          /\ Go(c, Failed(c, IF w[c].at = "upload" THEN "install" ELSE "again"))
          /\ UNCHANGED resident
    /\ UNCHANGED <<place, pause, setup, arcs, miner_lock, shared, refused, index, dedicated, engine,
                   engine_lock, inflight, server, evicted, q, served>>

\* The install failed beside the engine: llama_engine_vk::unload, mark_gpu_inference_unfit
\* and withdraw_model_after_amd_engine_eviction; unload waits for the walks in flight.
UnloadForBlob(c) ==
    /\ w[c].at = "unload" /\ engine_lock = None
    /\ IF engine = NoEngine
       THEN Go(c, "done") /\ UNCHANGED <<engine, dedicated, evicted>>
       ELSE /\ inflight = 0
            /\ engine' = NoEngine /\ dedicated' = clear_dedication_owned_by("inproc")
            /\ evicted' = TRUE /\ Go(c, "again")
    /\ UNCHANGED <<place, pause, setup, installing, resident, arcs, miner_lock, vulkan_failed, shared,
                   refused, index, engine_lock, inflight, server, q, served, faults>>

\* The GpuSetupGuard is dropped.
EndSetup(c) ==
    /\ w[c].at = "done" /\ setup' = setup \ {c} /\ Go(c, "idle")
    /\ UNCHANGED <<place, pause, installing, resident, arcs, miner_lock, vulkan_failed, shared, refused,
                   index, dedicated, engine, engine_lock, inflight, server, evicted, q, served, faults>>

-----------------------------------------------------------------------------
(***************************************************************************)
(* A worker mines a batch: mine_v4 and the walks below it.                 *)
(***************************************************************************)

\* try_claim_reserved: the dedicated card builds the index and tries to claim the engine.
try_claim_reserved(c) ==
    /\ w[c].at = "idle" /\ pause = 0 /\ engine_lock = None
    /\ dedicated.device = c /\ ~is_shared_dev(c) /\ c \notin refused /\ engine_hosts_card(c)
    /\ w' = [w EXCEPT ![c] = [at |-> IF index THEN "begin" ELSE "index", reserved |-> TRUE]]
    /\ UNCHANGED <<place, pause, setup, installing, resident, arcs, miner_lock, vulkan_failed, shared,
                   refused, index, dedicated, engine, engine_lock, inflight, server, evicted, q,
                   served, faults>>

\* mine_v4: paused, or the shared walk, or the clone of this card's resident miner.
mine_v4(c) ==
    /\ w[c].at = "idle" /\ pause = 0 /\ is_installed(c)
    /\ dedicated.device = c => is_shared_dev(c)
    /\ IF is_shared_dev(c) THEN Go(c, "shared") /\ UNCHANGED arcs
                           ELSE Go(c, "arc") /\ arcs' = [arcs EXCEPT ![c] = TRUE]
    /\ UNCHANGED <<place, pause, setup, installing, resident, miner_lock, vulkan_failed, shared, refused,
                   index, dedicated, engine, engine_lock, inflight, server, evicted, q, served, faults>>

\* The resident miner's mutex, then the second look at the pause.
LockMiner(c) ==
    /\ w[c].at = "arc" /\ ~miner_lock[c]
    /\ IF pause # 0
       THEN Go(c, "idle") /\ arcs' = [arcs EXCEPT ![c] = FALSE] /\ UNCHANGED miner_lock
       ELSE miner_lock' = [miner_lock EXCEPT ![c] = TRUE] /\ Go(c, "grind") /\ UNCHANGED arcs
    /\ UNCHANGED <<place, pause, setup, installing, resident, vulkan_failed, shared, refused, index,
                   dedicated, engine, engine_lock, inflight, server, evicted, q, served, faults>>

\* The batch ends: a Vulkan dispatch that fails marks the device for the process.
Ground(c) ==
    /\ w[c].at = "grind" /\ Go(c, "idle")
    /\ miner_lock' = [miner_lock EXCEPT ![c] = FALSE] /\ arcs' = [arcs EXCEPT ![c] = FALSE]
    /\ \/ UNCHANGED <<vulkan_failed, faults>>
       \/ /\ faults < MaxFaults /\ faults' = faults + 1
          /\ resident[c] = "vulkan" /\ vulkan_failed' = vulkan_failed \cup {c}
    /\ UNCHANGED <<place, pause, setup, installing, resident, shared, refused, index, dedicated, engine,
                   engine_lock, inflight, server, evicted, q, served>>

\* llama_engine_vk::pom_mine_v4 and pom_v5::mine: counted under the engine's lock.
EnterShared(c) ==
    /\ w[c].at = "shared" /\ engine_lock = None
    /\ IF engine = NoEngine \/ pause # 0 THEN Go(c, "idle") /\ UNCHANGED inflight
                                     ELSE inflight' = inflight + 1 /\ Go(c, "walk")
    /\ UNCHANGED <<place, pause, setup, installing, resident, arcs, miner_lock, vulkan_failed, shared,
                   refused, index, dedicated, engine, engine_lock, server, evicted, q, served, faults>>

\* InflightGuard drops after the sub-dispatches.
LeaveShared(c) ==
    /\ w[c].at = "walk" /\ inflight' = inflight - 1 /\ Go(c, "idle")
    /\ UNCHANGED <<place, pause, setup, installing, resident, arcs, miner_lock, vulkan_failed, shared,
                   refused, index, dedicated, engine, engine_lock, server, evicted, q, served, faults>>

WalkStep(c) ==
    \/ ensure_installed(c) \/ ensure_index(c) \/ Begin(c) \/ try_claim_shared(c)
    \/ pom_byte_gate(c) \/ install_resident(c) \/ Upload(c) \/ UnloadForBlob(c) \/ EndSetup(c)
    \/ try_claim_reserved(c) \/ mine_v4(c) \/ LockMiner(c) \/ Ground(c) \/ EnterShared(c)
    \/ LeaveShared(c)

-----------------------------------------------------------------------------
(***************************************************************************)
(* The inference request: pause_and_drain_for_inference, the route         *)
(* (generate_on: engine first, then llama-server) and the guard's drop.    *)
(***************************************************************************)

To(at) == q' = [q EXCEPT !.at = at]

\* The workers' own state: a request never writes it.
OfWorkers == <<place, setup, installing, arcs, miner_lock, vulkan_failed, shared, refused, index,
               inflight, w>>

\* The pause is published before anything is looked at.
Raise(m) ==
    /\ q.at = "idle" /\ served < MaxRequests
    /\ pause' = pause + 1 /\ served' = served + 1
    /\ q' = [NoRequest EXCEPT !.at = "setup", !.model = m]
    /\ UNCHANGED <<OfWorkers, resident, dedicated, engine, engine_lock, server, evicted, faults>>

\* No setup or upload is under way, or the 30 s are over (InstallBusy).
DrainSetup ==
    /\ q.at = "setup"
    /\ IF setup = {} /\ installing = {}
       THEN q' = [q EXCEPT !.at = "miners", !.left = {c \in Cards : miner_for(c)}]
       ELSE To("end")
    /\ UNCHANGED <<OfWorkers, pause, resident, dedicated, engine, engine_lock, server, evicted, served,
                   faults>>

\* Each resident miner's mutex is taken once.
DrainMiner(c) ==
    /\ q.at = "miners" /\ c \in q.left /\ ~miner_lock[c]
    /\ q' = [q EXCEPT !.left = @ \ {c}]
    /\ UNCHANGED <<OfWorkers, pause, resident, dedicated, engine, engine_lock, server, evicted, served,
                   faults>>

\* drain_shared_walk: under the engine's lock, until no walk is in flight or 30 s (WalkBusy).
drain_shared_walk ==
    /\ \/ /\ q.at = "miners" /\ q.left = {} /\ engine_lock = None
          /\ engine_lock' = "q" /\ To("shared")
       \/ q.at = "shared" /\ engine_lock' = None /\ To(IF inflight = 0 THEN "route" ELSE "end")
    /\ UNCHANGED <<OfWorkers, pause, resident, dedicated, engine, server, evicted, served, faults>>

\* reuse_exact_or_stop, then the engine: another model is unloaded first.
Route ==
    /\ q.at = "route" /\ engine_lock = None
    /\ IF server = q.model
       THEN To("answer") /\ UNCHANGED <<server, dedicated>>
       ELSE /\ server' = None
            /\ dedicated' = IF server = None THEN dedicated ELSE clear_dedication_owned_by("server")
            /\ To(IF engine = NoEngine THEN "prepare"
                  ELSE IF engine.model = q.model THEN "check" ELSE "unload")
    /\ UNCHANGED <<OfWorkers, pause, resident, engine, engine_lock, evicted, served, faults>>

\* llama_engine_vk::unload by the request: it waits for the walks in flight.
Unload ==
    /\ q.at \in {"unload", "unscoped", "replace"} /\ engine_lock = None /\ inflight = 0
    /\ engine' = NoEngine
    /\ dedicated' = IF engine = NoEngine THEN dedicated ELSE clear_dedication_owned_by("inproc")
    /\ To(CASE q.at = "unload" -> "prepare" [] q.at = "unscoped" -> "fallback"
            [] OTHER -> "start")
    /\ UNCHANGED <<OfWorkers, pause, resident, engine_lock, server, evicted, served, faults>>

\* ensure_loaded and try_start_on reserve the exact target before anything is allocated.  A
\* server is not started after an eviction for VRAM unless its device is pinned.
AfterFailure(owner) == IF owner = "inproc" THEN "fallback" ELSE "end"
Prepare ==
    /\ q.at \in {"prepare", "start"} /\ engine_lock = None
    /\ LET owner == IF q.at = "prepare" THEN "inproc" ELSE "server"
           r == prepare_vulkan_device(owner)
       IN  IF owner = "server" /\ evicted /\ ~place.pinned
           THEN To("end") /\ UNCHANGED <<dedicated, engine_lock>>
           ELSE /\ dedicated' = r.ded
                /\ IF r.ok
                   THEN /\ q' = [q EXCEPT !.at = IF r.evict = None THEN "load" ELSE "evict",
                                         !.owner = owner, !.evict = r.evict]
                        /\ engine_lock' = IF owner = "inproc" THEN "q" ELSE None
                   ELSE To(AfterFailure(owner)) /\ UNCHANGED engine_lock
    /\ UNCHANGED <<OfWorkers, pause, resident, engine, server, evicted, served, faults>>

\* evict_resident_for_dedication: the miner leaves the registry and is dropped by its sole
\* owner; a clone still held after 30 s puts it back and refuses the load.
Evict ==
    /\ q.at = "evict"
    /\ \/ /\ miner_for(q.evict)
          /\ resident' = [resident EXCEPT ![q.evict] = "none"]
          /\ q' = [q EXCEPT !.taken = resident[q.evict]]
          /\ UNCHANGED <<dedicated, engine_lock>>
       \/ /\ ~miner_for(q.evict) /\ (q.taken = "none" \/ ~arcs[q.evict])
          /\ q' = [q EXCEPT !.at = "load", !.taken = "none"]
          /\ UNCHANGED <<resident, dedicated, engine_lock>>
       \/ /\ ~miner_for(q.evict) /\ q.taken # "none" /\ arcs[q.evict]
          /\ resident' = [resident EXCEPT ![q.evict] = q.taken]
          /\ dedicated' = clear_dedication_owned_by(q.owner)
          /\ q' = [q EXCEPT !.at = AfterFailure(q.owner), !.taken = "none"]
          /\ engine_lock' = None
    /\ UNCHANGED <<OfWorkers, pause, engine, server, evicted, served, faults>>

\* The model is loaded, in the engine or in llama-server; a failed load gives its
\* reservation back (the dedication attempt's guard).
Load ==
    /\ q.at = "load" /\ engine_lock' = None
    /\ \/ /\ IF q.owner = "inproc"
             THEN engine' = [model |-> q.model, card |-> place.target] /\ UNCHANGED server
             ELSE server' = q.model /\ UNCHANGED engine
          /\ To(IF q.owner = "inproc" THEN "check" ELSE "answer")
          /\ UNCHANGED <<dedicated, faults>>
       \/ /\ faults < MaxFaults /\ faults' = faults + 1
          /\ dedicated' = clear_dedication_owned_by(q.owner)
          /\ To(AfterFailure(q.owner)) /\ UNCHANGED <<engine, server>>
    /\ UNCHANGED <<OfWorkers, pause, resident, evicted, served>>

\* The loaded engine is checked against the reservation before the first token.
Check ==
    /\ q.at = "check" /\ engine_lock = None
    /\ LET r == dedicate_loaded_engine_card_if_required
       IN  /\ dedicated' = r.ded
           /\ To(IF r.ok THEN "generate" ELSE "unscoped")
           /\ engine_lock' = IF r.ok THEN "q" ELSE None
    /\ UNCHANGED <<OfWorkers, pause, resident, engine, server, evicted, served, faults>>

\* generate_for on the engine, under its lock.
Generate ==
    /\ q.at = "generate" /\ engine_lock' = None
    /\ \/ To("end") /\ UNCHANGED faults
       \/ faults < MaxFaults /\ faults' = faults + 1 /\ To("fallback")
    /\ UNCHANGED <<OfWorkers, pause, resident, dedicated, engine, server, evicted, served>>

\* The next engine is the configured llama-server; the in-process copy of this model goes.
Fallback ==
    /\ q.at = "fallback" /\ engine_lock = None
    /\ To(IF ~HasServer THEN "end"
          ELSE IF engine # NoEngine /\ engine.model = q.model THEN "replace" ELSE "start")
    /\ UNCHANGED <<OfWorkers, pause, resident, dedicated, engine, engine_lock, server, evicted, served,
                   faults>>

\* llama-server answers; a failed request kills and reaps it (stop_locked).
Answer ==
    /\ q.at = "answer" /\ To("end")
    /\ \/ server # None /\ UNCHANGED <<server, dedicated, faults>>
       \/ server = None /\ UNCHANGED <<server, dedicated, faults>>
       \/ /\ faults < MaxFaults /\ faults' = faults + 1
          /\ server' = None /\ dedicated' = clear_dedication_owned_by("server")
    /\ UNCHANGED <<OfWorkers, pause, resident, engine, engine_lock, evicted, served>>

\* InferenceDrainGuard drops.
End ==
    /\ q.at = "end" /\ pause' = pause - 1 /\ q' = NoRequest
    /\ UNCHANGED <<OfWorkers, resident, dedicated, engine, engine_lock, server, evicted, served, faults>>

\* llama-server exits by itself; its monitor releases the reservation.
ServerExits ==
    /\ server # None /\ faults < MaxFaults /\ faults' = faults + 1
    /\ server' = None /\ dedicated' = clear_dedication_owned_by("server")
    /\ UNCHANGED <<OfWorkers, pause, resident, engine, engine_lock, evicted, q, served>>

RequestStep ==
    \/ DrainSetup \/ (\E c \in Cards : DrainMiner(c)) \/ drain_shared_walk \/ Route \/ Unload
    \/ Prepare \/ Evict \/ Load \/ Check \/ Generate \/ Fallback \/ Answer \/ End

Next == (\E c \in Cards : WalkStep(c)) \/ (\E m \in Models : Raise(m)) \/ RequestStep \/ ServerExits

Spec == Init /\ [][Next]_cards

\* Every worker thread and the request's thread keep being scheduled.
Fairness == (\A c \in Cards : WF_cards(WalkStep(c))) /\ WF_cards(RequestStep)

FairSpec == Spec /\ Fairness

-----------------------------------------------------------------------------
\* A request owns the cards from the end of its drain to the drop of its guard.
Owns == q.at \notin {"idle", "setup", "miners", "shared", "end"}

(***************************************************************************)
(* While a drained request loads, swaps or generates, no card runs a walk, *)
(* an upload or a byte gate; a walk over the engine's weights never        *)
(* outlives the engine; and a model that does not fit beside a walk is     *)
(* loaded only once that card's walk is gone (pause_and_drain_for_         *)
(* inference, the second look at the pause under the miner's lock,         *)
(* WALK_INFLIGHT, evict_resident_for_dedication).                          *)
(***************************************************************************)
CardIsExclusive ==
    /\ Owns => \A c \in Cards : w[c].at \notin {"gate", "upload", "reupload", "grind", "walk"}
    /\ \A c \in Cards : w[c].at = "walk" => engine # NoEngine
    /\ q.at = "load" /\ q.evict # None => ~miner_for(q.evict) /\ ~arcs[q.evict]

(***************************************************************************)
(* The mining pause raised by a request is always taken back: a request    *)
(* ends whatever fails under it.                                           *)
(***************************************************************************)
PauseEnds == []<>(pause = 0)

(***************************************************************************)
(* A worker's card mines again and again unless it is dedicated to         *)
(* inference or its device failed (ensure_installed: "the card would idle  *)
(* at 0 hash forever ... Mining beats in-process inference").              *)
(***************************************************************************)
EveryCardMines ==
    \A c \in Cards : []<>(w[c].at \in {"grind", "walk"} \/ dedicated.device = c \/ c \in vulkan_failed)

(***************************************************************************)
(* The zero-dup walk reads only weights the byte gate compared with the    *)
(* possession index (llama_engine_vk.rs: "any mismatch refuses zero-dup"). *)
(***************************************************************************)
SharedIsGated == \A c \in Cards : w[c].at = "walk" => engine.model = Mined

(***************************************************************************)
(* The engine is unloaded for the blob only after an allocation failed     *)
(* (ensure_installed's recovery).                                          *)
(***************************************************************************)
EvictedForVram == [][evicted' # evicted => faults > 0 \/ place.required]_cards
=============================================================================
