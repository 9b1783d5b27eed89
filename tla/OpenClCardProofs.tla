-------------------------- MODULE OpenClCardProofs --------------------------
(***************************************************************************)
(* Proofs about the AMD cards and the in-process Vulkan engine,            *)
(* OpenClCard, for any finite set of cards, any models and placements, and *)
(* any number of requests and faults.                                      *)
(*                                                                         *)
(* The invariant Alone: the pause is that of the request, a worker holds   *)
(* its setup guard, its miner's mutex and its clone exactly at the places  *)
(* that say so, a drained request leaves no card in a setup, a batch or a  *)
(* shared walk, and WALK_INFLIGHT is the number of shared walks.  The last *)
(* makes the drain sound: the request sees only the counter.               *)
(***************************************************************************)
EXTENDS OpenClCard, FiniteSetTheorems, TLAPS

\* The backends that try a leaf, in turn, unless it names its own.
USE SMTT(30), ZenonT(30), Z3T(30)

\* What the theorem assumes of the constants: a rig has cards, and None is not one.
Assumed == IsFiniteSet(Cards) /\ Cards # {} /\ None \notin Cards

\* The places of a worker; in SetupAts it holds its GpuSetupGuard.
SetupAts == {"claim", "gate", "install", "upload", "again", "reupload", "unload", "done"}
WorkerAts == SetupAts \cup {"idle", "index", "begin", "arc", "grind", "shared", "walk"}
Workers == [at : WorkerAts, reserved : BOOLEAN]

\* The places of a request; in Waiting its drain is not over.
Waiting == {"idle", "setup", "miners", "shared", "end"}
RequestAts == Waiting \cup {"route", "check", "prepare", "unload", "load", "evict", "answer", "generate",
                            "fallback", "unscoped", "replace", "start"}
Walks == {"none", "opencl", "vulkan"}
Requests == [at : RequestAts, model : Models \cup {None}, left : SUBSET Cards,
             owner : {"none", "inproc", "server"}, evict : Cards \cup {None}, taken : Walks]
Dedications == [device : Cards \cup {None}, owner : {"none", "provisional", "inproc", "server"}]

Typed ==
    /\ w \in [Cards -> Workers] /\ q \in Requests /\ dedicated \in Dedications
    /\ resident \in [Cards -> Walks]
    /\ arcs \in [Cards -> BOOLEAN] /\ miner_lock \in [Cards -> BOOLEAN]
    /\ setup \in SUBSET Cards

\* The pause is that of the one request, and none of its drained places has a
\* setup under way.
RequestFits ==
    /\ pause = IF q.at = "idle" THEN 0 ELSE 1
    /\ q.at \notin {"idle", "setup", "end"} => setup = {}
    /\ q.at # "evict" => q.taken = "none"
    /\ q.at = "evict" => q.evict \in Cards

\* The guard, the mutex and the clone of a worker, and what it keeps of a drain.
CardFits(c) ==
    /\ c \in setup <=> w[c].at \in SetupAts
    /\ miner_lock[c] <=> w[c].at = "grind"
    /\ arcs[c] <=> w[c].at \in {"arc", "grind"}
    /\ w[c].at \in {"arc", "grind"} =>
         resident[c] # "none" \/ (q.at = "evict" /\ q.evict = c /\ q.taken # "none")
    /\ w[c].at = "grind" => q.at \in {"idle", "setup", "end"} \/ (q.at = "miners" /\ c \in q.left)
    /\ w[c].at = "walk" => q.at \in Waiting /\ engine # NoEngine
    /\ q.at = "load" /\ q.evict = c => resident[c] = "none" /\ w[c].at \notin {"arc", "grind"}

Walkers == {c \in Cards : w[c].at = "walk"}

Alone ==
    /\ Typed /\ RequestFits /\ \A c \in Cards : CardFits(c)
    /\ inflight = Cardinality(Walkers)
-----------------------------------------------------------------------------
(* Moves of a worker and of the request.                                   *)

LEMMA WorkerGoes ==
    ASSUME Typed, NEW c \in Cards, NEW at \in WorkerAts, Go(c, at)
    PROVE  w' \in [Cards -> Workers] /\ w'[c].at = at /\ \A d \in Cards \ {c} : w'[d] = w[d]
  <1>1. [w[c] EXCEPT !.at = at] \in Workers /\ [w[c] EXCEPT !.at = at].at = at
    BY DEF Typed, Workers
  <1>2. w' = [w EXCEPT ![c] = [w[c] EXCEPT !.at = at]]
    BY DEF Go
  <1>3. QED
    BY <1>1, <1>2 DEF Typed

LEMMA WorkerSet ==
    ASSUME Typed, NEW c \in Cards, NEW at \in WorkerAts, NEW reserved \in BOOLEAN,
           w' = [w EXCEPT ![c] = [at |-> at, reserved |-> reserved]]
    PROVE  w' \in [Cards -> Workers] /\ w'[c].at = at /\ \A d \in Cards \ {c} : w'[d] = w[d]
  BY DEF Typed, Workers

LEMMA SameWalkers ==
    ASSUME \A d \in Cards : w'[d].at = "walk" <=> w[d].at = "walk"
    PROVE  Walkers' = Walkers
  BY DEF Walkers

LEMMA RequestGoes ==
    ASSUME Typed, NEW at \in RequestAts, To(at)
    PROVE  /\ q' \in Requests /\ q'.at = at /\ q'.left = q.left /\ q'.evict = q.evict
           /\ q'.taken = q.taken /\ q'.owner = q.owner
  BY DEF Typed, Requests, To

-----------------------------------------------------------------------------
(* The steps of a worker.                                                  *)

LEMMA EnsureInstalledStep ==
    ASSUME Alone, NEW c \in Cards, ensure_installed(c)
    PROVE  Alone'
  <1>1. /\ w[c].at = "idle"
        /\ w' = [w EXCEPT ![c] = [at |-> "index", reserved |-> FALSE]]
        /\ UNCHANGED <<pause, setup, resident, arcs, miner_lock, dedicated, engine, inflight, q>>
    BY DEF ensure_installed
  <1>2. /\ w' \in [Cards -> Workers] /\ w'[c].at = "index"
        /\ \A d \in Cards \ {c} : w'[d] = w[d]
    BY <1>1, WorkerSet, Zenon DEF Alone, WorkerAts, SetupAts
  <1>3. Typed' /\ RequestFits'
    BY <1>1, <1>2 DEF Alone, Typed, RequestFits
  <1>4. CardFits(c)'
    BY <1>1, <1>2 DEF Alone, Typed, RequestFits, CardFits, Waiting, SetupAts
  <1>5. ASSUME NEW d \in Cards \ {c} PROVE CardFits(d)'
    BY <1>1, <1>2 DEF Alone, Typed, CardFits
  <1>6. Walkers' = Walkers
    BY <1>1, <1>2, SameWalkers
  <1>7. QED
    BY <1>1, <1>3, <1>4, <1>5, <1>6 DEF Alone

LEMMA EnsureIndexStep ==
    ASSUME Alone, NEW c \in Cards, ensure_index(c)
    PROVE  Alone'
  <1>1. /\ w[c].at = "index"
        /\ \E at \in {"begin", "idle"} : Go(c, at)
        /\ UNCHANGED <<pause, setup, resident, arcs, miner_lock, dedicated, engine, inflight, q>>
    BY DEF ensure_index
  <1>2. /\ w' \in [Cards -> Workers] /\ w'[c].at \in {"begin", "idle"}
        /\ \A d \in Cards \ {c} : w'[d] = w[d]
    BY <1>1, WorkerGoes DEF Alone, WorkerAts, SetupAts
  <1>3. Typed' /\ RequestFits'
    BY <1>1, <1>2 DEF Alone, Typed, RequestFits
  <1>4. CardFits(c)'
    BY <1>1, <1>2 DEF Alone, Typed, RequestFits, CardFits, Waiting, SetupAts
  <1>5. ASSUME NEW d \in Cards \ {c} PROVE CardFits(d)'
    BY <1>1, <1>2 DEF Alone, Typed, CardFits
  <1>6. Walkers' = Walkers
    BY <1>1, <1>2, SameWalkers
  <1>7. QED
    BY <1>1, <1>3, <1>4, <1>5, <1>6 DEF Alone

LEMMA BeginStep ==
    ASSUME Alone, NEW c \in Cards, Begin(c)
    PROVE  Alone'
  <1>1. /\ w[c].at = "begin"
        /\ \/ Go(c, "idle") /\ setup' = setup
           \/ Go(c, "claim") /\ pause = 0 /\ setup' = setup \cup {c}
        /\ UNCHANGED <<pause, resident, arcs, miner_lock, dedicated, engine, inflight, q>>
    BY DEF Begin
  <1>2. /\ w' \in [Cards -> Workers]
        /\ \/ w'[c].at = "idle" /\ setup' = setup
           \/ w'[c].at = "claim" /\ pause = 0 /\ setup' = setup \cup {c}
        /\ \A d \in Cards \ {c} : w'[d] = w[d]
    BY <1>1, WorkerGoes DEF Alone, WorkerAts, SetupAts
  <1>3. Typed' /\ RequestFits'
    BY <1>1, <1>2 DEF Alone, Typed, RequestFits
  <1>4. CardFits(c)'
    BY <1>1, <1>2 DEF Alone, Typed, RequestFits, CardFits, Waiting, SetupAts
  <1>5. ASSUME NEW d \in Cards \ {c} PROVE CardFits(d)'
    BY <1>1, <1>2 DEF Alone, Typed, CardFits
  <1>6. Walkers' = Walkers
    BY <1>1, <1>2, SameWalkers
  <1>7. QED
    BY <1>1, <1>3, <1>4, <1>5, <1>6 DEF Alone

LEMMA ClaimStep ==
    ASSUME Alone, NEW c \in Cards, try_claim_shared(c)
    PROVE  Alone'
  <1>1. /\ w[c].at = "claim"
        /\ \E at \in {"done", "install", "gate"} : Go(c, at)
        /\ UNCHANGED <<pause, setup, resident, arcs, miner_lock, dedicated, engine, inflight, q>>
    BY DEF try_claim_shared, Unclaimed
  <1>2. /\ w' \in [Cards -> Workers] /\ w'[c].at \in {"done", "install", "gate"}
        /\ \A d \in Cards \ {c} : w'[d] = w[d]
    BY <1>1, WorkerGoes DEF Alone, WorkerAts, SetupAts
  <1>3. Typed' /\ RequestFits'
    BY <1>1, <1>2 DEF Alone, Typed, RequestFits
  <1>4. CardFits(c)'
    BY <1>1, <1>2 DEF Alone, Typed, RequestFits, CardFits, Waiting, SetupAts
  <1>5. ASSUME NEW d \in Cards \ {c} PROVE CardFits(d)'
    BY <1>1, <1>2 DEF Alone, Typed, CardFits
  <1>6. Walkers' = Walkers
    BY <1>1, <1>2, SameWalkers
  <1>7. QED
    BY <1>1, <1>3, <1>4, <1>5, <1>6 DEF Alone

LEMMA GateStep ==
    ASSUME Alone, NEW c \in Cards, pom_byte_gate(c)
    PROVE  Alone'
  <1>1. /\ w[c].at = "gate"
        /\ \E at \in {"done", "install"} : Go(c, at)
        /\ UNCHANGED <<pause, setup, resident, arcs, miner_lock, dedicated, engine, inflight, q>>
    BY DEF pom_byte_gate, Unclaimed
  <1>2. /\ w' \in [Cards -> Workers] /\ w'[c].at \in {"done", "install"}
        /\ \A d \in Cards \ {c} : w'[d] = w[d]
    BY <1>1, WorkerGoes DEF Alone, WorkerAts, SetupAts
  <1>3. Typed' /\ RequestFits'
    BY <1>1, <1>2 DEF Alone, Typed, RequestFits
  <1>4. CardFits(c)'
    BY <1>1, <1>2 DEF Alone, Typed, RequestFits, CardFits, Waiting, SetupAts
  <1>5. ASSUME NEW d \in Cards \ {c} PROVE CardFits(d)'
    BY <1>1, <1>2 DEF Alone, Typed, CardFits
  <1>6. Walkers' = Walkers
    BY <1>1, <1>2, SameWalkers
  <1>7. QED
    BY <1>1, <1>3, <1>4, <1>5, <1>6 DEF Alone

LEMMA InstallStep ==
    ASSUME Alone, NEW c \in Cards, install_resident(c)
    PROVE  Alone'
  <1>1. /\ w[c].at \in {"install", "again"}
        /\ \E at \in {"done", "unload", "upload", "reupload"} : Go(c, at)
        /\ UNCHANGED <<pause, setup, resident, arcs, miner_lock, dedicated, engine, inflight, q>>
    BY DEF install_resident, Failed
  <1>2. /\ w' \in [Cards -> Workers] /\ w'[c].at \in {"done", "unload", "upload", "reupload"}
        /\ \A d \in Cards \ {c} : w'[d] = w[d]
    BY <1>1, WorkerGoes DEF Alone, WorkerAts, SetupAts
  <1>3. Typed' /\ RequestFits'
    BY <1>1, <1>2 DEF Alone, Typed, RequestFits
  <1>4. CardFits(c)'
    BY <1>1, <1>2 DEF Alone, Typed, RequestFits, CardFits, Waiting, SetupAts
  <1>5. ASSUME NEW d \in Cards \ {c} PROVE CardFits(d)'
    BY <1>1, <1>2 DEF Alone, Typed, CardFits
  <1>6. Walkers' = Walkers
    BY <1>1, <1>2, SameWalkers
  <1>7. QED
    BY <1>1, <1>3, <1>4, <1>5, <1>6 DEF Alone

LEMMA UploadStep ==
    ASSUME Alone, NEW c \in Cards, Upload(c)
    PROVE  Alone'
  <1>1. /\ w[c].at \in {"upload", "reupload"}
        /\ \E at \in {"done", "unload"} : Go(c, at)
        /\ resident' = resident \/ \E b \in {"opencl", "vulkan"} : resident' = [resident EXCEPT ![c] = b]
        /\ UNCHANGED <<pause, setup, arcs, miner_lock, dedicated, engine, inflight, q>>
    BY DEF Upload, Failed
  <1>2. /\ w' \in [Cards -> Workers] /\ w'[c].at \in {"done", "unload"}
        /\ \A d \in Cards \ {c} : w'[d] = w[d]
    BY <1>1, WorkerGoes DEF Alone, WorkerAts, SetupAts
  <1>3. Typed' /\ RequestFits'
    BY <1>1, <1>2 DEF Alone, Typed, RequestFits, Walks
  <1>4. CardFits(c)'
    BY <1>1, <1>2, ZenonT(60) DEF Alone, Typed, RequestFits, CardFits, Waiting, SetupAts
  <1>5. ASSUME NEW d \in Cards \ {c} PROVE CardFits(d)'
    <2>1. resident'[d] = resident[d]
      BY <1>1 DEF Alone, Typed
    <2> QED BY <1>1, <1>2, <2>1, ZenonT(60) DEF Alone, CardFits
  <1>6. Walkers' = Walkers
    BY <1>1, <1>2, SameWalkers
  <1>7. QED
    BY <1>1, <1>3, <1>4, <1>5, <1>6 DEF Alone

LEMMA NoneInFlight ==
    ASSUME Assumed, Alone, inflight = 0, NEW c \in Cards
    PROVE  w[c].at # "walk"
  <1>1. Walkers \subseteq Cards /\ IsFiniteSet(Cards) /\ Cardinality(Walkers) = 0
    BY DEF Assumed, Alone, Walkers
  <1>2. Walkers = {}
    BY <1>1, FS_Subset, FS_EmptySet
  <1>3. QED
    BY <1>2 DEF Walkers

LEMMA UnloadStep ==
    ASSUME Assumed, Alone, NEW c \in Cards, UnloadForBlob(c)
    PROVE  Alone'
  <1>1. /\ w[c].at = "unload"
        /\ \E at \in {"done", "again"} : Go(c, at)
        /\ engine' = engine \/ inflight = 0
        /\ dedicated' \in {dedicated, Undedicated}
        /\ UNCHANGED <<pause, setup, resident, arcs, miner_lock, inflight, q>>
    BY DEF UnloadForBlob, clear_dedication_owned_by
  <1>2. /\ w' \in [Cards -> Workers] /\ w'[c].at \in {"done", "again"}
        /\ \A d \in Cards \ {c} : w'[d] = w[d]
    BY <1>1, WorkerGoes DEF Alone, WorkerAts, SetupAts
  <1>3. Typed' /\ RequestFits'
    BY <1>1, <1>2 DEF Alone, Typed, RequestFits, Undedicated, Dedications
  <1>4. CardFits(c)'
    BY <1>1, <1>2, ZenonT(60) DEF Alone, Typed, RequestFits, CardFits, Waiting, SetupAts
  <1>5. ASSUME NEW d \in Cards \ {c} PROVE CardFits(d)'
    <2>1. engine' = engine \/ w[d].at # "walk"
      BY <1>1, NoneInFlight
    <2>2. QED
      BY <1>1, <1>2, <2>1, ZenonT(60) DEF Alone, Typed, CardFits
  <1>6. Walkers' = Walkers
    BY <1>1, <1>2, SameWalkers
  <1>7. QED
    BY <1>1, <1>3, <1>4, <1>5, <1>6 DEF Alone

LEMMA EndSetupStep ==
    ASSUME Alone, NEW c \in Cards, EndSetup(c)
    PROVE  Alone'
  <1>1. /\ w[c].at = "done"
        /\ Go(c, "idle")
        /\ setup' = setup \ {c}
        /\ UNCHANGED <<pause, resident, arcs, miner_lock, dedicated, engine, inflight, q>>
    BY ZenonT(60) DEF EndSetup
  <1>2. /\ w' \in [Cards -> Workers] /\ w'[c].at = "idle"
        /\ \A d \in Cards \ {c} : w'[d] = w[d]
    BY <1>1, WorkerGoes DEF Alone, WorkerAts, SetupAts
  <1>3. Typed' /\ RequestFits'
    BY <1>1, <1>2 DEF Alone, Typed, RequestFits
  <1>4. CardFits(c)'
    BY <1>1, <1>2, ZenonT(60) DEF Alone, Typed, RequestFits, CardFits, Waiting, SetupAts
  <1>5. ASSUME NEW d \in Cards \ {c} PROVE CardFits(d)'
    BY <1>1, <1>2 DEF Alone, Typed, CardFits
  <1>6. Walkers' = Walkers
    BY <1>1, <1>2, SameWalkers
  <1>7. QED
    BY <1>1, <1>3, <1>4, <1>5, <1>6 DEF Alone

LEMMA ClaimReservedStep ==
    ASSUME Alone, NEW c \in Cards, try_claim_reserved(c)
    PROVE  Alone'
  <1>1. /\ w[c].at = "idle"
        /\ \E at \in {"begin", "index"} : w' = [w EXCEPT ![c] = [at |-> at, reserved |-> TRUE]]
        /\ UNCHANGED <<pause, setup, resident, arcs, miner_lock, dedicated, engine, inflight, q>>
    BY Zenon DEF try_claim_reserved
  <1>2. /\ w' \in [Cards -> Workers] /\ w'[c].at \in {"begin", "index"}
        /\ \A d \in Cards \ {c} : w'[d] = w[d]
    BY <1>1, WorkerSet, ZenonT(60) DEF Alone, WorkerAts, SetupAts
  <1>3. Typed' /\ RequestFits'
    BY <1>1, <1>2 DEF Alone, Typed, RequestFits
  <1>4. CardFits(c)'
    BY <1>1, <1>2 DEF Alone, Typed, RequestFits, CardFits, Waiting, SetupAts
  <1>5. ASSUME NEW d \in Cards \ {c} PROVE CardFits(d)'
    BY <1>1, <1>2 DEF Alone, Typed, CardFits
  <1>6. Walkers' = Walkers
    BY <1>1, <1>2, SameWalkers
  <1>7. QED
    BY <1>1, <1>3, <1>4, <1>5, <1>6 DEF Alone

LEMMA MineStep ==
    ASSUME Alone, NEW c \in Cards, mine_v4(c)
    PROVE  Alone'
  <1>1. /\ w[c].at = "idle"
        /\ \/ Go(c, "shared") /\ arcs' = arcs
           \/ Go(c, "arc") /\ resident[c] # "none" /\ arcs' = [arcs EXCEPT ![c] = TRUE]
        /\ pause = 0
        /\ UNCHANGED <<pause, setup, resident, miner_lock, dedicated, engine, inflight, q>>
    BY DEF mine_v4, is_installed, miner_for
  <1>2. /\ w' \in [Cards -> Workers]
        /\ \/ w'[c].at = "shared" /\ arcs' = arcs
           \/ w'[c].at = "arc" /\ resident[c] # "none" /\ arcs' = [arcs EXCEPT ![c] = TRUE]
        /\ \A d \in Cards \ {c} : w'[d] = w[d]
    BY <1>1, WorkerGoes DEF Alone, WorkerAts, SetupAts
  <1>3. Typed' /\ RequestFits'
    BY <1>1, <1>2, ZenonT(60) DEF Alone, Typed, RequestFits
  <1>4. CardFits(c)'
    BY <1>1, <1>2, ZenonT(60) DEF Alone, Typed, RequestFits, CardFits, Waiting, SetupAts
  <1>5. ASSUME NEW d \in Cards \ {c} PROVE CardFits(d)'
    BY <1>1, <1>2 DEF Alone, Typed, CardFits
  <1>6. Walkers' = Walkers
    BY <1>1, <1>2, SameWalkers
  <1>7. QED
    BY <1>1, <1>3, <1>4, <1>5, <1>6, ZenonT(60) DEF Alone

LEMMA LockMinerStep ==
    ASSUME Alone, NEW c \in Cards, LockMiner(c)
    PROVE  Alone'
  <1>1. /\ w[c].at = "arc"
        /\ \/ Go(c, "idle") /\ arcs' = [arcs EXCEPT ![c] = FALSE] /\ miner_lock' = miner_lock
           \/ Go(c, "grind") /\ pause = 0 /\ miner_lock' = [miner_lock EXCEPT ![c] = TRUE] /\ arcs' = arcs
        /\ UNCHANGED <<pause, setup, resident, dedicated, engine, inflight, q>>
    BY DEF LockMiner
  <1>2. /\ w' \in [Cards -> Workers]
        /\ \/ w'[c].at = "idle" /\ arcs' = [arcs EXCEPT ![c] = FALSE] /\ miner_lock' = miner_lock
           \/ w'[c].at = "grind" /\ pause = 0 /\ miner_lock' = [miner_lock EXCEPT ![c] = TRUE] /\ arcs' = arcs
        /\ \A d \in Cards \ {c} : w'[d] = w[d]
    BY <1>1, WorkerGoes DEF Alone, WorkerAts, SetupAts
  <1>3. Typed' /\ RequestFits'
    BY <1>1, <1>2, ZenonT(60) DEF Alone, Typed, RequestFits
  <1>4. CardFits(c)'
    BY <1>1, <1>2 DEF Alone, Typed, RequestFits, CardFits, Waiting, SetupAts
  <1>5. ASSUME NEW d \in Cards \ {c} PROVE CardFits(d)'
    BY <1>1, <1>2 DEF Alone, Typed, CardFits
  <1>6. Walkers' = Walkers
    BY <1>1, <1>2, SameWalkers
  <1>7. QED
    BY <1>1, <1>3, <1>4, <1>5, <1>6 DEF Alone

LEMMA GroundStep ==
    ASSUME Alone, NEW c \in Cards, Ground(c)
    PROVE  Alone'
  <1>1. /\ w[c].at = "grind"
        /\ Go(c, "idle")
        /\ miner_lock' = [miner_lock EXCEPT ![c] = FALSE] /\ arcs' = [arcs EXCEPT ![c] = FALSE]
        /\ UNCHANGED <<pause, setup, resident, dedicated, engine, inflight, q>>
    BY DEF Ground
  <1>2. /\ w' \in [Cards -> Workers] /\ w'[c].at = "idle"
        /\ \A d \in Cards \ {c} : w'[d] = w[d]
    BY <1>1, WorkerGoes DEF Alone, WorkerAts, SetupAts
  <1>3. Typed' /\ RequestFits'
    BY <1>1, <1>2, ZenonT(60) DEF Alone, Typed, RequestFits
  <1>4. CardFits(c)'
    BY <1>1, <1>2, ZenonT(60) DEF Alone, Typed, RequestFits, CardFits, Waiting, SetupAts
  <1>5. ASSUME NEW d \in Cards \ {c} PROVE CardFits(d)'
    BY <1>1, <1>2, ZenonT(60) DEF Alone, Typed, CardFits
  <1>6. Walkers' = Walkers
    BY <1>1, <1>2, SameWalkers
  <1>7. QED
    BY <1>1, <1>3, <1>4, <1>5, <1>6 DEF Alone

LEMMA EnterStep ==
    ASSUME Assumed, Alone, NEW c \in Cards, EnterShared(c)
    PROVE  Alone'
  <1>1. /\ w[c].at = "shared"
        /\ \/ Go(c, "idle") /\ inflight' = inflight
           \/ Go(c, "walk") /\ inflight' = inflight + 1 /\ engine # NoEngine /\ pause = 0
        /\ UNCHANGED <<pause, setup, resident, arcs, miner_lock, dedicated, engine, q>>
    BY DEF EnterShared
  <1>2. /\ w' \in [Cards -> Workers]
        /\ \/ w'[c].at = "idle" /\ inflight' = inflight
           \/ w'[c].at = "walk" /\ inflight' = inflight + 1 /\ engine # NoEngine /\ pause = 0
        /\ \A d \in Cards \ {c} : w'[d] = w[d]
    BY <1>1, WorkerGoes DEF Alone, WorkerAts, SetupAts
  <1>3. Typed' /\ RequestFits'
    BY <1>1, <1>2 DEF Alone, Typed, RequestFits
  <1>4. CardFits(c)'
    <2>1. /\ c \notin setup /\ ~miner_lock[c] /\ ~arcs[c]
          /\ q.at = "load" /\ q.evict = c => resident[c] = "none"
      BY <1>1 DEF Alone, CardFits, SetupAts
    <2>2. CASE w'[c].at = "idle"
      BY <1>1, <2>1, <2>2 DEF CardFits, SetupAts
    <2>3. CASE w'[c].at = "walk" /\ engine # NoEngine /\ pause = 0
      <3>1. q.at = "idle"
        BY <2>3 DEF Alone, RequestFits
      <3> QED BY <1>1, <2>1, <2>3, <3>1 DEF CardFits, SetupAts, Waiting
    <2> QED BY <1>2, <2>2, <2>3, Zenon
  <1>5. ASSUME NEW d \in Cards \ {c} PROVE CardFits(d)'
    BY <1>1, <1>2 DEF Alone, Typed, CardFits
  <1>6. inflight' = Cardinality(Walkers')
    <2>1. IsFiniteSet(Walkers) /\ c \notin Walkers /\ inflight = Cardinality(Walkers)
      BY <1>1, FS_Subset DEF Assumed, Alone, Walkers
    <2>2. CASE w'[c].at = "idle" /\ inflight' = inflight
      <3>1. Walkers' = Walkers
        BY <1>1, <1>2, <2>2, SameWalkers
      <3>2. QED
        BY <2>1, <2>2, <3>1
    <2>3. CASE w'[c].at = "walk" /\ inflight' = inflight + 1
      <3>1. Walkers' = Walkers \cup {c}
        BY <1>2, <2>3 DEF Walkers
      <3>2. QED
        BY <2>1, <2>3, <3>1, FS_AddElement, ZenonT(60)
    <2>4. QED
      BY <1>2, <2>2, <2>3
  <1>7. QED
    BY <1>3, <1>4, <1>5, <1>6 DEF Alone

LEMMA LeaveStep ==
    ASSUME Assumed, Alone, NEW c \in Cards, LeaveShared(c)
    PROVE  Alone'
  <1>1. /\ w[c].at = "walk" /\ Go(c, "idle") /\ inflight' = inflight - 1
        /\ UNCHANGED <<pause, setup, resident, arcs, miner_lock, dedicated, engine, q>>
    BY ZenonT(60) DEF LeaveShared
  <1>2. /\ w' \in [Cards -> Workers] /\ w'[c].at = "idle"
        /\ \A d \in Cards \ {c} : w'[d] = w[d]
    BY <1>1, WorkerGoes DEF Alone, WorkerAts, SetupAts
  <1>3. Typed' /\ RequestFits'
    BY <1>1, <1>2 DEF Alone, Typed, RequestFits
  <1>4. CardFits(c)'
    BY <1>1, <1>2, ZenonT(60) DEF Alone, Typed, RequestFits, CardFits, Waiting, SetupAts
  <1>5. ASSUME NEW d \in Cards \ {c} PROVE CardFits(d)'
    BY <1>1, <1>2, ZenonT(60) DEF Alone, Typed, CardFits
  <1>6. inflight' = Cardinality(Walkers')
    <2>1. IsFiniteSet(Walkers) /\ c \in Walkers /\ inflight = Cardinality(Walkers)
      BY <1>1, FS_Subset DEF Assumed, Alone, Walkers
    <2>2. Walkers' = Walkers \ {c}
      BY <1>2 DEF Walkers
    <2>3. QED
      BY <1>1, <2>1, <2>2, FS_RemoveElement
  <1>7. QED
    BY <1>3, <1>4, <1>5, <1>6 DEF Alone

-----------------------------------------------------------------------------
(* The steps of the request.                                               *)

\* The request moves and the workers do not.
LEMMA Frame ==
    ASSUME Alone, UNCHANGED OfWorkers, Typed', RequestFits', \A c \in Cards : CardFits(c)'
    PROVE  Alone'
  <1>1. w' = w /\ inflight' = inflight
    BY DEF OfWorkers
  <1>2. Walkers' = Walkers
    BY <1>1, SameWalkers
  <1>3. QED
    BY <1>1, <1>2 DEF Alone

LEMMA RaiseStep ==
    ASSUME Assumed, Alone, NEW m \in Models, Raise(m)
    PROVE  Alone'
  <1>1. /\ q.at = "idle" /\ pause' = pause + 1 /\ q' = [NoRequest EXCEPT !.at = "setup", !.model = m]
        /\ UNCHANGED <<OfWorkers, resident, dedicated, engine>>
    BY DEF Raise
  <1>2. q' \in Requests /\ q'.at = "setup" /\ q'.taken = "none"
    BY <1>1, Zenon DEF NoRequest, Requests, RequestAts, Waiting, Walks
  <1>3. Typed' /\ RequestFits'
    BY <1>1, <1>2 DEF Alone, Typed, RequestFits, OfWorkers
  <1>4. ASSUME NEW c \in Cards PROVE CardFits(c)'
    BY <1>1, <1>2 DEF Alone, Typed, CardFits, OfWorkers, Waiting
  <1>5. QED
    BY <1>1, <1>3, <1>4, Frame

LEMMA DrainSetupStep ==
    ASSUME Alone, DrainSetup
    PROVE  Alone'
  <1>1. /\ q.at = "setup" /\ UNCHANGED <<OfWorkers, pause, resident, dedicated, engine>>
        /\ \/ setup = {} /\ q' = [q EXCEPT !.at = "miners", !.left = {c \in Cards : miner_for(c)}]
           \/ To("end")
    BY DEF DrainSetup
  <1>2. /\ q' \in Requests /\ q'.taken = q.taken
        /\ \/ q'.at = "miners" /\ setup = {} /\ q'.left = {c \in Cards : miner_for(c)}
           \/ q'.at = "end"
    BY <1>1, ZenonT(60) DEF Alone, Typed, Requests, RequestAts, Waiting, To
  <1>3. Typed' /\ RequestFits'
    BY <1>1, <1>2 DEF Alone, Typed, RequestFits, OfWorkers
  <1>4. ASSUME NEW c \in Cards PROVE CardFits(c)'
    BY <1>1, <1>2 DEF Alone, Typed, CardFits, OfWorkers, Waiting, miner_for
  <1>5. QED
    BY <1>1, <1>3, <1>4, Frame

LEMMA DrainMinerStep ==
    ASSUME Alone, NEW c \in Cards, DrainMiner(c)
    PROVE  Alone'
  <1>1. /\ q.at = "miners" /\ ~miner_lock[c] /\ q' = [q EXCEPT !.left = @ \ {c}]
        /\ UNCHANGED <<OfWorkers, pause, resident, dedicated, engine>>
    BY DEF DrainMiner
  <1>2. q' \in Requests /\ q'.taken = q.taken /\ q'.at = "miners" /\ q'.left = q.left \ {c}
    BY <1>1 DEF Alone, Typed, Requests
  <1>3. Typed' /\ RequestFits'
    BY <1>1, <1>2 DEF Alone, Typed, RequestFits, OfWorkers
  <1>4. ASSUME NEW d \in Cards PROVE CardFits(d)'
    BY <1>1, <1>2 DEF Alone, Typed, CardFits, OfWorkers, Waiting
  <1>5. QED
    BY <1>1, <1>3, <1>4, Frame

LEMMA DrainSharedStep ==
    ASSUME Assumed, Alone, drain_shared_walk
    PROVE  Alone'
  <1>1. /\ UNCHANGED <<OfWorkers, pause, resident, dedicated, engine>>
        /\ \/ q.at = "miners" /\ q.left = {} /\ To("shared")
           \/ q.at = "shared" /\ inflight = 0 /\ To("route")
           \/ q.at = "shared" /\ To("end")
    BY DEF drain_shared_walk
  <1>2. /\ q' \in Requests /\ q'.taken = q.taken
        /\ \/ q.at = "miners" /\ q.left = {} /\ q'.at = "shared"
           \/ q.at = "shared" /\ inflight = 0 /\ q'.at = "route"
           \/ q.at = "shared" /\ q'.at = "end"
    BY <1>1, RequestGoes DEF Alone, RequestAts, Waiting
  <1>3. Typed' /\ RequestFits'
    BY <1>1, <1>2, ZenonT(60) DEF Alone, Typed, RequestFits, OfWorkers
  <1>4. ASSUME NEW c \in Cards PROVE CardFits(c)'
    <2>1. inflight = 0 => w[c].at # "walk"
      BY NoneInFlight
    <2>2. QED
      BY <1>1, <1>2, <2>1 DEF Alone, Typed, CardFits, OfWorkers, Waiting
  <1>5. QED
    BY <1>1, <1>3, <1>4, Frame

\* A drained request goes on: it may swap the engine and the dedication, because no
\* worker walks.
LEMMA DrainedStep ==
    ASSUME Alone, UNCHANGED <<OfWorkers, pause, resident>>, dedicated' \in Dedications,
           q.at \in RequestAts \ (Waiting \cup {"evict"}),
           NEW at \in (RequestAts \ (Waiting \cup {"evict", "load"})) \cup {"end"}, To(at)
    PROVE  Alone'
  <1>1. q' \in Requests /\ q'.at = at /\ q'.taken = q.taken
    BY RequestGoes DEF Alone, RequestAts, Waiting
  <1>2. Typed' /\ RequestFits'
    BY <1>1 DEF Alone, Typed, RequestFits, OfWorkers, Waiting
  <1>3. ASSUME NEW c \in Cards PROVE CardFits(c)'
    BY <1>1 DEF Alone, Typed, CardFits, OfWorkers, Waiting
  <1>4. QED
    BY <1>2, <1>3, Frame

LEMMA Dedicating ==
    ASSUME Typed
    PROVE  /\ Undedicated \in Dedications
           /\ \A owner : clear_dedication_owned_by(owner) \in Dedications
           /\ dedicate_loaded_engine_card_if_required.ded \in Dedications
           /\ \A owner \in {"inproc", "server"} :
                 /\ prepare_vulkan_device(owner).ded \in Dedications
                 /\ prepare_vulkan_device(owner).evict \in Cards \cup {None}
  <1>1. Undedicated \in Dedications /\ dedicated \in Dedications
    BY DEF Typed, Undedicated, Dedications
  <1>2. \A owner : clear_dedication_owned_by(owner) \in Dedications
    BY <1>1 DEF clear_dedication_owned_by
  <1>3. dedicate_loaded_engine_card_if_required.ded \in Dedications
    BY <1>1 DEF dedicate_loaded_engine_card_if_required
  <1>4. ASSUME NEW owner \in {"inproc", "server"}
        PROVE  /\ prepare_vulkan_device(owner).ded \in Dedications
               /\ prepare_vulkan_device(owner).evict \in Cards \cup {None}
    BY <1>1 DEF prepare_vulkan_device, classify_vulkan_device_scope, Dedications
  <1>5. QED
    BY <1>1, <1>2, <1>3, <1>4

LEMMA RouteStep ==
    ASSUME Alone, Route
    PROVE  Alone'
  <1>1. /\ UNCHANGED <<OfWorkers, pause, resident>>
        /\ q.at \in RequestAts \ (Waiting \cup {"evict"})
    BY DEF Route, RequestAts, Waiting
  <1>2. dedicated' \in Dedications
    BY Dedicating, ZenonT(60) DEF Route, Alone, Typed
  <1>3. PICK at \in {"answer", "prepare", "check", "unload"} : To(at)
    BY DEF Route
  <1>4. at \in (RequestAts \ (Waiting \cup {"evict", "load"})) \cup {"end"}
    BY DEF RequestAts, Waiting
  <1>5. QED
    BY <1>1, <1>2, <1>3, <1>4, DrainedStep

LEMMA CheckStep ==
    ASSUME Alone, Check
    PROVE  Alone'
  <1>1. /\ UNCHANGED <<OfWorkers, pause, resident>>
        /\ q.at \in RequestAts \ (Waiting \cup {"evict"})
    BY DEF Check, RequestAts, Waiting
  <1>2. dedicated' \in Dedications
    BY Dedicating DEF Check, Alone, Typed
  <1>3. PICK at \in {"generate", "unscoped"} : To(at)
    BY DEF Check
  <1>4. at \in (RequestAts \ (Waiting \cup {"evict", "load"})) \cup {"end"}
    BY DEF RequestAts, Waiting
  <1>5. QED
    BY <1>1, <1>2, <1>3, <1>4, DrainedStep

LEMMA GenerateStep ==
    ASSUME Alone, Generate
    PROVE  Alone'
  <1>1. /\ UNCHANGED <<OfWorkers, pause, resident>>
        /\ q.at \in RequestAts \ (Waiting \cup {"evict"})
    BY DEF Generate, RequestAts, Waiting
  <1>2. dedicated' \in Dedications
    BY Dedicating DEF Generate, Alone, Typed
  <1>3. PICK at \in {"end", "fallback"} : To(at)
    BY DEF Generate
  <1>4. at \in (RequestAts \ (Waiting \cup {"evict", "load"})) \cup {"end"}
    BY DEF RequestAts, Waiting
  <1>5. QED
    BY <1>1, <1>2, <1>3, <1>4, DrainedStep

LEMMA FallbackStep ==
    ASSUME Alone, Fallback
    PROVE  Alone'
  <1>1. /\ UNCHANGED <<OfWorkers, pause, resident>>
        /\ q.at \in RequestAts \ (Waiting \cup {"evict"})
    BY DEF Fallback, RequestAts, Waiting
  <1>2. dedicated' \in Dedications
    BY Dedicating DEF Fallback, Alone, Typed
  <1>3. PICK at \in {"end", "replace", "start"} : To(at)
    BY DEF Fallback
  <1>4. at \in (RequestAts \ (Waiting \cup {"evict", "load"})) \cup {"end"}
    BY DEF RequestAts, Waiting
  <1>5. QED
    BY <1>1, <1>2, <1>3, <1>4, DrainedStep

LEMMA AnswerStep ==
    ASSUME Alone, Answer
    PROVE  Alone'
  <1>1. /\ UNCHANGED <<OfWorkers, pause, resident>>
        /\ q.at \in RequestAts \ (Waiting \cup {"evict"})
    BY DEF Answer, RequestAts, Waiting
  <1>2. dedicated' \in Dedications
    BY Dedicating DEF Answer, Alone, Typed
  <1>3. PICK at \in {"end"} : To(at)
    BY DEF Answer
  <1>4. at \in (RequestAts \ (Waiting \cup {"evict", "load"})) \cup {"end"}
    BY DEF RequestAts, Waiting
  <1>5. QED
    BY <1>1, <1>2, <1>3, <1>4, DrainedStep

LEMMA RequestUnloadStep ==
    ASSUME Alone, Unload
    PROVE  Alone'
  <1>1. /\ UNCHANGED <<OfWorkers, pause, resident>>
        /\ q.at \in RequestAts \ (Waiting \cup {"evict"})
    BY DEF Unload, RequestAts, Waiting
  <1>2. dedicated' \in Dedications
    BY Dedicating DEF Unload, Alone, Typed
  <1>3. PICK at \in {"prepare", "fallback", "start"} : To(at)
    BY DEF Unload
  <1>4. at \in (RequestAts \ (Waiting \cup {"evict", "load"})) \cup {"end"}
    BY DEF RequestAts, Waiting
  <1>5. QED
    BY <1>1, <1>2, <1>3, <1>4, DrainedStep

LEMMA LoadStep ==
    ASSUME Alone, Load
    PROVE  Alone'
  <1>1. /\ UNCHANGED <<OfWorkers, pause, resident>>
        /\ q.at \in RequestAts \ (Waiting \cup {"evict"})
    BY DEF Load, RequestAts, Waiting
  <1>2. dedicated' \in Dedications
    BY Dedicating DEF Load, Alone, Typed
  <1>3. PICK at \in {"check", "answer", "fallback", "end"} : To(at)
    BY DEF Load, AfterFailure
  <1>4. at \in (RequestAts \ (Waiting \cup {"evict", "load"})) \cup {"end"}
    BY DEF RequestAts, Waiting
  <1>5. QED
    BY <1>1, <1>2, <1>3, <1>4, DrainedStep

LEMMA PrepareStep ==
    ASSUME Assumed, Alone, Prepare
    PROVE  Alone'
  <1> DEFINE owner == IF q.at = "prepare" THEN "inproc" ELSE "server"
             r == prepare_vulkan_device(owner)
  <1>1. owner \in {"inproc", "server"}
    OBVIOUS
  <1>2. r.ded \in Dedications /\ r.evict \in Cards \cup {None}
    BY <1>1, Dedicating DEF Alone
  <1>3. /\ q.at \in {"prepare", "start"} /\ UNCHANGED <<OfWorkers, pause, resident, engine>>
        /\ \/ To("end") /\ dedicated' = dedicated
           \/ To(AfterFailure(owner)) /\ dedicated' = r.ded
           \/ /\ dedicated' = r.ded
              /\ q' = [q EXCEPT !.at = IF r.evict = None THEN "load" ELSE "evict",
                                !.owner = owner, !.evict = r.evict]
    BY DEF Prepare
  <1> HIDE DEF owner, r
  <1>4. q.at \in RequestAts \ (Waiting \cup {"evict"})
    BY <1>3 DEF RequestAts, Waiting
  <1>5. CASE \E at \in {"end", "fallback"} : To(at) /\ dedicated' \in Dedications
    <2>1. PICK at \in {"end", "fallback"} : To(at) /\ dedicated' \in Dedications
      BY <1>5
    <2>2. at \in (RequestAts \ (Waiting \cup {"evict", "load"})) \cup {"end"}
      BY DEF RequestAts, Waiting
    <2>3. QED
      BY <1>3, <1>4, <2>1, <2>2, DrainedStep
  <1>6. CASE /\ dedicated' = r.ded
             /\ q' = [q EXCEPT !.at = IF r.evict = None THEN "load" ELSE "evict",
                               !.owner = owner, !.evict = r.evict]
    <2>1. /\ q' \in Requests /\ q'.taken = q.taken /\ q'.evict = r.evict
          /\ q'.at = IF r.evict = None THEN "load" ELSE "evict"
      BY <1>1, <1>2, <1>6, ZenonT(60) DEF Alone, Typed, Requests, RequestAts, Waiting
    <2>2. Typed' /\ RequestFits'
      BY <1>2, <1>3, <1>6, <2>1 DEF Alone, Typed, RequestFits, OfWorkers
    <2>3. ASSUME NEW c \in Cards PROVE CardFits(c)'
      BY <1>2, <1>3, <2>1 DEF Assumed, Alone, Typed, CardFits, OfWorkers, Waiting
    <2>4. QED
      BY <1>3, <2>2, <2>3, Frame
  <1>7. QED
    BY <1>2, <1>3, <1>5, <1>6 DEF AfterFailure, Alone, Typed

LEMMA EvictStep ==
    ASSUME Alone, Evict
    PROVE  Alone'
  <1>1. q.at = "evict" /\ q.evict \in Cards /\ q \in Requests /\ UNCHANGED <<OfWorkers, pause, engine>>
    BY DEF Evict, Alone, RequestFits, Typed
  <1>2. dedicated' \in Dedications
    BY Dedicating DEF Evict, Alone, Typed
  <1>3. CASE /\ resident[q.evict] # "none" /\ resident' = [resident EXCEPT ![q.evict] = "none"]
             /\ q' = [q EXCEPT !.taken = resident[q.evict]]
    <2>1. /\ q' \in Requests /\ q'.at = "evict" /\ q'.evict = q.evict /\ q'.taken # "none"
          /\ resident' \in [Cards -> Walks]
          /\ \A c \in Cards \ {q.evict} : resident'[c] = resident[c]
      BY <1>1, <1>3 DEF Alone, Typed, Requests, Walks
    <2>2. Typed' /\ RequestFits'
      BY <1>1, <1>2, <2>1 DEF Alone, Typed, RequestFits, OfWorkers
    <2>3. ASSUME NEW c \in Cards PROVE CardFits(c)'
      BY <1>1, <2>1, ZenonT(60) DEF Alone, Typed, CardFits, OfWorkers, Waiting
    <2>4. QED
      BY <1>1, <2>2, <2>3, Frame
  <1>4. CASE /\ resident[q.evict] = "none" /\ (q.taken = "none" \/ ~arcs[q.evict])
             /\ q' = [q EXCEPT !.at = "load", !.taken = "none"] /\ resident' = resident
    <2>1. q' \in Requests /\ q'.at = "load" /\ q'.evict = q.evict /\ q'.taken = "none"
      BY <1>1, <1>4, Zenon DEF Requests, RequestAts, Walks
    <2>2. Typed' /\ RequestFits'
      BY <1>1, <1>2, <1>4, <2>1 DEF Alone, Typed, RequestFits, OfWorkers
    <2>3. ASSUME NEW c \in Cards PROVE CardFits(c)'
      BY <1>1, <1>4, <2>1 DEF Alone, Typed, CardFits, OfWorkers, Waiting
    <2>4. QED
      BY <1>1, <2>2, <2>3, Frame
  <1>5. CASE /\ resident[q.evict] = "none" /\ q.taken # "none"
             /\ resident' = [resident EXCEPT ![q.evict] = q.taken]
             /\ q' = [q EXCEPT !.at = AfterFailure(q.owner), !.taken = "none"]
    <2>1. /\ q' \in Requests /\ q'.at \in {"fallback", "end"} /\ q'.taken = "none"
          /\ resident' \in [Cards -> Walks] /\ resident'[q.evict] # "none"
          /\ \A c \in Cards \ {q.evict} : resident'[c] = resident[c]
      BY <1>1, <1>5, ZenonT(60) DEF Alone, Typed, Requests, RequestAts, Waiting, Walks, AfterFailure
    <2>2. Typed' /\ RequestFits'
      BY <1>1, <1>2, <2>1 DEF Alone, Typed, RequestFits, OfWorkers
    <2>3. ASSUME NEW c \in Cards PROVE CardFits(c)'
      BY <1>1, <2>1, ZenonT(60) DEF Alone, Typed, CardFits, OfWorkers, Waiting
    <2>4. QED
      BY <1>1, <2>2, <2>3, Frame
  <1>6. QED
    BY <1>3, <1>4, <1>5 DEF Evict, miner_for

LEMMA EndStep ==
    ASSUME Assumed, Alone, End
    PROVE  Alone'
  <1>1. /\ q.at = "end" /\ pause' = pause - 1 /\ q' = NoRequest
        /\ UNCHANGED <<OfWorkers, resident, dedicated, engine>>
    BY DEF End
  <1>2. q' \in Requests /\ q'.at = "idle" /\ q'.taken = "none"
    BY <1>1, ZenonT(60) DEF NoRequest, Requests, RequestAts, Waiting, Walks
  <1>3. Typed' /\ RequestFits'
    BY <1>1, <1>2 DEF Alone, Typed, RequestFits, OfWorkers
  <1>4. ASSUME NEW c \in Cards PROVE CardFits(c)'
    BY <1>1, <1>2, ZenonT(60) DEF Alone, Typed, CardFits, OfWorkers, Waiting
  <1>5. QED
    BY <1>1, <1>3, <1>4, Frame

LEMMA ServerExitsStep ==
    ASSUME Alone, ServerExits
    PROVE  Alone'
  <1>1. UNCHANGED <<OfWorkers, pause, resident, engine, q>> /\ dedicated' \in Dedications
    BY Dedicating DEF ServerExits, Alone
  <1>2. Typed' /\ RequestFits'
    BY <1>1 DEF Alone, Typed, RequestFits, OfWorkers
  <1>3. ASSUME NEW c \in Cards PROVE CardFits(c)'
    BY <1>1, ZenonT(60) DEF Alone, Typed, CardFits, OfWorkers
  <1>4. QED
    BY <1>1, <1>2, <1>3, Frame

-----------------------------------------------------------------------------
(* The invariant and the theorem.                                          *)

LEMMA AloneAtFirst ==
    ASSUME Assumed, Init
    PROVE  Alone
  <1>1. Typed
    <2>1. dedicated \in Dedications
      BY ZenonT(60) DEF Init, Assumed, require_dedicated_inference_card, Undedicated, Dedications
    <2>2. q \in Requests
      BY ZenonT(60) DEF Init, NoRequest, Requests, RequestAts, Waiting, Walks
    <2>3. QED
      BY <2>1, <2>2 DEF Init, Typed, Workers, WorkerAts, Walks
  <1>2. RequestFits
    BY ZenonT(60) DEF Init, RequestFits, NoRequest
  <1>3. \A c \in Cards : CardFits(c)
    BY ZenonT(60) DEF Init, CardFits, NoRequest, SetupAts
  <1>4. inflight = Cardinality(Walkers)
    <2>1. Walkers = {}
      BY DEF Init, Walkers
    <2>2. QED
      BY <2>1, FS_EmptySet DEF Init
  <1>5. QED
    BY <1>1, <1>2, <1>3, <1>4 DEF Alone

LEMMA WorkerStep ==
    ASSUME Assumed, Alone, NEW c \in Cards, WalkStep(c)
    PROVE  Alone'
  BY EnsureInstalledStep, EnsureIndexStep, BeginStep, ClaimStep, GateStep, InstallStep, UploadStep,
     UnloadStep, EndSetupStep, ClaimReservedStep, MineStep, LockMinerStep, GroundStep, EnterStep, LeaveStep
     DEF WalkStep

LEMMA RequestStepKeeps ==
    ASSUME Assumed, Alone, RequestStep
    PROVE  Alone'
  BY DrainSetupStep, DrainMinerStep, DrainSharedStep, RouteStep, RequestUnloadStep, PrepareStep, EvictStep,
     LoadStep, CheckStep, GenerateStep, FallbackStep, AnswerStep, EndStep
     DEF RequestStep

LEMMA AloneStep ==
    ASSUME Assumed, Alone, [Next]_cards
    PROVE  Alone'
  <1>1. CASE Next
    BY <1>1, WorkerStep, RaiseStep, RequestStepKeeps, ServerExitsStep DEF Next
  <1>2. CASE UNCHANGED cards
    <2>1. /\ UNCHANGED <<OfWorkers, pause, resident, engine, q, dedicated>>
      BY <1>2 DEF cards, OfWorkers
    <2>2. Typed' /\ RequestFits'
      BY <2>1 DEF Alone, Typed, RequestFits, OfWorkers
    <2>3. ASSUME NEW c \in Cards PROVE CardFits(c)'
      BY <2>1, ZenonT(60) DEF Alone, Typed, CardFits, OfWorkers
    <2>4. QED
      BY <2>1, <2>2, <2>3, Frame
  <1>3. QED
    BY <1>1, <1>2

\* While a drained request loads, swaps or generates, no card of the rig runs a walk, an
\* upload or a byte gate; no walk outlives the engine it reads; a model that does not fit
\* beside a walk is loaded only once that card's walk is gone (slm.rs
\* pause_and_drain_for_inference, pom_opencl.rs mine_v4 and evict_resident_for_dedication).
\* For any finite set of cards, any models and placements, any number of requests and faults.
THEOREM CardsAreAlone ==
    ASSUME IsFiniteSet(Cards), Cards # {}, None \notin Cards
    PROVE  Spec => []CardIsExclusive
  <1>1. Assumed
    BY DEF Assumed
  <1>2. Init => Alone
    BY <1>1, AloneAtFirst
  <1>3. Alone /\ [Next]_cards => Alone'
    BY <1>1, AloneStep
  <1>4. Alone => CardIsExclusive
    <2> SUFFICES ASSUME Alone PROVE CardIsExclusive
      OBVIOUS
    <2>1. Owns => \A c \in Cards : w[c].at \notin {"gate", "upload", "reupload", "grind", "walk"}
      BY Zenon DEF Alone, Typed, RequestFits, CardFits, Owns, Waiting, SetupAts
    <2>2. \A c \in Cards : w[c].at = "walk" => engine # NoEngine
      BY ZenonT(60) DEF Alone, CardFits
    <2>3. q.at = "load" /\ q.evict # None => ~miner_for(q.evict) /\ ~arcs[q.evict]
      BY DEF Alone, Typed, Requests, CardFits, miner_for
    <2>4. QED
      BY <2>1, <2>2, <2>3 DEF CardIsExclusive
  <1>5. QED
    BY <1>2, <1>3, <1>4, PTL DEF Spec
=============================================================================
