---------------------------- MODULE LaunchPlans -----------------------------
(***************************************************************************)
(* What a rig will mine and how a card is driven: plans that are pure      *)
(* functions of the hardware and the options.                              *)
(*                                                                         *)
(* Which model each card mines and serves: the tier table of models.rs and *)
(* the start-up resolution of main.rs (resolve_device_tiers, the primary   *)
(* tier, the staged lineup, the per-card overrides).  Pure functions of    *)
(*   o : the rig and its options                                           *)
(*     cards     sequence of card numbers the CUDA driver lists            *)
(*     total, free   card -> memory                                        *)
(*     smi       what nvidia-smi reports, or 0                             *)
(*     selected  --cuda-device, a sequence (empty: all cards)              *)
(*     forced    --force-model, a sequence of tiers or None                *)
(*     pinned    a tier of --tier or of a legacy flag, or None             *)
(*     ondisk    the models already downloaded                             *)
(*     post      stage_post_h14()                                          *)
(* Memory is in thousands of MiB, as the table's constants are.            *)
(*                                                                         *)
(* How an AMD card lays the weights out and grinds a batch: the slab       *)
(* layouts, the kernel picked for the card, the sub-dispatches of the      *)
(* OpenCL walk, and the Vulkan walk's loop with its start-up byte gate     *)
(* (pom_opencl.rs, llama_engine_vk.rs, and the kernels of pom_mine.cl as   *)
(* far as the host depends on them).                                       *)
(*                                                                         *)
(* Sizes are in 32-byte chunks.  A device `dev' is a record of what the    *)
(* driver says and what it really does; `env' the user's settings.  What a *)
(* nonce's walk computes is free: `wins' is the set of nonces that meet    *)
(* the target.                                                             *)
(***************************************************************************)
EXTENDS Integers, Sequences, SequencesExt, FiniteSets, FiniteSetsExt

CONSTANTS
    None,          \* the absent value
    Tile,          \* POM_V4_TILE_CHUNKS
    Window,        \* UPLOAD_WINDOW_CHUNKS
    Npg,           \* V4_NPG, nonces of a workgroup
    DefaultSub,    \* nonces of a sub-dispatch unless the user sets another number
    Nonces,        \* 2^64
    MaxBatch,      \* u32::MAX
    V5Cap,         \* most nonces of a v5 sub-dispatch (8192)
    Gib,           \* chunks of one standalone Vulkan allocation (1 GiB)
    Spread         \* evenly spread samples of the byte gate (128)

-----------------------------------------------------------------------------
(* models.rs *)

VeryLight == 0
Light == 1
Default == 2
High == 3
VeryHigh == 4
Tiers == VeryLight .. VeryHigh

\* Tier::pom_tier_floor_mb and the min_vram_mb of the tier's model
pom_tier_floor == (VeryLight :> 7) @@ (Light :> 11) @@ (Default :> 15) @@ (High :> 22) @@ (VeryHigh :> 28)
min_vram == (VeryLight :> 8) @@ (Light :> 12) @@ (Default :> 15) @@ (High :> 24) @@ (VeryHigh :> 30)

\* Tier::pom_spec_at: only the high tier's model changes at the gate.
pom_spec_at(tier, h14) ==
    CASE tier = VeryLight -> "qwen3.5"
      [] tier = Light -> "glm4"
      [] tier = Default -> "gemma4"
      [] tier = High -> IF h14 THEN "qwen3.8" ELSE "qwen3.6"
      [] tier = VeryHigh -> "kimi"

\* Tier::for_model, in any era
for_model(model) == CHOOSE t \in Tiers : \E h14 \in BOOLEAN : pom_spec_at(t, h14) = model

\* The tier a block of this era pays the model for; a model outside its era
\* has none.
pom_tier_index(model, h14) ==
    IF pom_spec_at(for_model(model), h14) = model THEN for_model(model) ELSE None

\* Tier::pom_spec and specs_for at staging_daa()
pom_spec(o, tier) == pom_spec_at(tier, o.post)
specs_for(o, tier) == {pom_spec(o, tier)}

\* Every model the tier mines across the eras this process can still meet
pom_models_all_eras(o, tier) ==
    {pom_spec(o, tier)} \cup (IF o.post THEN {} ELSE {pom_spec_at(tier, TRUE)})

\* The largest tier whose floor the memory meets, or the smallest of all
auto_select_tier(vram) ==
    Max({VeryLight} \cup {t \in Tiers : vram >= pom_tier_floor[t]})

-----------------------------------------------------------------------------
(* main.rs: one tier for each card *)

SHARED_CARD_MARGIN == 2
AUTO_TIER_HEADROOM == 2

all_gpus_vram(o) == o.cards

\* query_vram_mb: nvidia-smi, when the driver lists nothing
query_vram(o) ==
    IF o.cards # <<>> THEN Max({o.total[c] : c \in ToSet(o.cards)})
    ELSE IF o.smi > 0 THEN o.smi ELSE None

\* select_tier_auto: the tier the memory picks when its model is on disk, else
\* the largest tier that fits with headroom and is on disk, else the pick.
select_tier_auto(o) ==
    LET vram == query_vram(o)
        picked == auto_select_tier(vram)
        Fits(t) == vram >= min_vram[t] + AUTO_TIER_HEADROOM \/ t = Light
        ready == {t \in Tiers : Fits(t) /\ pom_spec(o, t) \in o.ondisk}
    IN  IF vram = None THEN VeryLight
        ELSE IF pom_spec(o, picked) \in o.ondisk \/ ready = {} THEN picked
        ELSE Max(ready)

select_tier_nvidia(o) == IF o.pinned # None THEN o.pinned ELSE select_tier_auto(o)

\* The memory an automatic choice counts on: on a card another process uses,
\* what is free less a margin.
Budget(o, c) ==
    IF o.free[c] < o.total[c] THEN Max({o.free[c] - SHARED_CARD_MARGIN, 0}) ELSE o.total[c]

\* --cuda-device restricts and orders the cards.
Slots(o) ==
    IF o.selected = <<>> THEN SortSeq(o.cards, <)
    ELSE SelectSeq(o.selected, LAMBDA c : c \in ToSet(o.cards))

\* --force-model maps onto the cards in that order.
Forced(o, slot) == IF slot \in DOMAIN o.forced THEN o.forced[slot] ELSE None

\* One entry per card: its number, its tier, whether it was forced
resolve_device_tiers(o) ==
    IF all_gpus_vram(o) = <<>>
    THEN LET f == Forced(o, 1) IN
         << IF f # None THEN [dev |-> 0, tier |-> f, forced |-> TRUE]
            ELSE [dev |-> 0, tier |-> select_tier_nvidia(o), forced |-> FALSE] >>
    ELSE [slot \in DOMAIN Slots(o) |->
            LET c == Slots(o)[slot]
                f == Forced(o, slot)
            IN  IF f # None THEN [dev |-> c, tier |-> f, forced |-> TRUE]
                ELSE IF o.pinned # None THEN [dev |-> c, tier |-> o.pinned, forced |-> FALSE]
                ELSE [dev |-> c, tier |-> auto_select_tier(Budget(o, c)), forced |-> FALSE]]

-----------------------------------------------------------------------------
(* main.rs: what is staged and published *)

\* The primary tier: the biggest of the rig
Primary(o) == Max({e.tier : e \in ToSet(resolve_device_tiers(o))})

TierForced(o) == \E e \in ToSet(resolve_device_tiers(o)) : e.forced /\ e.tier = Primary(o)

\* filter_specs_by_vram: what no card could load is dropped, but never all
filter_specs_by_vram(o, specs) ==
    LET vram == query_vram(o)
        kept == {s \in specs : min_vram[for_model(s)] <= vram}
    IN  IF vram = None \/ kept = {} THEN specs ELSE kept

\* specs_v2: the primary tier's models and every other card's
Lineup(o) ==
    LET all == specs_for(o, Primary(o))
    IN  (IF TierForced(o) THEN all ELSE filter_specs_by_vram(o, all))
        \cup {pom_spec(o, e.tier) : e \in ToSet(resolve_device_tiers(o))}

\* The staged model with the largest need that has a tier in this era
GlobalModel(o) ==
    LET mineable == {s \in Lineup(o) : pom_tier_index(s, o.post) # None}
    IN  CHOOSE s \in mineable : \A x \in mineable : min_vram[for_model(x)] <= min_vram[for_model(s)]

\* set_device_model for the cards whose model is not the global one
DeviceModels(o) ==
    [c \in {e.dev : e \in {x \in ToSet(resolve_device_tiers(o)) : pom_spec(o, x.tier) # GlobalModel(o)}} |->
        pom_spec(o, (CHOOSE e \in ToSet(resolve_device_tiers(o)) : e.dev = c).tier)]

\* What pom_gpu mines on a card
MinedBy(o, c) == IF c \in DOMAIN DeviceModels(o) THEN DeviceModels(o)[c] ELSE GlobalModel(o)

\* The models staged after the lineup for the crossing
EraExtra(o) ==
    UNION {pom_models_all_eras(o, t) : t \in {Primary(o)} \cup {e.tier : e \in ToSet(resolve_device_tiers(o))}}
    \ Lineup(o)

\* One serving route is proved for each distinct model.
RouteModels(o) == {GlobalModel(o)} \cup {DeviceModels(o)[c] : c \in DOMAIN DeviceModels(o)}

-----------------------------------------------------------------------------
(* Properties of every rig o *)

\* Every card the process drives mines the model of its own tier; that model
\* is in the lineup the self-test resolves specs from, a route is proved for
\* it, and after the crossing the model its tier then needs is staged too.
PlanIsComplete(o) ==
    \A e \in ToSet(resolve_device_tiers(o)) :
        /\ MinedBy(o, e.dev) = pom_spec(o, e.tier)
        /\ MinedBy(o, e.dev) \in Lineup(o) \cap RouteModels(o)
        /\ pom_tier_index(MinedBy(o, e.dev), o.post) = e.tier
        /\ pom_spec_at(e.tier, TRUE) \in Lineup(o) \cup EraExtra(o)

\* What the operator forces lands on the card they listed it for, in the
\* order of --cuda-device; an automatic choice fits what is free.
ForcedAndFitting(o) ==
    \A slot \in DOMAIN resolve_device_tiers(o) :
        LET e == resolve_device_tiers(o)[slot] IN
        all_gpus_vram(o) # <<>> =>
            /\ (o.selected # <<>> => e.dev = SelectSeq(o.selected, LAMBDA c : c \in ToSet(o.cards))[slot])
            /\ (slot \in DOMAIN o.forced /\ o.forced[slot] # None => e.forced /\ e.tier = o.forced[slot])
            /\ (~e.forced /\ o.pinned = None /\ e.tier # VeryLight =>
                   pom_tier_floor[e.tier] <= o.free[e.dev])

\* An automatic choice by what is on disk still fits the card.
AutoTierFits(o) ==
    (all_gpus_vram(o) = <<>> /\ o.forced = <<>> /\ o.pinned = None /\ o.smi > 0) =>
        LET t == select_tier_auto(o) IN t = VeryLight \/ pom_tier_floor[t] <= o.smi

-----------------------------------------------------------------------------
(* How an AMD card lays the weights out and grinds a batch. *)

CeilDiv(a, b) == (a + b - 1) \div b
Smaller(a, b) == IF a < b THEN a ELSE b
NoneYet == -1

-----------------------------------------------------------------------------
(* The slab layout.  dev.reported is the driver's CL_DEVICE_MAX_MEM_ALLOC, *)
(* dev.real what it accepts for one buffer, dev.vram for all of them.      *)

align_up(c) == CeilDiv(c, Tile) * Tile

(* 0 for adaptive.  env.shift < 0: not set. *)
forced_k(env, n) ==
    IF env.slabs \in 1..4 THEN env.slabs
    ELSE IF env.shift < 0 THEN 0
    ELSE Max({1, Smaller(4, CeilDiv(n, 2^env.shift))})

attempts(env, n) == IF forced_k(env, n) = 0 THEN 1..4 ELSE {forced_k(env, n)}

SlabChunks(n, k) == IF k = 1 THEN n ELSE align_up(CeilDiv(n, k))

(* The chunks of a slab as the staging window writes them, piece by piece. *)
RECURSIVE Stream(_, _, _)
Stream(start, count, done) ==
    IF done >= count THEN << >>
    ELSE LET piece == Smaller(count - done, Window) IN
         [i \in 1..piece |-> start + done + i - 1] \o Stream(start, count, done + piece)

(* The buffers of a layout, or none when one is refused. *)
build_slabs(dev, n, slab_chunks) ==
    LET n_slabs == CeilDiv(n, Max({slab_chunks, 1}))
        Count(si) == Smaller(slab_chunks, n - si * slab_chunks)
    IN IF n_slabs > 4 \/ n > dev.vram \/ \E si \in 0..(n_slabs - 1) : Count(si) > dev.real
       THEN [ok |-> FALSE, slabs |-> << >>]
       ELSE [ok |-> TRUE, slabs |-> [s \in 1..n_slabs |-> Stream((s - 1) * slab_chunks, Count(s - 1), 0)]]

(* PomMiner::new tries the layouts in turn, skipping what the driver says  *)
(* it will refuse; the whole blob in one buffer is always tried.           *)
Layout(dev, env, n) ==
    LET Tried(k) == k = 1 \/ SlabChunks(n, k) <= dev.reported
        good == {k \in attempts(env, n) : Tried(k) /\ build_slabs(dev, n, SlabChunks(n, k)).ok}
    IN IF good = {} THEN [ok |-> FALSE, weights |-> << >>, slab_chunks |-> 0]
       ELSE LET chunks == SlabChunks(n, Min(good)) IN
            [ok |-> TRUE, weights |-> build_slabs(dev, n, chunks).slabs, slab_chunks |-> chunks]

(* v4_slab and the lane's load: the chunk a walk reads at tile `off', lane *)
(* `lane', with absent slabs standing for the first.                       *)
v4_slab(layout, off, lane) ==
    LET slab_tiles == layout.slab_chunks \div Tile
        s == off \div slab_tiles
        tin == off - s * slab_tiles
        slab == IF s < Len(layout.weights) THEN layout.weights[s + 1] ELSE layout.weights[1]
        at == tin * Tile + lane
    IN IF at < Len(slab) THEN slab[at + 1] ELSE NoneYet

-----------------------------------------------------------------------------
(* The kernel.  dev.family is "rdna3" (gfx11 and gfx12), "sdot4" or        *)
(* "plain"; dev.rejects the compile options its driver fails on;           *)
(* dev.gfx1100 names the one chip the one-state walk is tuned for.         *)

dot_def(dev, env) ==
    IF env.no_dot THEN {}
    ELSE CASE dev.family = "rdna3" -> {"sudot4"}
           [] dev.family = "sdot4" -> {"sdot4"}
           [] OTHER -> {}

have_wmma(dev) == dev.family = "rdna3"

(* The options the program is built with: all, without the dot, none. *)
Options(dev, env) ==
    LET base == {"layout"} \cup (IF have_wmma(dev) THEN {"wmma"} ELSE {})
        tries == <<base \cup dot_def(dev, env), base, {}>>
    IN tries[Min({i \in 1..3 : tries[i] \cap dev.rejects = {}})]

(* Kernel::create: the matrix kernels exist only in a program built for    *)
(* them, and are only asked for on a card of that family; one of them may  *)
(* still fail to be created.                                               *)
Kernels(dev, env) ==
    {"v4", "tp"} \cup
    (IF have_wmma(dev) /\ "wmma" \in Options(dev, env)
     THEN {"wmma", "wmma_sp", "wmma_1state"} \ dev.missing ELSE {})

select_v4_mode(requested, kernels, prefer_1state) ==
    IF requested = "wmma1" /\ "wmma_1state" \in kernels THEN "SingleWmma1"
    ELSE IF requested = "wmma" /\ "wmma_sp" \in kernels THEN "SingleWmma"
    ELSE IF requested = "tpwmma" /\ "wmma" \in kernels THEN "TwoPhaseWmma"
    ELSE IF requested = "tp" THEN "TwoPhaseDp4a"
    ELSE IF requested = "sp" THEN "SingleDp4a"
    ELSE IF prefer_1state /\ "wmma_1state" \in kernels THEN "SingleWmma1"
    ELSE IF "wmma_sp" \in kernels THEN "SingleWmma"
    ELSE "SingleDp4a"

TwoPhase == {"TwoPhaseDp4a", "TwoPhaseWmma"}

(* The offsets buffer of a two-phase walk that cannot be had. *)
OffsetsFallback(mode, kernels, offsets) ==
    IF mode \notin TwoPhase \/ offsets THEN mode
    ELSE IF mode = "TwoPhaseWmma" /\ "wmma_sp" \in kernels THEN "SingleWmma"
    ELSE "SingleDp4a"

(* What one dispatch launches: the walk kernel, the local words it is      *)
(* given for each nonce, and whether phase 1 ran before it.                *)
Launch(mode, kernels) ==
    LET With(kernel, words, otherwise, less, chased) ==
            IF kernel \in kernels THEN [kernel |-> kernel, words |-> words, chased |-> chased]
            ELSE [kernel |-> otherwise, words |-> less, chased |-> chased]
    IN CASE mode = "SingleWmma1" -> With("wmma_1state", 512, "v4", 384, FALSE)
         [] mode = "SingleWmma" -> With("wmma_sp", 768, "v4", 384, FALSE)
         [] mode = "TwoPhaseWmma" -> With("wmma", 1024, "tp", 512, TRUE)
         [] mode = "TwoPhaseDp4a" -> With("tp", 512, "tp", 512, TRUE)
         [] mode = "SingleDp4a" -> With("v4", 384, "v4", 384, FALSE)

(* What each kernel of pom_mine.cl needs: its *_STRIP_U32, and the offsets *)
(* of phase 1.                                                             *)
Strip(kernel) ==
    CASE kernel = "v4" -> 384 [] kernel = "tp" -> 512 [] kernel = "wmma" -> 1024
      [] kernel = "wmma_sp" -> 768 [] kernel = "wmma_1state" -> 512

NeedsOffsets(kernel) == kernel \in {"tp", "wmma"}

-----------------------------------------------------------------------------
(* The OpenCL grind.  A result is [ok, winner, done, walked]: the winner   *)
(* NoneYet for none, `walked' (history) the nonces whose walks could win.  *)

Refused == [ok |-> FALSE, winner |-> NoneYet, done |-> 0, walked |-> << >>]

v4_sub_dispatch_nonces(env) ==
    IF env.sub > 0 THEN (Max({env.sub, Npg}) \div Npg) * Npg ELSE DefaultSub

(* The nonces of one sub-dispatch that may win: whole workgroups are       *)
(* launched, and the lanes past n walk a dummy and never submit.           *)
enqueue_v4(base, n) ==
    LET groups == CeilDiv(n, Npg)
        gsub(g, sub) == g * Npg + sub
    IN [i \in 1..Cardinality({x \in 0..(groups * Npg - 1) : x < n}) |-> base + gsub((i - 1) \div Npg, (i - 1) % Npg)]

RECURSIVE Enqueued(_, _, _, _)
Enqueued(nonce_base, batch, sub, done) ==
    IF done >= batch THEN << >>
    ELSE LET n == Smaller(batch - done, sub) IN
         enqueue_v4(nonce_base + done, n) \o Enqueued(nonce_base, batch, sub, done + n)

(* Every sub-dispatch is queued, then one finish and one read of the word  *)
(* they all lower to their least winning index.                            *)
mine_v4(dev, env, n, nonce_base, batch, wins) ==
    IF batch = 0 THEN [Refused EXCEPT !.ok = TRUE]
    ELSE IF batch > MaxBatch \/ nonce_base + batch - 1 >= Nonces \/ n \div Tile = 0 THEN Refused
    ELSE LET walked == Enqueued(nonce_base, batch, v4_sub_dispatch_nonces(env), 0)
             hits == {walked[i] - nonce_base : i \in {j \in DOMAIN walked : walked[j] \in wins}}
         IN [ok |-> TRUE, winner |-> IF hits = {} THEN NoneYet ELSE nonce_base + Min(hits),
             done |-> batch, walked |-> walked]

-----------------------------------------------------------------------------
(* The Vulkan grind.  vk.cap is the library's batch bound (0: none);       *)
(* vk.fail the number of the call that fails and vk.code what it returns;  *)
(* vk.pause the number of the poll that first sees inference waiting.      *)

Reply(vk, call, start, n, wins) ==
    LET hits == {i \in 0..(n - 1) : (start + i) % Nonces \in wins} IN
    IF call = vk.fail THEN vk.code ELSE IF hits = {} THEN -1 ELSE Min(hits)

Walked(start, n) == [i \in 1..n |-> (start + i - 1) % Nonces]

(* What a resident walk takes for a failure, and what the walk over the    *)
(* engine's own weights does: there every other answer is an offset.       *)
Failed(walk, answer, n) ==
    CASE walk = "resident" -> answer \notin 0..(n - 1)
      [] walk = "shared" -> answer = -2

(* The loop MiningWalk::mine_v4, Api::run and pom_mine_v4 share: sub-batch *)
(* by sub-batch, stopped by a pause or by an answer other than "none" (-1),*)
(* which is the winner's offset unless the walk calls it a failure.        *)
SubBatches(vk, walk, sub, base, batch, wins) ==
    LET sizes == [c \in 1..CeilDiv(batch, sub) |-> Smaller(sub, batch - (c - 1) * sub)]
        Start(c) == (base + (c - 1) * sub) % Nonces
        Answer(c) == Reply(vk, c, Start(c), sizes[c], wins)
        ends == {c \in DOMAIN sizes : c = vk.pause \/ Answer(c) # -1}
        upto == IF ends = {} THEN Len(sizes) ELSE Min(ends)
        paused == ends # {} /\ upto = vk.pause
        last == IF paused THEN upto - 1 ELSE upto
        done == IF last = 0 THEN 0 ELSE (last - 1) * sub + sizes[last]
    IN IF ends # {} /\ ~paused /\ Failed(walk, Answer(upto), sizes[upto])
       THEN Refused
       ELSE [ok |-> TRUE,
             winner |-> IF ends # {} /\ ~paused THEN (Start(upto) + Answer(upto)) % Nonces ELSE NoneYet,
             done |-> done, walked |-> Walked(base, done)]

(* pom_mine_v4: the walk over the weights of the loaded engine. *)
pom_mine_v4(vk, env, base, batch, wins) ==
    LET max == IF env.sub >= Npg THEN env.sub ELSE DefaultSub
        sub == IF vk.cap = 0 THEN max ELSE Smaller(max, vk.cap)
    IN SubBatches(vk, "shared", sub, base, batch, wins)

(* What the worker makes of a grind: one that claims no work, too much, or *)
(* a winner outside the nonces it did is not counted.                      *)
Completed(r, base, batch) ==
    IF r.ok /\ r.done \in 1..batch /\ (r.winner # NoneYet => r.winner - base \in 0..(r.done - 1))
    THEN r ELSE Refused

(* MiningWalk::mine_v4: a walk that failed once never dispatches again. *)
MiningWalk_mine_v4(vk, healthy, base, batch, wins) ==
    LET sub == IF vk.cap = 0 THEN DefaultSub ELSE Smaller(vk.cap, DefaultSub)
        r == IF healthy THEN SubBatches(vk, "resident", sub, base, batch, wins) ELSE Refused
    IN [result |-> r, healthy |-> healthy /\ r.ok]

(* mine_v5 and Api::run: a pad that cannot be had (-3) is not a failure of *)
(* the device.                                                             *)
MiningWalk_mine_v5(vk, env, healthy, tiles, base, batch, wins) ==
    LET sub == Max({Npg, Smaller(IF env.sub > 0 THEN env.sub ELSE DefaultSub, V5Cap)})
        r == IF healthy /\ tiles > 0 THEN SubBatches(vk, "resident", sub, base, batch, wins) ELSE Refused
    IN [result |-> r, healthy |-> healthy /\ (r.ok \/ tiles = 0 \/ vk.code = -3)]

(* Drop: a failed device's memory is kept until the process exits. *)
Freed(healthy) == healthy

(* MiningWalk::load's byte gate: spread samples, the last chunk, and both  *)
(* sides of every allocation boundary.                                     *)
samples(n) ==
    {k * (n \div (Spread + 1)) : k \in 0..(Spread - 1)} \cup {n - 1}
    \cup UNION {{b - 1, b} : b \in {i * Gib : i \in 1..(n \div Gib)} \cap (0..(n - 1))}

(* load refuses a chunk count that differs, and any sample that differs.   *)
MiningWalk_load(n, resident) ==
    n > 0 /\ DOMAIN resident = 0..(n - 1) /\ \A c \in samples(n) : resident[c] = c

-----------------------------------------------------------------------------
(* Which walk a card gets.  card.rx is the RX number in its name (0: none),*)
(* card.gfx the gfx number there, card.ip the driver's own <<major, minor>>*)
(* or << >>, card.mi an Instinct MI50 or MI60.                             *)

is_rdna1(card) == card.ip = <<10, 1>> \/ card.gfx \div 10 = 101 \/ card.rx \in 5000..5999

prefer_resident_vulkan(card, requested) ==
    LET radeon == card.rx \in (6000..7999) \cup (9000..9999)
        unknown == card.gfx = 0 /\ card.ip = << >> /\ ~radeon /\ ~card.mi
    IN /\ ~is_rdna1(card) /\ ~unknown
       /\ CASE requested = "opencl" -> FALSE
            [] requested = "vulkan" -> TRUE
            [] OTHER -> \/ radeon \/ card.mi \/ card.gfx = 906
                        \/ card.ip \in {<<10, 3>>} \cup {<<11, i>> : i \in 0..5} \cup {<<12, i>> : i \in 0..5}
                        \/ card.gfx \div 10 = 103 \/ card.gfx \div 100 \in {11, 12}

(* The llama device index chosen for inference.  so.abi >= 1 is a library  *)
(* that filters by the published PCI list; so.devices maps its indices to  *)
(* PCI names, "?" for one it cannot read, largest first; allow is the list *)
(* or NoList.                                                              *)
NoList == {"-"}

pick_discrete_ggml_device(so, allow) ==
    LET inside == {i \in DOMAIN so.devices : so.abi < 1 \/ allow = NoList \/ so.devices[i] \in allow}
        strict == IF inside = {} THEN NoneYet ELSE Min(inside)
        verifiable == \E i \in DOMAIN so.devices : so.devices[i] # "?"
    IN IF allow # NoList /\ so.abi < 1 THEN NoneYet
       ELSE IF strict >= 0 THEN strict
       ELSE IF allow # NoList /\ (allow = {} \/ (so.probe /\ ~verifiable)) /\ so.any /\ DOMAIN so.devices # {}
       THEN Min(DOMAIN so.devices)
       ELSE NoneYet

-----------------------------------------------------------------------------
(* A layout that is kept holds every tile of the model at its canonical    *)
(* place, no tile astride two buffers, whatever the driver refused on the  *)
(* way and whichever slab count was forced.                                *)
TilesAreCanonical(dev, env, n) ==
    LET layout == Layout(dev, env, n) IN
    layout.ok =>
        \A off \in 0..(n \div Tile - 1), lane \in 0..(Tile - 1) :
            v4_slab(layout, off, lane) = off * Tile + lane

(* The walk that is launched exists in the program that was built, gets    *)
(* the local memory it was written for, and runs after phase 1 exactly     *)
(* when it reads offsets, for every user request, driver and failure.      *)
LaunchIsSound(dev, env, offsets) ==
    LET kernels == Kernels(dev, env)
        mode == OffsetsFallback(select_v4_mode(env.mode, kernels, dev.gfx1100), kernels, offsets)
        launch == Launch(mode, kernels)
    IN /\ launch.kernel \in kernels
       /\ launch.words = Strip(launch.kernel)
       /\ launch.chased = NeedsOffsets(launch.kernel)
       /\ launch.chased => offsets

(* What a grind reports is what was walked: each nonce of the batch once,  *)
(* in order, the winner the lowest of them that wins, and nothing counted  *)
(* that no dispatch completed.                                             *)
Exact(r, base, batch, wins) ==
    LET hit == {i \in DOMAIN r.walked : r.walked[i] \in wins} IN
    r.ok =>
        /\ r.walked = Walked(base, r.done) /\ r.done <= batch
        /\ r.winner = (IF hit = {} THEN NoneYet ELSE r.walked[Min(hit)])

(* Every walk is exact; the OpenCL one is never partial; and a resident    *)
(* Vulkan walk that failed is neither dispatched to again nor freed.  The  *)
(* resident walks are exact whatever the library answers.  What the worker *)
(* counts of the walk over the engine's weights is exact for every answer  *)
(* but an unknown negative status: pom_mine_v4 takes it for an offset, and *)
(* from the second sub-batch on it names a nonce of the range.             *)
KnownStatus(vk) == vk.fail = 0 \/ vk.code >= -2
WhollyDone(cl, batch) == cl.ok => cl.done = batch
LeftAlone(again) == ~again.result.ok /\ ~Freed(again.healthy)
VulkanIsExact(vk, v4, base, batch, wins) ==
    /\ Exact(v4.result, base, batch, wins)
    /\ ~v4.result.ok => LeftAlone(MiningWalk_mine_v4(vk, v4.healthy, base, batch, wins))
GrindIsExact(dev, env, vk, n, base, batch, wins) ==
    /\ Exact(mine_v4(dev, env, n, base, batch, wins), base, batch, wins)
    /\ WhollyDone(mine_v4(dev, env, n, base, batch, wins), batch)
    /\ VulkanIsExact(vk, MiningWalk_mine_v4(vk, TRUE, base, batch, wins), base, batch, wins)
    /\ Exact(MiningWalk_mine_v5(vk, env, TRUE, 1, base, batch, wins).result, base, batch, wins)
    /\ KnownStatus(vk) => Exact(Completed(pom_mine_v4(vk, env, base, batch, wins), base, batch), base, batch, wins)

(* A resident Vulkan copy with one allocation filled wrongly, shifted by a *)
(* chunk or holding another allocation's bytes, is refused at load.        *)
WrongFillIsRefused(n) ==
    LET allocs == {a \in 0..(n \div Gib) : a * Gib < n}
        In(a, c) == c \div Gib = a
        shifted(a) == [c \in 0..(n - 1) |-> IF In(a, c) THEN c + 1 ELSE c]
        other(a, b) == [c \in 0..(n - 1) |-> IF In(a, c) THEN b * Gib + (c % Gib) ELSE c]
    IN n > 0 =>
        /\ MiningWalk_load(n, [c \in 0..(n - 1) |-> c])
        /\ \A a \in allocs : ~MiningWalk_load(n, shifted(a))
        /\ \A a, b \in allocs : a # b => ~MiningWalk_load(n, other(a, b))

(* A first-generation RDNA card never walks through Vulkan, however its    *)
(* name is spelled and whatever the user asks for; and a published list of *)
(* mining cards is left for another card only when no card's PCI identity  *)
(* can be read, or none was published.                                     *)
CardsStayInScope(card, requested, so, allow) ==
    LET picked == pick_discrete_ggml_device(so, allow) IN
    /\ prefer_resident_vulkan(card, requested) => ~is_rdna1(card) /\ requested # "opencl"
    /\ (picked >= 0 /\ allow # NoList /\ so.devices[picked] \notin allow) =>
            so.abi >= 1 /\ (allow = {} \/ \A i \in DOMAIN so.devices : so.devices[i] = "?")
=============================================================================
