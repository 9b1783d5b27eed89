----------------------------- MODULE WalkLaunch -----------------------------
(***************************************************************************)
(* One launch of the walk on a CUDA card (mine_v4 and mine_v4_impl in      *)
(* pom_gpu.rs): the batch the worker picks before its table is installed   *)
(* and the cap it is held to afterwards, the backend the card runs, and    *)
(* the scratch memory the kernels share: two offset buffers, the seed      *)
(* array, and the note of what a speculative chase left for the next batch.*)
(*                                                                         *)
(* What a kernel computes is abstracted to the work its output belongs to: *)
(* [model, job, start, batch].  Kernel results, the winner and hashing are *)
(* left out; Works says which kernels this card's image really holds.      *)
(***************************************************************************)
EXTENDS Naturals, FiniteSets

CONSTANTS
    None,           \* the absent value
    Works,          \* the kernels whose probe succeeds: subset of {"tc", "sidecar", "ncf"}
    NcfDefault,     \* v4_ncf_default: untuned cards prefer the chaseless kernel
    Prefetch,       \* KERYX_POM_V4_CHASE_PREFETCH=1
    Batches,        \* batch sizes, and what the free VRAM may hold
    MaxJobs,        \* bound: jobs
    MaxStart,       \* bound: nonces of a job
    MaxTables,      \* bound: installs
    MaxModel        \* the model of the card's tier; the smaller ones are 1..MaxModel - 1

VARIABLES
    worker,         \* [pc, job, era, start, batch, backend, cur]
    table,          \* the installed table (its generation), or None
    tables,         \* install_generation
    model,          \* device_model: the model the card is to mine, and the table's while there is one
    held,           \* "no"; "stuck": a table a walk would not let go, in TABLE_STUCK; "kept": one
                    \* that no flag remembers, its scratch memory kept
    tune,           \* v4_tune_for: the kind the autotune chose, or None
    want,           \* the batch it measured, before that the starting batch
    probed,         \* the cached probes: <<kind, table>>, table 0 when kept per card
    caps,           \* cap_batch_to_vram's cache: backend -> cap, 0 when absent
    off,            \* V4_OFFSETS and V4_OFFSETS_B: [len, work] each
    seeds,          \* V4_H10_SEEDS: [len, work]
    prefetch        \* V4_PREFETCH: [work, buf], or None

launch == <<worker, table, tables, model, held, tune, want, probed, caps, off, seeds, prefetch>>

Backends == {"classic", "tc", "sidecar", "ncf"}
Largest == CHOOSE b \in Batches : \A c \in Batches : c <= b
NeedsOffsets(backend) == backend \in {"tc", "sidecar"}

\* SM-derived, and doubled where the most free of the identical cards has room.
v4_starting_batch == Batches

Junk == [model |-> 0, job |-> 0, start |-> 0, batch |-> 0]    \* belongs to no batch
Empty == [len |-> 0, work |-> Junk]
NoCaps == [b \in Backends |-> 0]
Work(w, start) == [model |-> model, job |-> w.job, start |-> start, batch |-> w.batch]

Init ==
    /\ worker = [pc |-> "idle", job |-> 0, era |-> "pre", start |-> 0, batch |-> 0,
                 backend |-> "classic", cur |-> "a"]
    /\ table = None /\ tables = 0 /\ model = MaxModel /\ held = "no"
    /\ tune = None /\ want \in v4_starting_batch
    /\ probed = {}
    /\ caps = NoCaps
    /\ off = [a |-> Empty, b |-> Empty]
    /\ seeds = Empty
    /\ prefetch = None

-----------------------------------------------------------------------------
(* The backend *)

\* The image holds real code for the kernel on this card, and one nonce with an
\* always-win target came back from it.
v4_tc_usable == "tc" \in Works
v4_sidecar_usable == "sidecar" \in Works
v4_ncf_usable == "ncf" \in Works

\* What the tune, or the default of an untuned card, asks for.
Wanted ==
    CASE tune = None -> (IF NcfDefault THEN {"ncf"} ELSE {}) \cup {"tc"}
      [] tune = "classic" -> {}
      [] OTHER -> {tune, "tc"}

\* v4_backend: the wanted kind, as far as its probe succeeds.
v4_backend ==
    CASE "ncf" \in Wanted /\ v4_ncf_usable -> "ncf"
      [] "sidecar" \in Wanted /\ v4_sidecar_usable -> "sidecar"
      [] "tc" \in Wanted /\ v4_tc_usable
            /\ ~("ncf" \in Wanted /\ v4_ncf_usable)
            /\ ~("sidecar" \in Wanted /\ v4_sidecar_usable) -> "tc"
      [] OTHER -> "classic"

\* The kernels v4_backend probes before it answers, once per card, and the
\* sidecar once per table.
v4_probes ==
    (IF "ncf" \in Wanted THEN {<<"ncf", 0>>} ELSE {})
    \cup (IF "sidecar" \in Wanted THEN {<<"sidecar", table>>} ELSE {})
    \cup (IF "tc" \in Wanted /\ v4_backend \in {"tc", "classic"} THEN {<<"tc", 0>>} ELSE {})

\* A buffer grows to the size asked for; a new allocation holds nothing.
Grown(buf, len) == IF buf.len >= len THEN buf ELSE [len |-> len, work |-> Junk]

\* v4_sidecar_probe, and v4_tc_probe: one nonce is chased into the first buffer.
ProbeChase(buffers) == [buffers EXCEPT !.a = [Grown(@, 1) EXCEPT !.work = Junk]]

Probing ==
    LET new == v4_probes \ probed
    IN  /\ probed' = probed \cup new
        /\ off' = IF new \ {<<"ncf", 0>>} = {} THEN off ELSE ProbeChase(off)

-----------------------------------------------------------------------------
(* The batch *)

\* v4_batch_cost: the backend whose memory is paid for.
CostBackend == IF table = None THEN "tc" ELSE v4_backend

\* cap_batch_to_vram: what the card has room for.  Only the chasing backends
\* pay for offsets.  The reading of an installed table is remembered; before
\* that the chase is assumed and the card looks emptier than it will be.
Room(backend) ==
    CASE table # None /\ caps[backend] # 0 -> {caps[backend]}
      [] table # None /\ ~NeedsOffsets(backend) -> {Largest}
      [] OTHER -> Batches

Remember(backend, room) ==
    caps' = IF table = None THEN caps ELSE [caps EXCEPT ![backend] = room]

Least(a, b) == IF a < b THEN a ELSE b

\* v4_batch_for_device, for the next range of the worker's cursor.
Ask ==
    /\ worker.pc = "idle" /\ worker.job > 0
    /\ worker.start < MaxStart
    /\ IF table = None THEN UNCHANGED <<probed, off>> ELSE Probing
    /\ \E room \in Room(CostBackend) :
          /\ worker' = [worker EXCEPT !.pc = "asked",
                                      !.batch = Least(Least(want, room), MaxStart - worker.start)]
          /\ Remember(CostBackend, room)
    /\ UNCHANGED <<table, tables, model, held, tune, want, seeds, prefetch>>

\* A new template: its cursor starts afresh.
NewJob ==
    /\ worker.pc = "idle" /\ worker.job < MaxJobs
    /\ \E era \in {"pre", "h10", "v5"} :
          worker' = [worker EXCEPT !.job = @ + 1, !.era = era, !.start = 0]
    /\ UNCHANGED <<table, tables, model, held, tune, want, probed, caps, off, seeds, prefetch>>

\* v4_release_chase_offsets
ReleaseChase ==
    /\ off' = [a |-> Empty, b |-> Empty]
    /\ prefetch' = None

\* v4_release_offsets
ReleaseScratch == ReleaseChase /\ seeds' = Empty

KeepScratch == UNCHANGED <<off, prefetch, seeds>>

\* ensure_installed, before the range goes to the card.  table_stuck reclaims a
\* table that was let go in the meantime, and its scratch; a card the model
\* does not fit is demoted to a smaller one.
Install ==
    /\ worker.pc = "asked" /\ table = None /\ tables < MaxTables
    /\ IF held = "stuck" THEN held' = "no" /\ ReleaseScratch ELSE UNCHANGED held /\ KeepScratch
    /\ table' = tables + 1 /\ tables' = tables + 1
    /\ model' \in 1..model
    /\ caps' = NoCaps
    /\ UNCHANGED <<worker, tune, want, probed>>

\* uninstall_released: the scratch goes with the table, and stays with one that
\* somebody still holds after 30 s.  Only some callers mark such a card.
Uninstall(released, marks) ==
    /\ table' = None
    /\ IF released THEN ReleaseScratch ELSE KeepScratch
    /\ held' = CASE ~released -> IF marks THEN "stuck" ELSE "kept"
                  [] released /\ held = "stuck" /\ ~marks -> "stuck"
                  [] OTHER -> "no"
    /\ UNCHANGED <<tables, model, caps>>

\* An inference takes the table off the card, whose walk it has drained; a probe
\* that does not come back may still hold it.  It does not mark the card.
TakenAway ==
    /\ worker.pc \in {"idle", "asked"}
    /\ \E released \in {TRUE} \cup {table = None} : Uninstall(released, FALSE)
    /\ UNCHANGED <<worker, tune, want, probed>>

\* mine_v4 returns, and with it go the range and what was chosen for it.
Idle(start) ==
    worker' = [worker EXCEPT !.pc = "idle", !.start = start, !.batch = 0, !.backend = "classic", !.cur = "a"]

Paused == Idle(worker.start)

NotInstalled ==
    /\ worker.pc = "asked" /\ table = None
    /\ Paused
    /\ UNCHANGED <<table, tables, model, held, tune, want, probed, caps, off, seeds, prefetch>>

\* ensure_v4_autotuned: candidates are launched on the shared buffers, then
\* the buffers are dropped and the job refreshed.
Autotuned ==
    /\ worker.pc = "asked" /\ table # None /\ tune = None
    /\ tune' \in Works \cup {"classic"} /\ want' \in Batches
    /\ probed' = probed \cup {<<"ncf", 0>>, <<"tc", 0>>, <<"sidecar", table>>}
    /\ ReleaseChase
    /\ Paused
    /\ UNCHANGED <<table, tables, model, held, caps, seeds>>

\* Its undrainable failure leaves classic behind and the table is torn down.
AutotuneFailed ==
    /\ worker.pc = "asked" /\ table # None /\ tune = None
    /\ tune' = "classic" /\ want' \in Batches
    /\ probed' = probed \cup {<<"ncf", 0>>, <<"tc", 0>>, <<"sidecar", table>>}
    /\ \E released \in BOOLEAN : Uninstall(released, TRUE)
    /\ Paused

\* The cap is checked again now that the table is resident; a range that is
\* too large is neither launched nor counted.
Enter ==
    /\ worker.pc = "asked" /\ table # None
    /\ Probing
    /\ \E room \in Room(v4_backend) :
          /\ Remember(v4_backend, room)
          /\ worker' = [worker EXCEPT !.pc = IF room < worker.batch THEN "shrink" ELSE "entered"]
    /\ UNCHANGED <<table, tables, model, held, tune, want, seeds, prefetch>>

Shrink ==
    /\ worker.pc = "shrink"
    /\ ReleaseChase
    /\ Paused
    /\ UNCHANGED <<table, tables, model, held, tune, want, probed, caps, seeds>>

-----------------------------------------------------------------------------
(* mine_v4_impl *)

\* The winner slot is cleared and, from H10 on, the seeds of the batch written
\* (one thread a nonce).  A walk over the context pad carries state, so it
\* never runs on a chase.
Seed ==
    /\ worker.pc = "entered"
    /\ LET len == IF worker.era = "pre" THEN 1 ELSE worker.batch
           buf == Grown(seeds, len)
           backend == IF worker.era # "v5" THEN v4_backend
                      ELSE IF v4_ncf_usable THEN "ncf" ELSE "classic"
       IN  /\ seeds' = IF worker.era = "pre" THEN buf
                       ELSE [buf EXCEPT !.work = Work(worker, worker.start)]
           /\ worker' = [worker EXCEPT !.backend = backend,
                                       !.pc = IF NeedsOffsets(backend) THEN "chase" ELSE backend]
    /\ UNCHANGED <<table, tables, model, held, tune, want, probed, caps, off, prefetch>>

\* A chase writes the offsets of its range; from H10 on it reads the seed array,
\* whatever that holds.
Chased(work) == IF worker.era # "pre" /\ seeds.work # work THEN Junk ELSE work

Pipelined == worker.backend = "tc" /\ Prefetch /\ worker.era = "pre"

\* variant: on a hit the offsets are taken to be in the second buffer
HitInferred ==
    IF Pipelined /\ prefetch # None /\ prefetch.work = Work(worker, worker.start)
    THEN "b" ELSE None

\* The buffer a speculative chase left exactly this range in.  The note does
\* not say over which model.
Hit ==
    IF /\ Pipelined /\ prefetch # None
       /\ prefetch.work.job = worker.job
       /\ prefetch.work.start = worker.start
       /\ prefetch.work.batch = worker.batch
    THEN prefetch.buf ELSE None

\* Without a hit the chase runs in line, into the first buffer.
Chase ==
    /\ worker.pc = "chase"
    /\ LET cur   == IF Hit = None THEN "a" ELSE Hit
           grown == [off EXCEPT !.a = Grown(@, worker.batch),
                                !.b = IF Pipelined THEN Grown(@, worker.batch) ELSE @]
       IN  /\ worker' = [worker EXCEPT !.cur = cur, !.pc = "walk"]
           /\ off' = IF Hit # None THEN grown
                     ELSE [grown EXCEPT ![cur].work = Chased(Work(worker, worker.start))]
    /\ UNCHANGED <<table, tables, model, held, tune, want, probed, caps, seeds, prefetch>>

\* The walk reads the offsets; meanwhile the next range is chased into the
\* spare buffer, and noted.
Walk ==
    /\ worker.pc = "walk"
    /\ LET next  == Work(worker, worker.start + worker.batch)
           spare == IF worker.cur = "a" THEN "b" ELSE "a"
       IN  IF Pipelined
           THEN /\ off' = [off EXCEPT ![spare].work = Chased(next)]
                /\ prefetch' = [work |-> next, buf |-> spare]
           ELSE UNCHANGED <<off, prefetch>>
    /\ worker' = [worker EXCEPT !.pc = "launched"]
    /\ UNCHANGED <<table, tables, model, held, tune, want, probed, caps, seeds>>

\* The chaseless kernel is one launch over the segment table; so is the classic
\* walk.
LaunchNcf ==
    /\ worker.pc = "ncf"
    /\ worker' = [worker EXCEPT !.pc = "launched"]
    /\ UNCHANGED <<table, tables, model, held, tune, want, probed, caps, off, seeds, prefetch>>

LaunchClassic ==
    /\ worker.pc = "classic"
    /\ worker' = [worker EXCEPT !.pc = "launched"]
    /\ UNCHANGED <<table, tables, model, held, tune, want, probed, caps, off, seeds, prefetch>>

\* The stream drains and the range is done.
Done ==
    /\ worker.pc = "launched"
    /\ Idle(worker.start + worker.batch)
    /\ UNCHANGED <<table, tables, model, held, tune, want, probed, caps, off, seeds, prefetch>>

\* A launch, an allocation or the drain fails: a transient fault tears the
\* table down (reset_stale_gpu_state), another error changes nothing.
Fault ==
    /\ worker.pc \in {"entered", "chase", "walk", "ncf", "classic", "launched"}
    /\ \E released \in BOOLEAN : Uninstall(released, TRUE)
    /\ Paused
    /\ UNCHANGED <<tune, want, probed>>

Error ==
    /\ worker.pc \in {"entered", "chase", "walk", "ncf", "classic", "launched"}
    /\ Paused
    /\ UNCHANGED <<table, tables, model, held, tune, want, probed, caps, off, seeds, prefetch>>

Next ==
    \/ Ask \/ NewJob \/ Install \/ TakenAway \/ NotInstalled
    \/ Autotuned \/ AutotuneFailed \/ Enter \/ Shrink
    \/ Seed \/ Chase \/ Walk \/ LaunchNcf \/ LaunchClassic \/ Done \/ Fault \/ Error

Spec == Init /\ [][Next]_launch

-----------------------------------------------------------------------------
(* Properties *)

\* The walk of a range reads offsets that were chased for that range, from its
\* seeds and over the model that is installed: a speculative chase never feeds
\* it another range's, through job changes, resized batches, probes, tear-downs
\* and rebuilds (mine_v4_impl, V4Prefetch).  There is one exception, a hit after
\* an inference took away a table it could not release: nothing drops the note
\* then, although the rebuild may be of a smaller model, and its smaller cap
\* may ask again for a range whose buffer has since been replaced.
WalkReadsItsOffsets ==
    worker.pc = "walk" =>
        \/ off[worker.cur].work = Work(worker, worker.start)
        \/ held = "kept" /\ Hit # None

\* No launch is larger than the room measured with its table resident,
\* although the worker picks the range before the table is installed
\* (cap_v4_batch in mine_v4).
LaunchFitsCap ==
    worker.pc \in {"chase", "walk"} => worker.batch <= caps[worker.backend]
=============================================================================
