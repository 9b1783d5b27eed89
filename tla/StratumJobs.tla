---------------------------- MODULE StratumJobs ----------------------------
(***************************************************************************)
(* The jobs of a Stratum connection: how handle_message turns the notify   *)
(* messages of four protocol generations into a job for the workers or     *)
(* into none, where the DAA score of a job that carries none comes from,   *)
(* and how the pool is told which models this rig serves, by declarations  *)
(* nobody acknowledges.                                                    *)
(*                                                                         *)
(* A DAA score is a number compared with the fork gates.  A target, an     *)
(* extranonce and a set of bits are values passed on unchanged.            *)
(***************************************************************************)
EXTENDS Integers

CONSTANTS
    Models,     \* models the rig may prove serveable
    Bits,       \* compact block targets a pool may send
    Daas,       \* DAA scores a pool may send
    None,       \* a field that is absent
    SaltV4,     \* POW_SALT_V4_ACTIVATION_DAA
    H10,        \* pom::h10_activation_daa()
    H14,        \* pom::private_inference_activation_daa()
    BlockTask,  \* pom::is_block_task_era starts here
    MaxChanges  \* bound: changes of the set of serveable models

VARIABLES
    assigned,   \* target_pool and the extranonce: the last valid assignment
    block_bits, \* the job's own block target, or None
    last_daa,   \* LAST_DAA_SCORE
    forced,     \* POOL_FORCED_POM
    eta_passed, \* models::h14_eta_passed_by_clock()
    task,       \* current_task_slot: a task, or None
    serveable,  \* slm::serveable_model_ids()
    changes,    \* how often it has changed
    declared,   \* declared_model_ids: None or the set last sent
    recent,     \* last_declare_at.elapsed() < REDECLARE_EVERY
    pool_view,  \* the pool: what it believes this rig serves
    fed,        \* what process_block was last given: a job, or None
    asked       \* history: the bits of the last notify, and the least DAA its job
                \* may have by what the pool has said

vars == <<assigned, block_bits, last_daa, forced, eta_passed, task, serveable,
          changes, declared, recent, pool_view, fed, asked>>

\* the notify messages, V3 ones with bits, V4 ones with bits, a header that
\* decodes or not and a window seed or none; a "short" one may have no DAA
Plain(kinds, daas) == [kind : kinds, daa : daas, bits : {None}, header : {FALSE}, seed : {FALSE}]
Notifies ==
    Plain({"task", "short2"}, Daas) \cup Plain({"short"}, Daas \cup {None})
      \cup [kind : {"task", "short2"}, daa : Daas, bits : Bits, header : {FALSE},
            seed : {FALSE}]
      \cup [kind : {"v4"}, daa : Daas, bits : Bits, header : BOOLEAN, seed : BOOLEAN]

Larger(m, n) == IF m > n THEN m ELSE n

Init ==
    /\ assigned = 0
    /\ block_bits = None
    /\ last_daa = 0
    /\ forced = FALSE
    /\ eta_passed = FALSE
    /\ task = None
    /\ serveable = {}
    /\ changes = 0
    /\ declared = None
    /\ recent = FALSE
    /\ pool_view = {}
    /\ fed = None
    /\ asked = [bits |-> None, least |-> 0]

-----------------------------------------------------------------------------
(* MiningNotify                                                            *)

\* a DAA-less job inherits the last DAA seen, and is floored at the current
\* frontier once the pool has said that the fork is active
JobDaa(n) ==
    IF n.daa # None THEN n.daa
    ELSE LET base == Larger(last_daa, SaltV4)
         IN  IF forced THEN Larger(base, IF eta_passed THEN H14 ELSE H10) ELSE base

\* absorb_v3_notify: a job without bits drops those of the job before
JobBits(n) == n.bits

\* past the gate only a v4 notify can become a block
PastGate(n) == n.kind # "v4" /\ JobDaa(n) >= BlockTask

\* what is left out of process_block: no proven model, no usable header, no seed
Mineable(n) ==
    /\ ~PastGate(n)
    /\ serveable # {}
    /\ n.kind = "v4" => n.header /\ (n.daa >= BlockTask => n.seed)

Job(n) == [daa |-> JobDaa(n), bits |-> JobBits(n), header |-> n.header,
           seed |-> n.seed, assigned |-> assigned]

\* handle_ai_task keeps a valid task for the shares that will carry its
\* answer; from H14 on tasks come another way; a plain job clears the slot
TaskAfter(n, valid) ==
    IF n.kind = "v4" \/ ~Mineable(n) THEN task
    ELSE IF n.kind = "task" /\ n.daa < H14 /\ valid THEN n.daa
    ELSE None

\* variant: the models are declared only when the set has changed
DeclareOnChange(delivered) ==
    IF declared = serveable
    THEN UNCHANGED <<declared, recent, pool_view>>
    ELSE /\ declared' = serveable
         /\ recent' = TRUE
         /\ pool_view' = IF delivered THEN serveable ELSE pool_view

\* declare_capabilities_if_changed: sent when the set has changed or the last
\* declaration is 90 s old; the pool may miss it
Declare(delivered) ==
    IF declared = serveable /\ recent
    THEN UNCHANGED <<declared, recent, pool_view>>
    ELSE /\ declared' = serveable
         /\ recent' = TRUE
         /\ pool_view' = IF delivered THEN serveable ELSE pool_view

Notify(n, valid, delivered) ==
    /\ block_bits' = JobBits(n)
    /\ last_daa' = IF n.daa = None THEN last_daa ELSE n.daa
    /\ fed' = IF Mineable(n) THEN Job(n) ELSE None
    /\ asked' = [bits |-> n.bits,
                 least |-> IF n.daa # None THEN n.daa
                           ELSE IF ~forced THEN SaltV4
                           ELSE IF eta_passed THEN H14 ELSE H10]
    /\ task' = TaskAfter(n, valid)
    /\ IF PastGate(n) THEN UNCHANGED <<declared, recent, pool_view>>
       ELSE Declare(delivered)
    /\ UNCHANGED <<assigned, forced, eta_passed, serveable, changes>>

-----------------------------------------------------------------------------
(* The other messages, and what changes around them.                       *)

\* set_difficulty, set_extranonce and the subscribe reply: committed whole or,
\* when a field does not validate, not at all (the connection then ends)
Assign(a) ==
    /\ assigned' = a
    /\ UNCHANGED <<block_bits, last_daa, forced, eta_passed, task, serveable,
                   changes, declared, recent, pool_view, fed, asked>>

\* "Unauthorized: pom proof required": the pool knows better
PomRequired ==
    /\ ~forced
    /\ forced' = TRUE
    /\ UNCHANGED <<assigned, block_bits, last_daa, eta_passed, task, serveable,
                   changes, declared, recent, pool_view, fed, asked>>

EtaPasses ==
    /\ ~eta_passed
    /\ eta_passed' = TRUE
    /\ UNCHANGED <<assigned, block_bits, last_daa, forced, task, serveable,
                   changes, declared, recent, pool_view, fed, asked>>

\* a self-test proves a model, or its route is lost
ServeableChanges(models) ==
    /\ models # serveable /\ changes < MaxChanges
    /\ serveable' = models
    /\ changes' = changes + 1
    /\ UNCHANGED <<assigned, block_bits, last_daa, forced, eta_passed, task,
                   declared, recent, pool_view, fed, asked>>

\* REDECLARE_EVERY has passed
DeclarationAges ==
    /\ recent
    /\ recent' = FALSE
    /\ UNCHANGED <<assigned, block_bits, last_daa, forced, eta_passed, task,
                   serveable, changes, declared, pool_view, fed, asked>>

\* the pool's registry is reset
PoolForgets ==
    /\ pool_view' = {}
    /\ UNCHANGED <<assigned, block_bits, last_daa, forced, eta_passed, task,
                   serveable, changes, declared, recent, fed, asked>>

Next ==
    \/ \E n \in Notifies, valid, delivered \in BOOLEAN : Notify(n, valid, delivered)
    \/ \E a \in 0..1 : Assign(a)
    \/ PomRequired
    \/ EtaPasses
    \/ \E models \in SUBSET Models : ServeableChanges(models)
    \/ DeclarationAges
    \/ PoolForgets

\* jobs that are not past the gate keep coming, time passes, and not every
\* declaration sent is lost
Heard == \E n \in Notifies :
            ~PastGate(n) /\ ~(declared = serveable /\ recent) /\ Notify(n, TRUE, TRUE)

Fairness == WF_vars(DeclarationAges) /\ SF_vars(Heard)
Spec == Init /\ [][Next]_vars
FairSpec == Spec /\ Fairness

-----------------------------------------------------------------------------
\* What reaches the workers can become a block: the job has the block target
\* of its own notify and never an earlier one's; a header and a seed when its
\* DAA, inherited or not, is past the block-task gate; and a DAA at the
\* frontier once the pool has answered that the fork is active, without which
\* every share would be refused (handle_message, absorb_v3_notify).
FedJobIsMineable ==
    fed # None =>
      /\ fed.bits = asked.bits
      /\ fed.daa >= asked.least
      /\ fed.daa >= BlockTask => fed.header /\ fed.seed

\* The pool learns what this rig serves, again and again, although single
\* declarations are lost and its registry may be reset: declarations are
\* repeated (declare_capabilities_if_changed).
PoolLearnsModels == []<>(pool_view = serveable)
=============================================================================
