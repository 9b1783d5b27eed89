-------------------------- MODULE MinerPauseProofs --------------------------
(***************************************************************************)
(* Proofs about MinerPause for any number of workers, inference tasks,     *)
(* connections and process_block calls: the pause counter is exact, a held *)
(* pause keeps jobs out of the channel, and when it ends workers are       *)
(* offered the newest job.                                                 *)
(***************************************************************************)
EXTENDS MinerPause, FiniteSetTheorems, TLAPS

\* The backends that try a leaf, in turn, unless it names its own.
USE SMTT(30), ZenonT(30), Z3T(30)

Armed == {i \in Guards : guard[i] = "armed"}

(***************************************************************************)
(* The inductive invariant: besides the three properties, who is current,  *)
(* what is retained, and what a pending process_block(None) leaves true.   *)
(***************************************************************************)
CurrentInv == phase = "live" <=> current # 0

RetainedInv ==
    phase = "live" =>
        /\ newest = Idle \/ IsJob(newest)
        /\ retained = IF newest.stratum THEN newest ELSE Idle
        /\ retained # Idle => is_synced
        /\ cmd = Idle \/ IsJob(cmd)

UnsentInv == unsent => phase = "live" /\ ~is_synced /\ newest = Idle

\* The part of the invariant that is not about types.
Order ==
    /\ CurrentInv
    /\ RetainedInv
    /\ UnsentInv
    /\ PausedChannelHasNoJob
    /\ WorkersGetNewest
    /\ UnsyncedChannelHasNoJob

\* What the proofs use of the shape of commands.
LEMMA CommandFacts ==
    /\ Idle \in Commands /\ Close \in Commands /\ Exited \in Commands
    /\ Idle # Close /\ Idle # Exited /\ Close # Exited
    /\ ~IsJob(Idle) /\ ~IsJob(Close) /\ ~IsJob(Exited)
    /\ Idle.stratum = FALSE
    /\ \A n \in Nat, s \in BOOLEAN :
          /\ Job(n, s) \in Commands
          /\ IsJob(Job(n, s))
          /\ Job(n, s).stratum = s
          /\ Job(n, s) # Idle
BY DEF Idle, Close, Exited, Job, IsJob, Commands

\* The number of armed guards is a natural number, and zero only without one.
LEMMA ArmedCount == /\ Cardinality(Armed) \in Nat
                    /\ IsFiniteSet(Armed)
<1>1. IsFiniteSet(Armed)
  BY GuardsAssumption, FS_Subset DEF Armed
<1> QED BY <1>1, FS_CardinalityType

\* Arming a guard adds one to the count of armed guards, dropping it takes one.
LEMMA ArmedStep ==
    ASSUME NEW i \in Guards, guard \in [Guards -> {"fresh", "armed", "dropped"}]
    PROVE  /\ guard[i] = "fresh" /\ guard' = [guard EXCEPT ![i] = "armed"]
                => Cardinality(Armed') = Cardinality(Armed) + 1
           /\ guard[i] = "armed" /\ guard' = [guard EXCEPT ![i] = "dropped"]
                => Cardinality(Armed') = Cardinality(Armed) - 1
<1>1. ASSUME guard[i] = "fresh", guard' = [guard EXCEPT ![i] = "armed"]
      PROVE  Cardinality(Armed') = Cardinality(Armed) + 1
  <2>1. Armed' = Armed \cup {i} /\ i \notin Armed
    BY <1>1 DEF Armed
  <2> QED BY <2>1, ArmedCount, FS_AddElement
<1>2. ASSUME guard[i] = "armed", guard' = [guard EXCEPT ![i] = "dropped"]
      PROVE  Cardinality(Armed') = Cardinality(Armed) - 1
  <2>1. Armed' = Armed \ {i} /\ i \in Armed
    BY <1>2 DEF Armed
  <2> QED BY <2>1, ArmedCount, FS_RemoveElement
<1> QED BY <1>1, <1>2

\* The process starts with no manager, no pause and no job.
LEMMA GateInit == Init => TypeOK /\ Order
<1> SUFFICES ASSUME Init PROVE TypeOK /\ Order
  OBVIOUS
<1>1. {i \in Guards : guard[i] = "armed"} = {}
  BY DEF Init
<1>2. TypeOK
  BY <1>1, FS_EmptySet, ZenonT(60) DEF Init, TypeOK, Commands, Idle, Exited
<1> QED BY <1>2 DEF Init, Order, CurrentInv, RetainedInv, UnsentInv,
                    PausedChannelHasNoJob, WorkersGetNewest,
                    UnsyncedChannelHasNoJob

\* Sender::send publishes its argument while a worker is left to receive it.
LEMMA SendFacts ==
    ASSUME NEW c \in Commands, TypeOK, Send(c)
    PROVE  /\ ver' \in Nat /\ cmd' \in Commands
           /\ ~AllExited => cmd' = c
           /\ AllExited => cmd' = cmd
BY DEF Send, chanVars, TypeOK

\* Types are preserved.
LEMMA TypeStep == TypeOK /\ [Next]_vars => TypeOK'
<1> SUFFICES ASSUME TypeOK, [Next]_vars PROVE TypeOK'
  OBVIOUS
<1> USE CommandFacts DEF pauseVars, chanVars, workerVars
<1>0. inflight \in Nat /\ inflight = Cardinality(Armed)
  BY ArmedCount DEF Armed, TypeOK
<1>1. CASE NewManager
  BY <1>0, <1>1 DEF NewManager, TypeOK
<1>2. CASE BeginDrop \/ JoinWorkers \/ ProcessNone
  <2>1. CASE BeginDrop
    BY <2>1, ZenonT(60) DEF BeginDrop, TypeOK
  <2>2. CASE JoinWorkers
    BY <2>2 DEF JoinWorkers, TypeOK
  <2>3. CASE ProcessNone
    <3>1. unsent' \in BOOLEAN /\ is_synced' \in BOOLEAN
      BY <2>3, Zenon DEF ProcessNone, TypeOK
    <3> QED BY <2>3, <3>1 DEF ProcessNone, TypeOK
  <2> QED BY <1>2, <2>1, <2>2, <2>3
<1>3. CASE SendClose
  <2>1. ver' \in Nat /\ cmd' \in Commands
    BY <1>3, SendFacts DEF SendClose
  <2> QED BY <1>3, <2>1 DEF SendClose, TypeOK
<1>4. CASE SendNone
  <2>1. ver' \in Nat /\ cmd' \in Commands
    BY <1>4, SendFacts DEF SendNone
  <2> QED BY <1>4, <2>1, ZenonT(60) DEF SendNone, TypeOK
<1>5. ASSUME NEW s \in BOOLEAN, ProcessJob(s) PROVE TypeOK'
  <2>1. Job(calls + 1, s) \in Commands
    BY DEF TypeOK
  <2>2. ver' \in Nat /\ cmd' \in Commands
    BY <1>5, <2>1, SendFacts DEF ProcessJob
  <2>3. active' \in BOOLEAN /\ is_synced' \in BOOLEAN
    BY <1>5, ZenonT(60) DEF ProcessJob, TypeOK
  <2>4. retained' \in Commands /\ newest' \in Commands /\ calls' \in Nat
    BY <1>5, <2>1 DEF ProcessJob, TypeOK
  <2> QED BY <1>5, <2>2, <2>3, <2>4 DEF ProcessJob, TypeOK
<1>6. ASSUME NEW i \in Guards, BeginPause(i) PROVE TypeOK'
  <2>1. inflight' = Cardinality(Armed')
    BY <1>0, <1>6, ArmedStep, ZenonT(60) DEF BeginPause, TypeOK
  <2>2. ver' \in Nat /\ cmd' \in Commands /\ active' \in BOOLEAN
    BY <1>6, SendFacts, ZenonT(60) DEF BeginPause, TypeOK
  <2> QED BY <1>6, <2>1, <2>2 DEF BeginPause, TypeOK, Armed
<1>7. ASSUME NEW i \in Guards, DropGuard(i) PROVE TypeOK'
  <2>1. inflight' = Cardinality(Armed')
    BY <1>0, <1>7, ArmedStep, ZenonT(60) DEF DropGuard, TypeOK
  <2>2. retained \in Commands
    BY DEF TypeOK
  <2>3. ver' \in Nat /\ cmd' \in Commands /\ active' \in BOOLEAN
    BY <1>7, <2>2, SendFacts, ZenonT(60) DEF DropGuard, TypeOK
  <2> QED BY <1>7, <2>1, <2>3 DEF DropGuard, TypeOK, Armed
<1>8. ASSUME NEW w \in Workers, TakeCommand(w) PROVE TypeOK'
  BY <1>8 DEF TakeCommand, TypeOK
<1>9. ASSUME NEW w \in Workers, MineBlock(w) \/ WorkerDies(w) PROVE TypeOK'
  <2>1. worker' \in [Workers -> Commands]
    BY <1>9 DEF MineBlock, WorkerDies, TypeOK
  <2> QED BY <1>9, <2>1, ZenonT(60) DEF MineBlock, WorkerDies, TypeOK
<1>10. CASE UNCHANGED vars
  BY <1>10 DEF vars, TypeOK
<1> QED BY <1>1, <1>2, <1>3, <1>4, <1>5, <1>6, <1>7, <1>8, <1>9, <1>10 DEF Next

\* Every step preserves it.
LEMMA OrderStep == TypeOK /\ Order /\ [Next]_vars => Order'
<1> SUFFICES ASSUME TypeOK, Order, [Next]_vars PROVE Order'
  OBVIOUS
<1> USE CommandFacts DEF pauseVars, chanVars, workerVars
<1>0. inflight \in Nat /\ gen \in Nat
  BY ArmedCount DEF Armed, TypeOK
<1> DEFINE Props == <<phase, current, inflight, cmd, retained, newest, is_synced, unsent>>
<1>q. ASSUME UNCHANGED Props, ~AllExited' => ~AllExited PROVE Order'
  BY <1>q DEF Order, CurrentInv, RetainedInv, UnsentInv, PausedChannelHasNoJob,
              WorkersGetNewest, UnsyncedChannelHasNoJob
<1>1. CASE NewManager
  <2>1. /\ phase' = "live" /\ current' # 0 /\ cmd' = Idle /\ retained' = Idle
        /\ newest' = Idle /\ unsent' = FALSE
    BY <1>0, <1>1 DEF NewManager, Order, UnsentInv, TypeOK
  <2> QED BY <2>1 DEF Order, CurrentInv, RetainedInv, UnsentInv,
                  PausedChannelHasNoJob, WorkersGetNewest, UnsyncedChannelHasNoJob
<1>2. CASE BeginDrop
  <2>1. phase' = "closing" /\ current' = 0 /\ unsent' = FALSE
    BY <1>2 DEF BeginDrop, TypeOK
  <2> QED BY <2>1 DEF Order, CurrentInv, RetainedInv, UnsentInv,
                  PausedChannelHasNoJob, WorkersGetNewest, UnsyncedChannelHasNoJob
<1>3. CASE SendClose \/ JoinWorkers
  <2>1. phase' # "live" /\ phase # "live" /\ current' = current /\ unsent' = unsent
    BY <1>3 DEF SendClose, JoinWorkers
  <2> QED BY <2>1 DEF Order, CurrentInv, RetainedInv, UnsentInv,
                  PausedChannelHasNoJob, WorkersGetNewest, UnsyncedChannelHasNoJob
<1>4. CASE ProcessNone
  <2>1. /\ phase' = phase /\ phase = "live" /\ current' = current /\ inflight' = inflight
        /\ cmd' = cmd /\ retained' = Idle /\ newest' = Idle /\ is_synced' = FALSE
        /\ unsent' = is_synced /\ unsent = FALSE /\ AllExited' = AllExited
    BY <1>4 DEF ProcessNone, CanProcess, AllExited, TypeOK
  <2> QED BY <2>1 DEF Order, CurrentInv, RetainedInv, UnsentInv,
                  PausedChannelHasNoJob, WorkersGetNewest, UnsyncedChannelHasNoJob
<1>5. CASE SendNone
  <2>1. /\ phase' = phase /\ phase = "live" /\ current' = current /\ inflight' = inflight
        /\ cmd' = Idle /\ retained' = retained /\ newest' = newest
        /\ is_synced' = is_synced /\ unsent' = FALSE /\ unsent
    BY <1>5, SendFacts DEF SendNone
  <2> QED BY <2>1 DEF Order, CurrentInv, RetainedInv, UnsentInv,
                  PausedChannelHasNoJob, WorkersGetNewest, UnsyncedChannelHasNoJob
<1>6. ASSUME NEW s \in BOOLEAN, ProcessJob(s) PROVE Order'
  <2> DEFINE job == Job(calls + 1, s)
  <2>1. job \in Commands /\ IsJob(job) /\ job.stratum = s /\ job # Idle
    BY DEF TypeOK
  <2> HIDE DEF job
  <2>2. /\ phase' = phase /\ phase = "live" /\ current' = current /\ inflight' = inflight
        /\ retained' = (IF s THEN job ELSE Idle) /\ newest' = job
        /\ unsent' = unsent /\ ~unsent /\ ~AllExited
        /\ IF inflight # 0 THEN is_synced' = s ELSE is_synced' = TRUE
    BY <1>6 DEF ProcessJob, CanProcess, job
  <2>3. cmd' = IF inflight # 0 THEN Idle ELSE job
    BY <1>6, <2>1, <2>2, SendFacts DEF ProcessJob, job
  <2> QED BY <2>1, <2>2, <2>3 DEF Order, CurrentInv, RetainedInv, UnsentInv,
                  PausedChannelHasNoJob, WorkersGetNewest, UnsyncedChannelHasNoJob
<1>7. ASSUME NEW i \in Guards, BeginPause(i) PROVE Order'
  <2>1. /\ phase' = phase /\ current' = current /\ inflight' = inflight + 1
        /\ inflight' # 0 /\ retained' = retained /\ newest' = newest
        /\ is_synced' = is_synced /\ unsent' = unsent /\ AllExited' = AllExited
    BY <1>0, <1>7 DEF BeginPause, AllExited
  <2>2. phase = "live" => IF AllExited THEN cmd' = cmd ELSE cmd' = Idle
    BY <1>7, SendFacts DEF BeginPause, Order, CurrentInv
  <2> QED BY <2>1, <2>2 DEF Order, CurrentInv, RetainedInv, UnsentInv,
                  PausedChannelHasNoJob, WorkersGetNewest, UnsyncedChannelHasNoJob
<1>8. ASSUME NEW i \in Guards, DropGuard(i) PROVE Order'
  <2>1. /\ phase' = phase /\ current' = current /\ retained' = retained
        /\ newest' = newest /\ is_synced' = is_synced /\ unsent' = unsent
        /\ AllExited' = AllExited /\ retained \in Commands /\ inflight # 0
        /\ inflight' # 0 <=> inflight # 1
    <3>1. guard[i] = "armed" => Armed # {}
      BY DEF Armed
    <3>2. Armed # {} => Cardinality(Armed) # 0
      BY ArmedCount, FS_EmptySet
    <3>3. inflight # 0
      BY <1>8, <3>1, <3>2 DEF DropGuard, TypeOK, Armed
    <3> QED BY <1>0, <1>8, <3>3 DEF DropGuard, AllExited, TypeOK
  <2>2. CASE inflight = 1 /\ current # 0 /\ retained # Idle /\ ~AllExited
    <3>1. cmd' = retained
      BY <1>8, <2>1, <2>2, SendFacts DEF DropGuard
    <3> QED BY <2>1, <2>2, <3>1 DEF Order, CurrentInv, RetainedInv, UnsentInv,
                  PausedChannelHasNoJob, WorkersGetNewest, UnsyncedChannelHasNoJob
  <2>3. CASE ~(inflight = 1 /\ current # 0 /\ retained # Idle /\ ~AllExited)
    <3>1. cmd' = cmd
      BY <1>8, <2>1, <2>3, SendFacts DEF DropGuard
    <3> QED BY <2>1, <2>3, <3>1 DEF Order, CurrentInv, RetainedInv, UnsentInv,
                  PausedChannelHasNoJob, WorkersGetNewest, UnsyncedChannelHasNoJob
  <2> QED BY <2>2, <2>3
<1>9. ASSUME NEW w \in Workers, TakeCommand(w) \/ MineBlock(w) \/ WorkerDies(w)
       PROVE  Order'
  <2>1. worker[w] # Exited
    BY <1>9 DEF TakeCommand, MineBlock, WorkerDies
  <2>2. ~AllExited
    BY <2>1 DEF AllExited
  <2>3. UNCHANGED Props
    BY <1>9 DEF TakeCommand, MineBlock, WorkerDies
  <2> QED BY <2>2, <2>3, <1>q
<1>10. CASE UNCHANGED vars
  BY <1>10, <1>q DEF vars, AllExited
<1> QED BY <1>1, <1>2, <1>3, <1>4, <1>5, <1>6, <1>7, <1>8, <1>9, <1>10 DEF Next

\* The invariant holds in every reachable state.
THEOREM GateAlways == Spec => [](TypeOK /\ Order)
<1>1. Init => TypeOK /\ Order
  BY GateInit
<1>2. TypeOK /\ Order /\ [Next]_vars => (TypeOK /\ Order)'
  BY TypeStep, OrderStep
<1> QED BY <1>1, <1>2, PTL DEF Spec

\* The pause counter of InferencePauseState is the number of armed guards for any
\* number of overlapping inferences: it never wraps and never sticks.
THEOREM TypeCorrect == Spec => []TypeOK
BY GateAlways, PTL

\* While an inference holds a guard, begin_inference_pause and process_block keep
\* jobs out of the channel of the live manager.
THEOREM PauseHolds == Spec => []PausedChannelHasNoJob
<1>1. Order => PausedChannelHasNoJob
  BY DEF Order
<1> QED BY <1>1, GateAlways, PTL

\* Once no inference is left, the channel offers what process_block was last asked
\* for, the retained Stratum job included.
THEOREM NewestIsOffered == Spec => []WorkersGetNewest
<1>1. Order => WorkersGetNewest
  BY DEF Order
<1> QED BY <1>1, GateAlways, PTL

\* The early return of process_block(None) never leaves a job in the channel.
THEOREM EarlyReturnIsSafe == Spec => []UnsyncedChannelHasNoJob
<1>1. Order => UnsyncedChannelHasNoJob
  BY DEF Order
<1> QED BY <1>1, GateAlways, PTL
============================================================================
