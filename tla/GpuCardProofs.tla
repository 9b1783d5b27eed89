--------------------------- MODULE GpuCardProofs ---------------------------
(***************************************************************************)
(* Proofs about GpuCard for any number of inference threads, tables,       *)
(* engine loads and models.                                                *)
(*                                                                         *)
(* The pause count, the install guard and the lease are exact however long *)
(* a thread is descheduled.  That a walk never overlaps inference rests on *)
(* the owner counts of a table, and these hold as long as no thread stalls *)
(* past the 30 s barrier (~Stalls).                                        *)
(***************************************************************************)
EXTENDS GpuCard, FiniteSetTheorems, TLAPS

\* The backends that try a leaf, in turn, unless it names its own.
USE SMTT(30), ZenonT(30), Z3T(30)

-----------------------------------------------------------------------------
(* The inductive invariant.                                                *)

WorkerLabels ==
    {"idle", "pass", "checked", "cloned", "walk", "fault", "probe", "remove",
     "barrier", "reset", "stuck", "staged", "install", "route",
     "probing", "load", "unwind", "era"}

ClientLabels ==
    {"idle", "leased", "raised", "unstaged", "draining", "drained", "remove",
     "barrier", "swap", "serve", "generating", "server", "finish"}

\* Which labels a thread passes, and where uninstall_released returns to.
Places ==
    /\ pc[Worker] \in WorkerLabels
    /\ pc[Worker] \in {"remove", "barrier"} => then[Worker] \in {"reset", "era"}
    /\ \A c \in Clients : pc[c] \in ClientLabels /\ then[c] \in {"swap", "server"}

\* The worker is inside an install transaction or an era swap.
Installs ==
    \/ pc[Worker] \in {"install", "route", "probing", "load", "era"}
    \/ pc[Worker] \in {"remove", "barrier"} /\ then[Worker] = "era"

\* A request goes on only if it found no install guard, and none begins
\* while a request is counted in the pause.
GuardInv ==
    /\ Installs => installing = Worker
    /\ \A c \in Clients :
         pc[c] \notin {"idle", "leased", "raised", "finish"} => installing = None

\* No table is installed from the moment uninstall_released took it out.
MapInv ==
    /\ pc[Worker] \in {"staged", "install", "route", "probing", "load",
                       "reset", "stuck", "era", "barrier"} => map = None
    /\ \A c \in Clients : pc[c] \in {"barrier", "swap", "server"} => map = None

\* The installed table points into the resident engine load.
SourceInv == map # None => source[map] \in {None, engine}

\* A thread holds a table only where its code has cloned or removed one.
HandleInv ==
    /\ pc[Worker] \in {"cloned", "walk", "barrier"} => handle[Worker] # None
    /\ pc[Worker] \notin {"cloned", "walk", "probe", "barrier"} => handle[Worker] = None
    /\ \A c \in Clients :
         handle[c] # None <=> pc[c] \in {"draining", "barrier"}

\* The invariant that holds even when threads stall.
Safe == TypeOK /\ Places /\ PauseCountsGuards /\ OneLeaseHolder /\ GuardInv
          /\ MapInv /\ SourceInv /\ HandleInv

\* Without stalls every handle is a handle on the installed table, or on the
\* one a thread at its barrier took out.
OwnerInv ==
    /\ quarantine = None
    /\ pc[Worker] \in {"cloned", "probe"} =>
         \/ handle[Worker] \in {None, map}
         \/ \E c \in Clients : pc[c] = "barrier" /\ handle[c] = handle[Worker]
    /\ pc[Worker] = "walk" =>
         /\ handle[Worker] = map
         /\ \A c \in Clients : ~Serving(c)
    /\ \A c \in Clients : pc[c] = "draining" =>
         \/ handle[c] = map
         \/ pc[Worker] = "barrier" /\ handle[Worker] = handle[c]
    /\ \A c \in Clients : pc[c] = "barrier" => pc[Worker] # "barrier"

-----------------------------------------------------------------------------
(* The steps, as the proofs split them.                                    *)

\* A step is one action of the worker or of one client.
LEMMA Steps ==
    ASSUME Next
    PROVE  \/ BeginPass \/ MineCheck \/ CloneMiner \/ Recheck \/ WalkEnds
           \/ ResetPause \/ ResetProbe \/ ResetFinish
           \/ Stage \/ StageFails \/ BeginInstall \/ InstallEngine
           \/ ProbeCached \/ ProbeClaim \/ ProbeEnds \/ Install \/ LoadFails
           \/ Unwind \/ EraBegin \/ EraSwap
           \/ \E t \in Threads : RemoveEntry(t) \/ Barrier(t) \/ BarrierTimeout(t)
           \/ \E c \in Clients :
                \/ Claim(c) \/ Refused(c) \/ RaisePause(c) \/ CheckInstalling(c)
                \/ CloneResident(c) \/ Drained(c) \/ DrainTimeout(c)
                \/ ChooseRoute(c) \/ SwapEngine(c) \/ Serve(c) \/ Generated(c)
                \/ StartServer(c) \/ Finish(c)
BY DEF Next, WorkerStep, ClientStep, Uninstall, Threads

\* The threads are finitely many, so the owners of a table and the guards
\* alive can be counted.
LEMMA ThreadCount ==
    /\ IsFiniteSet(Threads)
    /\ \A S \in SUBSET Threads : IsFiniteSet(S) /\ Cardinality(S) \in Nat
<1>1. IsFiniteSet(Threads)
  BY ConstantsAssumption, FS_AddElement DEF Threads
<1> QED BY <1>1, FS_Subset, FS_CardinalityType

\* A thread passes only its own labels.
LEMMA PlacesStep == TypeOK /\ Places /\ [Next]_vars => Places'
<1> SUFFICES ASSUME TypeOK, Places, [Next]_vars PROVE Places'
  OBVIOUS
<1> USE ConstantsAssumption DEF TypeOK, Places, Threads, Goto, WorkerLabels, ClientLabels
<1>1. CASE BeginPass \/ MineCheck \/ CloneMiner \/ Recheck \/ WalkEnds
  BY <1>1 DEF BeginPass, MineCheck, CloneMiner, Recheck, RecheckAs, WalkEnds
<1>2. CASE ResetPause \/ ResetProbe \/ ResetFinish
  BY <1>2 DEF ResetPause, ResetProbe, ResetFinish
<1>3. CASE Stage \/ StageFails \/ BeginInstall \/ InstallEngine
  BY <1>3 DEF Stage, StageFails, BeginInstall, InstallEngine
<1>4. CASE ProbeCached \/ ProbeClaim \/ ProbeEnds \/ Install \/ LoadFails \/ Unwind
  BY <1>4 DEF ProbeCached, ProbeClaim, ProbeEnds, Install, LoadFails, Unwind
<1>5. CASE EraBegin \/ EraSwap
  BY <1>5 DEF EraBegin, EraSwap
<1>6. ASSUME NEW t \in Threads, RemoveEntry(t) \/ Barrier(t) \/ BarrierTimeout(t)
      PROVE  Places'
  BY <1>6 DEF RemoveEntry, Barrier, BarrierTimeout
<1>7. ASSUME NEW c \in Clients,
             \/ Claim(c) \/ Refused(c) \/ RaisePause(c) \/ CheckInstalling(c)
             \/ CloneResident(c) \/ Drained(c) \/ DrainTimeout(c)
      PROVE  Places'
  BY <1>7 DEF Claim, Refused, RaisePause, CheckInstalling, CheckInstallingAs,
              CloneResident, Drained, DrainTimeout
<1>8. ASSUME NEW c \in Clients,
             \/ ChooseRoute(c) \/ SwapEngine(c) \/ Serve(c) \/ Generated(c)
             \/ StartServer(c) \/ Finish(c)
      PROVE  Places'
  BY <1>8 DEF ChooseRoute, SwapEngine, Serve, Generated, StartServer, Finish,
              FinishLowering
<1>9. CASE UNCHANGED vars
  BY <1>9 DEF vars
<1> HIDE DEF Places
<1> QED BY <1>1, <1>2, <1>3, <1>4, <1>5, <1>6, <1>7, <1>8, <1>9, Steps

-----------------------------------------------------------------------------
(* The pause count.                                                        *)

Guards == {t \in Threads : HoldsPause(t)}

\* The count is positive while any guard lives.
LEMMA PauseFacts ==
    ASSUME PauseCountsGuards
    PROVE  /\ pause \in Nat
           /\ pause = 0 => \A t \in Threads : ~HoldsPause(t)
<1>1. IsFiniteSet(Guards) /\ Cardinality(Guards) \in Nat /\ pause = Cardinality(Guards)
  BY ThreadCount DEF Guards, PauseCountsGuards
<1>2. Cardinality(Guards) = 0 => Guards = {}
  BY <1>1, FS_EmptySet
<1> QED BY <1>1, <1>2 DEF Guards

\* The count stays exact when the guards stay, one is made or one is dropped.
LEMMA PauseMoves ==
    ASSUME PauseCountsGuards, NEW t \in Threads,
           \A u \in Threads \ {t} : HoldsPause(u)' <=> HoldsPause(u)
    PROVE  /\ (HoldsPause(t)' <=> HoldsPause(t)) /\ pause' = pause
                => PauseCountsGuards'
           /\ ~HoldsPause(t) /\ HoldsPause(t)' /\ pause' = pause + 1
                => PauseCountsGuards'
           /\ HoldsPause(t) /\ ~HoldsPause(t)' /\ pause' = pause - 1
                => PauseCountsGuards'
<1>1. IsFiniteSet(Guards) /\ Cardinality(Guards) \in Nat /\ pause = Cardinality(Guards)
  BY ThreadCount DEF Guards, PauseCountsGuards
<1>2. (HoldsPause(t)' <=> HoldsPause(t)) => Guards' = Guards
  BY DEF Guards, Threads
<1>3. ~HoldsPause(t) /\ HoldsPause(t)' => Guards' = Guards \cup {t} /\ t \notin Guards
  BY DEF Guards, Threads
<1>4. HoldsPause(t) /\ ~HoldsPause(t)' => Guards' = Guards \ {t} /\ t \in Guards
  BY DEF Guards, Threads
<1>5. Cardinality(Guards \cup {t}) = IF t \in Guards THEN Cardinality(Guards)
                                     ELSE Cardinality(Guards) + 1
  BY <1>1, FS_AddElement, ZenonT(60)
<1>6. Cardinality(Guards \ {t}) = IF t \in Guards THEN Cardinality(Guards) - 1
                                  ELSE Cardinality(Guards)
  BY <1>1, FS_RemoveElement
<1> QED BY <1>1, <1>2, <1>3, <1>4, <1>5, <1>6 DEF Guards, PauseCountsGuards

\* Every operation that raises the pause holds a guard, and every way out of
\* it lowers the pause once.
LEMMA PauseStep ==
    TypeOK /\ Places /\ PauseCountsGuards /\ [Next]_vars => PauseCountsGuards'
<1> SUFFICES ASSUME TypeOK, Places, PauseCountsGuards, [Next]_vars
             PROVE  PauseCountsGuards'
  OBVIOUS
<1> DEFINE Same(u) == HoldsPause(u)' <=> HoldsPause(u)
<1> USE ConstantsAssumption DEF TypeOK, Places, Threads, Goto, HoldsPause, gates
<1>1. CASE BeginPass \/ MineCheck \/ CloneMiner \/ Recheck \/ WalkEnds
  <2>1. pause' = pause /\ \A u \in Threads : Same(u)
    BY <1>1 DEF BeginPass, MineCheck, CloneMiner, Recheck, RecheckAs, WalkEnds
  <2> HIDE DEF HoldsPause
  <2> QED BY <2>1, PauseMoves
<1>2. CASE Stage \/ StageFails \/ BeginInstall \/ InstallEngine \/ ProbeCached
  <2>1. pause' = pause /\ \A u \in Threads : Same(u)
    BY <1>2 DEF Stage, StageFails, BeginInstall, InstallEngine, ProbeCached
  <2> HIDE DEF HoldsPause
  <2> QED BY <2>1, PauseMoves
<1>3. CASE Install \/ LoadFails \/ Unwind \/ EraBegin \/ EraSwap \/ ResetProbe
  <2>1. pause' = pause /\ \A u \in Threads : Same(u)
    BY <1>3 DEF Install, LoadFails, Unwind, EraBegin, EraSwap, ResetProbe
  <2> HIDE DEF HoldsPause
  <2> QED BY <2>1, PauseMoves
<1>4. CASE ResetPause \/ ProbeClaim
  <2>1. /\ \A u \in Threads \ {Worker} : Same(u)
        /\ ~HoldsPause(Worker) /\ HoldsPause(Worker)' /\ pause' = pause + 1
    BY <1>4 DEF ResetPause, ProbeClaim
  <2> HIDE DEF HoldsPause
  <2> QED BY <2>1, PauseMoves
<1>5. CASE ResetFinish \/ ProbeEnds
  <2>1. /\ \A u \in Threads \ {Worker} : Same(u)
        /\ HoldsPause(Worker) /\ ~HoldsPause(Worker)' /\ pause' = pause - 1
    BY <1>5 DEF ResetFinish, ProbeEnds
  <2> HIDE DEF HoldsPause
  <2> QED BY <2>1, PauseMoves
<1>6. ASSUME NEW t \in Threads, RemoveEntry(t) \/ Barrier(t) \/ BarrierTimeout(t)
      PROVE  PauseCountsGuards'
  <2>1. pause' = pause /\ \A u \in Threads : Same(u)
    BY <1>6 DEF RemoveEntry, Barrier, BarrierTimeout
  <2> HIDE DEF HoldsPause
  <2> QED BY <2>1, PauseMoves
<1>7. ASSUME NEW c \in Clients,
             \/ Claim(c) \/ Refused(c) \/ CheckInstalling(c)
             \/ CloneResident(c) \/ Drained(c) \/ DrainTimeout(c)
      PROVE  PauseCountsGuards'
  <2>1. pause' = pause /\ \A u \in Threads : Same(u)
    BY <1>7 DEF Claim, Refused, CheckInstalling, CheckInstallingAs, CloneResident,
                Drained, DrainTimeout
  <2> HIDE DEF HoldsPause
  <2> QED BY <2>1, PauseMoves
<1>8. ASSUME NEW c \in Clients,
             \/ ChooseRoute(c) \/ SwapEngine(c) \/ Serve(c) \/ Generated(c)
             \/ StartServer(c)
      PROVE  PauseCountsGuards'
  <2>1. pause' = pause /\ \A u \in Threads : Same(u)
    BY <1>8 DEF ChooseRoute, SwapEngine, Serve, Generated, StartServer
  <2> HIDE DEF HoldsPause
  <2> QED BY <2>1, PauseMoves
<1>9. ASSUME NEW c \in Clients, RaisePause(c) PROVE PauseCountsGuards'
  <2>1. /\ \A u \in Threads \ {c} : Same(u)
        /\ ~HoldsPause(c) /\ HoldsPause(c)' /\ pause' = pause + 1
    BY <1>9 DEF RaisePause
  <2> HIDE DEF HoldsPause
  <2> QED BY <2>1, PauseMoves
<1>10. ASSUME NEW c \in Clients, Finish(c) PROVE PauseCountsGuards'
  <2>1. /\ \A u \in Threads \ {c} : Same(u)
        /\ HoldsPause(c) /\ ~HoldsPause(c)' /\ pause' = pause - 1
    BY <1>10 DEF Finish, FinishLowering
  <2> HIDE DEF HoldsPause
  <2> QED BY <2>1, PauseMoves
<1>11. CASE UNCHANGED vars
  BY <1>11 DEF vars, PauseCountsGuards
<1> HIDE DEF HoldsPause, TypeOK, Places
<1> QED BY <1>1, <1>2, <1>3, <1>4, <1>5, <1>6, <1>7, <1>8, <1>9, <1>10, <1>11, Steps

-----------------------------------------------------------------------------
(* Types, the lease, the install guard, the map and the handles.            *)

\* Types are preserved.
LEMMA TypeStep == TypeOK /\ pause' \in Nat /\ [Next]_vars => TypeOK'
<1> SUFFICES ASSUME TypeOK, pause' \in Nat, [Next]_vars PROVE TypeOK'
  OBVIOUS
<1> USE ConstantsAssumption DEF TypeOK, Labels, Threads, Goto, Hold, Load, Unload,
         gates, slot, resident
<1>1. CASE BeginPass \/ MineCheck \/ CloneMiner \/ Recheck \/ WalkEnds
  BY <1>1 DEF BeginPass, MineCheck, CloneMiner, Recheck, WalkEnds,
    RecheckAs
<1>2. CASE ResetPause \/ ResetProbe \/ ResetFinish
  <2>1. tableStuck' \in BOOLEAN
    BY <1>2, ZenonT(60) DEF ResetPause, ResetProbe, ResetFinish
  <2> QED BY <1>2, <2>1 DEF ResetPause, ResetProbe, ResetFinish
<1>3. CASE Stage \/ StageFails \/ BeginInstall \/ InstallEngine
  <2>1. tableStuck' \in BOOLEAN
    BY <1>3, ZenonT(60) DEF Stage, StageFails, BeginInstall, InstallEngine
  <2> QED BY <1>3, <2>1 DEF Stage, StageFails, BeginInstall, InstallEngine
<1>4. CASE ProbeCached \/ ProbeClaim \/ ProbeEnds \/ Install \/ LoadFails \/ Unwind
  BY <1>4 DEF ProbeCached, ProbeClaim, ProbeEnds, Install, LoadFails,
    Unwind
<1>5. CASE EraBegin \/ EraSwap
  <2>1. tableStuck' \in BOOLEAN
    BY <1>5, Zenon DEF EraBegin, EraSwap
  <2> QED BY <1>5, <2>1 DEF EraBegin, EraSwap
<1>6. ASSUME NEW t \in Threads, RemoveEntry(t) \/ Barrier(t) \/ BarrierTimeout(t)
      PROVE  TypeOK'
  BY <1>6 DEF RemoveEntry, Barrier, BarrierTimeout
<1>7. ASSUME NEW c \in Clients,
             \/ Claim(c) \/ Refused(c) \/ RaisePause(c)
             \/ CheckInstalling(c) \/ CloneResident(c) \/ Drained(c)
             \/ DrainTimeout(c)
      PROVE  TypeOK'
  BY <1>7 DEF Claim, Refused, RaisePause, CheckInstalling,
    CloneResident, Drained, DrainTimeout, CheckInstallingAs
<1>8. ASSUME NEW c \in Clients,
             \/ ChooseRoute(c) \/ SwapEngine(c) \/ Serve(c) \/ Generated(c)
             \/ StartServer(c) \/ Finish(c)
      PROVE  TypeOK'
  BY <1>8 DEF ChooseRoute, SwapEngine, Serve, Generated, StartServer,
    Finish, FinishLowering
<1>9. CASE UNCHANGED vars
  BY <1>9 DEF vars
<1> HIDE DEF TypeOK
<1> QED BY <1>1, <1>2, <1>3, <1>4, <1>5, <1>6, <1>7, <1>8, <1>9, Steps

\* One thread at a time holds the lease.
LEMMA LeaseStep ==
    TypeOK /\ Places /\ OneLeaseHolder /\ [Next]_vars => OneLeaseHolder'
<1> SUFFICES ASSUME TypeOK, Places, OneLeaseHolder, [Next]_vars PROVE OneLeaseHolder'
  OBVIOUS
<1> USE ConstantsAssumption DEF TypeOK, Places, OneLeaseHolder, Threads, Goto, gates
<1>1. CASE BeginPass \/ MineCheck \/ CloneMiner \/ Recheck \/ WalkEnds
  BY <1>1 DEF BeginPass, MineCheck, CloneMiner, Recheck, WalkEnds, RecheckAs
<1>2. CASE ResetPause \/ ResetProbe \/ ResetFinish
  BY <1>2 DEF ResetPause, ResetProbe, ResetFinish
<1>3. CASE Stage \/ StageFails \/ BeginInstall \/ InstallEngine
  BY <1>3 DEF Stage, StageFails, BeginInstall, InstallEngine
<1>4. CASE ProbeCached \/ ProbeClaim \/ ProbeEnds \/ Install \/ LoadFails \/ Unwind
  BY <1>4 DEF ProbeCached, ProbeClaim, ProbeEnds, Install, LoadFails, Unwind
<1>5. CASE EraBegin \/ EraSwap
  BY <1>5 DEF EraBegin, EraSwap
<1>6. ASSUME NEW t \in Threads, RemoveEntry(t) \/ Barrier(t) \/ BarrierTimeout(t)
      PROVE  OneLeaseHolder'
  BY <1>6 DEF RemoveEntry, Barrier, BarrierTimeout
<1>7. ASSUME NEW c \in Clients,
             \/ Claim(c) \/ Refused(c) \/ RaisePause(c)
             \/ CheckInstalling(c) \/ CloneResident(c) \/ Drained(c)
             \/ DrainTimeout(c)
      PROVE  OneLeaseHolder'
  BY <1>7 DEF Claim, Refused, RaisePause, CheckInstalling, CloneResident,
    Drained, DrainTimeout, CheckInstallingAs
<1>8. ASSUME NEW c \in Clients,
             \/ ChooseRoute(c) \/ SwapEngine(c) \/ Serve(c) \/ Generated(c)
             \/ StartServer(c) \/ Finish(c)
      PROVE  OneLeaseHolder'
  BY <1>8 DEF ChooseRoute, SwapEngine, Serve, Generated, StartServer,
    Finish, FinishLowering
<1>9. CASE UNCHANGED vars
  BY <1>9 DEF vars
<1> HIDE DEF OneLeaseHolder, TypeOK, Places
<1> QED BY <1>1, <1>2, <1>3, <1>4, <1>5, <1>6, <1>7, <1>8, <1>9, Steps

\* A request and an install transaction never pass each other.
LEMMA GuardStep ==
    TypeOK /\ Places /\ PauseCountsGuards /\ GuardInv /\ [Next]_vars => GuardInv'
<1> SUFFICES ASSUME TypeOK, Places, PauseCountsGuards, GuardInv, [Next]_vars PROVE GuardInv'
  OBVIOUS
<1>0. pause = 0 => \A t \in Threads : ~HoldsPause(t)
  BY PauseFacts
<1> USE ConstantsAssumption DEF TypeOK, Places, GuardInv, Installs, Threads, Goto, gates,
         HoldsPause, Paused
<1>1. CASE BeginPass \/ MineCheck \/ CloneMiner \/ Recheck \/ WalkEnds
  BY <1>1 DEF BeginPass, MineCheck, CloneMiner, Recheck, WalkEnds, RecheckAs
<1>2. CASE ResetPause \/ ResetProbe \/ ResetFinish
  BY <1>2 DEF ResetPause, ResetProbe, ResetFinish
<1>3. CASE Stage \/ StageFails \/ BeginInstall \/ InstallEngine
  BY <1>0, <1>3 DEF Stage, StageFails, BeginInstall, InstallEngine
<1>4. CASE ProbeCached \/ ProbeClaim \/ ProbeEnds \/ Install \/ LoadFails \/ Unwind
  BY <1>4 DEF ProbeCached, ProbeClaim, ProbeEnds, Install, LoadFails, Unwind
<1>5. CASE EraBegin \/ EraSwap
  BY <1>0, <1>5 DEF EraBegin, EraSwap
<1>6. ASSUME NEW t \in Threads, RemoveEntry(t) \/ Barrier(t) \/ BarrierTimeout(t)
      PROVE  GuardInv'
  BY <1>6 DEF RemoveEntry, Barrier, BarrierTimeout
<1>7. ASSUME NEW c \in Clients,
             \/ Claim(c) \/ Refused(c) \/ RaisePause(c)
             \/ CheckInstalling(c) \/ CloneResident(c) \/ Drained(c)
             \/ DrainTimeout(c)
      PROVE  GuardInv'
  BY <1>7 DEF Claim, Refused, RaisePause, CheckInstalling, CloneResident,
    Drained, DrainTimeout, CheckInstallingAs
<1>8. ASSUME NEW c \in Clients,
             \/ ChooseRoute(c) \/ SwapEngine(c) \/ Serve(c) \/ Generated(c)
             \/ StartServer(c) \/ Finish(c)
      PROVE  GuardInv'
  BY <1>8 DEF ChooseRoute, SwapEngine, Serve, Generated, StartServer,
    Finish, FinishLowering
<1>9. CASE UNCHANGED vars
  BY <1>9 DEF vars
<1> HIDE DEF GuardInv, TypeOK, Places
<1> QED BY <1>1, <1>2, <1>3, <1>4, <1>5, <1>6, <1>7, <1>8, <1>9, Steps

\* The table is out of the map from its removal on.
LEMMA MapStep ==
    TypeOK /\ Places /\ GuardInv /\ MapInv /\ [Next]_vars => MapInv'
<1> SUFFICES ASSUME TypeOK, Places, GuardInv, MapInv, [Next]_vars PROVE MapInv'
  OBVIOUS
<1> USE ConstantsAssumption DEF TypeOK, Places, GuardInv, Installs, MapInv, Threads, Goto,
         resident
<1>1. CASE BeginPass \/ MineCheck \/ CloneMiner \/ Recheck \/ WalkEnds
  BY <1>1 DEF BeginPass, MineCheck, CloneMiner, Recheck, WalkEnds, RecheckAs
<1>2. CASE ResetPause \/ ResetProbe \/ ResetFinish
  BY <1>2 DEF ResetPause, ResetProbe, ResetFinish
<1>3. CASE Stage \/ StageFails \/ BeginInstall \/ InstallEngine
  BY <1>3, ZenonT(60) DEF Stage, StageFails, BeginInstall, InstallEngine
<1>4. CASE ProbeCached \/ ProbeClaim \/ ProbeEnds \/ Install \/ LoadFails \/ Unwind
  BY <1>4, ZenonT(60) DEF ProbeCached, ProbeClaim, ProbeEnds, Install, LoadFails, Unwind
<1>5. CASE EraBegin \/ EraSwap
  BY <1>5 DEF EraBegin, EraSwap
<1>6. ASSUME NEW t \in Threads, RemoveEntry(t) \/ Barrier(t) \/ BarrierTimeout(t)
      PROVE  MapInv'
  BY <1>6 DEF RemoveEntry, Barrier, BarrierTimeout
<1>7. ASSUME NEW c \in Clients,
             \/ Claim(c) \/ Refused(c) \/ RaisePause(c)
             \/ CheckInstalling(c) \/ CloneResident(c) \/ Drained(c)
             \/ DrainTimeout(c)
      PROVE  MapInv'
  BY <1>7 DEF Claim, Refused, RaisePause, CheckInstalling, CloneResident,
    Drained, DrainTimeout, CheckInstallingAs
<1>8. ASSUME NEW c \in Clients,
             \/ ChooseRoute(c) \/ SwapEngine(c) \/ Serve(c) \/ Generated(c)
             \/ StartServer(c) \/ Finish(c)
      PROVE  MapInv'
  BY <1>8, ZenonT(60) DEF ChooseRoute, SwapEngine, Serve, Generated, StartServer,
    Finish, FinishLowering
<1>9. CASE UNCHANGED vars
  BY <1>9 DEF vars
<1> HIDE DEF MapInv, TypeOK, Places, GuardInv
<1> QED BY <1>1, <1>2, <1>3, <1>4, <1>5, <1>6, <1>7, <1>8, <1>9, Steps

\* No step changes the engine under an installed table.
LEMMA SourceStep ==
    TypeOK /\ Places /\ MapInv /\ SourceInv /\ [Next]_vars => SourceInv'
<1> SUFFICES ASSUME TypeOK, Places, MapInv, SourceInv, [Next]_vars PROVE SourceInv'
  OBVIOUS
<1> USE ConstantsAssumption DEF TypeOK, Places, MapInv, SourceInv, Threads, resident, slot
<1>1. CASE BeginPass \/ MineCheck \/ CloneMiner \/ Recheck \/ WalkEnds
  BY <1>1 DEF BeginPass, MineCheck, CloneMiner, Recheck, WalkEnds, RecheckAs
<1>2. CASE ResetPause \/ ResetProbe \/ ResetFinish
  BY <1>2 DEF ResetPause, ResetProbe, ResetFinish
<1>3. CASE Stage \/ StageFails \/ BeginInstall \/ InstallEngine
  BY <1>3 DEF Stage, StageFails, BeginInstall, InstallEngine
<1>4. CASE ProbeCached \/ ProbeClaim \/ ProbeEnds \/ Install \/ LoadFails \/ Unwind
  BY <1>4 DEF ProbeCached, ProbeClaim, ProbeEnds, Install, LoadFails, Unwind
<1>5. CASE EraBegin \/ EraSwap
  BY <1>5 DEF EraBegin, EraSwap
<1>6. ASSUME NEW t \in Threads, RemoveEntry(t) \/ Barrier(t) \/ BarrierTimeout(t)
      PROVE  SourceInv'
  BY <1>6 DEF RemoveEntry, Barrier, BarrierTimeout
<1>7. ASSUME NEW c \in Clients,
             \/ Claim(c) \/ Refused(c) \/ RaisePause(c)
             \/ CheckInstalling(c) \/ CloneResident(c) \/ Drained(c)
             \/ DrainTimeout(c)
      PROVE  SourceInv'
  BY <1>7, ZenonT(60) DEF Claim, Refused, RaisePause, CheckInstalling, CloneResident,
    Drained, DrainTimeout, CheckInstallingAs
<1>8. ASSUME NEW c \in Clients,
             \/ ChooseRoute(c) \/ SwapEngine(c) \/ Serve(c) \/ Generated(c)
             \/ StartServer(c) \/ Finish(c)
      PROVE  SourceInv'
  BY <1>8, ZenonT(60) DEF ChooseRoute, SwapEngine, Serve, Generated, StartServer,
    Finish, FinishLowering
<1>9. CASE UNCHANGED vars
  BY <1>9 DEF vars
<1> HIDE DEF SourceInv, TypeOK, Places, MapInv
<1> QED BY <1>1, <1>2, <1>3, <1>4, <1>5, <1>6, <1>7, <1>8, <1>9, Steps

\* A thread holds a table only where it cloned or removed one.
LEMMA HandleStep ==
    TypeOK /\ Places /\ HandleInv /\ [Next]_vars => HandleInv'
<1> SUFFICES ASSUME TypeOK, Places, HandleInv, [Next]_vars PROVE HandleInv'
  OBVIOUS
<1> USE ConstantsAssumption DEF TypeOK, Places, HandleInv, Threads, Goto, Hold, resident
<1>1. CASE BeginPass \/ MineCheck \/ CloneMiner \/ Recheck \/ WalkEnds
  BY <1>1 DEF BeginPass, MineCheck, CloneMiner, Recheck, WalkEnds, RecheckAs
<1>2. CASE ResetPause \/ ResetProbe \/ ResetFinish
  BY <1>2 DEF ResetPause, ResetProbe, ResetFinish
<1>3. CASE Stage \/ StageFails \/ BeginInstall \/ InstallEngine
  BY <1>3 DEF Stage, StageFails, BeginInstall, InstallEngine
<1>4. CASE ProbeCached \/ ProbeClaim \/ ProbeEnds \/ Install \/ LoadFails \/ Unwind
  BY <1>4 DEF ProbeCached, ProbeClaim, ProbeEnds, Install, LoadFails, Unwind
<1>5. CASE EraBegin \/ EraSwap
  BY <1>5 DEF EraBegin, EraSwap
<1>6. ASSUME NEW t \in Threads, RemoveEntry(t) \/ Barrier(t) \/ BarrierTimeout(t)
      PROVE  HandleInv'
  BY <1>6 DEF RemoveEntry, Barrier, BarrierTimeout
<1>7. ASSUME NEW c \in Clients,
             \/ Claim(c) \/ Refused(c) \/ RaisePause(c)
             \/ CheckInstalling(c) \/ CloneResident(c) \/ Drained(c)
             \/ DrainTimeout(c)
      PROVE  HandleInv'
  BY <1>7, ZenonT(60) DEF Claim, Refused, RaisePause, CheckInstalling, CloneResident,
    Drained, DrainTimeout, CheckInstallingAs
<1>8. ASSUME NEW c \in Clients,
             \/ ChooseRoute(c) \/ SwapEngine(c) \/ Serve(c) \/ Generated(c)
             \/ StartServer(c) \/ Finish(c)
      PROVE  HandleInv'
  BY <1>8 DEF ChooseRoute, SwapEngine, Serve, Generated, StartServer,
    Finish, FinishLowering
<1>9. CASE UNCHANGED vars
  BY <1>9 DEF vars
<1> HIDE DEF HandleInv, TypeOK, Places
<1> QED BY <1>1, <1>2, <1>3, <1>4, <1>5, <1>6, <1>7, <1>8, <1>9, Steps

-----------------------------------------------------------------------------
(* The owners of a table, when no thread stalls.                           *)

\* Two handles on a table are two of its owners, and the map is a third.
LEMMA OwnersCounted ==
    ASSUME NEW t \in Threads, NEW u \in Threads, t # u, handle[t] = handle[u]
    PROVE  LET n == StrongCount(handle[t]) IN n \in Nat /\ n >= 2 /\ (handle[t] = map => n >= 3)
<1> DEFINE H == Holders(handle[t])
<1>1. IsFiniteSet(H) /\ Cardinality(H) \in Nat
  BY ThreadCount DEF Holders
<1>2. IsFiniteSet({t}) /\ Cardinality({t}) = 1
  BY FS_Singleton
<1>3. IsFiniteSet({t} \cup {u}) /\ Cardinality({t} \cup {u}) = 2
  BY <1>2, FS_AddElement
<1>4. {t} \cup {u} \in SUBSET H
  BY DEF Holders
<1>5. Cardinality({t} \cup {u}) <= Cardinality(H)
  BY <1>1, <1>4, FS_Subset
<1> HIDE DEF H
<1>6. Cardinality(H) >= 2
  BY <1>1, <1>3, <1>5
<1> QED BY <1>1, <1>6 DEF H, StrongCount

\* So a count the barrier or the drain accepts leaves no room for two handles.
LEMMA NoRoomForTwo ==
    ASSUME NEW t \in Threads, NEW u \in Threads, t # u, handle[t] = handle[u]
    PROVE  /\ StrongCount(handle[t]) # 1
           /\ handle[t] = map => ~(StrongCount(handle[t]) <= 2)
<1> DEFINE n == StrongCount(handle[t])
<1>1. n \in Nat /\ n >= 2 /\ (handle[t] = map => n >= 3)
  BY OwnersCounted, Zenon
<1> HIDE DEF n
<1>2. n # 1 /\ (handle[t] = map => ~(n <= 2))
  BY <1>1
<1> QED BY <1>2, Zenon DEF n

\* The barrier never times out: the worker it would wait for is not walking.
LEMMA NoTimeout ==
    ASSUME ~Stalls, Safe, OwnerInv, NEW t \in Threads
    PROVE  ~BarrierTimeout(t)
BY DEF BarrierTimeout, OwnerInv, Serving, Threads

\* Every step keeps track of the owners.
LEMMA OwnerStep ==
    ~Stalls /\ Safe /\ OwnerInv /\ [Next]_vars => OwnerInv'
<1> SUFFICES ASSUME ~Stalls, Safe, OwnerInv, [Next]_vars PROVE OwnerInv'
  OBVIOUS
<1>0. pause = 0 => \A t \in Threads : ~HoldsPause(t)
  BY PauseFacts DEF Safe
<1> USE ConstantsAssumption DEF Safe, TypeOK, Places, OwnerInv, Threads, Goto, Hold,
        Serving, resident
<1>1. CASE BeginPass \/ MineCheck \/ CloneMiner \/ WalkEnds
  <2>1. CASE BeginPass
    BY <2>1, ZenonT(60) DEF BeginPass
  <2>2. CASE MineCheck
    BY <2>2, ZenonT(60) DEF MineCheck
  <2>3. CASE CloneMiner
    BY <2>3, ZenonT(60) DEF CloneMiner
  <2>4. CASE WalkEnds
    BY <2>4, ZenonT(60) DEF WalkEnds
  <2> QED BY <1>1, <2>1, <2>2, <2>3, <2>4, Zenon
<1>2. CASE Recheck
  <2>1. CASE Paused
    BY <1>2, <2>1 DEF Recheck, RecheckAs
  <2>2. CASE ~Paused
    <3>1. \A c \in Clients : pc[c] \in {"idle", "leased"}
      BY <1>0, <2>2 DEF Paused, HoldsPause
    <3> QED BY <1>2, <2>2, <3>1, ZenonT(60) DEF Recheck, RecheckAs, HandleInv
  <2> QED BY <2>1, <2>2, ZenonT(60)
<1>3. CASE ResetPause \/ ResetProbe \/ ResetFinish
  <2>1. CASE ResetPause
    BY <2>1, ZenonT(60) DEF ResetPause
  <2>2. CASE ResetProbe
    BY <2>2, ZenonT(60) DEF ResetProbe
  <2>3. CASE ResetFinish
    BY <2>3, ZenonT(60) DEF ResetFinish
  <2> QED BY <1>3, <2>1, <2>2, <2>3, Zenon
<1>4. CASE Stage \/ StageFails \/ BeginInstall \/ InstallEngine
  <2>1. CASE Stage
    BY <2>1, ZenonT(60) DEF Stage
  <2>2. CASE StageFails
    BY <2>2, ZenonT(60) DEF StageFails
  <2>3. CASE BeginInstall
    BY <2>3, ZenonT(60) DEF BeginInstall
  <2>4. CASE InstallEngine
    BY <2>4, ZenonT(60) DEF InstallEngine
  <2> QED BY <1>4, <2>1, <2>2, <2>3, <2>4, Zenon
<1>5. CASE ProbeCached \/ ProbeClaim \/ ProbeEnds \/ LoadFails \/ Unwind
  <2>1. CASE ProbeCached
    BY <2>1, ZenonT(60) DEF ProbeCached
  <2>2. CASE ProbeClaim
    BY <2>2, ZenonT(60) DEF ProbeClaim
  <2>3. CASE ProbeEnds
    BY <2>3, ZenonT(60) DEF ProbeEnds
  <2>4. CASE LoadFails
    BY <2>4, ZenonT(60) DEF LoadFails
  <2>5. CASE Unwind
    BY <2>5, ZenonT(60) DEF Unwind
  <2> QED BY <1>5, <2>1, <2>2, <2>3, <2>4, <2>5, Zenon
<1>6. CASE Install
  <2>1. \A c \in Clients : pc[c] # "draining"
    BY <1>6 DEF Install, GuardInv, Installs
  <2> QED BY <1>6, <2>1, ZenonT(60) DEF Install
<1>7. CASE EraBegin \/ EraSwap
  <2>1. CASE EraBegin
    BY <2>1, ZenonT(60) DEF EraBegin
  <2>2. CASE EraSwap
    BY <2>2, ZenonT(60) DEF EraSwap
  <2> QED BY <1>7, <2>1, <2>2, Zenon
<1>8. ASSUME NEW t \in Threads, RemoveEntry(t) PROVE OwnerInv'
  <2>1. CASE map = None
    BY <1>8, <2>1, ZenonT(60) DEF RemoveEntry, HandleInv
  <2>2. CASE map # None /\ t = Worker
    BY <1>8, <2>2 DEF RemoveEntry, MapInv
  <2>3. CASE map # None /\ t \in Clients
    <3>1. \A c \in Clients : pc[c] = "draining" => FALSE
      BY <1>8, <2>3, ZenonT(60) DEF RemoveEntry, OneLeaseHolder
    <3> QED BY <1>8, <2>3, <3>1, ZenonT(60) DEF RemoveEntry, MapInv
  <2> QED BY <2>1, <2>2, <2>3, ZenonT(60)
<1>9. ASSUME NEW t \in Threads, Barrier(t) PROVE OwnerInv'
  <2>1. \A u \in Threads \ {t} : handle[u] # handle[t]
    <3> HIDE DEF Safe, TypeOK, Places, OwnerInv, Goto, Hold
    <3>1. ASSUME NEW u \in Threads, u # t, handle[u] = handle[t] PROVE FALSE
      <4>1. StrongCount(handle[t]) = 1
        BY <1>9, Zenon DEF Barrier
      <4> QED BY <3>1, <4>1, NoRoomForTwo, Zenon
    <3> QED BY <3>1, Zenon
  <2>2. CASE t = Worker
    BY <1>9, <2>1, <2>2, ZenonT(60) DEF Barrier
  <2>3. CASE t \in Clients
    BY <1>9, <2>1, <2>3, ZenonT(60) DEF Barrier
  <2> QED BY <2>2, <2>3, Zenon
<1>10. ASSUME NEW t \in Threads, BarrierTimeout(t) PROVE OwnerInv'
  BY <1>10, NoTimeout, ZenonT(60)
<1>11. ASSUME NEW c \in Clients,
              Claim(c) \/ Refused(c) \/ RaisePause(c) \/ CheckInstalling(c)
       PROVE  OwnerInv'
  <2>1. /\ pc[c] \in {"idle", "leased", "raised"} /\ UNCHANGED resident
        /\ \E label \in {"idle", "leased", "raised", "finish", "unstaged"} : Goto(c, label)
    <3> HIDE DEF Safe, TypeOK, Places, OwnerInv, Goto, resident
    <3> QED BY <1>11, ZenonT(60) DEF Claim, Refused, RaisePause, CheckInstalling, CheckInstallingAs
  <2> QED BY <2>1, ZenonT(60)
<1>12. ASSUME NEW c \in Clients, CloneResident(c) PROVE OwnerInv'
  BY <1>12, ZenonT(60) DEF CloneResident, HandleInv
<1>13. ASSUME NEW c \in Clients, Drained(c) PROVE OwnerInv'
  <2>1. pc[Worker] # "walk"
    <3>1. pc[c] = "draining" /\ StrongCount(handle[c]) <= 2
      BY <1>13, Zenon DEF Drained
    <3>2. ASSUME pc[Worker] = "walk" PROVE Worker # c /\ handle[Worker] = map /\ handle[c] = map
      BY <3>1, <3>2, ZenonT(60)
    <3> QED BY <3>1, <3>2, NoRoomForTwo, ZenonT(60)
  <2> QED BY <1>13, <2>1, ZenonT(60) DEF Drained
<1>14. ASSUME NEW c \in Clients, DrainTimeout(c) PROVE OwnerInv'
  BY <1>14, ZenonT(60) DEF DrainTimeout
<1>15. ASSUME NEW c \in Clients,
              \/ ChooseRoute(c) \/ SwapEngine(c) \/ Serve(c) \/ Generated(c)
              \/ StartServer(c) \/ Finish(c)
       PROVE  OwnerInv'
  <2>1. /\ UNCHANGED resident
        /\ \/ /\ pc[c] \in {"drained", "swap", "serve", "generating", "server"}
              /\ \E label \in {"serve", "remove", "generating", "finish"} : Goto(c, label)
           \/ pc[c] = "finish" /\ Goto(c, "idle")
    <3> HIDE DEF Safe, TypeOK, Places, OwnerInv, Goto, resident
    <3> QED BY <1>15, ZenonT(60) DEF ChooseRoute, SwapEngine, Serve, Generated, StartServer,
                                     Finish, FinishLowering
  <2>2. CASE pc[c] = "finish" /\ Goto(c, "idle")
    BY <2>1, <2>2, ZenonT(60)
  <2>3. ASSUME pc[c] \in {"drained", "swap", "serve", "generating", "server"},
               NEW label \in {"serve", "remove", "generating", "finish"}, Goto(c, label)
        PROVE  OwnerInv'
    BY <2>1, <2>3, ZenonT(60)
  <2> QED BY <2>1, <2>2, <2>3, Zenon
<1>16. CASE UNCHANGED vars
  BY <1>16, ZenonT(60) DEF vars
<1> HIDE DEF OwnerInv, Safe, TypeOK, Places
<1> QED BY <1>1, <1>2, <1>3, <1>4, <1>5, <1>6, <1>7, <1>8, <1>9, <1>10, <1>11,
           <1>12, <1>13, <1>14, <1>15, <1>16, Steps

-----------------------------------------------------------------------------
(* The theorems.                                                           *)

\* The process starts with nothing installed, paused, leased or loaded.
LEMMA SafeInit == Init => Safe /\ OwnerInv
<1> SUFFICES ASSUME Init PROVE Safe /\ OwnerInv
  OBVIOUS
<1>1. {t \in Threads : HoldsPause(t)} = {}
  BY DEF Init, HoldsPause, Threads
<1>2. PauseCountsGuards
  BY <1>1, FS_EmptySet DEF Init, PauseCountsGuards
<1>3. TypeOK
  BY ZenonT(60) DEF Init, TypeOK, Labels
<1> QED BY <1>2, <1>3, ConstantsAssumption
        DEF Init, Safe, Places, OneLeaseHolder, GuardInv, Installs, MapInv, SourceInv,
            HandleInv, OwnerInv, Threads, WorkerLabels, ClientLabels, Serving

\* The invariant is inductive, however long a thread stalls.
LEMMA SafeStep == Safe /\ [Next]_vars => Safe'
<1>1. PauseCountsGuards' => pause' \in Nat
  BY ThreadCount DEF PauseCountsGuards
<1> QED
BY <1>1, PlacesStep, PauseStep, TypeStep, LeaseStep, GuardStep, MapStep, SourceStep, HandleStep
   DEF Safe

\* Spec keeps the invariant.
LEMMA SafeAlways == Spec => []Safe
BY SafeInit, SafeStep, PTL DEF Spec

\* Every variable keeps its type.
THEOREM TypeCorrect == Spec => []TypeOK
<1>1. Safe => TypeOK
  BY DEF Safe
<1> QED BY <1>1, SafeAlways, PTL

\* The nested pause count is the number of guards alive, whatever the order
\* in which the worker's reset, its self-test and any number of requests
\* raise and lower it.
THEOREM PauseIsExact == Spec => []PauseCountsGuards
<1>1. Safe => PauseCountsGuards
  BY DEF Safe
<1> QED BY <1>1, SafeAlways, PTL

\* The card's lease has one holder: a request or the install-time probe.
THEOREM LeaseIsExclusive == Spec => []OneLeaseHolder
<1>1. Safe => OneLeaseHolder
  BY DEF Safe
<1> QED BY <1>1, SafeAlways, PTL

\* No request that passed the drain overlaps an install transaction or an
\* era swap of its card.
THEOREM InstallsAreAlone == Spec => []InstallExcludesInference
<1>1. Safe => InstallExcludesInference
  BY DEF Safe, GuardInv, InstallExcludesInference, Serving
<1> QED BY <1>1, SafeAlways, PTL

\* No step of any thread replaces or frees the engine's weights while a table
\* is installed, so an installed zero-dup table never dangles: the worker's
\* install and reset, the era swap, a request's model swap and the fallback
\* to llama-server all take the table out first.
WeightsOutliveTable == [][engine' # engine => map = None]_vars
THEOREM WeightsStay == Spec => WeightsOutliveTable
<1>1. Safe /\ [Next]_vars => [engine' # engine => map = None]_vars
  <2> SUFFICES ASSUME Safe, Next, engine' # engine PROVE map = None
    BY DEF vars, slot
  <2> USE DEF Safe, Places, MapInv, slot
  <2>1. CASE BeginPass \/ MineCheck \/ CloneMiner \/ Recheck \/ WalkEnds
    BY <2>1, ZenonT(60) DEF BeginPass, MineCheck, CloneMiner, Recheck, RecheckAs, WalkEnds
  <2>2. CASE ResetPause \/ ResetProbe \/ ResetFinish
    BY <2>2 DEF ResetPause, ResetProbe, ResetFinish
  <2>3. CASE Stage \/ StageFails \/ BeginInstall \/ InstallEngine
    BY <2>3 DEF Stage, StageFails, BeginInstall, InstallEngine
  <2>4. CASE ProbeCached \/ ProbeClaim \/ ProbeEnds \/ Install \/ LoadFails \/ Unwind
    BY <2>4, ZenonT(60) DEF ProbeCached, ProbeClaim, ProbeEnds, Install, LoadFails, Unwind
  <2>5. CASE EraBegin \/ EraSwap
    <3> HIDE DEF Safe, Places, MapInv
    <3>1. ~EraBegin
      BY Zenon DEF EraBegin
    <3>2. pc[Worker] = "era"
      BY <2>5, <3>1, Zenon DEF EraSwap
    <3>3. MapInv
      BY Zenon DEF Safe
    <3> QED BY <3>2, <3>3 DEF MapInv
  <2>6. ASSUME NEW t \in Threads, RemoveEntry(t) \/ Barrier(t) \/ BarrierTimeout(t)
        PROVE  map = None
    BY <2>6 DEF RemoveEntry, Barrier, BarrierTimeout
  <2>7. ASSUME NEW c \in Clients,
               \/ Claim(c) \/ Refused(c) \/ RaisePause(c) \/ CheckInstalling(c)
               \/ CloneResident(c) \/ Drained(c) \/ DrainTimeout(c)
        PROVE  map = None
    BY <2>7, ZenonT(60) DEF Claim, Refused, RaisePause, CheckInstalling, CheckInstallingAs,
                CloneResident, Drained, DrainTimeout
  <2>8. ASSUME NEW c \in Clients,
               \/ ChooseRoute(c) \/ SwapEngine(c) \/ Serve(c) \/ Generated(c)
               \/ StartServer(c) \/ Finish(c)
        PROVE  map = None
    BY <2>8, ZenonT(60) DEF ChooseRoute, SwapEngine, Serve, Generated, StartServer, Finish,
                FinishLowering
  <2> HIDE DEF Safe, Places
  <2> QED BY <2>1, <2>2, <2>3, <2>4, <2>5, <2>6, <2>7, <2>8, Steps
<1> QED BY <1>1, SafeAlways, PTL DEF Spec, WeightsOutliveTable

\* With the owners tracked, Spec keeps both invariants.
LEMMA OwnersAlways == ASSUME ~Stalls PROVE Spec => [](Safe /\ OwnerInv)
<1>1. Safe /\ OwnerInv /\ [Next]_vars => (Safe /\ OwnerInv)'
  BY SafeStep, OwnerStep
<1> QED BY <1>1, SafeInit, PTL DEF Spec

\* As long as no thread stalls past the barrier, the worker is not inside a
\* launch while a drained request owns the card.
THEOREM WalkIsAlone == ASSUME ~Stalls PROVE Spec => []WalkAndInferenceExclude
<1>1. Safe /\ OwnerInv => WalkAndInferenceExclude
  BY DEF OwnerInv, WalkAndInferenceExclude
<1> QED BY <1>1, OwnersAlways, PTL

\* Nor does a launched walk read weights that were freed or replaced.
THEOREM WalkIsLive == ASSUME ~Stalls PROVE Spec => []WalkReadsLiveWeights
<1>1. Safe /\ OwnerInv => WalkReadsLiveWeights
  BY ConstantsAssumption
     DEF Safe, SourceInv, HandleInv, OwnerInv, WalkReadsLiveWeights
<1> QED BY <1>1, OwnersAlways, PTL

\* Nor is a table built beside an older one: what the miners() map and the
\* handles of the threads name is one table.
THEOREM TableIsAlone == ASSUME ~Stalls PROVE Spec => []OneTableResident
<1>1. Safe /\ OwnerInv => OneTableResident
  <2> SUFFICES ASSUME Safe, OwnerInv PROVE OneTableResident
    OBVIOUS
  <2>1. ASSUME NEW t \in Threads, handle[t] # None, map # None
        PROVE  handle[t] = map
    BY <2>1 DEF Safe, Places, WorkerLabels, HandleInv, MapInv, OwnerInv, Threads
  <2>2. ASSUME NEW t \in Threads, NEW u \in Threads, handle[t] # None, handle[u] # None
        PROVE  handle[t] = handle[u]
    <3>1. CASE map # None
      BY <2>1, <2>2, <3>1
    <3>2. CASE map = None /\ t = u
      BY <3>2
    <3>3. CASE map = None /\ t \in Clients /\ u \in Clients /\ t # u
      BY <2>2, <3>3, ConstantsAssumption, ZenonT(60) DEF Safe, HandleInv, OneLeaseHolder, Threads
    <3>4. ASSUME NEW c \in Clients, handle[c] # None, handle[Worker] # None, map = None
          PROVE  handle[c] = handle[Worker]
      <4>1. \A d \in Clients : pc[d] = "barrier" => d = c
        BY <3>4, ConstantsAssumption, ZenonT(60) DEF Safe, HandleInv, OneLeaseHolder, Threads
      <4> QED BY <3>4, <4>1, ZenonT(60) DEF Safe, HandleInv, OwnerInv
    <3> QED BY <2>2, <3>1, <3>2, <3>3, <3>4 DEF Threads
  <2>3. \A x \in Resident, y \in Resident : x = y
    BY <2>1, <2>2 DEF Resident, OwnerInv
  <2>4. CASE Resident = {}
    BY <2>4, FS_EmptySet DEF OneTableResident
  <2>5. CASE Resident # {}
    <3>1. PICK x \in Resident : TRUE
      BY <2>5
    <3>2. Resident = {x}
      BY <2>3, <3>1
    <3> QED BY <3>2, FS_Singleton DEF OneTableResident
  <2> QED BY <2>4, <2>5
<1> QED BY <1>1, OwnersAlways, PTL

=============================================================================
