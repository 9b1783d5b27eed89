------------------------- MODULE WatchChannelProofs -------------------------
(***************************************************************************)
(* Proofs about the two pieces of state every thread of the miner shares,  *)
(* the watch channel and the statistics hub, for any number of threads,    *)
(* requests, cards, claims, connections and ticks.                         *)
(*                                                                         *)
(* WatchChannel: its typing, that no receiver sleeps through a change,     *)
(* that no value is marked observed before it is handed over, and that the *)
(* channel implements the register of WatchRegister.                       *)
(*                                                                         *)
(* RuntimeStats: four groups of gauges, of which a step moves one, or the  *)
(* clock.  The invariant AddsUp has a conjunct per group.  Two of them are *)
(* stronger than what is proved: the pause clock runs exactly while a      *)
(* guard is held and was not started in the future, and the set of claims  *)
(* is finite.                                                              *)
(***************************************************************************)
EXTENDS MCWatchChannel, FiniteSetTheorems, TLAPS

\* The backends that try a leaf, in turn, unless it names its own.
USE SMTT(30), ZenonT(30), Z3T(30)

-----------------------------------------------------------------------------
(* The statistics hub. *)

Gauges == [depth : Nat, by : Nat]

Connections ==
    /\ generation \in Nat /\ queue \in Gauges
    /\ queue.depth > 0 => queue.by = generation
    /\ difficulty \in {0, generation} /\ network \in {0, generation}

Phases == {"none", "active", "counted", "finished", "dropped"}

Attempts ==
    /\ attempt \in [Requests -> Phases]
    /\ requested \in Nat /\ served \in Nat /\ failed \in Nat /\ busy \in Nat /\ active \in Nat
    /\ requested = served + failed + busy + Hub!At({"active"})
    /\ active = Hub!At({"active", "counted"})

Paused == \E k \in Keys : pauses[k] > 0

Pauses ==
    /\ pauses \in [Keys -> Nat]
    /\ now \in Nat /\ now <= MaxTime /\ pause_started \in Nat /\ pause_total \in Nat /\ spent \in Nat
    /\ pause_started = Hub!UNSET <=> ~Paused
    /\ Paused => pause_started <= now
    /\ spent = pause_total + (IF pause_started = Hub!UNSET THEN 0 ELSE now - pause_started)

Statuses == {"disabled", "degraded", "held", "validating", "claiming", "ready"}
Escrows == [enabled : BOOLEAN, held : BOOLEAN, validating : BOOLEAN, degraded : BOOLEAN,
            in_flight : Nat, status : Statuses]

Escrow ==
    /\ escrow \in Escrows /\ IsFiniteSet(claims)
    /\ escrow.in_flight = Cardinality(claims)
    /\ escrow = Hub!refresh_escrow_status(escrow)

AddsUp == Connections /\ Attempts /\ Pauses /\ Escrow

\* The instance's cardinality is the one the library's theorems are about.
LEMMA SameCardinality == ASSUME NEW S PROVE Hub!Cardinality(S) = Cardinality(S)
  BY Zenon DEF Hub!Cardinality, Cardinality

-----------------------------------------------------------------------------
(* A step of one group leaves the others alone. *)

LEMMA ConnectionsKept == ASSUME Connections, UNCHANGED Hub!connection_vars PROVE Connections'
  BY DEF Connections, Hub!connection_vars

LEMMA AttemptsKept == ASSUME Attempts, UNCHANGED Hub!inference_vars PROVE Attempts'
  BY DEF Attempts, Hub!At, Hub!inference_vars

LEMMA PausesKept == ASSUME Pauses, UNCHANGED <<now, spent, Hub!pause_vars>> PROVE Pauses'
  BY DEF Pauses, Paused, Hub!UNSET, Hub!pause_vars

LEMMA EscrowKept == ASSUME Escrow, UNCHANGED Hub!escrow_vars PROVE Escrow'
  BY DEF Escrow, Hub!escrow_vars, Hub!refresh_escrow_status

-----------------------------------------------------------------------------
LEMMA ConnectionsStep ==
    ASSUME Connections, Hub!ConnectionStep
    PROVE  Connections' /\ UNCHANGED <<now, Hub!inference_vars, Hub!pause_vars, Hub!escrow_vars, spent>>
  <1>1. CASE Hub!begin_connection
    BY <1>1 DEF Hub!begin_connection, Connections, Gauges
  <1>2. ASSUME NEW g \in 1..generation, Hub!connection_established(g) \/ Hub!StoreEstablished(g)
        PROVE  Connections' /\ UNCHANGED <<now, Hub!inference_vars, Hub!pause_vars, Hub!escrow_vars, spent>>
    BY <1>2 DEF Hub!connection_established, Hub!StoreEstablished, Connections
  <1>3. ASSUME NEW g \in 1..generation, Hub!connection_lost(g)
        PROVE  Connections' /\ UNCHANGED <<now, Hub!inference_vars, Hub!pause_vars, Hub!escrow_vars, spent>>
    BY <1>3 DEF Hub!connection_lost, Connections, Gauges
  <1>4. ASSUME NEW g \in 1..generation, NEW depth \in 0..1, Hub!set_connection_inference_queue(g, depth)
        PROVE  Connections' /\ UNCHANGED <<now, Hub!inference_vars, Hub!pause_vars, Hub!escrow_vars, spent>>
    BY <1>4 DEF Hub!set_connection_inference_queue, Connections, Gauges
  <1>5. ASSUME NEW g \in 1..generation,
               (\E compact \in BOOLEAN : Hub!record_job(g, compact)) \/ Hub!set_pool_difficulty(g)
        PROVE  Connections' /\ UNCHANGED <<now, Hub!inference_vars, Hub!pause_vars, Hub!escrow_vars, spent>>
    BY <1>5 DEF Hub!record_job, Hub!set_pool_difficulty, Connections
  <1>6. ASSUME NEW g \in 1..generation, Hub!record_share_submitted(g) \/ Hub!record_share_accepted(g)
        PROVE  Connections' /\ UNCHANGED <<now, Hub!inference_vars, Hub!pause_vars, Hub!escrow_vars, spent>>
    BY <1>6 DEF Hub!record_share_submitted, Hub!record_share_accepted, Connections
  <1>7. QED
    BY <1>1, <1>2, <1>3, <1>4, <1>5, <1>6 DEF Hub!ConnectionStep

-----------------------------------------------------------------------------
\* How the number of attempts in some phases changes when one moves.
LEMMA OneMoves ==
    ASSUME IsFiniteSet(Requests), attempt \in [Requests -> Phases],
           NEW r \in Requests, NEW p \in Phases, attempt' = [attempt EXCEPT ![r] = p],
           NEW S \in SUBSET Phases
    PROVE  /\ Hub!At(S) \in Nat /\ Hub!At(S)' \in Nat
           /\ attempt[r] \in S => Hub!At(S) > 0
           /\ (attempt[r] \in S) = (p \in S) => Hub!At(S)' = Hub!At(S)
           /\ attempt[r] \in S /\ p \notin S => Hub!At(S)' = Hub!At(S) - 1
           /\ attempt[r] \notin S /\ p \in S => Hub!At(S)' = Hub!At(S) + 1
  <1> DEFINE A == {q \in Requests : attempt[q] \in S}
             B == {q \in Requests : attempt'[q] \in S}
  <1>1. IsFiniteSet(A) /\ IsFiniteSet(B)
    BY FS_Subset
  <1>2. Cardinality(A) \in Nat /\ Cardinality(B) \in Nat
    BY <1>1, FS_CardinalityType
  <1>3. Hub!At(S) = Cardinality(A) /\ Hub!At(S)' = Cardinality(B)
    BY SameCardinality, Zenon DEF Hub!At
  <1>4. attempt[r] \in S => A # {} /\ r \in A
    OBVIOUS
  <1>5. A # {} => Cardinality(A) > 0
    BY <1>1, <1>2, FS_EmptySet
  <1>6. (attempt[r] \in S) = (p \in S) => B = A
    OBVIOUS
  <1>7. attempt[r] \in S /\ p \notin S => B = A \ {r} /\ r \in A
    OBVIOUS
  <1>8. attempt[r] \notin S /\ p \in S => B = A \cup {r} /\ r \notin A
    OBVIOUS
  <1>9. /\ r \in A => Cardinality(A \ {r}) = Cardinality(A) - 1
        /\ r \notin A => Cardinality(A \cup {r}) = Cardinality(A) + 1
    BY <1>1, FS_RemoveElement, FS_AddElement, Zenon
  <1> HIDE DEF A, B
  <1>10. QED
    BY <1>2, <1>3, <1>4, <1>5, <1>6, <1>7, <1>8, <1>9, ZenonT(60)

LEMMA AttemptsStep ==
    ASSUME IsFiniteSet(Requests), Attempts, Hub!InferenceStep
    PROVE  Attempts' /\ UNCHANGED <<now, Hub!connection_vars, Hub!pause_vars, Hub!escrow_vars, spent>>
  <1> DEFINE Running == {"active"}
             Begun == {"active", "counted"}
  <1>1. PICK r \in Requests :
          Hub!begin_inference(r) \/ Hub!Verdict(r) \/ Hub!finish(r) \/ Hub!drop(r) \/ Hub!record_inference_abandoned_requests(r)
    BY DEF Hub!InferenceStep
  <1>2. UNCHANGED <<now, Hub!connection_vars, Hub!pause_vars, Hub!escrow_vars, spent>>
    BY <1>1 DEF Hub!begin_inference, Hub!Verdict, Hub!finish, Hub!drop,
       Hub!record_inference_abandoned_requests, Hub!InferenceOnly
  <1>3. PICK p \in Phases : attempt' = [attempt EXCEPT ![r] = p]
    BY <1>1 DEF Hub!begin_inference, Hub!Verdict, Hub!finish, Hub!drop,
       Hub!record_inference_abandoned_requests, Phases
  <1>4. attempt \in [Requests -> Phases] /\ attempt' \in [Requests -> Phases] /\ attempt'[r] = p
    BY <1>3 DEF Attempts
  <1>5. Running \in SUBSET Phases /\ Begun \in SUBSET Phases
    BY DEF Phases
  <1>6. ASSUME NEW S \in SUBSET Phases
        PROVE  /\ Hub!At(S) \in Nat /\ Hub!At(S)' \in Nat
               /\ attempt[r] \in S => Hub!At(S) > 0
               /\ (attempt[r] \in S) = (p \in S) => Hub!At(S)' = Hub!At(S)
               /\ attempt[r] \in S /\ p \notin S => Hub!At(S)' = Hub!At(S) - 1
               /\ attempt[r] \notin S /\ p \in S => Hub!At(S)' = Hub!At(S) + 1
    BY <1>3, <1>4, OneMoves, Zenon
  <1>7. /\ requested \in Nat /\ served \in Nat /\ failed \in Nat /\ busy \in Nat /\ active \in Nat
        /\ requested = served + failed + busy + Hub!At(Running) /\ active = Hub!At(Begun)
    BY DEF Attempts
  <1>8. /\ Hub!At(Running) \in Nat /\ Hub!At(Running)' \in Nat /\ Hub!At(Begun) \in Nat /\ Hub!At(Begun)' \in Nat
        /\ attempt[r] \in Begun => Hub!At(Begun) > 0
        /\ (attempt[r] \in Running) = (p \in Running) => Hub!At(Running)' = Hub!At(Running)
        /\ attempt[r] \in Running /\ p \notin Running => Hub!At(Running)' = Hub!At(Running) - 1
        /\ attempt[r] \notin Running /\ p \in Running => Hub!At(Running)' = Hub!At(Running) + 1
        /\ (attempt[r] \in Begun) = (p \in Begun) => Hub!At(Begun)' = Hub!At(Begun)
        /\ attempt[r] \in Begun /\ p \notin Begun => Hub!At(Begun)' = Hub!At(Begun) - 1
        /\ attempt[r] \notin Begun /\ p \in Begun => Hub!At(Begun)' = Hub!At(Begun) + 1
    <2> HIDE DEF Running, Begun
    <2>1. QED
      BY <1>5, <1>6
  <1>9. /\ requested' \in Nat /\ served' \in Nat /\ failed' \in Nat /\ busy' \in Nat /\ active' \in Nat
        /\ requested' = served' + failed' + busy' + Hub!At(Running)' /\ active' = Hub!At(Begun)'
    <2>1. CASE Hub!begin_inference(r)
      <3>1. attempt[r] = "none" /\ p = "active"
        BY <1>3, <1>4, <2>1 DEF Hub!begin_inference, Attempts
      <3>2. QED
        BY <1>8, <1>7, <2>1, <3>1 DEF Hub!begin_inference
    <2>2. CASE Hub!Verdict(r)
      <3>1. attempt[r] = "active" /\ p = "counted"
        BY <1>3, <1>4, <2>2 DEF Hub!Verdict
      <3>2. QED
        BY <1>8, <1>7, <2>2, <3>1 DEF Hub!Verdict
    <2>3. CASE Hub!finish(r)
      <3>1. attempt[r] = "counted" /\ p = "finished"
        BY <1>3, <1>4, <2>3 DEF Hub!finish
      <3>2. QED
        BY <1>8, <1>7, <2>3, <3>1 DEF Hub!finish, Hub!saturating_decrement
    <2>4. CASE Hub!drop(r)
      <3>1. \/ attempt[r] = "active" /\ p = "counted"
            \/ attempt[r] = "finished" /\ p = "dropped"
        BY <1>3, <1>4, <2>4 DEF Hub!drop
      <3>2. QED
        BY <1>8, <1>7, <2>4, <3>1 DEF Hub!drop
    <2>5. CASE Hub!record_inference_abandoned_requests(r)
      <3>1. attempt[r] = "none" /\ p = "dropped"
        BY <1>3, <1>4, <2>5 DEF Hub!record_inference_abandoned_requests
      <3>2. QED
        BY <1>8, <1>7, <2>5, <3>1 DEF Hub!record_inference_abandoned_requests
    <2>6. QED
      BY <1>1, <2>1, <2>2, <2>3, <2>4, <2>5
  <1>10. QED
    BY <1>2, <1>4, <1>9 DEF Attempts

-----------------------------------------------------------------------------
\* The clock is read when the last guard goes, and was set when the first came.
LEMMA PausesStep ==
    ASSUME MaxTime \in Nat, Pauses, Hub!PauseStep \/ Hub!Tick
    PROVE  Pauses' /\ UNCHANGED <<Hub!connection_vars, Hub!inference_vars, Hub!escrow_vars>>
  <1>1. UNCHANGED <<Hub!connection_vars, Hub!inference_vars, Hub!escrow_vars>>
    BY DEF Hub!PauseStep, Hub!PauseStarts, Hub!PauseEnds, Hub!log_hashrate, Hub!publish_mining_snapshot,
       Hub!PauseOnly, Hub!Tick
  <1> SUFFICES Pauses'
    BY <1>1
  <1>2. /\ pauses \in [Keys -> Nat] /\ Hub!UNSET \in Nat /\ Hub!UNSET' = Hub!UNSET /\ Hub!UNSET = MaxTime + 1
        /\ now \in Nat /\ now <= MaxTime /\ pause_started \in Nat /\ pause_total \in Nat /\ spent \in Nat
        /\ pause_started = Hub!UNSET <=> ~Paused
        /\ Paused => pause_started <= now
        /\ spent = pause_total + (IF pause_started = Hub!UNSET THEN 0 ELSE now - pause_started)
    BY DEF Pauses, Hub!UNSET
  <1>3. ASSUME NEW k \in Keys, Hub!PauseStarts(k) PROVE Pauses'
    <2>1. /\ pauses' = [pauses EXCEPT ![k] = pauses[k] + 1]
          /\ pause_started' = IF pause_started = Hub!UNSET THEN now ELSE pause_started
          /\ UNCHANGED <<now, spent, pause_total>>
      BY <1>3 DEF Hub!PauseStarts, Hub!PauseOnly
    <2>2. pauses' \in [Keys -> Nat] /\ Paused'
      BY <1>2, <2>1 DEF Paused
    <2>3. /\ pause_started' \in Nat /\ pause_started' # Hub!UNSET /\ pause_started' <= now
          /\ spent = pause_total + (now - pause_started')
      BY <1>2, <2>1
    <2>4. QED
      BY <1>2, <2>1, <2>2, <2>3 DEF Pauses
  <1>4. ASSUME NEW k \in Keys, Hub!PauseEnds(k) PROVE Pauses'
    <2>1. /\ pauses' = [pauses EXCEPT ![k] = pauses[k] - 1] /\ pauses[k] > 0
          /\ IF \A j \in Keys : pauses'[j] = 0
             THEN pause_started' = Hub!UNSET /\ pause_total' = pause_total + (now - pause_started)
             ELSE UNCHANGED <<pause_started, pause_total>>
          /\ UNCHANGED <<now, spent>>
      BY <1>4 DEF Hub!PauseEnds, Hub!PauseOnly
    <2>2. pauses' \in [Keys -> Nat] /\ Paused
      BY <1>2, <2>1 DEF Paused
    <2>3. Paused' <=> ~(\A j \in Keys : pauses'[j] = 0)
      BY <2>2 DEF Paused
    <2>4. now - pause_started \in Nat /\ spent = pause_total + (now - pause_started) /\ pause_started # Hub!UNSET
      BY <1>2, <2>2
    <2>5. CASE Paused'
      BY <1>2, <2>1, <2>2, <2>3, <2>4, <2>5 DEF Pauses
    <2>6. CASE ~Paused'
      BY <1>2, <2>1, <2>2, <2>3, <2>4, <2>6 DEF Pauses
    <2>7. QED
      BY <2>5, <2>6
  <1>5. CASE Hub!log_hashrate \/ Hub!publish_mining_snapshot
    <2>1. UNCHANGED <<now, spent, pauses, pause_started, pause_total>>
      BY <1>5 DEF Hub!log_hashrate, Hub!publish_mining_snapshot, Hub!PauseOnly
    <2>2. Paused' = Paused
      BY <2>1 DEF Paused
    <2>3. QED
      BY <1>2, <2>1, <2>2 DEF Pauses
  <1>6. CASE Hub!Tick
    <2>1. /\ now < MaxTime /\ now' = now + 1 /\ spent' = IF Paused THEN spent + 1 ELSE spent
          /\ UNCHANGED <<pauses, pause_started, pause_total>>
      BY <1>6 DEF Hub!Tick, Paused, Hub!pause_vars
    <2>2. Paused' = Paused
      BY <2>1 DEF Paused
    <2>3. QED
      BY <1>2, <2>1, <2>2 DEF Pauses
  <1>7. QED
    BY <1>1, <1>3, <1>4, <1>5, <1>6 DEF Hub!PauseStep

-----------------------------------------------------------------------------
\* The status depends on the other fields alone, so recomputing it twice is
\* recomputing it once.
LEMMA StatusSettles ==
    ASSUME NEW e \in Escrows
    PROVE  /\ Hub!refresh_escrow_status(e) \in Escrows
           /\ Hub!refresh_escrow_status(e).in_flight = e.in_flight
           /\ Hub!refresh_escrow_status(Hub!refresh_escrow_status(e)) = Hub!refresh_escrow_status(e)
  <1> DEFINE Status(x) ==
        CASE ~x.enabled -> "disabled"
          [] x.enabled /\ x.degraded -> "degraded"
          [] x.enabled /\ ~x.degraded /\ x.held -> "held"
          [] x.enabled /\ ~x.degraded /\ ~x.held /\ x.validating -> "validating"
          [] OTHER -> IF x.in_flight # 0 THEN "claiming" ELSE "ready"
  <1>1. \A x \in Escrows : Status(x) \in Statuses
    BY DEF Escrows, Statuses
  <1>2. \A x \in Escrows : Hub!refresh_escrow_status(x) = [x EXCEPT !.status = Status(x)]
    BY DEF Hub!refresh_escrow_status
  <1>3. \A x, y \in Escrows : /\ x.enabled = y.enabled /\ x.degraded = y.degraded /\ x.held = y.held
                              /\ x.validating = y.validating /\ x.in_flight = y.in_flight
                              => Status(x) = Status(y)
    OBVIOUS
  <1> HIDE DEF Status
  <1>4. \A x \in Escrows : \A s \in Statuses :
          LET y == [x EXCEPT !.status = s]
          IN  /\ y \in Escrows /\ y.status = s /\ y.enabled = x.enabled /\ y.degraded = x.degraded
              /\ y.held = x.held /\ y.validating = x.validating /\ y.in_flight = x.in_flight
              /\ [y EXCEPT !.status = s] = y
    BY ZenonT(60) DEF Escrows
  <1> DEFINE f == Hub!refresh_escrow_status(e)
             s == Status(e)
  <1>5. f = [e EXCEPT !.status = s] /\ s \in Statuses
    BY <1>1, <1>2
  <1> HIDE DEF f, s
  <1>6. /\ f \in Escrows /\ f.enabled = e.enabled /\ f.degraded = e.degraded /\ f.held = e.held
        /\ f.validating = e.validating /\ f.in_flight = e.in_flight /\ [f EXCEPT !.status = s] = f
    BY <1>4, <1>5, Zenon
  <1>7. Status(f) = s
    BY <1>3, <1>6 DEF s
  <1>8. Hub!refresh_escrow_status(f) = f
    BY <1>2, <1>6, <1>7
  <1>9. QED
    BY <1>6, <1>8 DEF f

LEMMA EscrowGroupStep ==
    ASSUME Escrow, Hub!EscrowStep
    PROVE  Escrow' /\ UNCHANGED <<now, Hub!connection_vars, Hub!inference_vars, Hub!pause_vars, spent>>
  <1>1. UNCHANGED <<now, Hub!connection_vars, Hub!inference_vars, Hub!pause_vars, spent>>
    BY Zenon DEF Hub!EscrowStep, Hub!escrow_enabled, Hub!escrow_claims_held, Hub!escrow_persistence_result,
           Hub!escrow_validation_progress, Hub!escrow_claim_attempt, Hub!escrow_remove_inflight,
           Hub!publish_escrow_gauges, Hub!EscrowOnly
  <1> SUFFICES Escrow'
    BY <1>1
  <1>2. escrow \in Escrows /\ IsFiniteSet(claims) /\ escrow.in_flight = Cardinality(claims)
        /\ Cardinality(claims) \in Nat
    BY FS_CardinalityType DEF Escrow
  <1>3. ASSUME NEW e \in Escrows, escrow' = Hub!refresh_escrow_status(e), IsFiniteSet(claims'),
               e.in_flight = Cardinality(claims')
        PROVE  Escrow'
    BY <1>3, StatusSettles DEF Escrow
  <1>4. ASSUME NEW b \in BOOLEAN, Hub!escrow_enabled(b) PROVE Escrow'
    <2>1. CASE b
      <3>1. escrow' = Hub!refresh_escrow_status([escrow EXCEPT !.enabled = TRUE]) /\ claims' = claims
        BY <1>4, <2>1 DEF Hub!escrow_enabled
      <3>2. [escrow EXCEPT !.enabled = TRUE] \in Escrows /\ [escrow EXCEPT !.enabled = TRUE].in_flight = escrow.in_flight
        BY <1>2, Zenon DEF Escrows
      <3>3. QED
        BY <1>2, <1>3, <3>1, <3>2, Zenon
    <2>2. CASE ~b
      <3>1. escrow' = Hub!refresh_escrow_status(Hub!NoEscrow) /\ claims' = claims /\ claims = {}
        BY <1>4, <2>2 DEF Hub!escrow_enabled
      <3>2. Hub!NoEscrow \in Escrows /\ Hub!NoEscrow.in_flight = 0
        BY DEF Hub!NoEscrow, Escrows, Statuses
      <3>3. QED
        BY <1>2, <1>3, <3>1, <3>2, FS_EmptySet
    <2>3. QED
      BY <2>1, <2>2
  <1>5. ASSUME NEW b \in BOOLEAN, Hub!escrow_claims_held(b) \/ Hub!escrow_persistence_result(b) PROVE Escrow'
    <2> DEFINE nb == ~b
               e1 == [escrow EXCEPT !.held = b]
               e2 == [escrow EXCEPT !.degraded = nb]
    <2>1. claims' = claims /\ (escrow' = Hub!refresh_escrow_status(e1) \/ escrow' = Hub!refresh_escrow_status(e2))
      BY <1>5 DEF Hub!escrow_claims_held, Hub!escrow_persistence_result
    <2>2. nb \in BOOLEAN
      OBVIOUS
    <2> HIDE DEF nb
    <2>3. e1 \in Escrows /\ e1.in_flight = escrow.in_flight /\ e2 \in Escrows /\ e2.in_flight = escrow.in_flight
      BY <1>2, <2>2 DEF Escrows
    <2> HIDE DEF e1, e2
    <2>4. QED
      BY <1>2, <1>3, <2>1, <2>3
  <1>6. ASSUME NEW n \in 0..1, Hub!escrow_validation_progress(n) PROVE Escrow'
    <2> DEFINE v == (n # 0)
               e == [escrow EXCEPT !.validating = v]
    <2>1. claims' = claims /\ escrow' = Hub!refresh_escrow_status(e) /\ v \in BOOLEAN
      BY <1>6 DEF Hub!escrow_validation_progress
    <2> HIDE DEF v
    <2>2. e \in Escrows /\ e.in_flight = escrow.in_flight
      BY <1>2, <2>1 DEF Escrows
    <2> HIDE DEF e
    <2>3. QED
      BY <1>2, <1>3, <2>1, <2>2
  <1>7. ASSUME NEW n \in Nat, escrow' = Hub!refresh_escrow_status([escrow EXCEPT !.in_flight = n]),
               IsFiniteSet(claims'), n = Cardinality(claims')
        PROVE  Escrow'
    <2>1. [escrow EXCEPT !.in_flight = n] \in Escrows /\ [escrow EXCEPT !.in_flight = n].in_flight = n
      BY <1>2 DEF Escrows
    <2>2. QED
      BY <1>3, <1>7, <2>1, Zenon
  <1>8. ASSUME NEW x \in Claims, Hub!escrow_claim_attempt(x) PROVE Escrow'
    <2>1. /\ escrow' = Hub!refresh_escrow_status([escrow EXCEPT !.in_flight = escrow.in_flight + 1])
          /\ claims' = claims \cup {x} /\ x \notin claims
      BY <1>8 DEF Hub!escrow_claim_attempt
    <2>2. IsFiniteSet(claims') /\ Cardinality(claims') = Cardinality(claims) + 1
      BY <1>2, <2>1, FS_AddElement
    <2>3. QED
      BY <1>2, <1>7, <2>1, <2>2
  <1>9. ASSUME NEW x \in Claims, Hub!escrow_remove_inflight(x) PROVE Escrow'
    <2>1. /\ escrow' = Hub!refresh_escrow_status([escrow EXCEPT !.in_flight = Hub!saturating_decrement(escrow.in_flight)])
          /\ claims' = claims \ {x} /\ x \in claims
      BY <1>9 DEF Hub!escrow_remove_inflight
    <2>2. IsFiniteSet(claims') /\ Cardinality(claims') = Cardinality(claims) - 1 /\ Cardinality(claims') \in Nat
      BY <1>2, <2>1, FS_RemoveElement, FS_CardinalityType
    <2>3. Hub!saturating_decrement(escrow.in_flight) = Cardinality(claims')
      BY <1>2, <2>2 DEF Hub!saturating_decrement
    <2>4. QED
      BY <1>7, <2>1, <2>2, <2>3
  <1>10. CASE Hub!publish_escrow_gauges
    <2>1. /\ escrow' = Hub!refresh_escrow_status([escrow EXCEPT !.in_flight = Cardinality(claims)])
          /\ claims' = claims
      BY <1>10, SameCardinality DEF Hub!publish_escrow_gauges
    <2>2. QED
      BY <1>2, <1>7, <2>1
  <1>11. QED
    BY <1>1, <1>4, <1>5, <1>6, <1>8, <1>9, <1>10 DEF Hub!EscrowStep

-----------------------------------------------------------------------------
LEMMA AddsUpAtFirst ==
    ASSUME IsFiniteSet(Requests), MaxTime \in Nat, Hub!Init
    PROVE  AddsUp
  <1>1. Connections
    BY DEF Hub!Init, Connections, Gauges
  <1>2. Attempts
    <2>1. attempt \in [Requests -> Phases] /\ \A r \in Requests : attempt[r] = "none"
      BY DEF Hub!Init, Phases
    <2>2. Hub!At({"active"}) = 0 /\ Hub!At({"active", "counted"}) = 0
      BY <2>1, FS_EmptySet, SameCardinality DEF Hub!At
    <2>3. QED
      BY <2>1, <2>2 DEF Hub!Init, Attempts
  <1>3. Pauses
    BY DEF Hub!Init, Pauses, Paused, Hub!UNSET
  <1>4. Escrow
    <2>1. Hub!NoEscrow \in Escrows /\ Hub!NoEscrow.in_flight = 0
      BY DEF Hub!NoEscrow, Escrows, Statuses
    <2>2. Hub!refresh_escrow_status(Hub!NoEscrow) = Hub!NoEscrow
      BY DEF Hub!NoEscrow, Hub!refresh_escrow_status
    <2>3. QED
      BY <2>1, <2>2, FS_EmptySet DEF Hub!Init, Escrow
  <1>5. QED
    BY <1>1, <1>2, <1>3, <1>4 DEF AddsUp

\* The hub adds up, however the connections, cards, requests and claims
\* interleave (runtime_stats.rs): a connection's gauges are the current
\* connection's, every request counted has one verdict or is running, the pause
\* total counts overlapping pauses once, and the claims shown in flight are the
\* watcher's.
THEOREM HubAddsUp ==
    ASSUME IsFiniteSet(Requests), MaxTime \in Nat
    PROVE  Hub!Spec => []StatsAddUp
  <1>1. Hub!Init => AddsUp
    BY AddsUpAtFirst
  <1>2. AddsUp /\ [Hub!Next]_Hub!hub => AddsUp'
    <2> SUFFICES ASSUME AddsUp, [Hub!Next]_Hub!hub PROVE AddsUp'
      OBVIOUS
    <2>1. CASE Hub!ConnectionStep
      BY <2>1, ConnectionsStep, AttemptsKept, PausesKept, EscrowKept DEF AddsUp
    <2>2. CASE Hub!InferenceStep
      BY <2>2, ConnectionsKept, AttemptsStep, PausesKept, EscrowKept DEF AddsUp
    <2>3. CASE Hub!PauseStep \/ Hub!Tick
      BY <2>3, ConnectionsKept, AttemptsKept, PausesStep, EscrowKept DEF AddsUp
    <2>4. CASE Hub!EscrowStep
      BY <2>4, ConnectionsKept, AttemptsKept, PausesKept, EscrowGroupStep DEF AddsUp
    <2>5. CASE UNCHANGED Hub!hub
      <3>1. UNCHANGED <<now, spent, Hub!connection_vars, Hub!inference_vars, Hub!pause_vars, Hub!escrow_vars>>
        BY <2>5 DEF Hub!hub, Hub!connection_vars, Hub!inference_vars, Hub!pause_vars, Hub!escrow_vars
      <3>2. QED
        BY <3>1, ConnectionsKept, AttemptsKept, PausesKept, EscrowKept DEF AddsUp
    <2>6. QED
      BY <2>1, <2>2, <2>3, <2>4, <2>5 DEF Hub!Next
  <1>3. AddsUp => StatsAddUp
    <2> SUFFICES ASSUME AddsUp PROVE StatsAddUp
      OBVIOUS
    <2>1. Hub!try_snapshot.pow_pause_total = spent /\ Hub!try_snapshot.in_flight = Cardinality(claims)
      BY DEF AddsUp, Pauses, Escrow, Hub!try_snapshot
    <2>2. pauses[AllCards] > 0 => Hub!try_snapshot.inference_paused
      BY ZenonT(60) DEF Hub!try_snapshot
    <2>3. QED
      BY <2>1, <2>2, SameCardinality DEF AddsUp, Connections, Attempts, Escrow, StatsAddUp, Hub!StatsAddUp
  <1>4. QED
    BY <1>1, <1>2, <1>3, PTL DEF Hub!Spec

-----------------------------------------------------------------------------
(* The watch channel. *)

LiveReceivers == {r \in Receivers : Live(r)}

(***************************************************************************)
(* The inductive invariant.  Beside the two properties it says who holds   *)
(* which lock, how the id follows the value, and how far the Drop of the   *)
(* Sender has come.                                                        *)
(***************************************************************************)
CountInv == receivers_count = Cardinality(LiveReceivers)

WaitLockInv ==
    \A r \in Receivers :
        /\ waitLock = r => rpc[r] \in {"readId", "clone", "preSleep", "takeId"}
        /\ rpc[r] \in {"preSleep", "takeId"} => waitLock = r

WriterInv == \A s \in Senders : spc[s] = "bump" <=> writer = s

VersionInv == value = IF writer = Nobody THEN id ELSE id + 1

ObservedInv ==
    \A r \in Receivers : /\ last_observed[r] <= id
                         /\ rpc[r] = "fresh" => last_observed[r] = 0 /\ seen[r] = 0

DropInv ==
    /\ sender_alive <=> dropPc = "held"
    /\ \A s \in Senders : spc[s] # "idle" => sender_alive
    /\ waitLock # Nobody /\ ~sender_alive => dropPc = "notify"

Shape ==
    /\ value \in Nat
    /\ id \in Nat
    /\ writer \in Senders \cup {Nobody}
    /\ waitLock \in Receivers \cup {Nobody}
    /\ sender_alive \in BOOLEAN
    /\ spc \in [Senders -> {"idle", "write", "bump", "notify"}]
    /\ dropPc \in {"held", "notify", "done"}
    /\ rpc \in [Receivers -> ReceiverStops]
    /\ mode \in [Receivers -> {"poll", "wait"}]
    /\ last_observed \in [Receivers -> Nat]
    /\ seen \in [Receivers -> Nat]

Coherent ==
    /\ Shape
    /\ WaitLockInv
    /\ WriterInv
    /\ VersionInv
    /\ ObservedInv
    /\ DropInv
    /\ NeverStale
    /\ NoLostWakeUp

USE RootAssumption, NobodyAssumption DEF Nobody

(***************************************************************************)
(* The receiver count.                                                     *)
(***************************************************************************)

\* The receiver count is the number of live handles in the initial state.
LEMMA CountInit == Init => CountInv
<1> SUFFICES ASSUME Init PROVE CountInv
  OBVIOUS
<1>1. LiveReceivers = {Root}
  BY DEF Init, LiveReceivers, Live
<1>2. Cardinality({Root}) = 1
  BY FS_Singleton
<1> QED BY <1>1, <1>2 DEF Init, CountInv

\* Clone and Drop of a Receiver keep the count equal to the number of handles;
\* no other step makes or destroys a handle.
LEMMA CountStep == Shape /\ CountInv /\ [Next]_vars => CountInv'
<1> SUFFICES ASSUME Shape, CountInv, [Next]_vars PROVE CountInv'
  OBVIOUS
<1> USE DEF Shape, CountInv, ReceiverStops
<1>0. IsFiniteSet(LiveReceivers)
  BY ReceiversAssumption, FS_Subset DEF LiveReceivers
<1>1. ASSUME receivers_count' = receivers_count,
             \A r \in Receivers : Live(r)' <=> Live(r)
      PROVE  CountInv'
  <2>1. LiveReceivers' = LiveReceivers
    BY <1>1 DEF LiveReceivers
  <2> QED BY <1>1, <2>1
<1>2. ASSUME NEW r \in Receivers, NEW q \in Receivers, CloneReceiver(r, q)
      PROVE  CountInv'
  <2>1. LiveReceivers' = LiveReceivers \cup {q}
    BY <1>2 DEF CloneReceiver, LiveReceivers, Live
  <2>2. q \notin LiveReceivers
    BY <1>2 DEF CloneReceiver, LiveReceivers, Live
  <2>3. Cardinality(LiveReceivers \cup {q}) = Cardinality(LiveReceivers) + 1
    BY <1>0, <2>2, FS_AddElement, ZenonT(60)
  <2> QED BY <1>2, <2>1, <2>3 DEF CloneReceiver
<1>3. ASSUME NEW r \in Receivers, DropReceiver(r)
      PROVE  CountInv'
  <2>1. LiveReceivers' = LiveReceivers \ {r}
    BY <1>3 DEF DropReceiver, LiveReceivers, Live
  <2>2. r \in LiveReceivers
    BY <1>3 DEF DropReceiver, LiveReceivers, Live
  <2>3. Cardinality(LiveReceivers \ {r}) = Cardinality(LiveReceivers) - 1
    BY <1>0, <2>2, FS_RemoveElement, ZenonT(60)
  <2> QED BY <1>3, <2>1, <2>3 DEF DropReceiver
<1>4. ASSUME NEW s \in Senders, SendCheck(s) \/ SenderStep(s)
      PROVE  CountInv'
  BY <1>4, <1>1 DEF SendCheck, SenderStep, StoreValue, IncrementId, WakeUpThreads,
                    NotifyAll, recvVars, Live
<1>5. CASE DropSender \/ DropWakeUp
  BY <1>5, <1>1 DEF DropSender, DropWakeUp, NotifyAll, recvVars, Live
<1>6. ASSUME NEW r \in Receivers, NEW m \in {"poll", "wait"}, CheckAlive(r, m)
      PROVE  CountInv'
  BY <1>6, <1>1 DEF CheckAlive, Live
<1>7. ASSUME NEW r \in Receivers, ReceiverStep(r)
      PROVE  CountInv'
  BY <1>7, <1>1 DEF ReceiverStep, ReadId, NextStop, CloneValue, LockForWait, Sleep,
                    Resume, TakeId, Live
<1>8. ASSUME NEW r \in Receivers, SpuriousWakeUp(r)
      PROVE  CountInv'
  BY <1>8, <1>1 DEF SpuriousWakeUp, Live
<1>9. CASE UNCHANGED vars
  BY <1>9, <1>1 DEF vars, Live
<1> QED BY <1>2, <1>3, <1>4, <1>5, <1>6, <1>7, <1>8, <1>9 DEF Next

(***************************************************************************)
(* The rest of the invariant, one step per action.                         *)
(***************************************************************************)

\* The initial state of channel() satisfies the invariant.
LEMMA CoherentInit == Init => Coherent
BY DEF Init, Coherent, Shape, ReceiverStops, WaitLockInv, WriterInv, VersionInv,
       ObservedInv, DropInv, NeverStale, NoLostWakeUp

\* Every step of every thread preserves the invariant.
LEMMA CoherentStep == Coherent /\ [Next]_vars => Coherent'
<1> SUFFICES ASSUME Coherent, [Next]_vars PROVE Coherent'
  OBVIOUS
<1> USE DEF Coherent, Shape, ReceiverStops, WaitLockInv, WriterInv, VersionInv,
            ObservedInv, DropInv, NeverStale, NoLostWakeUp
<1>1. ASSUME NEW s \in Senders, SendCheck(s) PROVE Coherent'
  BY <1>1, ZenonT(60) DEF SendCheck, CanSend, recvVars
<1>2. ASSUME NEW s \in Senders, StoreValue(s) PROVE Coherent'
  BY <1>2 DEF StoreValue, recvVars
<1>3. ASSUME NEW s \in Senders, IncrementId(s) PROVE Coherent'
  BY <1>3 DEF IncrementId, recvVars
<1>4. ASSUME NEW s \in Senders, WakeUpThreads(s) PROVE Coherent'
  <2>1. Shape' /\ WaitLockInv' /\ WriterInv' /\ VersionInv' /\ DropInv'
    <3> HIDE DEF ObservedInv, NeverStale, NoLostWakeUp
    <3> QED BY <1>4 DEF WakeUpThreads, NotifyAll
  <2>2. ObservedInv' /\ NeverStale' /\ NoLostWakeUp'
    <3> HIDE DEF WriterInv
    <3> QED BY <1>4 DEF WakeUpThreads, NotifyAll
  <2> HIDE DEF Shape, WaitLockInv, WriterInv, VersionInv, DropInv, ObservedInv, NeverStale,
               NoLostWakeUp
  <2> QED BY <2>1, <2>2, Zenon
<1>5. CASE DropSender
  BY <1>5, ZenonT(60) DEF DropSender, recvVars
<1>6. CASE DropWakeUp
  <2>1. Shape' /\ WaitLockInv' /\ WriterInv' /\ VersionInv' /\ DropInv'
    <3> HIDE DEF ObservedInv, NeverStale, NoLostWakeUp
    <3> QED BY <1>6 DEF DropWakeUp, NotifyAll
  <2>2. ObservedInv' /\ NeverStale' /\ NoLostWakeUp'
    <3> HIDE DEF WriterInv
    <3> QED BY <1>6 DEF DropWakeUp, NotifyAll
  <2> HIDE DEF Shape, WaitLockInv, WriterInv, VersionInv, DropInv, ObservedInv, NeverStale,
               NoLostWakeUp
  <2> QED BY <2>1, <2>2, Zenon
<1>7. ASSUME NEW r \in Receivers, NEW m \in {"poll", "wait"}, CheckAlive(r, m)
      PROVE  Coherent'
  BY <1>7, ZenonT(60) DEF CheckAlive, sendVars
<1>8. ASSUME NEW r \in Receivers, ReadId(r) PROVE Coherent'
  <2>1. CASE last_observed[r] # id
    <3>1. Shape' /\ WaitLockInv' /\ WriterInv' /\ VersionInv' /\ DropInv'
      <4> HIDE DEF ObservedInv, NeverStale, NoLostWakeUp
      <4> QED BY <1>8, <2>1 DEF ReadId, sendVars
    <3>2. ObservedInv' /\ NeverStale' /\ NoLostWakeUp'
      <4> HIDE DEF WriterInv
      <4> QED BY <1>8, <2>1 DEF ReadId, sendVars
    <3> HIDE DEF Shape, WaitLockInv, WriterInv, VersionInv, DropInv, ObservedInv, NeverStale,
                 NoLostWakeUp
    <3> QED BY <3>1, <3>2, Zenon
  <2>2. CASE last_observed[r] = id /\ waitLock = r
    <3>1. NextStop(r) = "preSleep"
      BY <2>2 DEF NextStop
    <3>2. Shape' /\ WaitLockInv' /\ WriterInv' /\ VersionInv' /\ DropInv'
      <4> HIDE DEF ObservedInv, NeverStale, NoLostWakeUp
      <4> QED BY <1>8, <2>2, <3>1 DEF ReadId, sendVars
    <3>3. ObservedInv' /\ NeverStale' /\ NoLostWakeUp'
      <4> HIDE DEF WriterInv
      <4> QED BY <1>8, <2>2, <3>1 DEF ReadId, sendVars
    <3> HIDE DEF Shape, WaitLockInv, WriterInv, VersionInv, DropInv, ObservedInv, NeverStale,
                 NoLostWakeUp
    <3> QED BY <3>2, <3>3, Zenon
  <2>3. CASE last_observed[r] = id /\ waitLock # r
    <3>1. NextStop(r) \in {"lock", "idle"}
      BY <2>3 DEF NextStop
    <3>2. Shape' /\ WaitLockInv' /\ WriterInv' /\ VersionInv' /\ DropInv'
      <4> HIDE DEF ObservedInv, NeverStale, NoLostWakeUp
      <4> QED BY <1>8, <2>3, <3>1 DEF ReadId, sendVars
    <3>3. ObservedInv' /\ NeverStale' /\ NoLostWakeUp'
      <4> HIDE DEF WriterInv
      <4> QED BY <1>8, <2>3, <3>1 DEF ReadId, sendVars
    <3> HIDE DEF Shape, WaitLockInv, WriterInv, VersionInv, DropInv, ObservedInv, NeverStale,
                 NoLostWakeUp
    <3> QED BY <3>2, <3>3, Zenon
  <2> QED BY <2>1, <2>2, <2>3, ZenonT(60)
<1>9. ASSUME NEW r \in Receivers, CloneValue(r) PROVE Coherent'
  <2>1. Shape' /\ WaitLockInv' /\ WriterInv' /\ VersionInv' /\ DropInv'
    <3> HIDE DEF ObservedInv, NeverStale, NoLostWakeUp
    <3> QED BY <1>9 DEF CloneValue, Release, sendVars
  <2>2. ObservedInv' /\ NeverStale' /\ NoLostWakeUp'
    <3> HIDE DEF WriterInv
    <3> QED BY <1>9 DEF CloneValue, Release, sendVars
  <2> HIDE DEF Shape, WaitLockInv, WriterInv, VersionInv, DropInv, ObservedInv, NeverStale,
               NoLostWakeUp
  <2> QED BY <2>1, <2>2, Zenon
<1>10. ASSUME NEW r \in Receivers, LockForWait(r) PROVE Coherent'
  <2>1. Shape' /\ WaitLockInv' /\ WriterInv' /\ VersionInv' /\ DropInv'
    <3> HIDE DEF ObservedInv, NeverStale, NoLostWakeUp
    <3> QED BY <1>10 DEF LockForWait, sendVars
  <2>2. ObservedInv' /\ NeverStale' /\ NoLostWakeUp'
    <3> HIDE DEF WriterInv
    <3> QED BY <1>10 DEF LockForWait, sendVars
  <2> HIDE DEF Shape, WaitLockInv, WriterInv, VersionInv, DropInv, ObservedInv, NeverStale,
               NoLostWakeUp
  <2> QED BY <2>1, <2>2, Zenon
<1>11. ASSUME NEW r \in Receivers, Sleep(r) PROVE Coherent'
  BY <1>11, ZenonT(60) DEF Sleep, Release, sendVars
<1>12. ASSUME NEW r \in Receivers, SpuriousWakeUp(r) PROVE Coherent'
  BY <1>12, ZenonT(60) DEF SpuriousWakeUp, sendVars
<1>13. ASSUME NEW r \in Receivers, Resume(r) PROVE Coherent'
  <2>1. Shape' /\ WaitLockInv' /\ WriterInv' /\ VersionInv' /\ DropInv'
    <3> HIDE DEF ObservedInv, NeverStale, NoLostWakeUp
    <3>1. WriterInv' /\ VersionInv'
      BY <1>13, ZenonT(60) DEF Resume, sendVars
    <3>2. Shape' /\ WaitLockInv' /\ DropInv'
      <4> HIDE DEF WriterInv, VersionInv
      <4> QED BY <1>13 DEF Resume, sendVars
    <3> QED BY <3>1, <3>2, Zenon
  <2>2. ObservedInv' /\ NeverStale' /\ NoLostWakeUp'
    <3> HIDE DEF WriterInv
    <3> QED BY <1>13 DEF Resume, sendVars
  <2> HIDE DEF Shape, WaitLockInv, WriterInv, VersionInv, DropInv, ObservedInv, NeverStale,
               NoLostWakeUp
  <2> QED BY <2>1, <2>2, Zenon
<1>14. ASSUME NEW r \in Receivers, TakeId(r) PROVE Coherent'
  <2>1. Shape' /\ WaitLockInv' /\ WriterInv' /\ VersionInv' /\ DropInv'
    <3> HIDE DEF ObservedInv, NeverStale, NoLostWakeUp
    <3> QED BY <1>14, ZenonT(60) DEF TakeId, sendVars
  <2>2. ObservedInv' /\ NeverStale' /\ NoLostWakeUp'
    <3> HIDE DEF WriterInv
    <3> QED BY <1>14 DEF TakeId, sendVars
  <2> HIDE DEF Shape, WaitLockInv, WriterInv, VersionInv, DropInv, ObservedInv, NeverStale,
               NoLostWakeUp
  <2> QED BY <2>1, <2>2, Zenon
<1>15. ASSUME NEW r \in Receivers, NEW q \in Receivers, CloneReceiver(r, q)
       PROVE  Coherent'
  BY <1>15, ZenonT(60) DEF CloneReceiver, sendVars
<1>16. ASSUME NEW r \in Receivers, DropReceiver(r) PROVE Coherent'
  BY <1>16, ZenonT(60) DEF DropReceiver, sendVars
<1>17. CASE UNCHANGED vars
  BY <1>17 DEF vars
<1> HIDE DEF Coherent
<1> QED BY <1>1, <1>2, <1>3, <1>4, <1>5, <1>6, <1>7, <1>8, <1>9, <1>10, <1>11,
           <1>12, <1>13, <1>14, <1>15, <1>16, <1>17
        DEF Next, SenderStep, ReceiverStep

(***************************************************************************)
(* The theorems.                                                           *)
(***************************************************************************)

\* The invariant holds in every reachable state.
LEMMA CoherentAlways == Spec => [](Coherent /\ CountInv)
<1>1. Init => Coherent /\ CountInv
  BY CoherentInit, CountInit
<1>2. (Coherent /\ CountInv) /\ [Next]_vars => (Coherent /\ CountInv)'
  BY CoherentStep, CountStep DEF Coherent
<1> QED BY <1>1, <1>2, PTL DEF Spec

\* Type correctness of the channel; in particular the receiver count never goes
\* below zero, however clones and drops interleave.
THEOREM TypeCorrect == Spec => []TypeOK
<1>1. Coherent /\ CountInv => TypeOK
  <2> SUFFICES ASSUME Coherent, CountInv PROVE TypeOK
    OBVIOUS
  <2>1. IsFiniteSet(LiveReceivers)
    BY ReceiversAssumption, FS_Subset DEF LiveReceivers
  <2>2. receivers_count \in Nat
    BY <2>1, FS_CardinalityType DEF CountInv
  <2> QED BY <2>2 DEF Coherent, Shape, TypeOK
<1> QED BY CoherentAlways, <1>1, PTL

\* No receiver of watch.rs ever sleeps through a send or through the drop of the
\* Sender, for any number of sending and receiving threads.
THEOREM NoWakeUpIsLost == Spec => []NoLostWakeUp
<1>1. Coherent => NoLostWakeUp
  BY DEF Coherent
<1> QED BY CoherentAlways, <1>1, PTL

\* No receiver marks a value as observed before that value, or a newer one, was
\* handed to it.
THEOREM ObservedIsHandedOver == Spec => []NeverStale
<1>1. Coherent => NeverStale
  BY DEF Coherent
<1> QED BY CoherentAlways, <1>1, PTL

\* The channel, with all its locks and atomics, implements the register: every
\* step of a thread is a step of the register or leaves it alone.
THEOREM Refinement == Spec => ImplementsRegister
<1>1. Init => Register!Init
  BY DEF Init, Register!Init
<1>2. Coherent /\ [Next]_vars => [Register!Next]_(Register!vars)
  <2> SUFFICES ASSUME Coherent, [Next]_vars
               PROVE  Register!Next \/ UNCHANGED Register!vars
    OBVIOUS
  <2> USE DEF Register!vars
  <2>1. ASSUME NEW s \in Senders, StoreValue(s) PROVE Register!Send
    BY <2>1 DEF StoreValue, recvVars, Register!Send, Coherent, DropInv, Shape
  <2>2. ASSUME NEW s \in Senders, SendCheck(s) \/ IncrementId(s) \/ WakeUpThreads(s)
        PROVE  UNCHANGED Register!vars
    BY <2>2 DEF SendCheck, IncrementId, WakeUpThreads, recvVars
  <2>3. CASE DropSender
    BY <2>3, ZenonT(60) DEF DropSender, recvVars, Coherent, DropInv, Register!Close, Register!Next
  <2>4. CASE DropWakeUp
    BY <2>4 DEF DropWakeUp
  <2>5. ASSUME NEW r \in Receivers, CloneValue(r) PROVE Register!Receive(r)
    BY <2>5 DEF CloneValue, sendVars, Register!Receive
  <2>6. ASSUME NEW r \in Receivers,
               ReadId(r) \/ LockForWait(r) \/ Sleep(r) \/ Resume(r) \/ TakeId(r)
                 \/ SpuriousWakeUp(r) \/ DropReceiver(r)
        PROVE  UNCHANGED Register!vars
    BY <2>6 DEF ReadId, LockForWait, Sleep, Resume, TakeId, SpuriousWakeUp,
                DropReceiver, sendVars
  <2>7. ASSUME NEW r \in Receivers, NEW m \in {"poll", "wait"}, CheckAlive(r, m)
        PROVE  UNCHANGED Register!vars
    BY <2>7 DEF CheckAlive, sendVars
  <2>8. ASSUME NEW r \in Receivers, NEW q \in Receivers, CloneReceiver(r, q)
        PROVE  Register!Clone(r, q)
    BY <2>8 DEF CloneReceiver, sendVars, Register!Clone, Coherent, ObservedInv
  <2>9. CASE UNCHANGED vars
    BY <2>9 DEF vars
  <2> QED BY <2>1, <2>2, <2>3, <2>4, <2>5, <2>6, <2>7, <2>8, <2>9, ZenonT(60)
          DEF Next, SenderStep, ReceiverStep, Register!Next
<1> QED BY CoherentAlways, <1>1, <1>2, PTL DEF Spec, ImplementsRegister, Register!Spec
============================================================================
