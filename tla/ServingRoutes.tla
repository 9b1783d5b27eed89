---------------------------- MODULE ServingRoutes ----------------------------
(***************************************************************************)
(* Which card may answer for which model (slm.rs).  A route is a pair      *)
(* (model, card); it is proven by a generation followed by a traced        *)
(* self-check, and withdrawn by failures, context resets and era swaps.    *)
(*                                                                         *)
(* Three threads touch the books at once, and every book has a lock of its *)
(* own, so a thread sees them one at a time:                               *)
(*   - the durable warmer of a model (warm_inference_route) and the walk   *)
(*     installer (pom_gpu.rs) both run run_inference_self_test, which      *)
(*     fails over to the other cards;                                      *)
(*   - live requests lease a card and generate on it;                      *)
(*   - the teardown of a faulted card (or the exit of a llama-server       *)
(*     child) invalidates its routes.                                      *)
(*                                                                         *)
(* A card's condition `card` is the environment's: "good" answers, "bad"   *)
(* does not, "flaky" either way, "busy" defers (its walk does not drain,   *)
(* or a load is in progress elsewhere).                                    *)
(***************************************************************************)
EXTENDS Naturals, FiniteSets, FiniteSetsExt

CONSTANTS Models, Gpus,       \* Gpus is a set of ordinals
          NoGpu,
          Preferred,          \* model -> the card inference_gpu_for_model falls back to
          Pinned,             \* cards pinned with --force-model
          Stagers,            \* models whose walk installer runs the self-test too
          LlamaOnly,          \* models no other engine than llama can load
          HasServer,          \* a llama-server binary is configured
          TransientFailures,  \* INPROCESS_TRANSIENT_FAILURES
          MaxTurns,           \* changes of a card's condition
          MaxRequests, MaxResets, MaxSwaps

VARIABLES books,     \* the proof tables, see Init
          claims,    \* card leases, probe flights, registered and newly spawned warmers
          thread,    \* the threads that run a self-test
          request,   \* one live request
          reset,     \* the teardown of a card
          card,      \* condition of every card
          left,      \* what the environment may still do
          hist       \* lost: routes invalidated and not proven since;
                     \* untraced: routes with no traced pass since the reset of their card

routes == <<books, claims, thread, request, reset, card, left, hist>>

Routes == Models \X Gpus
Threads == ({"warmer"} \X Models) \cup ({"stager"} \X Stagers)
Idle == [pc |-> "off", gpu |-> NoGpu, origin |-> NoGpu, todo |-> {}, deferred |-> FALSE, text |-> "none"]

Init ==
    /\ books = [proof |-> [r \in Routes |-> "none"],    \* self_test_state (+ self_test_failures)
                traced |-> {},                           \* traced_passed
                override |-> [m \in Models |-> NoGpu],   \* inference_gpu_overrides
                unavailable |-> {}, retired |-> {},
                strikes |-> [r \in Routes |-> 0]]        \* inprocess_failures
    /\ claims = [busy |-> {}, flights |-> {}, warmers |-> {}, spawned |-> Models]
    /\ thread = [t \in Threads |-> Idle]
    /\ request = [pc |-> "idle", model |-> CHOOSE m \in Models : TRUE, gpu |-> NoGpu, cards |-> {}]
    /\ reset = [pc |-> "idle", gpu |-> NoGpu, models |-> {}, model |-> CHOOSE m \in Models : TRUE, live |-> FALSE]
    /\ card = [g \in Gpus |-> "good"]
    /\ left = [turns |-> MaxTurns, requests |-> MaxRequests, resets |-> MaxResets, swaps |-> MaxSwaps]
    /\ hist = [lost |-> {}, untraced |-> Routes]

-----------------------------------------------------------------------------
(* The proof books *)

any_proven_route(m) == \E g \in Gpus : books.proof[m, g] = "pass"

model_serveable(m) == any_proven_route(m) /\ m \notin books.unavailable

model_serveable_on(m, g) == books.proof[m, g] = "pass" /\ m \notin books.unavailable

\* What ai:cap and the mining gates see (the wait-ready latch is WaitReady's).
Declared(m) == model_serveable(m) /\ m \notin books.retired

\* A plain answer proves nothing on a card without a traced pass.
record_serveable_on(b, m, g) ==
    IF <<m, g>> \in b.traced THEN [b EXCEPT !.proof[m, g] = "pass"] ELSE b

record_unserveable_on(b, m, g) == [b EXCEPT !.proof[m, g] = "fail"]

mark_model_available(b, m) == [b EXCEPT !.unavailable = @ \ {m}]
mark_model_unavailable(b, m) == [b EXCEPT !.unavailable = @ \cup {m}]

clear_self_test(b, m) ==
    [b EXCEPT !.traced = {r \in @ : r[1] # m},
              !.proof = [r \in Routes |-> IF r[1] = m THEN "none" ELSE @[r]]]

\* A failure on one card withdraws the model only when no card is proven.
FailedEverywhere(b, m, g) ==
    LET marked == record_unserveable_on(b, m, g)
    IN  IF \E h \in Gpus : marked.proof[m, h] = "pass" THEN marked ELSE mark_model_unavailable(marked, m)

proven_route_gpus(m) == {g \in Gpus : model_serveable_on(m, g)}

inference_gpu_for_model(m) ==
    IF books.override[m] # NoGpu THEN books.override[m]
    ELSE IF proven_route_gpus(m) # {} THEN Min(proven_route_gpus(m))
    ELSE Preferred[m]

\* Proven routes first; without any, every walk card.
eligible_cards(m) == IF proven_route_gpus(m) # {} THEN proven_route_gpus(m) ELSE Gpus

\* The 30 s cooldown of a failed probe ends.
Cool(r) ==
    /\ books.proof[r] = "fail"
    /\ books' = [books EXCEPT !.proof[r] = "cooled"]
    /\ UNCHANGED <<claims, thread, request, reset, card, left, hist>>

-----------------------------------------------------------------------------
(* One generation on a leased card: what it does to the books, and how it  *)
(* ends ("ok", "failed", "deferred").                                      *)

Ends(b, how) == [books |-> b, how |-> how]

\* refused for this request only: a retired model, an excluded card, a prompt that is too long
Refusal(m, g) == {Ends(books, "failed")}

\* a model being staged, a busy host-load gate or a walk that does not drain
Deferral(m, g) == {Ends(books, "deferred")}

Answers(b, m, g) == mark_model_available(record_serveable_on(b, m, g), m)

\* An answer of the in-process engine, also when the prompt did not fit it.
InProcess(m, g) ==
    {Ends([Answers(books, m, g) EXCEPT !.strikes[m, g] = 0], "ok")}

\* The first failures of a llama-only model are this request's alone.
Transient(m, g) ==
    IF m \in LlamaOnly /\ books.strikes[m, g] + 1 < TransientFailures
    THEN {Ends([books EXCEPT !.strikes[m, g] = @ + 1], "failed")}
    ELSE {}

\* A server child may die between its answer and the commit of its proof.
Server(m, g) ==
    IF HasServer THEN {Ends(Answers(books, m, g), "ok"), Ends(books, "ok")} ELSE {}

Struck(m, g) ==
    IF m \in LlamaOnly THEN [books EXCEPT !.strikes[m, g] = Min({@ + 1, TransientFailures})] ELSE books

\* The legacy engine is the last one: its failure is the card's.
Legacy(m, g) ==
    IF Transient(m, g) = {} THEN {Ends(FailedEverywhere(Struck(m, g), m, g), "failed")} ELSE {}

Generation(m, g) ==
    CASE m \in books.retired -> Refusal(m, g)
      [] card[g] = "busy"    -> Deferral(m, g)
      [] card[g] = "good"    -> InProcess(m, g)
      [] card[g] = "bad"     -> Transient(m, g) \cup Legacy(m, g)
      [] card[g] = "flaky"   -> InProcess(m, g) \cup Refusal(m, g) \cup Transient(m, g)
                                    \cup Server(m, g) \cup Legacy(m, g)

TracedPass(b, m, g) == record_serveable_on([b EXCEPT !.traced = @ \cup {<<m, g>>}], m, g)

traced_self_check_on(m, g) ==
    CASE m \in books.retired -> Refusal(m, g)
      [] card[g] = "busy"    -> Deferral(m, g)
      [] card[g] = "good"    -> {Ends(TracedPass(books, m, g), "ok")}
      [] card[g] = "bad"     -> Refusal(m, g)
      [] card[g] = "flaky"   -> {Ends(TracedPass(books, m, g), "ok")} \cup Refusal(m, g)

-----------------------------------------------------------------------------
(* run_inference_self_test, by a warmer or by the walk installer           *)

Goto(t, next) == thread' = [thread EXCEPT ![t] = next]

\* The self-test is over.
Return(t, outcome) == [thread[t] EXCEPT !.pc = outcome, !.todo = {}, !.text = "none"]

CachedPass(m, g) == books.proof[m, g] = "pass" /\ m \notin books.unavailable

TestStart(t) ==
    LET m == t[2]
        g == thread[t].gpu
    IN  /\ thread[t].pc = "test"
        /\ Goto(t, [thread[t] EXCEPT
                      !.origin = g,
                      !.pc = IF CachedPass(m, g) THEN "passed"
                             ELSE IF books.proof[m, g] = "fail" \/ m \in books.retired THEN "deferred"
                             ELSE "probe"])
        /\ UNCHANGED <<books, claims, request, reset, card, left, hist>>

\* A probe owns its flight and its card, or it defers.
ProbeEnter(t) ==
    LET m == t[2]
        g == thread[t].gpu
        wait == m \in books.retired \/ <<m, g>> \in claims.flights \/ g \in claims.busy
    IN  /\ thread[t].pc = "probe"
        /\ IF wait \/ model_serveable_on(m, g)
           THEN /\ Goto(t, [thread[t] EXCEPT !.pc = "verdict", !.text = IF wait THEN "deferred" ELSE "proven"])
                /\ UNCHANGED claims
           ELSE /\ Goto(t, [thread[t] EXCEPT !.pc = "plain"])
                /\ claims' = [claims EXCEPT !.flights = @ \cup {<<m, g>>}, !.busy = @ \cup {g}]
        /\ UNCHANGED <<books, request, reset, card, left, hist>>

ProbePlain(t) ==
    LET m == t[2]
        g == thread[t].gpu
    IN  /\ thread[t].pc = "plain"
        /\ \E e \in Generation(m, g) :
             /\ books' = e.books
             /\ hist' = [hist EXCEPT !.lost = IF e.books.proof[m, g] = "pass" THEN @ \ {<<m, g>>} ELSE @]
             /\ Goto(t, [thread[t] EXCEPT !.pc = IF e.how = "ok" THEN "traced" ELSE "settle", !.text = e.how])
        /\ UNCHANGED <<claims, request, reset, card, left>>

ProbeTraced(t) ==
    LET m == t[2]
        g == thread[t].gpu
    IN  /\ thread[t].pc = "traced"
        /\ \E e \in traced_self_check_on(m, g) :
             /\ books' = e.books
             /\ hist' = IF e.how = "ok" THEN [lost |-> hist.lost \ {<<m, g>>}, untraced |-> hist.untraced \ {<<m, g>>}]
                        ELSE hist
             /\ Goto(t, [thread[t] EXCEPT !.pc = "settle", !.text = e.how])
        /\ UNCHANGED <<claims, request, reset, card, left>>

\* The end of a probe: a failure is written while the card is still held.
ProbeSettle(t) ==
    LET m == t[2]
        g == thread[t].gpu
        ok == thread[t].text = "ok" /\ model_serveable_on(m, g)
        failed == ~ok /\ thread[t].text # "deferred"
    IN  /\ thread[t].pc = "settle"
        /\ books' = IF failed THEN record_unserveable_on(books, m, g) ELSE books
        /\ claims' = [claims EXCEPT !.flights = @ \ {<<m, g>>}, !.busy = @ \ {g}]
        /\ Goto(t, [thread[t] EXCEPT !.pc = "verdict",
                                     !.text = IF failed THEN "failed" ELSE IF ok THEN "proven" ELSE "deferred"])
        /\ UNCHANGED <<request, reset, card, left, hist>>

\* The failover goes on to the next card, or the test is judged.
NextCard(th) ==
    IF th.todo = {} THEN [th EXCEPT !.pc = "judge"]
    ELSE [th EXCEPT !.pc = "probe", !.gpu = Min(th.todo), !.todo = @ \ {Min(@)}]

set_inference_override_if_proven(m, g) ==
    IF model_serveable_on(m, g) THEN [books EXCEPT !.override[m] = g] ELSE books

Verdict(t) ==
    LET m == t[2]
        th == thread[t]
        first == th.gpu = th.origin
        others == IF th.origin \in Pinned THEN {} ELSE Gpus \ {th.origin}
        moved == set_inference_override_if_proven(m, th.gpu)
    IN  /\ th.pc = "verdict"
        /\ \/ /\ first /\ th.text \in {"deferred", "proven"}
              /\ Goto(t, Return(t, IF th.text = "proven" THEN "passed" ELSE "deferred"))
              /\ UNCHANGED books
           \/ /\ first /\ th.text = "failed"
              /\ Goto(t, NextCard([th EXCEPT !.todo = others]))
              /\ UNCHANGED books
           \/ /\ ~first /\ th.text = "proven"
              /\ books' = moved
              /\ Goto(t, IF moved.override[m] = th.gpu THEN Return(t, "passed") ELSE NextCard(th))
           \/ /\ ~first /\ th.text \in {"deferred", "failed"}
              /\ Goto(t, NextCard([th EXCEPT !.deferred = @ \/ th.text = "deferred"]))
              /\ UNCHANGED books
        /\ UNCHANGED <<claims, request, reset, card, left, hist>>

\* No card passed: another one may have been proven meanwhile.
Judge(t) ==
    LET m == t[2]
    IN  /\ thread[t].pc = "judge"
        /\ Goto(t, IF model_serveable(m) THEN Return(t, "passed")
                   ELSE IF thread[t].deferred THEN Return(t, "deferred")
                   ELSE [thread[t] EXCEPT !.pc = "withdraw"])
        /\ UNCHANGED <<books, claims, request, reset, card, left, hist>>

Withdraw(t) ==
    /\ thread[t].pc = "withdraw"
    /\ books' = mark_model_unavailable(books, t[2])
    /\ Goto(t, Return(t, "failed"))
    /\ UNCHANGED <<claims, request, reset, card, left, hist>>

SelfTest(t) ==
    TestStart(t) \/ ProbeEnter(t) \/ ProbePlain(t) \/ ProbeTraced(t) \/ ProbeSettle(t)
        \/ Verdict(t) \/ Judge(t) \/ Withdraw(t)

-----------------------------------------------------------------------------
(* The threads that run it *)

\* One warmer per model: a second one finds the first registered and ends.
WarmerClaim(m) ==
    LET t == <<"warmer", m>>
    IN  /\ m \in claims.spawned
        /\ claims' = [claims EXCEPT !.spawned = @ \ {m}, !.warmers = @ \cup {m}]
        /\ IF m \in claims.warmers THEN UNCHANGED thread
           ELSE Goto(t, [Idle EXCEPT !.pc = "top", !.gpu = inference_gpu_for_model(m)])
        /\ UNCHANGED <<books, request, reset, card, left, hist>>

WarmerTop(m) ==
    LET t == <<"warmer", m>>
    IN  /\ thread[t].pc = "top"
        /\ Goto(t, [thread[t] EXCEPT !.pc = IF m \in books.retired THEN "leave" ELSE "test"])
        /\ UNCHANGED <<books, claims, request, reset, card, left, hist>>

\* The registration is dropped only after the warmer decided to stop.
WarmerLeave(m) ==
    LET t == <<"warmer", m>>
    IN  /\ thread[t].pc = "leave"
        /\ Goto(t, Idle)
        /\ claims' = [claims EXCEPT !.warmers = @ \ {m}]
        /\ UNCHANGED <<books, request, reset, card, left, hist>>

\* A deferral keeps the card; any other verdict resolves the placement again.
WarmerSleep(m) ==
    LET t == <<"warmer", m>>
    IN  /\ thread[t].pc \in {"passed", "failed", "deferred"}
        /\ Goto(t, [Idle EXCEPT !.pc = "top",
                                !.gpu = IF thread[t].pc = "deferred" THEN thread[t].origin
                                        ELSE inference_gpu_for_model(m)])
        /\ UNCHANGED <<books, claims, request, reset, card, left, hist>>

\* The walk installer tests the card that serves the model of its own card.
StagerStart(m) ==
    LET t == <<"stager", m>>
    IN  /\ m \in Stagers /\ thread[t].pc = "off"
        /\ Goto(t, [Idle EXCEPT !.pc = "test", !.gpu = inference_gpu_for_model(m)])
        /\ left.requests > 0
        /\ left' = [left EXCEPT !.requests = @ - 1]
        /\ UNCHANGED <<books, claims, request, reset, card, hist>>

StagerEnd(m) ==
    LET t == <<"stager", m>>
    IN  /\ thread[t].pc \in {"passed", "failed", "deferred"}
        /\ books' = IF thread[t].pc = "failed" /\ ~model_serveable(m)
                    THEN mark_model_unavailable(books, m) ELSE books
        /\ Goto(t, Idle)
        /\ UNCHANGED <<claims, request, reset, card, left, hist>>

ThreadStep(t) ==
    \/ SelfTest(t)
    \/ t[1] = "warmer" /\ (WarmerTop(t[2]) \/ WarmerLeave(t[2]) \/ WarmerSleep(t[2]))
    \/ t[1] = "stager" /\ StagerEnd(t[2])

-----------------------------------------------------------------------------
(* Live requests *)

\* The ranking is resolved once; the busy flags are tried at every wake.
RequestArrives(m) ==
    /\ request.pc = "idle" /\ left.requests > 0
    /\ model_serveable(m)
    /\ request' = [pc |-> "queued", model |-> m, gpu |-> NoGpu, cards |-> eligible_cards(m)]
    /\ left' = [left EXCEPT !.requests = @ - 1]
    /\ UNCHANGED <<books, claims, thread, reset, card, hist>>

try_claim_card(g) ==
    /\ request.pc = "queued" /\ g \in request.cards \ claims.busy
    /\ request' = [request EXCEPT !.pc = "leased", !.gpu = g]
    /\ claims' = [claims EXCEPT !.busy = @ \cup {g}]
    /\ UNCHANGED <<books, thread, reset, card, left, hist>>

\* A plain answer, or a traced one (which proves no more than a plain one).
RequestServed ==
    /\ request.pc = "leased"
    /\ \E e \in Generation(request.model, request.gpu) :
         /\ books' = e.books
         /\ hist' = [hist EXCEPT !.lost = IF e.books.proof[request.model, request.gpu] = "pass"
                                          THEN @ \ {<<request.model, request.gpu>>} ELSE @]
    /\ claims' = [claims EXCEPT !.busy = @ \ {request.gpu}]
    /\ request' = [request EXCEPT !.pc = "idle", !.gpu = NoGpu, !.cards = {}]
    /\ UNCHANGED <<thread, reset, card, left>>

\* The deadline of a request nobody leased a card for.
RequestGivesUp ==
    /\ request.pc = "queued"
    /\ request' = [request EXCEPT !.pc = "idle", !.cards = {}]
    /\ UNCHANGED <<books, claims, thread, reset, card, left, hist>>

-----------------------------------------------------------------------------
(* A faulted card: its routes go, and the models left without any are      *)
(* withdrawn; the books are visited one lock at a time.                    *)

ResetProofs(g) ==
    /\ reset.pc = "idle" /\ left.resets > 0
    /\ left' = [left EXCEPT !.resets = @ - 1]
    /\ books' = [books EXCEPT !.proof = [r \in Routes |-> IF r[2] = g THEN "none" ELSE @[r]]]
    /\ reset' = [reset EXCEPT !.pc = "overrides", !.gpu = g,
                              !.models = {m \in Models : books.proof[m, g] # "none"}]
    /\ hist' = [lost |-> hist.lost \cup {r \in Routes : r[2] = g},
                untraced |-> hist.untraced \cup {r \in Routes : r[2] = g}]
    /\ UNCHANGED <<claims, thread, request, card>>

ResetOverrides ==
    LET moved == {m \in Models : books.override[m] = reset.gpu}
    IN  /\ reset.pc = "overrides"
        /\ books' = [books EXCEPT !.override = [m \in Models |-> IF m \in moved THEN NoGpu ELSE @[m]]]
        /\ reset' = [reset EXCEPT !.pc = "next", !.models = @ \cup moved]
        /\ UNCHANGED <<claims, thread, request, card, left, hist>>

ResetNext ==
    /\ reset.pc = "next"
    /\ reset' = IF reset.models = {} THEN [reset EXCEPT !.pc = "idle", !.gpu = NoGpu, !.live = FALSE]
                ELSE LET m == CHOOSE m \in reset.models : TRUE
                     IN  [reset EXCEPT !.pc = "mark", !.model = m, !.models = @ \ {m}, !.live = any_proven_route(m)]
    /\ UNCHANGED <<books, claims, thread, request, card, left, hist>>

ResetMark ==
    /\ reset.pc = "mark"
    /\ books' = IF reset.live THEN mark_model_available(books, reset.model)
                ELSE mark_model_unavailable(books, reset.model)
    /\ reset' = [reset EXCEPT !.pc = "next", !.live = FALSE]
    /\ UNCHANGED <<claims, thread, request, card, left, hist>>

ResetStep == ResetOverrides \/ ResetNext \/ ResetMark

\* The walk of the only card that mines m ran out of memory.
WalkOom(m) ==
    /\ left.resets > 0
    /\ left' = [left EXCEPT !.resets = @ - 1]
    /\ books' = clear_self_test(mark_model_unavailable(books, m), m)
    /\ UNCHANGED <<claims, thread, request, reset, card, hist>>

-----------------------------------------------------------------------------
(* Era gate: a model is retired, or a swap back un-retires it and spawns   *)
(* a warmer for it.                                                        *)

Retire(m) ==
    /\ left.swaps > 0 /\ m \notin books.retired
    /\ left' = [left EXCEPT !.swaps = @ - 1]
    /\ books' = [mark_model_unavailable(clear_self_test(books, m), m)
                   EXCEPT !.retired = @ \cup {m}, !.override[m] = NoGpu]
    /\ UNCHANGED <<claims, thread, request, reset, card, hist>>

SwapBack(m) ==
    /\ left.swaps > 0 /\ m \in books.retired
    /\ left' = [left EXCEPT !.swaps = @ - 1]
    /\ books' = [mark_model_available(books, m) EXCEPT !.retired = @ \ {m}]
    /\ claims' = [claims EXCEPT !.spawned = @ \cup {m}]
    /\ UNCHANGED <<thread, request, reset, card, hist>>

CardTurns(g) ==
    /\ left.turns > 0
    /\ \E c \in {"good", "bad", "flaky", "busy"} \ {card[g]} : card' = [card EXCEPT ![g] = c]
    /\ left' = [left EXCEPT !.turns = @ - 1]
    /\ UNCHANGED <<books, claims, thread, request, reset, hist>>

Next ==
    \/ \E t \in Threads : ThreadStep(t)
    \/ \E m \in Models : WarmerClaim(m) \/ StagerStart(m) \/ RequestArrives(m) \/ WalkOom(m) \/ Retire(m) \/ SwapBack(m)
    \/ \E g \in Gpus : try_claim_card(g) \/ ResetProofs(g) \/ CardTurns(g)
    \/ \E r \in Routes : Cool(r)
    \/ RequestServed \/ RequestGivesUp \/ ResetStep

Spec == Init /\ [][Next]_routes

\* Threads run, cooldowns end; what the environment does is never required.
Fairness ==
    /\ \A t \in Threads : WF_routes(ThreadStep(t))
    /\ \A m \in Models : WF_routes(WarmerClaim(m))
    /\ \A r \in Routes : WF_routes(Cool(r))
    /\ WF_routes(RequestServed \/ RequestGivesUp)
    /\ WF_routes(ResetStep)

FairSpec == Spec /\ Fairness

-----------------------------------------------------------------------------
TypeOK ==
    /\ books.proof \in [Routes -> {"none", "pass", "fail", "cooled"}]
    /\ books.traced \subseteq Routes
    /\ books.override \in [Models -> Gpus \cup {NoGpu}]
    /\ books.unavailable \subseteq Models /\ books.retired \subseteq Models
    /\ claims.busy \subseteq Gpus /\ claims.flights \subseteq Routes /\ claims.warmers \subseteq Models

(* A failover override never outlives the invalidation of the route it     *)
(* points at: set_inference_override_if_proven and the teardown of a card  *)
(* leave no stale override behind, whichever comes first.                  *)
NoOverrideToALostRoute ==
    \A r \in Routes : books.override[r[1]] = r[2] /\ reset.pc \in {"idle", "next", "mark"} => r \notin hist.lost

(* A proven route passed the traced self-check after the last reset of its *)
(* card: a plain answer is no proof that the card can serve the tier.      *)
ProvenByTrace ==
    \A r \in Routes : books.proof[r] = "pass" => r \notin hist.untraced

(* A model that some card can answer, that is not retired and that has its *)
(* warmer, is declared again and again once the cards settle: neither a    *)
(* failed probe, a reset, a race of the two, nor an era swap withdraws it  *)
(* for ever.                                                               *)
Settled == (\E g \in Gpus : card[g] = "good") /\ (\A g \in Gpus : card[g] # "busy")
ServedAgain ==
    \A m \in Models :
        <>[](Settled /\ m \notin books.retired /\ m \in claims.warmers) => []<>Declared(m)

(* A model that is back in the lineup keeps a durable warmer.              *)
WarmerSurvivesSwap ==
    \A m \in Models : <>[](m \notin books.retired) => <>[](m \in claims.warmers)
=============================================================================
