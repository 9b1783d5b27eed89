----------------------------- MODULE MCGpuCard -----------------------------
(* The cards: GpuCard, and beside it the OpenCL backend, llama-server, the *)
(* serving routes and the autotune, each on a small instance of its own.   *)
(* `part' names the one that moves, the others stay as they begin.         *)
(* GpuCard has one inference thread here; the bounds of the others are in  *)
(* their INSTANCEs.                                                        *)
EXTENDS GpuCard

VARIABLES
    part,
    place, count, setup, uploading, walks, arcs, miner_lock, vulkan_failed, shared, refused,
    index, dedicated, vulkan, engine_lock, inflight, loaded, evicted, w, q, served, faults,
    available, port, pid, generation, exiting, identity, child, monitor, was_up, taken, rx,
    proofs, owed, unfit, caller, calls,
    books, claims, thread, request, reset, card, left, hist,
    tuner, tuned, done, profiles, gate, installed, file, lockfile, saved, failed

cards == <<place, count, setup, uploading, walks, arcs, miner_lock, vulkan_failed, shared, refused,
           index, dedicated, vulkan, engine_lock, inflight, loaded, evicted, w, q, served, faults>>
server == <<available, port, pid, generation, exiting, identity, child, monitor, was_up, taken, rx,
            proofs, owed, unfit, caller, calls>>
routes == <<books, claims, thread, request, reset, card, left, hist>>
tunes == <<tuner, tuned, done, profiles, gate, installed, file, lockfile, saved, failed>>

-----------------------------------------------------------------------------
(* The engine fits beside the walk or not, with or without zero-dup, on a  *)
(* card of the miner or on one outside.                                    *)
Placement(required, pinned, pci, target, policy) ==
    [required |-> required, pinned |-> pinned, pci |-> pci, target |-> target, policy |-> policy]

OpenCl == INSTANCE OpenClCard WITH
    Cards <- {"a"}, Models <- {"m1"}, Mined <- "m1", None <- "none", HasServer <- TRUE,
    Placements <- {Placement(FALSE, FALSE, TRUE, "a", TRUE),
                   Placement(FALSE, FALSE, TRUE, "a", FALSE),
                   Placement(TRUE, FALSE, TRUE, "a", TRUE),
                   Placement(TRUE, FALSE, TRUE, "a", FALSE),
                   Placement(TRUE, FALSE, FALSE, "a", TRUE),
                   Placement(TRUE, TRUE, TRUE, "none", TRUE),
                   Placement(TRUE, FALSE, TRUE, "none", TRUE)},
    MaxRequests <- 2, MaxFaults <- 1,
    pause <- count, installing <- uploading, resident <- walks, engine <- vulkan, server <- loaded

Server == INSTANCE LlamaServer WITH
    Routes <- {"r1", "r2"}, None <- "none", MaxStarts <- 2, MaxCalls <- 4, evicted <- unfit, c <- caller

(* One model on two cards: its warmer against a request and the reset of   *)
(* a card whose condition changes; then with a walk installer that runs    *)
(* the self-test too.                                                      *)
Routing == INSTANCE ServingRoutes WITH
    Models <- {"m1"}, Gpus <- {0, 1}, NoGpu <- 9, Preferred <- [m \in {"m1"} |-> 0], Pinned <- {},
    Stagers <- {}, LlamaOnly <- {"m1"}, HasServer <- TRUE, TransientFailures <- 2,
    MaxTurns <- 1, MaxRequests <- 1, MaxResets <- 1, MaxSwaps <- 0
Staging == INSTANCE ServingRoutes WITH
    Models <- {"m1"}, Gpus <- {0, 1}, NoGpu <- 9, Preferred <- [m \in {"m1"} |-> 0], Pinned <- {},
    Stagers <- {"m1"}, LlamaOnly <- {"m1"}, HasServer <- TRUE, TransientFailures <- 2,
    MaxTurns <- 0, MaxRequests <- 0, MaxResets <- 1, MaxSwaps <- 2

(* Three cards, two of them identical; one walk kind is rejected. *)
ProfileOf(c) == IF c = "c3" THEN "k2" ELSE "k1"

Tunes == INSTANCE Autotune WITH
    Cards <- {"c1", "c2", "c3"}, Keys <- {"k1", "k2"}, Profile <- ProfileOf, None <- "none",
    Candidates <- {"classic", "ncf"}, Inexact <- {"ncf"}, SmallRig <- 2, LargeRigJobs <- 2,
    Forced <- TRUE, StaleLock <- FALSE, MaxErrors <- 1, faults <- failed

-----------------------------------------------------------------------------
InCard == part = "card"
InOpenCl == part = "opencl"
InServer == part = "server"
InRouting == part = "routing"
InStaging == part = "staging"
InTunes == part = "tunes"

CardsInit ==
    /\ part \in {"card", "opencl", "server", "routing", "staging", "tunes"}
    /\ Init /\ OpenCl!Init /\ Server!Init /\ Tunes!Init
    /\ IF InStaging THEN Staging!Init ELSE Routing!Init
    /\ ~InCard => model = CHOOSE m \in Models : TRUE
    /\ ~InOpenCl => ~place.required /\ place.policy
    /\ ~InTunes => \A k \in {"k1", "k2"} : file[k] = "none"

(* Jobs, requests and calls are bounded, so a part may come to an end. *)
CardsNext ==
    /\ UNCHANGED part
    /\ \/ InCard /\ UNCHANGED <<cards, server, routes, tunes>> /\ Next
       \/ InOpenCl /\ UNCHANGED <<vars, server, routes, tunes>> /\ OpenCl!Next
       \/ InServer /\ UNCHANGED <<vars, cards, routes, tunes>> /\ Server!Next
       \/ InRouting /\ UNCHANGED <<vars, cards, server, tunes>> /\ Routing!Next
       \/ InStaging /\ UNCHANGED <<vars, cards, server, tunes>> /\ Staging!Next
       \/ InTunes /\ UNCHANGED <<vars, cards, server, routes>> /\ Tunes!Next

CardsSpec == CardsInit /\ [][CardsNext]_<<part, vars, cards, server, routes, tunes>>

(* The fairness of the parts. *)
CardsFairness ==
    /\ WF_vars(InCard /\ WorkerStep)
    /\ \A c \in Clients : WF_vars(InCard /\ pc[c] # "idle" /\ ClientStep(c))
    /\ WF_cards(InOpenCl /\ OpenCl!WalkStep("a")) /\ WF_cards(InOpenCl /\ OpenCl!RequestStep)
    /\ WF_server(InServer /\ Server!CallerStep) /\ WF_server(InServer /\ Server!MonitorStep)
    /\ WF_server(InServer /\ ~rx /\ Server!MonitorAbandons)
    /\ \A t \in Routing!Threads : WF_routes(InRouting /\ Routing!ThreadStep(t))
    /\ \A t \in Staging!Threads : WF_routes(InStaging /\ Staging!ThreadStep(t))
    /\ WF_routes(\/ InRouting /\ Routing!WarmerClaim("m1")
                 \/ InStaging /\ Staging!WarmerClaim("m1"))
    /\ \A g \in {0, 1} : WF_routes(\/ InRouting /\ Routing!Cool(<<"m1", g>>)
                                   \/ InStaging /\ Staging!Cool(<<"m1", g>>))
    /\ WF_routes(\/ InRouting /\ (Routing!RequestServed \/ Routing!RequestGivesUp)
                 \/ InStaging /\ (Staging!RequestServed \/ Staging!RequestGivesUp))
    /\ WF_routes(\/ InRouting /\ Routing!ResetStep
                 \/ InStaging /\ Staging!ResetStep)
    /\ \A c \in {"c1", "c2", "c3"} : WF_tunes(InTunes /\ Tunes!Step(c))

FairCardsSpec == CardsSpec /\ CardsFairness

-----------------------------------------------------------------------------
\* On the AMD backend too a drained request has the cards for itself; and among the
\* cards that tune, each profile is measured by one, no rejected kernel is kept, and
\* no saved profile is lost to another saver (pom_opencl.rs, v4_autotune).
CardsAreExclusive ==
    OpenCl!CardIsExclusive /\ Tunes!TuneBooks /\ Tunes!TunedIsExact /\ Tunes!SavedTunesKept

\* A server operation that looked at the server and reports failure leaves no child on
\* the card, which a start denied by an eviction does not do; and no model is overridden
\* to a route lost since (llama_vulkan.rs, set_inference_override_if_proven).
RoutesAreOwned ==
    /\ Server!FalseMeansFree
    /\ Routing!NoOverrideToALostRoute

\* A request that claimed a card gives it back, and a started install transaction
\* ends: the drain, the barrier and the engine's mutex never wait in a circle.
RequestsAndInstallsEnd == RequestEnds /\ InstallEnds

\* The pause of an OpenCL request is taken back; every call to llama-server returns,
\* and a commit is recorded for the server that is up; a model that some card can
\* serve is declared again; every card gets its tune.
ServingSettles ==
    /\ OpenCl!PauseEnds /\ Server!EveryCallReturns /\ Server!CommitIsOwned
    /\ Routing!ServedAgain
    /\ []<>(InTunes => \A c \in {"c1", "c2", "c3"} : c \in done)

=============================================================================
