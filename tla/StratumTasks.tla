---------------------------- MODULE StratumTasks ----------------------------
(***************************************************************************)
(* Inference for the pool: requests that arrive on a Stratum connection    *)
(* and run detached from it.  A registry of the process lets one flight    *)
(* per content lead and later requests for the same content follow it,     *)
(* also those of a connection made since; tasks attached to jobs have a    *)
(* cache and a set of markers per connection besides.                      *)
(*                                                                         *)
(* Each flight (the spawned task of a leader) and each follower is a       *)
(* process.  The watch channel between them is what WatchChannel proves of *)
(* such channels elsewhere: an outcome, once there, stays and is seen.     *)
(***************************************************************************)
EXTENDS Integers, Sequences, FiniteSets

CONSTANTS
    Challenges,     \* contents of challenges
    Chats,          \* contents of interactive requests
    Tasks,          \* contents of tasks attached to jobs (AiTask)
    FollowerCap,    \* MAX_FOLLOWERS_PER_TASK
    FlightCap,      \* MAX_DETACHED_INFERENCE_TASKS
    TableCap,       \* MAX_REPLAYED_RESULTS + MAX_DETACHED_INFERENCE_TASKS
    ResultCap,      \* MAX_INFERENCE_CACHE_RESULTS
    MaxFlights, MaxFollowers, MaxConns  \* bounds

VARIABLES
    gen,        \* the connection in use
    tasks,      \* detached_inference_tasks: key -> flight and followers
    flights,    \* the leaders: key, connection, stage, published outcome
    followers,  \* the followers: flight, connection, stage
    cache       \* InferenceCache of each connection: results, in_progress

vars == <<gen, tasks, flights, followers, cache>>

Keys == Challenges \cup Chats \cup Tasks
Pending == "pending"
Retryable == {"none", "busy", "failed"}

Without(f, k) == [i \in DOMAIN f \ {k} |-> f[i]]
With(f, k, v) == [i \in DOMAIN f \cup {k} |-> IF i = k THEN v ELSE f[i]]

KeyOf(w) == flights[followers[w].flight].key
Outcome(entry) == flights[entry.flight].outcome

Init ==
    /\ gen = 1
    /\ tasks = << >>
    /\ flights = << >>
    /\ followers = << >>
    /\ cache = [c \in 1..MaxConns |-> [results |-> {}, in_progress |-> {}]]

-----------------------------------------------------------------------------
(* DetachedTaskAdmission::reserve                                          *)

\* the content is in flight, or its outcome can be replayed
Joins(k) == k \in DOMAIN tasks /\ Outcome(tasks[k]) \notin Retryable

HasRoom(k) ==
    LET total[ks \in SUBSET DOMAIN tasks] ==
          IF ks = {} THEN 0
          ELSE LET x == CHOOSE x \in ks : TRUE
               IN  tasks[x].followers + total[ks \ {x}]
    IN  tasks[k].followers < FollowerCap /\ total[DOMAIN tasks] < FlightCap

\* a failed outcome is forgotten
Forgotten(k) == Without(tasks, k)

\* the tables a new flight may enter: there is a limit on flights under way,
\* and a full table gives up a completed outcome that nobody follows
Admits(t) ==
    IF Cardinality({x \in DOMAIN t : Outcome(t[x]) = Pending}) >= FlightCap THEN {}
    ELSE IF Cardinality(DOMAIN t) < TableCap THEN {t}
    ELSE {Without(t, old) : old \in {x \in DOMAIN t : /\ Outcome(t[x]) # Pending
                                                      /\ t[x].followers = 0}}

Lead(k) ==
    /\ ~Joins(k) /\ Len(flights) < MaxFlights
    /\ \E t \in Admits(Forgotten(k)) :
          tasks' = With(t, k, [flight |-> Len(flights) + 1, followers |-> 0])
    /\ flights' = Append(flights, [key |-> k, conn |-> gen, stage |-> "waiting",
                                   outcome |-> Pending])
    /\ UNCHANGED <<gen, followers>>

Follow(k) ==
    /\ Joins(k) /\ HasRoom(k) /\ Len(followers) < MaxFollowers
    /\ tasks' = [tasks EXCEPT ![k].followers = @ + 1]
    /\ followers' = Append(followers, [flight |-> tasks[k].flight, conn |-> gen,
                                       stage |-> "waiting"])
    /\ UNCHANGED <<gen, flights>>

\* AdmissionError::Full: the request is answered busy, or a task skipped
Full(k) ==
    /\ IF Joins(k) THEN ~HasRoom(k) /\ UNCHANGED tasks
       ELSE Admits(Forgotten(k)) = {} /\ tasks' = Forgotten(k)
    /\ UNCHANGED <<gen, flights, followers, cache>>

-----------------------------------------------------------------------------
(* The handlers of the read loop.                                          *)

\* the reply of a request that is not admitted, led or followed is at once
handle_challenge(k) ==
    \/ (Lead(k) \/ Follow(k)) /\ UNCHANGED cache
    \/ Full(k)

handle_inference_request(k) ==
    \/ (Lead(k) \/ Follow(k)) /\ UNCHANGED cache
    \/ Full(k)

\* a content whose result or marker this connection has is
\* left alone, otherwise it is marked before it is admitted
handle_ai_task(k) ==
    /\ k \notin cache[gen].results \cup cache[gen].in_progress
    /\ Cardinality(cache[gen].in_progress) < FlightCap
    /\ \/ /\ Lead(k) \/ Follow(k)
          /\ cache' = [cache EXCEPT ![gen].in_progress = @ \cup {k}]
       \/ Full(k)

\* the connection is lost and another one made; its cache is empty, detached
\* work of the old one goes on
Reconnect ==
    /\ gen < MaxConns
    /\ gen' = gen + 1
    /\ UNCHANGED <<tasks, flights, followers, cache>>

-----------------------------------------------------------------------------
(* A flight.                                                               *)

Stage(f, from, to) ==
    /\ flights[f].stage = from
    /\ flights' = [flights EXCEPT ![f].stage = to]
    /\ UNCHANGED <<gen, tasks, followers, cache>>

Publish(f, from, to, outcome) ==
    /\ flights[f].stage = from
    /\ flights' = [flights EXCEPT ![f].stage = to, ![f].outcome = outcome]
    /\ UNCHANGED <<gen, tasks, followers>>

\* acquire_inference_card_async ran into its deadline
NoCard(f) ==
    /\ flights[f].key \notin Tasks
    /\ Publish(f, "waiting", "published", "busy")
    /\ UNCHANGED cache

TaskNoCard(f) ==
    /\ flights[f].key \in Tasks
    /\ Publish(f, "waiting", "published", "none")
    /\ UNCHANGED cache

Run(f) == Stage(f, "waiting", "running")

\* the generation answers, is deferred or fails (a panic included)
Generated(f) ==
    /\ flights[f].key \notin Tasks
    /\ \E outcome \in {"some", "busy", "none"} : Publish(f, "running", "published", outcome)
    /\ UNCHANGED cache

\* run_inference_and_upload: the text of a task goes on to be uploaded,
\* everything else is published
TaskGenerated(f) ==
    /\ flights[f].key \in Tasks
    /\ \/ Stage(f, "running", "uploading")
       \/ /\ \E outcome \in {"busy", "none"} : Publish(f, "running", "published", outcome)
          /\ UNCHANGED cache

Uploaded(f) ==
    /\ \E outcome \in {"some", "none"} : Publish(f, "uploading", "published", outcome)
    /\ UNCHANGED cache

\* removing a marker (InProgressCleanup and the other paths)
Unmark(c, k) == cache' = [cache EXCEPT ![c].in_progress = @ \ {k}]

\* a panic in the upload: the guards drop, the marker's first and then the
\* publisher's, which publishes a failure
UploadPanics(f) ==
    /\ Publish(f, "uploading", "done", "failed")
    /\ Unmark(flights[f].conn, flights[f].key)

\* the result is kept for the shares of the connection that asked, and one
\* of the others given up when there are too many
Kept(results, k) ==
    IF Cardinality(results) >= ResultCap /\ k \notin results
    THEN {(results \ {old}) \cup {k} : old \in results}
    ELSE {results \cup {k}}

KeepResult(f) ==
    LET c == flights[f].conn
        k == flights[f].key
    IN  /\ k \in Tasks /\ flights[f].stage = "published" /\ flights[f].outcome = "some"
        /\ \E results \in Kept(cache[c].results, k) :
              cache' = [cache EXCEPT ![c].results = results]
        /\ flights' = [flights EXCEPT ![f].stage = "kept"]
        /\ UNCHANGED <<gen, tasks, followers>>

\* the reply goes out, on the connection that asked if it still is there
Replied(f) ==
    flights[f].key \notin Tasks /\ Stage(f, "published", "done")

\* variant: a task without a result leaves its marker
FinishKept(f) ==
    /\ flights[f].stage = "kept"
    /\ flights' = [flights EXCEPT ![f].stage = "done"]
    /\ Unmark(flights[f].conn, flights[f].key)
    /\ UNCHANGED <<gen, tasks, followers>>

\* the task ends and its marker is removed
Finish(f) ==
    /\ flights[f].key \in Tasks
    /\ \/ flights[f].stage = "kept"
       \/ flights[f].stage = "published" /\ flights[f].outcome # "some"
    /\ flights' = [flights EXCEPT ![f].stage = "done"]
    /\ Unmark(flights[f].conn, flights[f].key)
    /\ UNCHANGED <<gen, tasks, followers>>

FlightStep(f) ==
    \/ NoCard(f) \/ TaskNoCard(f) \/ Run(f) \/ Generated(f) \/ TaskGenerated(f)
    \/ Uploaded(f) \/ UploadPanics(f) \/ KeepResult(f) \/ Replied(f) \/ Finish(f)

-----------------------------------------------------------------------------
(* A follower.                                                             *)

\* await_detached_outcome has the outcome of the flight it subscribed to
Wake(w) ==
    /\ followers[w].stage = "waiting"
    /\ flights[followers[w].flight].outcome # Pending
    /\ followers' = [followers EXCEPT ![w].stage = "woken"]
    /\ UNCHANGED <<gen, tasks, flights, cache>>

\* DetachedTaskFollower::drop: whatever flight has the key by now is counted down
Release(w) ==
    /\ followers[w].stage = "woken"
    /\ followers' = [followers EXCEPT ![w].stage = "released"]
    /\ tasks' = IF KeyOf(w) \in DOMAIN tasks
                THEN [tasks EXCEPT ![KeyOf(w)].followers = IF @ = 0 THEN 0 ELSE @ - 1]
                ELSE tasks
    /\ UNCHANGED <<gen, flights, cache>>

\* the reply, or the result kept and the marker removed in one go
Answer(w) ==
    LET c == followers[w].conn
        k == KeyOf(w)
        ok == k \in Tasks /\ flights[followers[w].flight].outcome = "some"
    IN  /\ followers[w].stage = "released"
        /\ followers' = [followers EXCEPT ![w].stage = "done"]
        /\ \E results \in IF ok THEN Kept(cache[c].results, k) ELSE {cache[c].results} :
              cache' = [cache EXCEPT ![c] = [results |-> results,
                                             in_progress |-> @.in_progress \ {k}]]
        /\ UNCHANGED <<gen, tasks, flights>>

FollowerStep(w) == Wake(w) \/ Release(w) \/ Answer(w)

Next ==
    \/ \E k \in Challenges : handle_challenge(k)
    \/ \E k \in Chats : handle_inference_request(k)
    \/ \E k \in Tasks : handle_ai_task(k)
    \/ Reconnect
    \/ \E f \in DOMAIN flights : FlightStep(f)
    \/ \E w \in DOMAIN followers : FollowerStep(w)

\* the runtime runs every task: leases and generations have deadlines
Fairness ==
    /\ \A f \in 1..MaxFlights : WF_vars(f \in DOMAIN flights /\ FlightStep(f))
    /\ \A w \in 1..MaxFollowers : WF_vars(w \in DOMAIN followers /\ FollowerStep(w))

Spec == Init /\ [][Next]_vars
FairSpec == Spec /\ Fairness

-----------------------------------------------------------------------------
Live(f) == flights[f].stage # "done"
LiveFollower(w) == followers[w].stage # "done"

\* One generation per content: no two flights of the same content are under
\* way, over all connections (the single-flight registry).
OneFlightPerContent ==
    \A f, g \in DOMAIN flights :
      f # g /\ flights[f].key = flights[g].key
        => flights[f].outcome # Pending \/ flights[g].outcome # Pending

\* A count of followers is never higher than the followers there are, so that
\* a content cannot stay "full" for good; lower it can be, when a follower of
\* a failed flight leaves after the content was reserved again.
FollowersNotLeaked ==
    \A k \in DOMAIN tasks :
      tasks[k].followers <=
        Cardinality({w \in DOMAIN followers :
                       /\ followers[w].flight = tasks[k].flight
                       /\ followers[w].stage \in {"waiting", "woken"}})

\* A marker stands for exactly one task that will remove it: none is left over
\* to make every later dispatch of the content be skipped.
MarkersAreWork ==
    \A c \in 1..MaxConns, k \in Tasks :
      k \in cache[c].in_progress <=>
        Cardinality({<<1, f>> : f \in {g \in DOMAIN flights :
                       Live(g) /\ flights[g].conn = c /\ flights[g].key = k}}
          \cup {<<2, w>> : w \in {x \in DOMAIN followers :
                       LiveFollower(x) /\ followers[x].conn = c /\ KeyOf(x) = k}}) = 1

TaskBooksHold == OneFlightPerContent /\ FollowersNotLeaked /\ MarkersAreWork

\* When the marker of an answered task goes, its result is there for the next
\* share of that connection: there is no moment at which the same job would
\* start the generation again (run_inference_and_upload, the follower).
ClearedMeansKept ==
    [][\A f \in DOMAIN flights :
         LET c == flights[f].conn
             k == flights[f].key
         IN  k \in Tasks /\ flights[f].outcome = "some" /\ Live(f)
               /\ k \in cache[c].in_progress /\ k \notin cache'[c].in_progress
             => k \in cache'[c].results]_vars

\* Every marker is removed and every follower answered in the end, also when
\* its flight panics, is deferred or belongs to a connection that is gone.
EveryTaskEnds ==
    []<>(/\ \A c \in 1..MaxConns : cache[c].in_progress = {}
         /\ \A w \in DOMAIN followers : ~LiveFollower(w))
=============================================================================
