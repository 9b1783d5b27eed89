---------------------------- MODULE SoloTemplates ----------------------------
(***************************************************************************)
(* What keeps the workers of a solo miner supplied: the template requests  *)
(* of client/grpc.rs, the node's inference challenges that ride on them,   *)
(* and the tasks that take the workers' job away while they hold a card.   *)
(* Which request or replay runs is module SoloRequests; here it is enough  *)
(* that one may.  The backend is one that pauses every worker (OpenCL,     *)
(* Vulkan); a solo job, unlike a pool's, is not given back when the pause  *)
(* ends (MinerPause): the client has to ask for a template.                *)
(***************************************************************************)
EXTENDS Naturals

CONSTANT MaxLost    \* bound: how many connections are lost

VARIABLES
    link,       \* the connection: "down", "up", or "broken" (sends fail)
    info,       \* GetInfoResponse is on its way
    asked,      \* a GetBlockTemplateRequest is unanswered
    challenge,  \* challenge_inference: see Slot, or "latched"
    request,    \* inference_rx
    replay,     \* replay_rx
    orphans,    \* challenge tasks of connections that are gone: waiting, running
    deferred,   \* template_deferred_for_models
    serveable,  \* has_proven_serveable_model()
    channel,    \* what the workers were last given: "job" or "none"
    stopped,    \* history: why the workers have no job, once nothing pauses them
    lost        \* connections lost

templates == <<link, info, asked, challenge, request, replay, orphans, deferred,
               serveable, channel, stopped, lost>>

\* a task of the blocking pool: it waits for a card, runs with it, and leaves
\* a result to be polled
Slot == {"none", "waiting", "running", "ready"}

Paused == "running" \in {challenge, request, replay} \/ orphans.running > 0

Init ==
    /\ link = "up" /\ info = TRUE /\ asked = FALSE
    /\ challenge = "none" /\ request = "none" /\ replay = "none"
    /\ orphans = [waiting |-> 0, running |-> 0]
    /\ deferred = FALSE /\ serveable = FALSE
    /\ channel = "none" /\ stopped = "start"
    /\ lost = 0

-----------------------------------------------------------------------------
(* Connections.                                                            *)

\* Drop for KeryxdHandler: the slots of request and replay are parked, the
\* challenge's is not, but its task runs on
Dropped ==
    /\ link' = "down" /\ info' = FALSE /\ asked' = FALSE /\ deferred' = FALSE
    /\ challenge' = "none"
    /\ orphans' = [waiting |-> orphans.waiting + IF challenge = "waiting" THEN 1 ELSE 0,
                   running |-> orphans.running + IF challenge = "running" THEN 1 ELSE 0]

\* a new handler and a new MinerManager
Connect ==
    /\ link = "down"
    /\ link' = "up" /\ info' = TRUE
    /\ channel' = "none" /\ stopped' = "start"
    /\ UNCHANGED <<asked, challenge, request, replay, orphans, deferred, serveable, lost>>

TransportBreaks ==
    /\ link = "up" /\ lost < MaxLost
    /\ link' = "broken" /\ lost' = lost + 1
    /\ UNCHANGED <<info, asked, challenge, request, replay, orphans, deferred, serveable,
                   channel, stopped>>

StreamEnds ==
    /\ link = "broken"
    /\ Dropped
    /\ UNCHANGED <<request, replay, serveable, channel, stopped, lost>>

-----------------------------------------------------------------------------
(* client_get_block_template: a finished challenge rides on the request.   *)
(* c is the challenge by now; a send that fails ends listen.               *)

GetTemplate(c, still) ==
    IF link = "broken" THEN Dropped
    ELSE /\ asked' = TRUE
         /\ challenge' = IF c \in {"ready", "latched"} THEN "none" ELSE c
         /\ deferred' = still
         /\ info' = FALSE
         /\ UNCHANGED <<link, orphans>>

\* the handler registers for notifications, then asks
GotInfo ==
    /\ link # "down" /\ info
    /\ GetTemplate(challenge, deferred)
    /\ UNCHANGED <<request, replay, serveable, channel, stopped, lost>>

NewBlockTemplate ==
    /\ link # "down" /\ ~info
    /\ GetTemplate(challenge, deferred)
    /\ UNCHANGED <<request, replay, serveable, channel, stopped, lost>>

Publish(job, why) == channel' = job /\ stopped' = why

\* GetBlockTemplateResponse: a challenge is taken up when none is and its model
\* is serveable; a finished inference is answered and a fresh template asked
\* for; without models, or while paused, the workers get nothing; an error
\* ends the session
TemplateReply(challenged, starts, answer) ==
    LET c == IF challenged /\ serveable /\ challenge = "none" THEN "waiting" ELSE challenge
    IN  /\ link # "down" /\ asked
        /\ UNCHANGED <<replay, serveable>>
        /\ IF request = "ready"
           THEN /\ request' = "none"
                /\ GetTemplate(c, deferred)
                /\ UNCHANGED <<channel, stopped, lost>>
           ELSE /\ request' = IF serveable /\ starts THEN "waiting" ELSE request
                /\ IF serveable /\ ~Paused /\ answer = "error"
                   THEN Dropped /\ lost' = lost + 1 /\ UNCHANGED <<channel, stopped>>
                   ELSE /\ asked' = FALSE
                        /\ challenge' = c
                        /\ deferred' = (deferred \/ ~serveable)
                        /\ IF ~serveable THEN Publish("none", "models")
                           ELSE IF Paused THEN Publish("none", stopped)
                           ELSE IF answer = "synced" THEN Publish("job", stopped)
                           ELSE Publish("none", "unsynced")
                        /\ UNCHANGED <<link, info, orphans, lost>>

TickAs(edge) ==
    LET ends == replay = "ready"
        models == deferred /\ serveable
    IN  \E starts \in {"none", "request", "replay"} :
        /\ link # "down"
        /\ starts # "none" =>
             serveable /\ request \in {"none", "ready"} /\ replay \in {"none", "ready"}
        /\ request' = IF starts = "request" THEN "waiting"
                      ELSE IF request = "ready" THEN "none" ELSE request
        /\ replay' = IF starts = "replay" THEN "waiting" ELSE IF ends THEN "none" ELSE replay
        /\ IF request = "ready" \/ edge \/ models
           THEN GetTemplate(challenge, deferred /\ ~serveable)
           ELSE /\ challenge' = IF challenge = "ready" THEN "latched" ELSE challenge
                /\ UNCHANGED <<link, info, asked, deferred, orphans>>
        /\ UNCHANGED <<serveable, channel, stopped, lost>>

\* variant: a finished challenge waits for the next template
TickNoEdge == TickAs(FALSE)

\* the timer branch of listen: a finished request is collected, then the trace
\* work polls the replay; work may start; an edge asks for one template.  The
\* end of a replay is none of the edges.
Tick == TickAs(request # "ready" /\ challenge = "ready")

-----------------------------------------------------------------------------
(* The tasks: begin_network_inference_pause takes the job from the workers,*)
(* the last guard to go gives a solo job not back.                         *)

\* a task ends; it was the last one to hold the pause
Lifted(slot, who, rest) == stopped' = IF slot = "running" /\ ~rest THEN who ELSE stopped

Starts(slot) == slot = "waiting" /\ channel' = "none"

ChallengeStarts ==
    /\ Starts(challenge) /\ challenge' = "running"
    /\ UNCHANGED <<link, info, asked, request, replay, orphans, deferred, serveable, stopped, lost>>

ChallengeEnds ==
    /\ challenge \in {"waiting", "running"} /\ challenge' = "ready"
    /\ Lifted(challenge, "task", "running" \in {request, replay} \/ orphans.running > 0)
    /\ UNCHANGED <<link, info, asked, request, replay, orphans, deferred, serveable, channel, lost>>

RequestStarts ==
    /\ Starts(request) /\ request' = "running"
    /\ UNCHANGED <<link, info, asked, challenge, replay, orphans, deferred, serveable, stopped, lost>>

RequestEnds ==
    /\ request \in {"waiting", "running"} /\ request' = "ready"
    /\ Lifted(request, "task", "running" \in {challenge, replay} \/ orphans.running > 0)
    /\ UNCHANGED <<link, info, asked, challenge, replay, orphans, deferred, serveable, channel, lost>>

ReplayStarts ==
    /\ Starts(replay) /\ replay' = "running"
    /\ UNCHANGED <<link, info, asked, challenge, request, orphans, deferred, serveable, stopped, lost>>

ReplayEnds ==
    /\ replay \in {"waiting", "running"} /\ replay' = "ready"
    /\ Lifted(replay, "replay", "running" \in {challenge, request} \/ orphans.running > 0)
    /\ UNCHANGED <<link, info, asked, challenge, request, orphans, deferred, serveable, channel, lost>>

OrphanStarts ==
    /\ orphans.waiting > 0
    /\ orphans' = [waiting |-> orphans.waiting - 1, running |-> orphans.running + 1]
    /\ channel' = "none"
    /\ UNCHANGED <<link, info, asked, challenge, request, replay, deferred, serveable, stopped, lost>>

OrphanEnds ==
    /\ \/ /\ orphans.running > 0
          /\ orphans' = [orphans EXCEPT !.running = @ - 1]
          /\ Lifted("running", "orphan", "running" \in {challenge, request, replay} \/ orphans.running > 1)
       \/ /\ orphans.waiting > 0
          /\ orphans' = [orphans EXCEPT !.waiting = @ - 1]
          /\ UNCHANGED stopped
    /\ UNCHANGED <<link, info, asked, challenge, request, replay, deferred, serveable, channel, lost>>

\* a self-test passes, or a model is invalidated
ModelsChange ==
    /\ serveable' = ~serveable
    /\ UNCHANGED <<link, info, asked, challenge, request, replay, orphans, deferred, channel,
                   stopped, lost>>

-----------------------------------------------------------------------------
Reply ==
    \E challenged, starts \in BOOLEAN, answer \in {"synced", "unsynced", "error"} :
       /\ starts => request \in {"none", "ready"} /\ replay = "none"
       /\ answer = "error" => lost < MaxLost
       /\ TemplateReply(challenged, starts, answer)

Ends == ChallengeEnds \/ RequestEnds \/ ReplayEnds \/ OrphanEnds

Next ==
    \/ Connect \/ TransportBreaks \/ StreamEnds
    \/ GotInfo \/ NewBlockTemplate \/ Reply \/ Tick
    \/ ChallengeStarts \/ RequestStarts \/ ReplayStarts \/ OrphanStarts
    \/ ChallengeEnds \/ RequestEnds \/ ReplayEnds \/ OrphanEnds
    \/ ModelsChange

Spec == Init /\ [][Next]_templates

\* The node answers what it is asked, and not always in the 200 ms between the
\* end of an inference and the tick that collects it; the timer fires; a task
\* ends (an inference has a deadline).  Nothing makes the node announce a template: one
\* whose only miner is paused has none to announce.
Fairness ==
    /\ WF_templates(Connect) /\ WF_templates(StreamEnds)
    /\ WF_templates(GotInfo) /\ SF_templates(request # "ready" /\ Reply) /\ WF_templates(Tick)
    /\ WF_templates(ChallengeEnds) /\ WF_templates(RequestEnds)
    /\ WF_templates(ReplayEnds) /\ WF_templates(OrphanEnds)

FairSpec == Spec /\ Fairness

-----------------------------------------------------------------------------
\* Every variable has its type, and one card-occupying solo job runs at a time
\* (solo_busy).
TypeOK ==
    /\ link \in {"down", "up", "broken"} /\ challenge \in Slot \cup {"latched"}
    /\ {request, replay} \subseteq Slot
    /\ ~({request, replay} \subseteq {"waiting", "running"})
    /\ {info, asked, deferred, serveable} \subseteq BOOLEAN
    /\ orphans \in [waiting : Nat, running : Nat]
    /\ channel \in {"job", "none"}
    /\ stopped \in {"start", "models", "unsynced", "task", "replay", "orphan"}

Stranded(whys) ==
    /\ link = "up" /\ serveable /\ ~Paused
    /\ channel = "none" /\ stopped \in whys

\* After a request or a challenge, and when the models become ready, the workers
\* get a job again from a node that announces no template of its own: the
\* timer finds the result and asks.
MinesAgain == []<>~Stranded({"start", "models", "task"})

\* "without this timer the finished inference would never be collected and
\* mining would deadlock": the same of the pause of an opening replay.
MinesAfterReplay == []<>~Stranded({"replay"})
=============================================================================
