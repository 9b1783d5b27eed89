----------------------------- MODULE PoolAnswers -----------------------------
(***************************************************************************)
(* AI work a pool dispatches (mining.ai_request, mining.ai_opening of      *)
(* client/stratum.rs) with the parsers of stratum/ai.rs and the kept       *)
(* traces of stratum/traces.rs.                                            *)
(*                                                                         *)
(* A request runs in a task of its own: it waits for a card, generates     *)
(* under the lease, keeps the trace of a traced answer in memory and on    *)
(* disk, and sends the answer.  Later the pool asks for an opening: the    *)
(* kept trace, or another rig's record fetched by the message handler      *)
(* itself, is replayed on a card.  Sends go to the connection the message  *)
(* came from; a restarted process reads the kept traces back from disk.    *)
(***************************************************************************)
EXTENDS Naturals, FiniteSets

CONSTANTS Requests,    \* request hashes the pool dispatches
          Traced,      \* those that ask for a trace
          WithId,      \* those whose message carries an id
          Foreign,     \* requests another rig answered, whose record the pool holds
          Gpus, None,
          Keep,        \* KEEP
          MaxTime, MaxConns, MaxRestarts, MaxOpenings, MaxFaults

VARIABLES conn,     \* the live connection; a send on an earlier one fails
          handler,  \* what the message handler awaits: idle, or the record it fetches
          ask,      \* per request: the stage of its task
          open,     \* per request: the stage of its opening
          lease,    \* per card: who holds it
          kept,     \* memory: request -> [gpu, at]
          queue,    \* saves handed to the writer thread
          disk,     \* saved traces: request -> at
          now,
          pool,     \* what the pool has received
          left      \* faults, restarts and openings still allowed

answers == <<conn, handler, ask, open, lease, kept, queue, disk, now, pool, left>>

All == Requests \cup Foreign
Idle == [stage |-> "none", conn |-> 0, gpu |-> None, at |-> 0]
Absent == [at |-> 0, gpu |-> None, here |-> FALSE]

TypeOK ==
    /\ conn \in 1..MaxConns /\ now \in 0..MaxTime
    /\ handler \in All \cup {None}
    /\ \A r \in Requests : ask[r].stage \in {"none", "waiting", "running", "ran", "sending", "done"}
    /\ \A r \in All : open[r].stage \in {"none", "fetching", "waiting", "replaying", "built", "failed", "done"}
    /\ \A g \in Gpus : lease[g] \in {<<"ask", r>> : r \in Requests} \cup {<<"open", r>> : r \in All} \cup {<<>>}
    /\ \A r \in All : kept[r].at \in 0..MaxTime
    /\ queue \in SUBSET (All \X (0..MaxTime))

Init ==
    /\ conn = 1 /\ handler = None /\ now = 0
    /\ ask = [r \in Requests |-> Idle] /\ open = [r \in All |-> Idle]
    /\ lease = [g \in Gpus |-> <<>>]
    /\ kept = [r \in All |-> Absent] /\ disk = [r \in All |-> Absent] /\ queue = {}
    /\ pool = [answered |-> {}, busy |-> {}, opened |-> {}, refused |-> {}, lost |-> {}, silent |-> {}]
    /\ left = [restarts |-> MaxRestarts, openings |-> MaxOpenings, faults |-> MaxFaults]

Free == {g \in Gpus : lease[g] = <<>>}
Live(t) == t.conn = conn

-----------------------------------------------------------------------------
(* mining.ai_request *)

(* What may be wrong with the message of a request. *)
Messages == [same_hash : BOOLEAN, ids : BOOLEAN, max_tokens : 0..1, prompt : {"text", "nul", "long"}, trace : {"none", "asked", "bad"}]
TraceAsk(m) == m.trace # "bad"
parse_ext(m) == TraceAsk(m) /\ m.same_hash /\ m.ids /\ m.max_tokens > 0 /\ m.prompt = "text"
(* model_serveable, validate_inference_request and the tier of the trace. *)
Servable(m, c) == c.serveable /\ c.valid /\ (m.trace = "asked" => c.own_tier)
Checks == [serveable : BOOLEAN, valid : BOOLEAN, own_tier : BOOLEAN]
Accepted == {mc \in Messages \X Checks : parse_ext(mc[1]) /\ Servable(mc[1], mc[2])}

(* A request that fails a check ends in silence. *)
Refuse(r) ==
    /\ handler = None /\ ask[r].stage = "none" /\ left.faults > 0
    /\ (Messages \X Checks) \ Accepted # {}
    /\ ask' = [ask EXCEPT ![r].stage = "done"]
    /\ left' = [left EXCEPT !.faults = @ - 1]
    /\ UNCHANGED <<conn, handler, open, lease, kept, queue, disk, now, pool>>

handle_ai_request(r) ==
    /\ handler = None /\ ask[r].stage = "none"
    /\ {mc \in Accepted : (mc[1].trace = "asked") = (r \in Traced)} # {}
    /\ ask' = [ask EXCEPT ![r].stage = "waiting", ![r].conn = conn]
    /\ UNCHANGED <<conn, handler, open, lease, kept, queue, disk, now, pool, left>>

Leased(r) ==
    /\ ask[r].stage = "waiting"
    /\ \E g \in Free : /\ lease' = [lease EXCEPT ![g] = <<"ask", r>>]
                       /\ ask' = [ask EXCEPT ![r].stage = "running", ![r].gpu = g]
    /\ UNCHANGED <<conn, handler, open, kept, queue, disk, now, pool, left>>

(* The wait ends with every card leased: the busy reply needs an id. *)
Busy(r) ==
    /\ ask[r].stage = "waiting" /\ Free = {}
    /\ ask' = [ask EXCEPT ![r].stage = "done"]
    /\ pool' = IF r \in WithId /\ Live(ask[r]) THEN [pool EXCEPT !.busy = @ \cup {r}] ELSE pool
    /\ UNCHANGED <<conn, handler, open, lease, kept, queue, disk, now, left>>

(* The lease and the pause are dropped before the answer is looked at. *)
Ran(r) ==
    /\ ask[r].stage = "running"
    /\ lease' = [lease EXCEPT ![ask[r].gpu] = <<>>]
    /\ \/ ask' = [ask EXCEPT ![r].stage = "ran"] /\ UNCHANGED left
       \/ /\ left.faults > 0 /\ left' = [left EXCEPT !.faults = @ - 1]  \* empty, untraced, failed or deferred
          /\ ask' = [ask EXCEPT ![r].stage = "done"]
    /\ UNCHANGED <<conn, handler, open, kept, queue, disk, now, pool>>

(* variant: the bound forgotten. *)
RetainEager(k) == [x \in All |-> IF k[x].here /\ k[x].at >= now THEN k[x] ELSE Absent]

(* keep's retain: what is too old goes. *)
Retain(k) == [x \in All |-> IF k[x].here /\ k[x].at + Keep >= now THEN k[x] ELSE Absent]

(* traces::keep: a save for the writer, the old ones dropped, the new one in memory. *)
keep(r, gpu) ==
    /\ queue' = queue \cup {<<r, now>>}
    /\ disk' = [x \in All |-> IF kept[x].here /\ kept[x].at + Keep < now THEN Absent ELSE disk[x]]
    /\ kept' = [Retain(kept) EXCEPT ![r] = [at |-> now, gpu |-> gpu, here |-> TRUE]]

Kept(r) ==
    /\ ask[r].stage = "ran"
    /\ ask' = [ask EXCEPT ![r].stage = "sending", ![r].at = now]
    /\ IF r \in Traced THEN keep(r, ask[r].gpu) ELSE UNCHANGED <<kept, queue, disk>>
    /\ UNCHANGED <<conn, handler, open, lease, now, pool, left>>

Answer(r) ==
    /\ ask[r].stage = "sending"
    /\ ask' = [ask EXCEPT ![r].stage = "done"]
    /\ pool' = IF Live(ask[r]) THEN [pool EXCEPT !.answered = @ \cup {r}] ELSE pool
    /\ UNCHANGED <<conn, handler, open, lease, kept, queue, disk, now, left>>

-----------------------------------------------------------------------------
(* mining.ai_opening *)

(* An attention phase names both its path and the previous partials. *)
opening_parse(path, prev) == (path = "empty") = (prev = "empty")

Reply(r, to, c) == IF c = conn THEN [pool EXCEPT ![to] = @ \cup {r}] ELSE pool

Afresh(r) == [pool EXCEPT !.opened = @ \ {r}, !.refused = @ \ {r}, !.silent = @ \ {r}]

(* The pool asks about an answer it has, or about another rig's. *)
handle_ai_opening(r) ==
    /\ handler = None /\ left.openings > 0
    /\ {p \in {"empty", "given"} \X {"empty", "given"} : opening_parse(p[1], p[2])} # {}
    /\ r \in Foreign \/ r \in pool.answered \cap Traced
    /\ open[r].stage \in {"none", "done"}
    /\ left' = [left EXCEPT !.openings = @ - 1]
    /\ \/ /\ kept[r].here
          /\ open' = [open EXCEPT ![r].stage = "waiting", ![r].conn = conn, ![r].gpu = kept[r].gpu]
          /\ pool' = Afresh(r) /\ UNCHANGED handler
       \/ /\ ~kept[r].here /\ r \in Foreign
          /\ open' = [open EXCEPT ![r].stage = "fetching", ![r].conn = conn]
          /\ pool' = Afresh(r) /\ handler' = r
       \/ /\ ~kept[r].here /\ r \notin Foreign
          /\ open' = [open EXCEPT ![r].stage = "done", ![r].conn = conn]
          /\ pool' = [Afresh(r) EXCEPT !.refused = @ \cup {r}] /\ UNCHANGED handler
    /\ UNCHANGED <<conn, ask, lease, kept, queue, disk, now>>

(* fetch_foreign, awaited by the handler: a valid record of this request,  *)
(* engine and card model is kept and replayed.                             *)
fetch_foreign(r) ==
    /\ handler = r /\ handler' = None
    /\ \/ \E g \in Gpus :
            /\ open' = [open EXCEPT ![r].stage = "waiting", ![r].gpu = g]
            /\ keep(r, g)
            /\ UNCHANGED pool
       \/ /\ open' = [open EXCEPT ![r].stage = "done"]
          /\ pool' = Reply(r, "refused", open[r].conn) /\ UNCHANGED <<kept, queue, disk>>
    /\ UNCHANGED <<conn, ask, lease, now, left>>

(* The card that answered, or any when the trace was read back from disk. *)
OpenLeased(r) ==
    /\ open[r].stage = "waiting"
    /\ \E g \in Free : /\ open[r].gpu \in {g, None}
                       /\ lease' = [lease EXCEPT ![g] = <<"open", r>>]
                       /\ open' = [open EXCEPT ![r].stage = "replaying", ![r].gpu = g]
    /\ UNCHANGED <<conn, handler, ask, kept, queue, disk, now, pool, left>>

OpenTimesOut(r) ==
    /\ open[r].stage = "waiting" /\ \A g \in Free : open[r].gpu \notin {g, None}
    /\ open' = [open EXCEPT ![r].stage = "failed"]
    /\ UNCHANGED <<conn, handler, ask, lease, kept, queue, disk, now, pool, left>>

(* try_open_trace_on; a panic of the replay is only logged. *)
Replayed(r) ==
    /\ open[r].stage = "replaying"
    /\ lease' = [lease EXCEPT ![open[r].gpu] = <<>>]
    /\ \/ open' = [open EXCEPT ![r].stage = "built"] /\ UNCHANGED <<pool, left>>
       \/ open' = [open EXCEPT ![r].stage = "failed"] /\ UNCHANGED <<pool, left>>
       \/ /\ left.faults > 0 /\ left' = [left EXCEPT !.faults = @ - 1]
          /\ open' = [open EXCEPT ![r].stage = "done"]
          /\ pool' = [pool EXCEPT !.silent = @ \cup {r}]
    /\ UNCHANGED <<conn, handler, ask, kept, queue, disk, now>>

OpenReply(r) ==
    /\ open[r].stage \in {"built", "failed"}
    /\ open' = [open EXCEPT ![r].stage = "done"]
    /\ pool' = Reply(r, IF open[r].stage = "built" THEN "opened" ELSE "refused", open[r].conn)
    /\ UNCHANGED <<conn, handler, ask, lease, kept, queue, disk, now, left>>

-----------------------------------------------------------------------------
(* The writer thread, the clock, the connection and the process. *)

Written ==
    /\ \E w \in queue : /\ disk' = [disk EXCEPT ![w[1]] = [at |-> w[2], gpu |-> None, here |-> TRUE]]
                        /\ queue' = queue \ {w}
    /\ UNCHANGED <<conn, handler, ask, open, lease, kept, now, pool, left>>

Tick == /\ now < MaxTime /\ now' = now + 1
        /\ UNCHANGED <<conn, handler, ask, open, lease, kept, queue, disk, pool, left>>

(* A new connection: the handler starts afresh, the tasks go on. *)
Reconnect ==
    /\ conn < MaxConns /\ conn' = conn + 1
    /\ handler' = None
    /\ open' = [r \in All |-> IF handler = r THEN [open[r] EXCEPT !.stage = "done"] ELSE open[r]]
    /\ UNCHANGED <<ask, lease, kept, queue, disk, now, pool, left>>

(* kept()'s first use: the traces on disk that are not too old. *)
ReadBack == [r \in All |-> IF disk[r].here /\ disk[r].at + Keep >= now THEN disk[r] ELSE Absent]

Restart ==
    /\ left.restarts > 0 /\ conn < MaxConns
    /\ left' = [left EXCEPT !.restarts = @ - 1]
    /\ conn' = conn + 1 /\ handler' = None
    /\ ask' = [r \in Requests |-> IF ask[r].stage = "none" THEN ask[r] ELSE [ask[r] EXCEPT !.stage = "done"]]
    /\ open' = [r \in All |-> IF open[r].stage = "none" THEN open[r] ELSE [open[r] EXCEPT !.stage = "done"]]
    /\ lease' = [g \in Gpus |-> <<>>]
    /\ kept' = ReadBack /\ disk' = [r \in All |-> IF ReadBack[r].here THEN disk[r] ELSE Absent]
    /\ pool' = [pool EXCEPT !.lost = @ \cup {w[1] : w \in queue}]
    /\ queue' = {}
    /\ UNCHANGED now

TaskStep(r) == Leased(r) \/ Busy(r) \/ Ran(r) \/ Kept(r) \/ Answer(r)
OpenStep(r) == fetch_foreign(r) \/ OpenLeased(r) \/ OpenTimesOut(r) \/ Replayed(r) \/ OpenReply(r)

Next ==
    \/ \E r \in Requests : Refuse(r) \/ handle_ai_request(r) \/ TaskStep(r)
    \/ \E r \in All : handle_ai_opening(r) \/ OpenStep(r)
    \/ Written \/ Tick \/ Reconnect \/ Restart

Spec == Init /\ [][Next]_answers

(* Tasks and blocking calls run to their end; every wait has a deadline. *)
Fairness ==
    /\ \A r \in Requests : WF_answers(TaskStep(r))
    /\ \A r \in All : WF_answers(OpenStep(r))

FairSpec == Spec /\ Fairness

-----------------------------------------------------------------------------
(* A traced answer the pool received can be opened for as long as KEEP,    *)
(* across reconnects and restarts, unless the process died before its save *)
(* was written: the trace is kept before the answer is sent (keep, kept).  *)
AnswerStaysOpenable ==
    \A r \in (pool.answered \cap Traced) \ pool.lost :
        ask[r].at + Keep >= now => kept[r].here

(* A card leased by a task of this module is leased to a task that is      *)
(* running on it; nothing else runs on a card (the lease is dropped inside *)
(* the blocking closure).                                                  *)
LeaseMeansRunning ==
    \A g \in Gpus :
        /\ \A r \in Requests : (lease[g] = <<"ask", r>>) = (ask[r].stage = "running" /\ ask[r].gpu = g)
        /\ \A r \in All : (lease[g] = <<"open", r>>) = (open[r].stage = "replaying" /\ open[r].gpu = g)

(* An opening that has ended was answered with a body or an error, or the  *)
(* connection it was asked on is gone, or the replay panicked.             *)
EndedMeansAnswered ==
    \A r \in All : open[r].stage = "done" /\ Live(open[r])
                      => r \in pool.opened \cup pool.refused \cup pool.silent

(* A traced answer the pool holds can be opened while it may be audited, a *)
(* lease is held by the task that runs, and no opening ends unanswered     *)
(* (traces.rs, handle_ai_request, handle_ai_opening).                      *)
TracesStayOpenable == AnswerStaysOpenable /\ LeaseMeansRunning /\ EndedMeansAnswered

(* Every opening the pool asks for ends, whatever the leases, the faults   *)
(* and the reconnects in between.                                          *)
OpeningEnds == []<>(\A r \in All : open[r].stage \in {"none", "done"})
=============================================================================
