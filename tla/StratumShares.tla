--------------------------- MODULE StratumShares ---------------------------
(***************************************************************************)
(* The share ledger of the Stratum client: submissions numbered per        *)
(* connection and booked in tables that belong to the process, the pool's  *)
(* replies matched to them by that number, the other numbered lines whose  *)
(* replies must not be taken for a share's (telemetry, answers), the       *)
(* answer of the current task riding on a share, and the base64 encoding   *)
(* of proofs with its fallback.                                            *)
(*                                                                         *)
(* Connections come one after another.  The task that submits (the block   *)
(* channel) and the loop that reads replies interleave; a connection may   *)
(* end at any moment and leave shares unanswered.                          *)
(***************************************************************************)
EXTENDS Integers, FiniteSets

CONSTANTS
    Pools,      \* addresses the client may connect to
    Answers,    \* content-bound keys of answers to the pool's tasks
    NoAnswer,   \* no answer is cached for the current task
    AnswerCap,  \* MAX_INFERENCE_CACHE_RESULTS
    Telemetry,  \* telemetry::enabled()
    TrackCap,   \* ids of telemetry and answers kept for matching, 64
    MaxConns,   \* bound: connections
    MaxId       \* bound: connection g numbers its lines up to MaxId - g

VARIABLES
    conn,       \* the StratumHandler: see FreshConn
    submit,     \* the block task: idle, a share it has booked, or ended
    shares_pending,         \* the ids of shares booked and not settled
    ai_responses_pending,   \* id -> the answer that rides on it
    ai_responses_accepted,  \* answers delivered
    refused,    \* B64_REFUSED_BY
    answer,     \* current_task_slot and inference_cache: the answer for the task
    wire,       \* the lines the pool of this connection has not answered
    stats,      \* runtime_stats: submitted, pending, accepted, rejected, delivered
    verdicts    \* history: shares the pool accepted and refused, answers accepted

vars == <<conn, submit, shares_pending, ai_responses_pending,
          ai_responses_accepted, refused, answer, wire, stats, verdicts>>
ledger == <<shares_pending, ai_responses_pending, ai_responses_accepted>>

NoLine == [id |-> -1]
Line(id, kind) == [id |-> id, kind |-> kind]
Share(id, key, b64) == [id |-> id, kind |-> "share", key |-> key, b64 |-> b64]

\* StratumHandler::connect and register: ids restart, subscribe and authorize
\* and, with telemetry on, hello are sent
FreshConn(gen, pool) ==
    [gen |-> gen, pool |-> pool, up |-> TRUE, telemetry_on |-> Telemetry,
     next |-> IF Telemetry THEN 3 ELSE 2,
     telemetry_req_ids |-> IF Telemetry THEN {2} ELSE {},
     ai_response_ids |-> {}, b64 |-> FALSE, b64_ids |-> {}]

Without(f, id) == [i \in DOMAIN f \ {id} |-> f[i]]
With(f, id, v) == [i \in DOMAIN f \cup {id} |-> IF i = id THEN v ELSE f[i]]
MoreLines == conn.next + conn.gen <= MaxId

Less(n) == IF n = 0 THEN 0 ELSE n - 1

Init ==
    /\ conn = [FreshConn(0, CHOOSE p \in Pools : TRUE) EXCEPT !.up = FALSE]
    /\ submit = NoLine
    /\ shares_pending = {}
    /\ ai_responses_pending = << >>
    /\ ai_responses_accepted = {}
    /\ refused = {}
    /\ answer = NoAnswer
    /\ wire = {}
    /\ stats = [submitted |-> 0, pending |-> 0, accepted |-> 0, rejected |-> 0,
                delivered |-> 0]
    /\ verdicts = [ok |-> 0, bad |-> 0, keys |-> {}]

-----------------------------------------------------------------------------
(* Connections.                                                            *)

Connect(pool) ==
    /\ ~conn.up /\ conn.gen < MaxConns
    /\ conn' = FreshConn(conn.gen + 1, pool)
    /\ wire' = {Line(0, "subscribe"), Line(1, "authorize")}
                 \cup {Line(id, "telemetry") : id \in conn'.telemetry_req_ids}
    /\ answer' = NoAnswer
    /\ UNCHANGED <<submit, ledger, refused, stats, verdicts>>

\* listen returns and the handler is dropped, its tasks aborted: what they
\* had booked in the process's tables stays there
Hangup ==
    /\ conn' = [conn EXCEPT !.up = FALSE]
    /\ submit' = NoLine
    /\ wire' = {}

Disconnect ==
    /\ conn.up
    /\ Hangup
    /\ UNCHANGED <<ledger, refused, answer, stats, verdicts>>

-----------------------------------------------------------------------------
(* Lines that are numbered but are no shares.                              *)

\* the ids kept for matching; all are forgotten when there are too many
Tracked(ids, id) == (IF Cardinality(ids) > TrackCap THEN {} ELSE ids) \cup {id}

\* send_telemetry
SendTelemetry ==
    /\ conn.up /\ conn.telemetry_on /\ MoreLines
    /\ conn' = [conn EXCEPT !.next = @ + 1,
                            !.telemetry_req_ids = Tracked(@, conn.next)]
    /\ wire' = wire \cup {Line(conn.next, "telemetry")}
    /\ UNCHANGED <<submit, ledger, refused, answer, stats, verdicts>>

\* handle_ai_request and handle_ai_opening number their answer
SendAiResponse ==
    /\ conn.up /\ MoreLines
    /\ conn' = [conn EXCEPT !.next = @ + 1,
                            !.ai_response_ids = Tracked(@, conn.next)]
    /\ wire' = wire \cup {Line(conn.next, "response")}
    /\ UNCHANGED <<submit, ledger, refused, answer, stats, verdicts>>

\* a job comes with a task, or an inference for it completes, or neither
TaskAnswered(key) ==
    /\ conn.up
    /\ answer' = key
    /\ UNCHANGED <<conn, submit, ledger, refused, wire, stats, verdicts>>

-----------------------------------------------------------------------------
(* create_block_channel: a share is booked, and then sent.                 *)

\* up to the send: the number, the books, the encoding, and the answer unless
\* it is delivered already
BookShare ==
    LET id == conn.next
        key == IF answer \in ai_responses_accepted THEN NoAnswer ELSE answer
    IN  /\ conn.up /\ submit = NoLine /\ MoreLines
        /\ conn' = [conn EXCEPT !.next = @ + 1,
                                !.b64_ids = @ \cup (IF conn.b64 THEN {id} ELSE {})]
        /\ shares_pending' = shares_pending \cup {id}
        /\ submit' = Share(id, key, conn.b64)
        /\ stats' = [stats EXCEPT !.submitted = @ + 1, !.pending = @ + 1]
        /\ UNCHANGED <<ai_responses_pending, ai_responses_accepted, refused,
                       answer, wire, verdicts>>

\* the table of riding answers, one dropped when it is full
RidesOn(f, id, key) ==
    IF key = NoAnswer THEN {f}
    ELSE IF Cardinality(DOMAIN f) >= AnswerCap
    THEN {With(Without(f, old), id, key) : old \in DOMAIN f}
    ELSE {With(f, id, key)}

SendShare ==
    /\ "key" \in DOMAIN submit
    /\ ai_responses_pending' \in RidesOn(ai_responses_pending, submit.id, submit.key)
    /\ wire' = wire \cup {submit}
    /\ submit' = NoLine
    /\ UNCHANGED <<conn, shares_pending, ai_responses_accepted, refused, answer,
                   stats, verdicts>>

\* variant: the share is left in the books
SendFailsKept ==
    /\ "key" \in DOMAIN submit
    /\ submit' = [id |-> -2]
    /\ stats' = [stats EXCEPT !.pending = Less(@)]
    /\ UNCHANGED <<conn, ledger, refused, answer, wire, verdicts>>

\* the write half is dead: the share is taken back, and the task ends
SendFails ==
    /\ "key" \in DOMAIN submit
    /\ shares_pending' = shares_pending \ {submit.id}
    /\ ai_responses_pending' = Without(ai_responses_pending, submit.id)
    /\ submit' = [id |-> -2]
    /\ stats' = [stats EXCEPT !.pending = Less(@)]
    /\ UNCHANGED <<conn, ai_responses_accepted, refused, answer, wire, verdicts>>

-----------------------------------------------------------------------------
(* handle_message: a reply.  Each handler is one step of the read loop.    *)

\* what the pool decides about a line
Judged(line, ok) ==
    /\ wire' = wire \ {line}
    /\ verdicts' = IF line.kind # "share" THEN verdicts
                   ELSE IF ok THEN [verdicts EXCEPT !.ok = @ + 1,
                                                    !.keys = @ \cup {line.key}]
                   ELSE [verdicts EXCEPT !.bad = @ + 1]

\* the reply to an answer, whatever it says
AiResponseReply(line) ==
    /\ line.id \in conn.ai_response_ids
    /\ conn' = [conn EXCEPT !.ai_response_ids = @ \ {line.id}]
    /\ Judged(line, FALSE)
    /\ UNCHANGED <<submit, ledger, refused, answer, stats>>

\* absorb_subscribe: base64 from a pool that offers it and has not refused it
Absorbed(c, offered) ==
    IF offered /\ c.pool \notin refused THEN [c EXCEPT !.b64 = TRUE] ELSE c

SubscribeReply(line, offered) ==
    /\ line.kind = "subscribe"
    /\ conn' = Absorbed(conn, offered)
    /\ Judged(line, TRUE)
    /\ UNCHANGED <<submit, ledger, refused, answer, stats>>

\* `true` for a share: it is settled, and the answer riding on it delivered
Accepted(id) ==
    LET rides == id \in DOMAIN ai_responses_pending
        key == ai_responses_pending[id]
        before == IF Cardinality(ai_responses_accepted) >= AnswerCap
                  THEN {} ELSE ai_responses_accepted
    IN  /\ shares_pending' = shares_pending \ {id}
        /\ ai_responses_pending' = Without(ai_responses_pending, id)
        /\ ai_responses_accepted' = IF rides THEN before \cup {key}
                                    ELSE ai_responses_accepted
        /\ stats' = [stats EXCEPT !.pending = Less(@), !.accepted = @ + 1,
                                  !.delivered = @ + IF rides /\ key \notin before
                                                    THEN 1 ELSE 0]

TrueReply(line) ==
    /\ line.kind # "subscribe" /\ line.id \notin conn.ai_response_ids
    /\ Judged(line, TRUE)
    /\ UNCHANGED <<submit, refused, answer>>
    /\ IF line.id \in conn.telemetry_req_ids
       THEN /\ conn' = [conn EXCEPT !.telemetry_req_ids = @ \ {line.id}]
            /\ UNCHANGED <<ledger, stats>>
       ELSE /\ conn' = [conn EXCEPT !.b64_ids = @ \ {line.id}]
            /\ IF line.id \in shares_pending THEN Accepted(line.id)
               ELSE UNCHANGED <<ledger, stats>>

\* a share that was refused: off the books
Rejected(id, counted) ==
    /\ shares_pending' = shares_pending \ {id}
    /\ ai_responses_pending' = Without(ai_responses_pending, id)
    /\ stats' = IF counted THEN [stats EXCEPT !.pending = Less(@), !.rejected = @ + 1]
                ELSE stats
    /\ UNCHANGED ai_responses_accepted

\* reject_b64: hex for the rest of this connection and for this pool
Fallback(c) == [c EXCEPT !.b64 = FALSE]

\* `false` or null without an error object
OtherReply(line) ==
    LET id == line.id
        was_b64 == id \in conn.b64_ids /\ id \in shares_pending
        c == [conn EXCEPT !.telemetry_req_ids = @ \ {id}, !.b64_ids = @ \ {id}]
    IN  /\ line.kind # "subscribe" /\ id \notin conn.ai_response_ids
        /\ Judged(line, FALSE)
        /\ conn' = IF was_b64 THEN Fallback(c) ELSE c
        /\ refused' = refused \cup (IF was_b64 THEN {conn.pool} ELSE {})
        /\ IF id \in shares_pending THEN Rejected(id, TRUE)
           ELSE UNCHANGED <<ledger, stats>>
        /\ UNCHANGED <<submit, answer>>

\* an error object with a code that leaves the connection up: "unknown" is the
\* one an unsupported method is answered with
ErrorReply(line, unknown) ==
    LET id == line.id
        was_b64 == id \in conn.b64_ids
        c == [conn EXCEPT !.b64_ids = @ \ {id}]
    IN  /\ id \notin conn.ai_response_ids
        /\ Judged(line, FALSE)
        /\ UNCHANGED <<submit, answer>>
        /\ IF id \in conn.telemetry_req_ids
           THEN /\ conn' = [conn EXCEPT !.telemetry_req_ids = @ \ {id},
                                        !.telemetry_on = @ /\ ~unknown]
                /\ UNCHANGED <<ledger, stats, refused>>
           ELSE /\ conn' = IF was_b64 THEN Fallback(c) ELSE c
                /\ refused' = refused \cup (IF was_b64 THEN {conn.pool} ELSE {})
                /\ Rejected(id, was_b64 \/ id \in shares_pending)

\* unauthorized or not subscribed, which ends the connection unless the line
\* was telemetry or a base64 share (ErrorReply)
FatalReply(line) ==
    /\ line.id \notin conn.ai_response_ids \cup conn.telemetry_req_ids \cup conn.b64_ids
    /\ Rejected(line.id, line.id \in shares_pending)
    /\ verdicts' = IF line.kind = "share" THEN [verdicts EXCEPT !.bad = @ + 1]
                   ELSE verdicts
    /\ Hangup
    /\ UNCHANGED <<refused, answer>>

Reply(line) ==
    /\ conn.up
    /\ \/ AiResponseReply(line)
       \/ \E offered \in BOOLEAN : SubscribeReply(line, offered)
       \/ TrueReply(line)
       \/ OtherReply(line)
       \/ \E unknown \in BOOLEAN : ErrorReply(line, unknown)
       \/ FatalReply(line)

Next ==
    \/ \E pool \in Pools : Connect(pool)
    \/ Disconnect
    \/ SendTelemetry
    \/ SendAiResponse
    \/ \E key \in Answers \cup {NoAnswer} : TaskAnswered(key)
    \/ BookShare
    \/ SendShare
    \/ SendFails
    \/ \E line \in wire : Reply(line)

Spec == Init /\ [][Next]_vars

-----------------------------------------------------------------------------
TypeOK ==
    /\ shares_pending \subseteq 0..MaxId
    /\ DOMAIN ai_responses_pending \subseteq 0..MaxId
    /\ ai_responses_accepted \subseteq Answers
    /\ refused \subseteq Pools
    /\ answer \in Answers \cup {NoAnswer}

\* The counters agree with the pool: handle_message counts a share as accepted
\* exactly when the pool has accepted one, over all connections, although ids
\* restart with each of them and the replies to telemetry, answers and
\* registrations are numbered alike; no submission settles twice; and on the
\* first connection rejections are exact too.  (Later, `false` for a telemetry
\* line may settle a share an earlier connection left behind.)
CountersAgree ==
    /\ stats.accepted = verdicts.ok
    /\ stats.rejected >= verdicts.bad
    /\ conn.gen <= 1 => stats.rejected = verdicts.bad
    /\ stats.accepted + stats.rejected + Cardinality(shares_pending)
         <= stats.submitted
    /\ stats.pending >= Cardinality(shares_pending)

\* A pool that refused a base64 proof is only sent hex: no later connection to
\* it turns base64 on again (ProofEncoding, B64_REFUSED_BY).
RefusedStaysHex == conn.b64 => conn.pool \notin refused

\* What the ledger owes the operator over all connections: the share counters are
\* the pool's verdicts, and a pool that refused base64 is only sent hex
\* (handle_message, the block task).
CountsMatchVerdicts == CountersAgree /\ RefusedStaysHex

\* An answer counts as delivered only when the pool accepted a share that
\* carried it (ShareStats::ai_responses_pending).
DeliveredWasAccepted == ai_responses_accepted \subseteq verdicts.keys
=============================================================================
