------------------------ MODULE StratumSharesProofs ------------------------
(***************************************************************************)
(* Proofs about the share ledger of the Stratum client, StratumShares, for *)
(* any pools, answers and bounds.                                          *)
(*                                                                         *)
(* The counters agree with the pool because a reply is matched by its      *)
(* number alone and the number of a line says what the line was.  The      *)
(* invariant Books states that: the numbers on the wire are distinct and   *)
(* below the next one, the number of a share is booked and not taken for   *)
(* telemetry or an answer, the number of every other line is tracked as    *)
(* what it is or too small to be a share's.                                *)
(*                                                                         *)
(* The client forgets all numbers of telemetry (or of answers) when more   *)
(* than TrackCap of them are unanswered.  A forgotten number may be that   *)
(* of a share an earlier connection left behind, and a `true' for it would *)
(* count as an accepted share: the theorem is about the behaviours in      *)
(* which that many never pile up (TrackingFits).                           *)
(***************************************************************************)
EXTENDS StratumShares, FiniteSetTheorems, TLAPS

\* The backends that try a leaf, in turn, unless it names its own.
USE SMTT(30), ZenonT(30), Z3T(30)

Keys == Answers \cup {NoAnswer}

\* No more telemetry lines, and no more answers, than the client tracks are
\* unanswered (the 64 of send_telemetry and handle_ai_request).
TrackingFits ==
    /\ ~(Cardinality(conn.telemetry_req_ids) > TrackCap)
    /\ ~(Cardinality(conn.ai_response_ids) > TrackCap)

Conns ==
    [gen : Nat, pool : Pools, up : BOOLEAN, telemetry_on : BOOLEAN, next : Nat,
     telemetry_req_ids : SUBSET Nat, ai_response_ids : SUBSET Nat,
     b64 : BOOLEAN, b64_ids : SUBSET Nat]

Stats == [submitted : Nat, pending : Nat, accepted : Nat, rejected : Nat, delivered : Nat]

Typed ==
    /\ conn \in Conns
    /\ stats \in Stats
    /\ verdicts \in [ok : Nat, bad : Nat, keys : SUBSET Keys]
    /\ shares_pending \in SUBSET Nat /\ IsFiniteSet(shares_pending)
    /\ answer \in Keys

\* What the number of an unanswered line says of it: numbers below `next' are
\* given out, those of telemetry, of answers and of base64 shares tracked.
Known(l, next, telemetry, responses, b64, pending) ==
    /\ l.id \in Nat /\ l.id < next
    /\ \/ /\ l.kind \in {"subscribe", "authorize"} /\ l.id < 2
          /\ l.id \notin telemetry \cup responses \cup b64
       \/ l.kind = "telemetry" /\ l.id \in telemetry \ (responses \cup b64)
       \/ l.kind = "response" /\ l.id \in responses
       \/ l.kind = "share" /\ l.key \in Keys /\ l.id \in pending \ (telemetry \cup responses)

\* Numbers are given out once and no share is numbered 0 or 1; a share that is
\* booked and not sent is in no other table; and before a second connection
\* there is no share but this one's.
Numbered(gen, next, telemetry, responses, b64, pending, lines, booked) ==
    /\ gen \in Nat /\ next \in Nat /\ next >= 2
    /\ \A i \in telemetry \cup responses \cup b64 : i \in Nat /\ i < next
    /\ \A i \in pending : i \in Nat /\ i >= 2
    /\ \A l \in lines : Known(l, next, telemetry, responses, b64, pending)
    /\ \A l1, l2 \in lines : l1.id = l2.id => l1 = l2
    /\ \A i \in booked : /\ i \in pending \ (telemetry \cup responses) /\ i < next
                         /\ \A l \in lines : l.id # i
    /\ gen <= 1 => /\ \A i \in pending : i < next
                   /\ \A l \in lines : l.id \in pending => l.kind = "share"

\* The share the block task has booked and not sent yet.
Sendable == {s \in {submit} : s \notin {NoLine, [id |-> -2]}}
Booked == {s.id : s \in Sendable}

\* A connection that has ended leaves no line, and before the first there is
\* nothing.
Between ==
    /\ \A s \in Sendable : \E id \in Nat, key \in Keys, b64 \in BOOLEAN : s = Share(id, key, b64)
    /\ ~conn.up => submit = NoLine /\ wire = {}
    /\ conn.gen = 0 => ~conn.up /\ shares_pending = {}

Books ==
    /\ Typed
    /\ Numbered(conn.gen, conn.next, conn.telemetry_req_ids, conn.ai_response_ids, conn.b64_ids,
                shares_pending, wire, Booked)
    /\ Between
    /\ CountersAgree
    /\ RefusedStaysHex

-----------------------------------------------------------------------------
(* The numbers: what each kind of step does to them.                       *)

LEMMA FirstNumbers ==
    ASSUME NEW g \in Nat, NEW t, NEW P, NEW W,
           \A i \in P : i \in Nat /\ i >= 2, g <= 1 => P = {},
           NEW n \in {2, 3}, t \in SUBSET {2}, n = 2 => t = {},
           \A l \in W : \/ l.id = 0 /\ l.kind = "subscribe"
                        \/ l.id = 1 /\ l.kind = "authorize"
                        \/ l.id = 2 /\ l.kind = "telemetry" /\ 2 \in t,
           \A l1, l2 \in W : l1.id = l2.id => l1 = l2
    PROVE  Numbered(g, n, t, {}, {}, P, W, {})
  BY DEF Numbered, Known

LEMMA NewLine ==
    ASSUME NEW g, NEW n, NEW t, NEW a, NEW b, NEW P, NEW W, NEW B, NEW l, NEW t2, NEW a2,
           Numbered(g, n, t, a, b, P, W, B), l.id = n,
           \/ l.kind = "telemetry" /\ t2 = t \cup {n} /\ a2 = a
           \/ l.kind = "response" /\ t2 = t /\ a2 = a \cup {n}
    PROVE  Numbered(g, n + 1, t2, a2, b, P, W \cup {l}, B)
  <1>1. \A k \in W : k.id \in Nat /\ k.id < n /\ k.id < n + 1 /\ k.id # n
    BY DEF Numbered, Known
  <1>2. /\ n \in Nat /\ n + 1 \in Nat /\ n < n + 1 /\ n + 1 >= 2 /\ n \notin t \cup a \cup b
    BY DEF Numbered
  <1>3. \A k \in W \cup {l} : Known(k, n + 1, t2, a2, b, P)
    <2>1. \A k \in W : Known(k, n + 1, t2, a2, b, P)
      BY <1>1, <1>2 DEF Numbered, Known
    <2>2. Known(l, n + 1, t2, a2, b, P)
      BY <1>2 DEF Known
    <2>3. QED
      BY <2>1, <2>2
  <1>4. /\ \A i \in t2 \cup a2 \cup b : i \in Nat /\ i < n + 1
        /\ \A i \in B : /\ i \in P \ (t2 \cup a2) /\ i < n + 1
                        /\ \A k \in W \cup {l} : k.id # i
        /\ g <= 1 => /\ \A i \in P : i < n + 1
                     /\ \A k \in W \cup {l} : k.id \in P => k.kind = "share"
    BY <1>1, <1>2 DEF Numbered
  <1>5. \A l1, l2 \in W \cup {l} : l1.id = l2.id => l1 = l2
    BY <1>1 DEF Numbered
  <1>6. QED
    BY <1>2, <1>3, <1>4, <1>5 DEF Numbered

LEMMA NewShare ==
    ASSUME NEW g, NEW n, NEW t, NEW a, NEW b, NEW P, NEW W, NEW b2,
           Numbered(g, n, t, a, b, P, W, {}), b2 \in {b, b \cup {n}}
    PROVE  Numbered(g, n + 1, t, a, b2, P \cup {n}, W, {n})
  <1>1. \A k \in W : k.id \in Nat /\ k.id < n /\ k.id < n + 1 /\ k.id # n
    BY DEF Numbered, Known
  <1>2. /\ n \in Nat /\ n + 1 \in Nat /\ n < n + 1 /\ n + 1 >= 2 /\ n >= 2 /\ n \notin t \cup a \cup b
    BY DEF Numbered
  <1>3. \A k \in W : Known(k, n + 1, t, a, b2, P \cup {n})
    BY <1>1, <1>2 DEF Numbered, Known
  <1>4. /\ \A i \in t \cup a \cup b2 : i \in Nat /\ i < n + 1
        /\ \A i \in P \cup {n} : i \in Nat /\ i >= 2
        /\ g <= 1 => /\ \A i \in P \cup {n} : i < n + 1
                     /\ \A k \in W : k.id \in P \cup {n} => k.kind = "share"
    BY <1>1, <1>2 DEF Numbered
  <1>5. /\ g \in Nat
        /\ \A l1, l2 \in W : l1.id = l2.id => l1 = l2
        /\ \A i \in {n} : /\ i \in (P \cup {n}) \ (t \cup a) /\ i < n + 1
                          /\ \A k \in W : k.id # i
    BY <1>1, <1>2 DEF Numbered
  <1>6. QED
    BY <1>2, <1>3, <1>4, <1>5, Zenon DEF Numbered

LEMMA ShareSent ==
    ASSUME NEW g, NEW n, NEW t, NEW a, NEW b, NEW P, NEW W, NEW s, s.kind = "share", s.key \in Keys,
           Numbered(g, n, t, a, b, P, W, {s.id})
    PROVE  Numbered(g, n, t, a, b, P, W \cup {s}, {})
  <1>1. Known(s, n, t, a, b, P)
    BY DEF Numbered, Known
  <1>2. \A l1, l2 \in W \cup {s} : l1.id = l2.id => l1 = l2
    BY DEF Numbered
  <1>3. QED
    BY <1>1, <1>2 DEF Numbered

LEMMA ShareWithdrawn ==
    ASSUME NEW g, NEW n, NEW t, NEW a, NEW b, NEW P, NEW W, NEW i,
           Numbered(g, n, t, a, b, P, W, {i})
    PROVE  Numbered(g, n, t, a, b, P \ {i}, W, {})
  <1>1. \A k \in W : Known(k, n, t, a, b, P \ {i})
    BY DEF Numbered, Known
  <1>2. QED
    BY <1>1 DEF Numbered

\* A table stays or loses the number.
Shrinks(id, old, new) == new \in {old, old \ {id}}

LEMMA LineAnswered ==
    ASSUME NEW g, NEW n, NEW t, NEW a, NEW b, NEW P, NEW W, NEW B, NEW l \in W,
           NEW t2, NEW a2, NEW b2, NEW P2,
           Shrinks(l.id, t, t2), Shrinks(l.id, a, a2), Shrinks(l.id, b, b2), Shrinks(l.id, P, P2),
           Numbered(g, n, t, a, b, P, W, B)
    PROVE  Numbered(g, n, t2, a2, b2, P2, W \ {l}, B)
  <1>0. /\ t2 = t \/ t2 = t \ {l.id}
        /\ a2 = a \/ a2 = a \ {l.id}
        /\ b2 = b \/ b2 = b \ {l.id}
        /\ P2 = P \/ P2 = P \ {l.id}
    BY DEF Shrinks
  <1>1. \A k \in W \ {l} : k.id # l.id
    BY DEF Numbered
  <1>2. \A k \in W \ {l} : Known(k, n, t2, a2, b2, P2)
    BY <1>0, <1>1 DEF Numbered, Known
  <1>3. QED
    BY <1>0, <1>2 DEF Numbered

LEMMA LinesLost ==
    ASSUME NEW g, NEW n, NEW t, NEW a, NEW b, NEW P, NEW W, NEW B, NEW P2 \in SUBSET P,
           Numbered(g, n, t, a, b, P, W, B)
    PROVE  Numbered(g, n, t, a, b, P2, {}, {})
  BY DEF Numbered

(* Adding a number to the books and taking one off.                        *)

LEMMA Pending ==
    ASSUME NEW S, IsFiniteSet(S), NEW i
    PROVE  /\ IsFiniteSet(S \cup {i}) /\ IsFiniteSet(S \ {i})
           /\ Cardinality(S) \in Nat /\ Cardinality(S \cup {i}) \in Nat
           /\ Cardinality(S \ {i}) \in Nat
           /\ Cardinality(S \cup {i}) <= Cardinality(S) + 1
           /\ i \in S => Cardinality(S \ {i}) = Cardinality(S) - 1
           /\ i \notin S => S \ {i} = S
  <1>1. /\ IsFiniteSet(S \cup {i})
        /\ Cardinality(S \cup {i}) = IF i \in S THEN Cardinality(S) ELSE Cardinality(S) + 1
    BY FS_AddElement
  <1>2. /\ IsFiniteSet(S \ {i})
        /\ Cardinality(S \ {i}) = IF i \in S THEN Cardinality(S) - 1 ELSE Cardinality(S)
    BY FS_RemoveElement
  <1>3. /\ Cardinality(S) \in Nat /\ Cardinality(S \cup {i}) \in Nat
        /\ Cardinality(S \ {i}) \in Nat
    BY <1>1, <1>2, FS_CardinalityType
  <1>4. QED
    BY <1>1, <1>2, <1>3

-----------------------------------------------------------------------------
(* One lemma per action.                                                   *)

LEMMA NothingBooked ==
    /\ submit \in {NoLine, [id |-> -2]} => Sendable = {} /\ Booked = {}
    /\ submit' \in {NoLine, [id |-> -2]} => Sendable' = {} /\ Booked' = {}
  BY DEF Sendable, Booked

LEMMA BooksInit ==
    ASSUME Pools # {}, Telemetry \in BOOLEAN, Init
    PROVE  Books
  <1>1. PICK p \in Pools : conn = [FreshConn(0, p) EXCEPT !.up = FALSE]
    BY Zenon DEF Init
  <1> DEFINE fresh == FreshConn(0, p)
  <1>2. /\ fresh \in Conns /\ fresh.gen = 0 /\ fresh.next \in {2, 3}
        /\ fresh.telemetry_req_ids \in SUBSET {2}
        /\ fresh.next = 2 => fresh.telemetry_req_ids = {}
        /\ fresh.ai_response_ids = {} /\ fresh.b64 = FALSE /\ fresh.b64_ids = {}
    BY DEF FreshConn, Conns
  <1>3. conn = [fresh EXCEPT !.up = FALSE]
    BY <1>1
  <1> HIDE DEF fresh
  <1>4. /\ conn \in Conns /\ conn.gen = 0 /\ conn.up = FALSE /\ conn.next \in {2, 3}
        /\ conn.telemetry_req_ids \in SUBSET {2}
        /\ conn.next = 2 => conn.telemetry_req_ids = {}
        /\ conn.ai_response_ids = {} /\ conn.b64 = FALSE /\ conn.b64_ids = {}
    BY <1>2, <1>3, Zenon DEF Conns
  <1>5. Typed
    BY <1>4, FS_EmptySet DEF Init, Typed, Keys, Stats
  <1>6. CountersAgree
    BY FS_EmptySet DEF Init, CountersAgree
  <1>7. Sendable = {} /\ Booked = {}
    BY NothingBooked DEF Init
  <1>8. Numbered(conn.gen, conn.next, conn.telemetry_req_ids, conn.ai_response_ids, conn.b64_ids,
                 shares_pending, wire, Booked)
    <2>1. Numbered(conn.gen, conn.next, conn.telemetry_req_ids, {}, {}, {}, {}, {})
      BY <1>4, FirstNumbers
    <2>2. QED
      BY <1>4, <1>7, <2>1, Zenon DEF Init
  <1>9. QED
    BY <1>4, <1>5, <1>6, <1>7, <1>8 DEF Books, Init, Between, RefusedStaysHex

LEMMA ConnectStep ==
    ASSUME Telemetry \in BOOLEAN, Books, NEW pool \in Pools, Connect(pool)
    PROVE  Books'
  <1> DEFINE fresh == FreshConn(conn.gen + 1, pool)
  <1>1. conn \in Conns
    BY DEF Books, Typed
  <1>2. conn.gen \in Nat
    BY <1>1 DEF Conns
  <1>3. /\ fresh \in Conns /\ fresh.gen = conn.gen + 1 /\ fresh.next \in {2, 3} /\ fresh.up = TRUE
        /\ fresh.telemetry_req_ids \in SUBSET {2}
        /\ fresh.next = 2 => fresh.telemetry_req_ids = {}
        /\ fresh.ai_response_ids = {} /\ fresh.b64 = FALSE /\ fresh.b64_ids = {}
    BY <1>2 DEF FreshConn, Conns
  <1>4. conn' = fresh
    BY DEF Connect
  <1> HIDE DEF fresh
  <1>5. /\ UNCHANGED <<submit, shares_pending, refused, stats, verdicts>> /\ ~conn.up
        /\ answer' = NoAnswer
    BY DEF Connect, ledger
  <1>6. /\ submit = NoLine /\ Sendable' = {} /\ Booked' = {}
    BY <1>5, NothingBooked DEF Books, Between
  <1>7. /\ \A l \in wire' : \/ l.id = 0 /\ l.kind = "subscribe" /\ l = Line(0, "subscribe")
                            \/ l.id = 1 /\ l.kind = "authorize" /\ l = Line(1, "authorize")
                            \/ /\ l.id = 2 /\ l.kind = "telemetry" /\ l = Line(2, "telemetry")
                               /\ 2 \in conn'.telemetry_req_ids
    BY <1>3, <1>4 DEF Connect, Line
  <1>8. \A l1, l2 \in wire' : l1.id = l2.id => l1 = l2
    BY <1>7
  <1>9. /\ \A i \in shares_pending' : i \in Nat /\ i >= 2
        /\ conn'.gen <= 1 => shares_pending' = {}
    BY <1>2, <1>3, <1>4, <1>5 DEF Books, Between, Numbered
  <1>10. Numbered(conn.gen, conn.next, conn.telemetry_req_ids, conn.ai_response_ids, conn.b64_ids,
                 shares_pending, wire, Booked)'
    <2>1. Numbered(conn'.gen, conn'.next, conn'.telemetry_req_ids, {}, {}, shares_pending', wire', {})
      <3> DEFINE g == conn'.gen  n == conn'.next  t == conn'.telemetry_req_ids
                 P == shares_pending'  W == wire'
      <3>1. /\ g \in Nat /\ n \in {2, 3} /\ t \in SUBSET {2}
            /\ n = 2 => t = {}
            /\ \A i \in P : i \in Nat /\ i >= 2
            /\ g <= 1 => P = {}
            /\ \A l1, l2 \in W : l1.id = l2.id => l1 = l2
            /\ \A l \in W : \/ l.id = 0 /\ l.kind = "subscribe"
                            \/ l.id = 1 /\ l.kind = "authorize"
                            \/ l.id = 2 /\ l.kind = "telemetry" /\ 2 \in t
        BY <1>2, <1>3, <1>4, <1>7, <1>8, <1>9
      <3> HIDE DEF g, n, t, P, W
      <3>2. Numbered(g, n, t, {}, {}, P, W, {})
        BY <3>1 DEF Numbered, Known
      <3>3. QED
        BY <3>2 DEF g, n, t, P, W
    <2>2. QED
      BY <1>3, <1>4, <1>6, <2>1
  <1>11. Typed' /\ Between' /\ RefusedStaysHex'
    BY <1>2, <1>3, <1>4, <1>5, <1>6 DEF Books, Typed, Between, RefusedStaysHex, Keys
  <1>12. CountersAgree'
    BY <1>2, <1>3, <1>4, <1>5 DEF Books, Typed, Between, CountersAgree
  <1>13. QED
    BY <1>10, <1>11, <1>12 DEF Books

LEMMA SendTelemetryStep ==
    ASSUME Books, TrackingFits, SendTelemetry
    PROVE  Books'
  <1> DEFINE ids == Tracked(conn.telemetry_req_ids, conn.next)
             n == conn.next + 1
             new == Line(conn.next, "telemetry")
  <1>1. conn \in Conns /\ conn.next \in Nat /\ conn.telemetry_req_ids \in SUBSET Nat
    BY DEF Books, Typed, Conns
  <1>2. ids = conn.telemetry_req_ids \cup {conn.next}
    BY DEF TrackingFits, Tracked
  <1>3. conn' = [conn EXCEPT !.next = n, !.telemetry_req_ids = ids]
    BY DEF SendTelemetry
  <1>4. /\ new.id = conn.next /\ new.kind = "telemetry" /\ wire' = wire \cup {new}
        /\ UNCHANGED <<submit, shares_pending, refused, answer, stats, verdicts>> /\ conn.up
    BY DEF SendTelemetry, Line, ledger
  <1>5. ids \in SUBSET Nat /\ n \in Nat
    BY <1>1, <1>2
  <1> HIDE DEF ids, n, new
  <1>6. conn' \in Conns
    BY <1>1, <1>3, <1>5, Zenon DEF Conns
  <1>7. /\ conn'.gen = conn.gen /\ conn'.next = n /\ conn'.up = conn.up
        /\ conn'.pool = conn.pool /\ conn'.b64 = conn.b64 /\ conn'.b64_ids = conn.b64_ids
        /\ conn'.telemetry_req_ids = ids /\ conn'.ai_response_ids = conn.ai_response_ids
    BY <1>1, <1>3 DEF Conns
  <1>8. Numbered(conn.gen, conn.next + 1, ids, conn.ai_response_ids, conn.b64_ids,
                 shares_pending, wire \cup {new}, Booked)
    BY <1>2, <1>4, NewLine DEF Books
  <1>9. /\ Booked' = Booked /\ Sendable' = Sendable
    BY <1>4 DEF Booked, Sendable
  <1>10. Numbered(conn.gen, conn.next, conn.telemetry_req_ids, conn.ai_response_ids, conn.b64_ids,
                  shares_pending, wire, Booked)'
    BY <1>4, <1>7, <1>8, <1>9 DEF n
  <1>11. Typed' /\ Between' /\ RefusedStaysHex' /\ CountersAgree'
    BY <1>4, <1>6, <1>7, <1>9 DEF Books, Typed, Between, RefusedStaysHex, CountersAgree
  <1>12. QED
    BY <1>10, <1>11 DEF Books

LEMMA SendAiResponseStep ==
    ASSUME Books, TrackingFits, SendAiResponse
    PROVE  Books'
  <1> DEFINE ids == Tracked(conn.ai_response_ids, conn.next)
             n == conn.next + 1
             new == Line(conn.next, "response")
  <1>1. conn \in Conns /\ conn.next \in Nat /\ conn.ai_response_ids \in SUBSET Nat
    BY DEF Books, Typed, Conns
  <1>2. ids = conn.ai_response_ids \cup {conn.next}
    BY DEF TrackingFits, Tracked
  <1>3. conn' = [conn EXCEPT !.next = n, !.ai_response_ids = ids]
    BY DEF SendAiResponse
  <1>4. /\ new.id = conn.next /\ new.kind = "response" /\ wire' = wire \cup {new}
        /\ UNCHANGED <<submit, shares_pending, refused, answer, stats, verdicts>> /\ conn.up
    BY DEF SendAiResponse, Line, ledger
  <1>5. ids \in SUBSET Nat /\ n \in Nat
    BY <1>1, <1>2
  <1> HIDE DEF ids, n, new
  <1>6. conn' \in Conns
    BY <1>1, <1>3, <1>5, Zenon DEF Conns
  <1>7. /\ conn'.gen = conn.gen /\ conn'.next = n /\ conn'.up = conn.up
        /\ conn'.pool = conn.pool /\ conn'.b64 = conn.b64 /\ conn'.b64_ids = conn.b64_ids
        /\ conn'.ai_response_ids = ids /\ conn'.telemetry_req_ids = conn.telemetry_req_ids
    BY <1>1, <1>3 DEF Conns
  <1>8. Numbered(conn.gen, conn.next + 1, conn.telemetry_req_ids, ids, conn.b64_ids,
                 shares_pending, wire \cup {new}, Booked)
    BY <1>2, <1>4, NewLine DEF Books
  <1>9. /\ Booked' = Booked /\ Sendable' = Sendable
    BY <1>4 DEF Booked, Sendable
  <1>10. Numbered(conn.gen, conn.next, conn.telemetry_req_ids, conn.ai_response_ids, conn.b64_ids,
                  shares_pending, wire, Booked)'
    BY <1>4, <1>7, <1>8, <1>9 DEF n
  <1>11. Typed' /\ Between' /\ RefusedStaysHex' /\ CountersAgree'
    BY <1>4, <1>6, <1>7, <1>9 DEF Books, Typed, Between, RefusedStaysHex, CountersAgree
  <1>12. QED
    BY <1>10, <1>11 DEF Books

LEMMA DisconnectStep ==
    ASSUME Books, Disconnect
    PROVE  Books'
  <1>1. conn \in Conns
    BY DEF Books, Typed
  <1>2. /\ conn' = [conn EXCEPT !.up = FALSE] /\ submit' = NoLine /\ wire' = {}
        /\ UNCHANGED <<refused, answer, shares_pending, stats, verdicts>> /\ conn.up
    BY DEF Disconnect, Hangup, ledger
  <1>3. conn' \in Conns
    BY <1>1, <1>2, Zenon DEF Conns
  <1>4. /\ conn'.gen = conn.gen /\ conn'.next = conn.next /\ conn'.up = FALSE
        /\ conn'.pool = conn.pool /\ conn'.b64 = conn.b64 /\ conn'.b64_ids = conn.b64_ids
        /\ conn'.telemetry_req_ids = conn.telemetry_req_ids
        /\ conn'.ai_response_ids = conn.ai_response_ids
    BY <1>1, <1>2 DEF Conns
  <1>5. Booked' = {} /\ Sendable' = {}
    BY <1>2, NothingBooked
  <1>6. Numbered(conn.gen, conn.next, conn.telemetry_req_ids, conn.ai_response_ids, conn.b64_ids,
                 shares_pending, {}, {})
    BY LinesLost DEF Books
  <1>7. Numbered(conn.gen, conn.next, conn.telemetry_req_ids, conn.ai_response_ids, conn.b64_ids,
                 shares_pending, wire, Booked)'
    BY <1>2, <1>4, <1>5, <1>6
  <1>8. Typed' /\ Between' /\ RefusedStaysHex' /\ CountersAgree'
    BY <1>2, <1>3, <1>4, <1>5 DEF Books, Typed, Between, RefusedStaysHex, CountersAgree
  <1>9. QED
    BY <1>7, <1>8 DEF Books

LEMMA TaskAnsweredStep ==
    ASSUME Books, NEW key \in Keys, TaskAnswered(key)
    PROVE  Books'
  <1>1. /\ UNCHANGED <<conn, submit, shares_pending, refused, wire, stats, verdicts>> /\ answer' = key
    BY DEF TaskAnswered, ledger
  <1>2. Booked' = Booked /\ Sendable' = Sendable
    BY <1>1 DEF Booked, Sendable
  <1>3. QED
    BY <1>1, <1>2 DEF Books, Typed, Between, RefusedStaysHex, CountersAgree

LEMMA BookShareStep ==
    ASSUME Books, BookShare
    PROVE  Books'
  <1> DEFINE id == conn.next
             n == conn.next + 1
             b == conn.b64_ids \cup (IF conn.b64 THEN {id} ELSE {})
             key == IF answer \in ai_responses_accepted THEN NoAnswer ELSE answer
             s == Share(id, key, conn.b64)
             more == stats.submitted + 1
             due == stats.pending + 1
  <1>1. /\ conn \in Conns /\ conn.next \in Nat /\ conn.b64_ids \in SUBSET Nat /\ conn.b64 \in BOOLEAN
        /\ stats \in Stats
        /\ IsFiniteSet(shares_pending) /\ shares_pending \in SUBSET Nat /\ answer \in Keys
    BY DEF Books, Typed, Conns
  <1>2. /\ conn' = [conn EXCEPT !.next = n, !.b64_ids = b] /\ submit' = s
        /\ stats' = [stats EXCEPT !.submitted = more, !.pending = due]
        /\ shares_pending' = shares_pending \cup {id}
        /\ UNCHANGED <<refused, answer, wire, verdicts>>
        /\ conn.up /\ submit = NoLine
    BY DEF BookShare
  <1>3. /\ b \in SUBSET Nat /\ n \in Nat /\ id \in Nat /\ b \in {conn.b64_ids, conn.b64_ids \cup {id}}
        /\ key \in Keys /\ more = stats.submitted + 1 /\ due = stats.pending + 1
        /\ more \in Nat /\ due \in Nat
    BY <1>1 DEF Keys, Stats
  <1>4. /\ s = Share(id, key, conn.b64) /\ s.id = id /\ s \notin {NoLine, [id |-> -2]}
    BY <1>3 DEF Share, NoLine
  <1>5. n = id + 1 /\ id = conn.next
    OBVIOUS
  <1> HIDE DEF id, n, b, key, s, more, due
  <1>6. conn' \in Conns
    BY <1>1, <1>2, <1>3, Zenon DEF Conns
  <1>7. /\ conn'.gen = conn.gen /\ conn'.next = n /\ conn'.up = conn.up
        /\ conn'.pool = conn.pool /\ conn'.b64 = conn.b64 /\ conn'.b64_ids = b
        /\ conn'.telemetry_req_ids = conn.telemetry_req_ids
        /\ conn'.ai_response_ids = conn.ai_response_ids
    BY <1>1, <1>2, Zenon DEF Conns
  <1>8. /\ stats' \in Stats
        /\ stats'.submitted = stats.submitted + 1 /\ stats'.pending = stats.pending + 1
        /\ stats'.accepted = stats.accepted /\ stats'.rejected = stats.rejected
    BY <1>1, <1>2, <1>3, Zenon DEF Stats
  <1>9. Booked = {} /\ Sendable' = {s} /\ Booked' = {id}
    BY <1>2, <1>4, NothingBooked DEF Sendable, Booked
  <1>10. Numbered(conn.gen, id + 1, conn.telemetry_req_ids, conn.ai_response_ids, b,
                  shares_pending \cup {id}, wire, {id})
    BY <1>3, <1>5, <1>9, NewShare DEF Books
  <1>11. Numbered(conn.gen, conn.next, conn.telemetry_req_ids, conn.ai_response_ids, conn.b64_ids,
                  shares_pending, wire, Booked)'
    BY <1>2, <1>5, <1>7, <1>9, <1>10
  <1>12. /\ IsFiniteSet(shares_pending') /\ Cardinality(shares_pending) \in Nat
         /\ Cardinality(shares_pending') \in Nat
         /\ Cardinality(shares_pending') <= Cardinality(shares_pending) + 1
    BY <1>1, <1>2, Pending, Zenon
  <1>13. Typed'
    BY <1>1, <1>2, <1>3, <1>6, <1>8, <1>12 DEF Books, Typed
  <1>14. CountersAgree'
    BY <1>1, <1>2, <1>7, <1>8, <1>12 DEF Books, CountersAgree, Stats
  <1>15. Between' /\ RefusedStaysHex'
    <2>1. conn.gen # 0
      BY <1>2 DEF Books, Between
    <2>2. Between'
      BY <1>1, <1>2, <1>3, <1>4, <1>7, <1>9, <2>1 DEF Between
    <2>3. RefusedStaysHex'
      BY <1>2, <1>7 DEF Books, RefusedStaysHex
    <2>4. QED
      BY <2>2, <2>3
  <1>16. QED
    BY <1>11, <1>13, <1>14, <1>15 DEF Books

\* The share that is booked when the block task goes on.
LEMMA BookedShare ==
    ASSUME Books, "key" \in DOMAIN submit
    PROVE  /\ conn.up /\ submit.kind = "share" /\ submit.key \in Keys /\ submit.id \in Nat
           /\ Booked = {submit.id} /\ Sendable = {submit} /\ submit.id \in shares_pending
  <1>1. submit \notin {NoLine, [id |-> -2]}
    BY DEF NoLine
  <1>2. Sendable = {submit} /\ Booked = {submit.id}
    BY <1>1 DEF Sendable, Booked
  <1>3. /\ submit.kind = "share" /\ submit.key \in Keys /\ submit.id \in Nat
    BY <1>2 DEF Books, Between, Share
  <1>4. conn.up \in BOOLEAN
    BY DEF Books, Typed, Conns
  <1>5. QED
    BY <1>1, <1>2, <1>3, <1>4 DEF Books, Between, Numbered

LEMMA SendShareStep ==
    ASSUME Books, SendShare
    PROVE  Books'
  <1>1. /\ "key" \in DOMAIN submit /\ wire' = wire \cup {submit} /\ submit' = NoLine
        /\ UNCHANGED <<conn, shares_pending, refused, answer, stats, verdicts>>
    BY DEF SendShare
  <1>2. /\ submit.kind = "share" /\ submit.key \in Keys /\ Booked = {submit.id} /\ conn.up
    BY <1>1, BookedShare
  <1>3. Sendable' = {} /\ Booked' = {}
    BY <1>1, NothingBooked
  <1>4. Numbered(conn.gen, conn.next, conn.telemetry_req_ids, conn.ai_response_ids, conn.b64_ids,
                 shares_pending, wire \cup {submit}, {})
    BY <1>2, ShareSent DEF Books
  <1>5. QED
    BY <1>1, <1>2, <1>3, <1>4 DEF Books, Typed, Between, RefusedStaysHex, CountersAgree

LEMMA SendFailsStep ==
    ASSUME Books, SendFails
    PROVE  Books'
  <1> DEFINE due == Less(stats.pending)
  <1>1. /\ "key" \in DOMAIN submit /\ submit' = [id |-> -2]
        /\ shares_pending' = shares_pending \ {submit.id}
        /\ stats' = [stats EXCEPT !.pending = due]
        /\ UNCHANGED <<conn, refused, answer, wire, verdicts>>
    BY DEF SendFails
  <1>2. /\ submit.id \in shares_pending /\ Booked = {submit.id} /\ conn.up
    BY <1>1, BookedShare
  <1>3. Sendable' = {} /\ Booked' = {}
    BY <1>1, NothingBooked
  <1>4. Numbered(conn.gen, conn.next, conn.telemetry_req_ids, conn.ai_response_ids, conn.b64_ids,
                 shares_pending \ {submit.id}, wire, {})
    BY <1>2, ShareWithdrawn, Zenon DEF Books
  <1>5. /\ stats \in Stats
        /\ IsFiniteSet(shares_pending) /\ shares_pending \in SUBSET Nat
    BY DEF Books, Typed
  <1>6. due \in Nat /\ due >= stats.pending - 1
    BY <1>5 DEF Less, Stats
  <1> HIDE DEF due
  <1>7. /\ stats' \in Stats
        /\ stats'.submitted = stats.submitted /\ stats'.pending = due
        /\ stats'.accepted = stats.accepted /\ stats'.rejected = stats.rejected
    BY <1>1, <1>5, <1>6 DEF Stats
  <1>8. /\ IsFiniteSet(shares_pending') /\ Cardinality(shares_pending) \in Nat
        /\ Cardinality(shares_pending') = Cardinality(shares_pending) - 1
    BY <1>1, <1>2, <1>5, Pending, Zenon
  <1>9. Typed' /\ CountersAgree'
    BY <1>1, <1>5, <1>6, <1>7, <1>8 DEF Books, Typed, CountersAgree, Stats
  <1>10. QED
    BY <1>1, <1>2, <1>3, <1>4, <1>9 DEF Books, Between, RefusedStaysHex

-----------------------------------------------------------------------------
(* Replies.                                                                *)

\* What the number of a line that is answered says.
LEMMA AnsweredLine ==
    ASSUME Books, NEW line \in wire
    PROVE  /\ conn.gen # 0 /\ line.id \in Nat
           /\ line.kind = "share" =>
                 /\ line.id \in shares_pending /\ line.key \in Keys
                 /\ line.id \notin conn.telemetry_req_ids \cup conn.ai_response_ids
           /\ line.kind # "share" /\ line.id \notin conn.ai_response_ids =>
                 /\ line.id \notin conn.b64_ids
                 /\ line.id \notin conn.telemetry_req_ids => line.id \notin shares_pending
           /\ conn.gen <= 1 /\ line.id \in shares_pending => line.kind = "share"
           /\ line.kind = "subscribe" => line.id \notin shares_pending
  <1>1. /\ Known(line, conn.next, conn.telemetry_req_ids, conn.ai_response_ids, conn.b64_ids,
                 shares_pending)
        /\ \A i \in shares_pending : i >= 2
        /\ conn.gen <= 1 /\ line.id \in shares_pending => line.kind = "share"
    BY DEF Books, Numbered
  <1>2. conn.gen # 0
    BY DEF Books, Between
  <1>3. QED
    BY <1>1, <1>2 DEF Known

\* A reply takes the line off the wire and at most its number off the tables.
LEMMA ReplyStep ==
    ASSUME Books, NEW line \in wire, wire' = wire \ {line}, UNCHANGED <<submit, answer>>, conn.up,
           conn'.gen = conn.gen, conn'.next = conn.next, conn'.up = conn.up,
           conn'.telemetry_req_ids \in {conn.telemetry_req_ids, conn.telemetry_req_ids \ {line.id}},
           conn'.ai_response_ids \in {conn.ai_response_ids, conn.ai_response_ids \ {line.id}},
           conn'.b64_ids \in {conn.b64_ids, conn.b64_ids \ {line.id}},
           shares_pending' \in {shares_pending, shares_pending \ {line.id}},
           Typed', CountersAgree', RefusedStaysHex'
    PROVE  Books'
  <1>1. Booked' = Booked /\ Sendable' = Sendable
    BY DEF Booked, Sendable
  <1>2. Numbered(conn.gen, conn.next, conn'.telemetry_req_ids, conn'.ai_response_ids, conn'.b64_ids,
                 shares_pending', wire \ {line}, Booked)
    <2> DEFINE t2 == conn'.telemetry_req_ids  a2 == conn'.ai_response_ids  b2 == conn'.b64_ids
               P2 == shares_pending'
    <2>1. /\ Shrinks(line.id, conn.telemetry_req_ids, t2) /\ Shrinks(line.id, conn.ai_response_ids, a2)
          /\ Shrinks(line.id, conn.b64_ids, b2) /\ Shrinks(line.id, shares_pending, P2)
      BY DEF Shrinks
    <2>2. Numbered(conn.gen, conn.next, conn.telemetry_req_ids, conn.ai_response_ids, conn.b64_ids,
                   shares_pending, wire, Booked)
      BY DEF Books
    <2> HIDE DEF t2, a2, b2, P2
    <2>3. Numbered(conn.gen, conn.next, t2, a2, b2, P2, wire \ {line}, Booked)
      BY <2>1, <2>2, LineAnswered
    <2>4. QED
      BY <2>3 DEF t2, a2, b2, P2
  <1>3. Between'
    BY <1>1, AnsweredLine DEF Books, Between
  <1>4. QED
    BY <1>1, <1>2, <1>3 DEF Books

\* A share that is settled moves one count from the books to the verdicts.
LEMMA Settled ==
    ASSUME Books, NEW id \in shares_pending, shares_pending' = shares_pending \ {id},
           stats' \in Stats, verdicts' \in [ok : Nat, bad : Nat, keys : SUBSET Keys],
           stats'.submitted = stats.submitted, stats'.pending = Less(stats.pending),
           \/ stats'.accepted = stats.accepted + 1 /\ stats'.rejected = stats.rejected
           \/ stats'.accepted = stats.accepted /\ stats'.rejected = stats.rejected + 1,
           stats'.accepted = verdicts'.ok, stats'.rejected >= verdicts'.bad,
           conn'.gen = conn.gen, conn.gen <= 1 => stats'.rejected = verdicts'.bad,
           conn' \in Conns, answer' = answer
    PROVE  Typed' /\ CountersAgree'
  <1>1. /\ stats \in Stats /\ IsFiniteSet(shares_pending) /\ shares_pending \in SUBSET Nat
        /\ answer \in Keys
    BY DEF Books, Typed, Stats
  <1>2. /\ IsFiniteSet(shares_pending') /\ Cardinality(shares_pending) \in Nat
        /\ Cardinality(shares_pending') = Cardinality(shares_pending) - 1
    BY <1>1, Pending
  <1>3. Typed'
    BY <1>1, <1>2 DEF Typed, Stats
  <1>4. /\ stats.pending \in Nat /\ stats.accepted \in Nat /\ stats.rejected \in Nat
        /\ stats.submitted \in Nat
    BY <1>1 DEF Stats
  <1>5. /\ stats'.pending >= Cardinality(shares_pending')
        /\ stats'.accepted + stats'.rejected + Cardinality(shares_pending') <= stats'.submitted
    BY <1>2, <1>4 DEF Books, CountersAgree, Less
  <1>6. QED
    BY <1>3, <1>5 DEF CountersAgree

LEMMA Unsettled ==
    ASSUME Books, conn'.gen = conn.gen, conn' \in Conns,
           UNCHANGED <<shares_pending, stats, verdicts, answer>>
    PROVE  Typed' /\ CountersAgree'
  BY DEF Books, Typed, CountersAgree

LEMMA AiResponseReplyStep ==
    ASSUME Books, NEW line \in wire, conn.up, AiResponseReply(line)
    PROVE  Books'
  <1> DEFINE ids == conn.ai_response_ids \ {line.id}
  <1>1. line.kind # "share"
    BY AnsweredLine DEF AiResponseReply
  <1>2. /\ conn' = [conn EXCEPT !.ai_response_ids = ids] /\ wire' = wire \ {line}
        /\ UNCHANGED <<submit, answer, refused, shares_pending, stats, verdicts>>
    BY <1>1 DEF AiResponseReply, Judged, ledger
  <1>3. conn \in Conns /\ ids \in SUBSET Nat /\ ids = conn.ai_response_ids \ {line.id}
    BY DEF Books, Typed, Conns
  <1> HIDE DEF ids
  <1>4. /\ conn' \in Conns /\ conn'.gen = conn.gen /\ conn'.next = conn.next /\ conn'.up = conn.up
        /\ conn'.pool = conn.pool /\ conn'.b64 = conn.b64 /\ conn'.b64_ids = conn.b64_ids
        /\ conn'.telemetry_req_ids = conn.telemetry_req_ids /\ conn'.ai_response_ids = ids
    BY <1>2, <1>3, Zenon DEF Conns
  <1>5. Typed' /\ CountersAgree'
    BY <1>2, <1>4, Unsettled
  <1>6. RefusedStaysHex'
    BY <1>2, <1>4 DEF Books, RefusedStaysHex
  <1>7. QED
    BY <1>2, <1>3, <1>4, <1>5, <1>6, ReplyStep, Zenon

LEMMA SubscribeReplyStep ==
    ASSUME Books, NEW line \in wire, conn.up, NEW offered \in BOOLEAN, SubscribeReply(line, offered)
    PROVE  Books'
  <1>1. /\ conn' = Absorbed(conn, offered) /\ wire' = wire \ {line}
        /\ UNCHANGED <<submit, answer, refused, shares_pending, stats, verdicts>>
    BY DEF SubscribeReply, Judged, ledger
  <1>2. conn \in Conns
    BY DEF Books, Typed
  <1>3. /\ conn' \in Conns /\ conn'.gen = conn.gen /\ conn'.next = conn.next /\ conn'.up = conn.up
        /\ conn'.pool = conn.pool /\ conn'.b64_ids = conn.b64_ids
        /\ conn'.telemetry_req_ids = conn.telemetry_req_ids
        /\ conn'.ai_response_ids = conn.ai_response_ids
    BY <1>1, <1>2, Zenon DEF Conns, Absorbed
  <1>4. Typed' /\ CountersAgree'
    BY <1>1, <1>3, Unsettled
  <1>5. RefusedStaysHex'
    BY <1>1, <1>2, <1>3 DEF Books, RefusedStaysHex, Absorbed, Conns
  <1>6. QED
    BY <1>1, <1>3, <1>4, <1>5, ReplyStep

LEMMA TrueReplyStep ==
    ASSUME Books, NEW line \in wire, conn.up, TrueReply(line)
    PROVE  Books'
  <1> DEFINE t == conn.telemetry_req_ids \ {line.id}
             b == conn.b64_ids \ {line.id}
  <1>1. /\ wire' = wire \ {line} /\ UNCHANGED <<submit, answer, refused>>
        /\ line.id \notin conn.ai_response_ids
    BY DEF TrueReply, Judged
  <1>2. /\ conn \in Conns /\ t \in SUBSET Nat /\ b \in SUBSET Nat
        /\ t = conn.telemetry_req_ids \ {line.id} /\ b = conn.b64_ids \ {line.id}
    BY DEF Books, Typed, Conns
  <1>3. CASE line.id \in conn.telemetry_req_ids
    <2>1. /\ line.kind # "share" /\ conn' = [conn EXCEPT !.telemetry_req_ids = t]
          /\ UNCHANGED <<shares_pending, stats, verdicts>>
      BY <1>3, AnsweredLine DEF TrueReply, Judged, ledger
    <2> HIDE DEF t, b
    <2>2. /\ conn' \in Conns /\ conn'.gen = conn.gen /\ conn'.next = conn.next /\ conn'.up = conn.up
          /\ conn'.pool = conn.pool /\ conn'.ai_response_ids = conn.ai_response_ids
          /\ conn'.b64 = conn.b64 /\ conn'.b64_ids = conn.b64_ids /\ conn'.telemetry_req_ids = t
      BY <1>2, <2>1, Zenon DEF Conns
    <2>3. Typed' /\ CountersAgree'
      BY <1>1, <2>1, <2>2, Unsettled
    <2>4. RefusedStaysHex'
      BY <1>1, <2>2 DEF Books, RefusedStaysHex
    <2>5. QED
      BY <1>1, <1>2, <2>1, <2>2, <2>3, <2>4, ReplyStep, ZenonT(60)
  <1>4. CASE line.id \notin conn.telemetry_req_ids
    <2>1. conn' = [conn EXCEPT !.b64_ids = b]
      BY <1>4 DEF TrueReply
    <2> HIDE DEF t, b
    <2>2. /\ conn' \in Conns /\ conn'.gen = conn.gen /\ conn'.next = conn.next /\ conn'.up = conn.up
          /\ conn'.pool = conn.pool /\ conn'.ai_response_ids = conn.ai_response_ids
          /\ conn'.b64 = conn.b64 /\ conn'.b64_ids = b
          /\ conn'.telemetry_req_ids = conn.telemetry_req_ids
      BY <1>2, <2>1, Zenon DEF Conns
    <2>3. RefusedStaysHex'
      BY <1>1, <2>2 DEF Books, RefusedStaysHex
    <2>4. CASE line.id \notin shares_pending
      <3>1. UNCHANGED <<shares_pending, stats, verdicts>>
        BY <1>4, <2>4, AnsweredLine DEF TrueReply, Judged, ledger
      <3>2. Typed' /\ CountersAgree'
        BY <1>1, <2>2, <3>1, Unsettled
      <3>3. QED
        BY <1>1, <1>2, <2>2, <2>3, <3>1, <3>2, ReplyStep
    <2>5. CASE line.id \in shares_pending
      <3> DEFINE due == Less(stats.pending)
                 won == stats.accepted + 1
                 told == stats.delivered + IF /\ line.id \in DOMAIN ai_responses_pending
                                              /\ ai_responses_pending[line.id]
                                                   \notin (IF Cardinality(ai_responses_accepted) >= AnswerCap
                                                          THEN {} ELSE ai_responses_accepted)
                                           THEN 1 ELSE 0
                 ok == verdicts.ok + 1
                 keys == verdicts.keys \cup {line.key}
      <3>1. line.kind = "share" /\ line.key \in Keys
        BY <1>1, <1>4, <2>5, AnsweredLine
      <3>2. /\ shares_pending' = shares_pending \ {line.id}
            /\ stats' = [stats EXCEPT !.pending = due, !.accepted = won, !.delivered = told]
            /\ verdicts' = [verdicts EXCEPT !.ok = ok, !.keys = keys]
        BY <1>4, <2>5, <3>1 DEF TrueReply, Accepted, Judged
      <3>3. /\ stats \in Stats /\ verdicts \in [ok : Nat, bad : Nat, keys : SUBSET Keys]
        BY DEF Books, Typed
      <3>4. /\ due \in Nat /\ won \in Nat /\ told \in Nat /\ ok \in Nat /\ keys \in SUBSET Keys
            /\ due = Less(stats.pending) /\ won = stats.accepted + 1 /\ ok = verdicts.ok + 1
        BY <3>1, <3>3 DEF Stats, Less
      <3> HIDE DEF due, won, told, ok, keys
      <3>5. /\ stats' \in Stats /\ stats'.submitted = stats.submitted /\ stats'.pending = due
            /\ stats'.accepted = won /\ stats'.rejected = stats.rejected
        BY <3>2, <3>3, <3>4, Zenon DEF Stats
      <3>6. /\ verdicts' \in [ok : Nat, bad : Nat, keys : SUBSET Keys]
            /\ verdicts'.ok = ok /\ verdicts'.bad = verdicts.bad
        BY <3>2, <3>3, <3>4, ZenonT(60)
      <3>7. /\ stats'.accepted = verdicts'.ok /\ stats'.rejected >= verdicts'.bad
            /\ conn.gen <= 1 => stats'.rejected = verdicts'.bad
        BY <3>4, <3>5, <3>6 DEF Books, CountersAgree
      <3>8. Typed' /\ CountersAgree'
        BY <1>1, <2>2, <2>5, <3>2, <3>4, <3>5, <3>6, <3>7, Settled
      <3>9. QED
        BY <1>1, <1>2, <2>2, <2>3, <3>2, <3>8, ReplyStep
    <2>6. QED
      BY <2>4, <2>5
  <1>5. QED
    BY <1>3, <1>4

\* A refusal that is counted.
LEMMA Refusal ==
    ASSUME Books, NEW line \in wire, line.id \in shares_pending,
           shares_pending' = shares_pending \ {line.id},
           stats' = [stats EXCEPT !.pending = Less(@), !.rejected = @ + 1],
           verdicts' = IF line.kind = "share" THEN [verdicts EXCEPT !.bad = @ + 1] ELSE verdicts,
           conn' \in Conns, conn'.gen = conn.gen, answer' = answer
    PROVE  Typed' /\ CountersAgree'
  <1> DEFINE due == Less(stats.pending)
             lost == stats.rejected + 1
             bad == verdicts.bad + 1
  <1>1. /\ stats \in Stats /\ verdicts \in [ok : Nat, bad : Nat, keys : SUBSET Keys]
    BY DEF Books, Typed
  <1>2. /\ due \in Nat /\ lost \in Nat /\ bad \in Nat
        /\ due = Less(stats.pending) /\ lost = stats.rejected + 1 /\ bad = verdicts.bad + 1
        /\ stats.rejected \in Nat /\ verdicts.bad \in Nat
    BY <1>1 DEF Stats, Less
  <1>3. /\ stats' = [stats EXCEPT !.pending = due, !.rejected = lost]
        /\ verdicts' = IF line.kind = "share" THEN [verdicts EXCEPT !.bad = bad] ELSE verdicts
    OBVIOUS
  <1> HIDE DEF due, lost, bad
  <1>4. /\ stats' \in Stats /\ stats'.submitted = stats.submitted /\ stats'.pending = due
        /\ stats'.accepted = stats.accepted /\ stats'.rejected = lost
    BY <1>1, <1>2, <1>3, Zenon DEF Stats
  <1>5. /\ verdicts' \in [ok : Nat, bad : Nat, keys : SUBSET Keys] /\ verdicts'.ok = verdicts.ok
        /\ verdicts'.bad = IF line.kind = "share" THEN bad ELSE verdicts.bad
    BY <1>1, <1>2, <1>3
  <1>6. conn.gen <= 1 => line.kind = "share"
    BY AnsweredLine
  <1>7. /\ stats'.accepted = verdicts'.ok /\ stats'.rejected >= verdicts'.bad
        /\ conn.gen <= 1 => stats'.rejected = verdicts'.bad
    BY <1>2, <1>4, <1>5, <1>6 DEF Books, CountersAgree
  <1>8. QED
    BY <1>2, <1>4, <1>5, <1>7, Settled

LEMMA OtherReplyStep ==
    ASSUME Books, NEW line \in wire, conn.up, OtherReply(line)
    PROVE  Books'
  <1> DEFINE t == conn.telemetry_req_ids \ {line.id}
             b == conn.b64_ids \ {line.id}
             c == [conn EXCEPT !.telemetry_req_ids = t, !.b64_ids = b]
             was == line.id \in conn.b64_ids /\ line.id \in shares_pending
  <1>1. /\ wire' = wire \ {line} /\ UNCHANGED <<submit, answer>>
        /\ line.kind # "subscribe" /\ line.id \notin conn.ai_response_ids
        /\ verdicts' = IF line.kind = "share" THEN [verdicts EXCEPT !.bad = @ + 1] ELSE verdicts
    BY DEF OtherReply, Judged
  <1>2. /\ conn \in Conns /\ t \in SUBSET Nat /\ b \in SUBSET Nat
        /\ t = conn.telemetry_req_ids \ {line.id} /\ b = conn.b64_ids \ {line.id}
    BY DEF Books, Typed, Conns
  <1>3. /\ conn' = IF was THEN Fallback(c) ELSE c
        /\ refused' = refused \cup (IF was THEN {conn.pool} ELSE {})
    BY DEF OtherReply
  <1>4. IF line.id \in shares_pending THEN Rejected(line.id, TRUE) ELSE UNCHANGED <<ledger, stats>>
    BY Zenon DEF OtherReply
  <1> HIDE DEF t, b, was
  <1>5. /\ c \in Conns /\ c.gen = conn.gen /\ c.next = conn.next /\ c.up = conn.up
        /\ c.pool = conn.pool /\ c.ai_response_ids = conn.ai_response_ids /\ c.b64 = conn.b64
        /\ c.telemetry_req_ids = t /\ c.b64_ids = b
    BY <1>2, Zenon DEF Conns
  <1> HIDE DEF c
  <1>6. /\ conn' \in Conns /\ conn'.gen = conn.gen /\ conn'.next = conn.next /\ conn'.up = conn.up
        /\ conn'.pool = conn.pool /\ conn'.ai_response_ids = conn.ai_response_ids
        /\ conn'.telemetry_req_ids = t /\ conn'.b64_ids = b
        /\ conn'.b64 = IF was THEN FALSE ELSE conn.b64
    BY <1>3, <1>5, Zenon DEF Conns, Fallback
  <1>7. RefusedStaysHex'
    BY <1>3, <1>6, Zenon DEF Books, RefusedStaysHex
  <1>8. CASE line.id \in shares_pending
    <2>1. /\ shares_pending' = shares_pending \ {line.id}
          /\ stats' = [stats EXCEPT !.pending = Less(@), !.rejected = @ + 1]
      BY <1>4, <1>8 DEF Rejected
    <2>2. Typed' /\ CountersAgree'
      BY <1>1, <1>6, <1>8, <2>1, Refusal
    <2>3. QED
      BY <1>1, <1>2, <1>6, <1>7, <2>1, <2>2, ReplyStep
  <1>9. CASE line.id \notin shares_pending
    <2>1. UNCHANGED <<shares_pending, stats, verdicts>>
      BY <1>1, <1>4, <1>9, AnsweredLine DEF ledger
    <2>2. Typed' /\ CountersAgree'
      BY <1>1, <1>6, <2>1, Unsettled
    <2>3. QED
      BY <1>1, <1>2, <1>6, <1>7, <2>1, <2>2, ReplyStep
  <1>10. QED
    BY <1>8, <1>9

LEMMA ErrorReplyStep ==
    ASSUME Books, NEW line \in wire, conn.up, NEW unknown \in BOOLEAN, ErrorReply(line, unknown)
    PROVE  Books'
  <1> DEFINE t == conn.telemetry_req_ids \ {line.id}
             b == conn.b64_ids \ {line.id}
             c == [conn EXCEPT !.b64_ids = b]
             on == conn.telemetry_on /\ ~unknown
             was == line.id \in conn.b64_ids
  <1>1. /\ wire' = wire \ {line} /\ UNCHANGED <<submit, answer>> /\ line.id \notin conn.ai_response_ids
        /\ verdicts' = IF line.kind = "share" THEN [verdicts EXCEPT !.bad = @ + 1] ELSE verdicts
    BY DEF ErrorReply, Judged
  <1>2. /\ conn \in Conns /\ t \in SUBSET Nat /\ b \in SUBSET Nat /\ on \in BOOLEAN
        /\ t = conn.telemetry_req_ids \ {line.id} /\ b = conn.b64_ids \ {line.id}
    BY DEF Books, Typed, Conns
  <1>3. CASE line.id \in conn.telemetry_req_ids
    <2>1. /\ line.kind # "share" /\ UNCHANGED <<shares_pending, stats, verdicts, refused>>
          /\ conn' = [conn EXCEPT !.telemetry_req_ids = t, !.telemetry_on = on]
      BY <1>1, <1>3, AnsweredLine DEF ErrorReply, ledger
    <2> HIDE DEF t, b, c, on, was
    <2>2. /\ conn' \in Conns /\ conn'.gen = conn.gen /\ conn'.next = conn.next /\ conn'.up = conn.up
          /\ conn'.pool = conn.pool /\ conn'.ai_response_ids = conn.ai_response_ids
          /\ conn'.b64 = conn.b64 /\ conn'.b64_ids = conn.b64_ids /\ conn'.telemetry_req_ids = t
      BY <1>2, <2>1, Zenon DEF Conns
    <2>3. Typed' /\ CountersAgree'
      BY <1>1, <2>1, <2>2, Unsettled
    <2>4. RefusedStaysHex'
      BY <2>1, <2>2 DEF Books, RefusedStaysHex
    <2>5. QED
      BY <1>1, <1>2, <2>1, <2>2, <2>3, <2>4, ReplyStep, ZenonT(60)
  <1>4. CASE line.id \notin conn.telemetry_req_ids
    <2>1. /\ conn' = IF was THEN Fallback(c) ELSE c
          /\ refused' = refused \cup (IF was THEN {conn.pool} ELSE {})
          /\ Rejected(line.id, was \/ line.id \in shares_pending)
      BY <1>4 DEF ErrorReply
    <2>2. was => line.id \in shares_pending
      BY <1>1, AnsweredLine
    <2> HIDE DEF t, b, was
    <2>3. /\ c \in Conns /\ c.gen = conn.gen /\ c.next = conn.next /\ c.up = conn.up
          /\ c.pool = conn.pool /\ c.ai_response_ids = conn.ai_response_ids /\ c.b64 = conn.b64
          /\ c.telemetry_req_ids = conn.telemetry_req_ids /\ c.b64_ids = b
      BY <1>2, Zenon DEF Conns
    <2> HIDE DEF c
    <2>4. /\ conn' \in Conns /\ conn'.gen = conn.gen /\ conn'.next = conn.next /\ conn'.up = conn.up
          /\ conn'.pool = conn.pool /\ conn'.ai_response_ids = conn.ai_response_ids
          /\ conn'.telemetry_req_ids = conn.telemetry_req_ids /\ conn'.b64_ids = b
          /\ conn'.b64 = IF was THEN FALSE ELSE conn.b64
      BY <2>1, <2>3, Zenon DEF Conns, Fallback
    <2>5. RefusedStaysHex'
      BY <2>1, <2>4, Zenon DEF Books, RefusedStaysHex
    <2>6. CASE line.id \in shares_pending
      <3>1. /\ shares_pending' = shares_pending \ {line.id}
            /\ stats' = [stats EXCEPT !.pending = Less(@), !.rejected = @ + 1]
        BY <2>1, <2>6 DEF Rejected
      <3>2. Typed' /\ CountersAgree'
        BY <1>1, <2>4, <2>6, <3>1, Refusal
      <3>3. QED
        BY <1>1, <1>2, <2>4, <2>5, <3>1, <3>2, ReplyStep
    <2>7. CASE line.id \notin shares_pending
      <3>1. UNCHANGED <<stats, verdicts>> /\ shares_pending' = shares_pending \ {line.id}
        BY <1>1, <2>1, <2>2, <2>7, AnsweredLine DEF Rejected
      <3>2. shares_pending' = shares_pending
        BY <2>7, <3>1
      <3>3. Typed' /\ CountersAgree'
        BY <1>1, <2>4, <3>1, <3>2, Unsettled
      <3>4. QED
        BY <1>1, <1>2, <2>4, <2>5, <3>2, <3>3, ReplyStep
    <2>8. QED
      BY <2>6, <2>7
  <1>5. QED
    BY <1>3, <1>4

LEMMA FatalReplyStep ==
    ASSUME Books, NEW line \in wire, conn.up, FatalReply(line)
    PROVE  Books'
  <1>1. conn \in Conns
    BY DEF Books, Typed
  <1>2. /\ conn' = [conn EXCEPT !.up = FALSE] /\ submit' = NoLine /\ wire' = {}
        /\ UNCHANGED <<refused, answer>>
        /\ shares_pending' = shares_pending \ {line.id}
        /\ verdicts' = IF line.kind = "share" THEN [verdicts EXCEPT !.bad = @ + 1] ELSE verdicts
        /\ stats' = IF line.id \in shares_pending
                    THEN [stats EXCEPT !.pending = Less(@), !.rejected = @ + 1] ELSE stats
        /\ line.id \notin conn.ai_response_ids \cup conn.telemetry_req_ids
    BY DEF FatalReply, Hangup, Rejected
  <1>3. /\ conn' \in Conns /\ conn'.gen = conn.gen /\ conn'.next = conn.next /\ conn'.up = FALSE
        /\ conn'.pool = conn.pool /\ conn'.b64 = conn.b64 /\ conn'.b64_ids = conn.b64_ids
        /\ conn'.telemetry_req_ids = conn.telemetry_req_ids
        /\ conn'.ai_response_ids = conn.ai_response_ids
    BY <1>1, <1>2, Zenon DEF Conns
  <1>4. Booked' = {} /\ Sendable' = {}
    BY <1>2, NothingBooked
  <1>5. Numbered(conn.gen, conn.next, conn.telemetry_req_ids, conn.ai_response_ids, conn.b64_ids,
                 shares_pending \ {line.id}, {}, {})
    BY LinesLost DEF Books
  <1>6. Numbered(conn.gen, conn.next, conn.telemetry_req_ids, conn.ai_response_ids, conn.b64_ids,
                 shares_pending, wire, Booked)'
    BY <1>2, <1>3, <1>4, <1>5
  <1>7. Typed' /\ CountersAgree'
    <2>1. CASE line.id \in shares_pending
      BY <1>2, <1>3, <2>1, Refusal, ZenonT(60)
    <2>2. CASE line.id \notin shares_pending
      <3>1. UNCHANGED <<shares_pending, stats, verdicts, answer>>
        BY <1>2, <2>2, AnsweredLine
      <3>2. QED
        BY <1>3, <3>1, Unsettled
    <2>3. QED
      BY <2>1, <2>2
  <1>8. Between' /\ RefusedStaysHex'
    BY <1>2, <1>3, <1>4, AnsweredLine DEF Books, Between, RefusedStaysHex
  <1>9. QED
    BY <1>6, <1>7, <1>8 DEF Books

-----------------------------------------------------------------------------
\* While no more telemetry lines or answers than the client tracks are
\* unanswered, its counters are the pool's verdicts, over any number of
\* connections: handle_message counts a share as accepted exactly when the pool
\* accepted one, loses no rejection, settles no submission twice; and the base64
\* encoding stays off for a pool that refused it.
THEOREM CountersAreExact ==
    ASSUME Pools # {}, Telemetry \in BOOLEAN
    PROVE  Spec /\ []TrackingFits => []CountsMatchVerdicts
  <1>1. Init => Books
    BY BooksInit
  <1>2. Books /\ TrackingFits /\ [Next]_vars => Books'
    <2> SUFFICES ASSUME Books, TrackingFits, [Next]_vars PROVE Books'
      OBVIOUS
    <2>1. CASE UNCHANGED vars
      <3>1. UNCHANGED <<conn, submit, shares_pending, refused, answer, wire, stats, verdicts>>
        BY <2>1 DEF vars
      <3>2. Booked' = Booked /\ Sendable' = Sendable
        BY <3>1 DEF Booked, Sendable
      <3>3. QED
        BY <3>1, <3>2 DEF Books, Typed, Between, RefusedStaysHex, CountersAgree
    <2>2. CASE \E pool \in Pools : Connect(pool)
      BY <2>2, ConnectStep
    <2>3. CASE Disconnect \/ SendTelemetry \/ SendAiResponse \/ BookShare \/ SendShare \/ SendFails
      BY <2>3, DisconnectStep, SendTelemetryStep, SendAiResponseStep, BookShareStep,
         SendShareStep, SendFailsStep
    <2>4. CASE \E key \in Answers \cup {NoAnswer} : TaskAnswered(key)
      BY <2>4, TaskAnsweredStep DEF Keys
    <2>5. ASSUME NEW line \in wire, Reply(line) PROVE Books'
      BY <2>5, AiResponseReplyStep, SubscribeReplyStep, TrueReplyStep, OtherReplyStep,
         ErrorReplyStep, FatalReplyStep DEF Reply
    <2>6. QED
      BY <2>1, <2>2, <2>3, <2>4, <2>5 DEF Next
  <1>3. Books => CountsMatchVerdicts
    BY DEF Books, CountsMatchVerdicts
  <1>4. QED
    BY <1>1, <1>2, <1>3, PTL DEF Spec
=============================================================================
