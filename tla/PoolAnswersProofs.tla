------------------------- MODULE PoolAnswersProofs -------------------------
(***************************************************************************)
(* Proofs about the AI work of a pool, PoolAnswers, for any requests,      *)
(* cards, connections, restarts and faults.                                *)
(*                                                                         *)
(* That an answer stays openable is not inductive: a restart keeps what is *)
(* on disk.  The invariant Recorded says where the trace of an answer is   *)
(* that was kept and whose record was not lost: in memory, with the time   *)
(* the answer was kept, and with the same time on disk or still in the     *)
(* writer's queue.                                                         *)
(***************************************************************************)
EXTENDS PoolAnswers, TLAPS

\* The backends that try a leaf, in turn, unless it names its own.
USE SMTT(30), ZenonT(30), Z3T(30)

Stages == {"none", "waiting", "running", "ran", "sending", "done", "fetching", "replaying", "built", "failed"}
Tasks == [stage : Stages, conn : Nat, gpu : Gpus \cup {None}, at : Nat]
Records == [at : Nat, gpu : Gpus \cup {None}, here : BOOLEAN]
Pools == [answered : SUBSET Requests, busy : SUBSET Requests, opened : SUBSET All, refused : SUBSET All,
          lost : SUBSET All, silent : SUBSET All]
Holders == {<<>>} \cup {<<"ask", r>> : r \in Requests} \cup {<<"open", r>> : r \in All}

Typed ==
    /\ conn \in Nat /\ now \in Nat /\ handler \in Foreign \cup {None}
    /\ ask \in [Requests -> Tasks] /\ open \in [All -> Tasks]
    /\ lease \in [Gpus -> Holders]
    /\ kept \in [All -> Records] /\ disk \in [All -> Records]
    /\ queue \in SUBSET (All \X Nat)
    /\ pool \in Pools

\* A task that runs has a card, no opening is from a later connection, and the
\* record the handler awaits is that of an opening that is being fetched.
Placed ==
    /\ \A r \in Requests : ask[r].stage = "running" => ask[r].gpu \in Gpus
    /\ \A r \in All : /\ open[r].stage = "replaying" => open[r].gpu \in Gpus
                      /\ open[r].conn <= conn
                      /\ handler = r => open[r].stage = "fetching"

\* The trace of this request is in memory, and on disk or on its way there.
Stored(r, at) ==
    /\ kept[r].here /\ kept[r].at = at
    /\ <<r, at>> \in queue \/ (disk[r].here /\ disk[r].at = at)

Recorded ==
    /\ \A w \in queue : w[1] \in Requests =>
         w[2] = ask[w[1]].at /\ ask[w[1]].stage \in {"sending", "done"}
    /\ \A r \in (Requests \cap Traced) \ pool.lost :
         (ask[r].stage = "sending" \/ r \in pool.answered) /\ ask[r].at + Keep >= now => Stored(r, ask[r].at)

Intact == Typed /\ Placed /\ Recorded /\ LeaseMeansRunning /\ EndedMeansAnswered

Assumed == Requests \cap Foreign = {} /\ None \notin All /\ Keep \in Nat

-----------------------------------------------------------------------------
LEMMA HolderOf ==
    /\ \A p : <<"ask", p>> # <<>> /\ <<"open", p>> # <<>>
    /\ \A p, q : <<"ask", p>> # <<"open", q>>
    /\ \A p, q : <<"ask", p>> = <<"ask", q>> => p = q
    /\ \A p, q : <<"open", p>> = <<"open", q>> => p = q
  OBVIOUS

LEMMA RefuseStep ==
    ASSUME Intact, NEW r \in Requests, Refuse(r)
    PROVE  Intact'
  <1>1. /\ ask' = [ask EXCEPT ![r].stage = "done"] /\ ask[r].stage = "none"
        /\ UNCHANGED <<conn, handler, open, lease, kept, queue, disk, now, pool>>
    BY DEF Refuse
  <1>2. /\ ask' \in [Requests -> Tasks]
        /\ ask'[r].stage = "done" /\ ask'[r].at = ask[r].at /\ ask'[r].gpu = ask[r].gpu
        /\ \A q \in Requests \ {r} : ask'[q] = ask[q]
    BY <1>1, ZenonT(120) DEF Intact, Typed, Tasks, Stages
  <1>3. Typed' /\ Placed' /\ EndedMeansAnswered'
    BY <1>1, <1>2 DEF Intact, Typed, Placed, EndedMeansAnswered, Live
  <1>4. LeaseMeansRunning'
    BY <1>1, <1>2 DEF Intact, LeaseMeansRunning
  <1>5. Recorded'
    BY <1>1, <1>2 DEF Intact, Recorded, Stored
  <1>6. QED
    BY <1>3, <1>4, <1>5 DEF Intact

LEMMA RequestStep ==
    ASSUME Intact, NEW r \in Requests, handle_ai_request(r)
    PROVE  Intact'
  <1>1. /\ ask' = [ask EXCEPT ![r].stage = "waiting", ![r].conn = conn] /\ ask[r].stage = "none"
        /\ UNCHANGED <<conn, handler, open, lease, kept, queue, disk, now, pool>>
    BY DEF handle_ai_request
  <1>2. /\ ask' \in [Requests -> Tasks]
        /\ ask'[r].stage = "waiting" /\ ask'[r].at = ask[r].at /\ ask'[r].gpu = ask[r].gpu
        /\ \A q \in Requests \ {r} : ask'[q] = ask[q]
    BY <1>1, ZenonT(120) DEF Intact, Typed, Tasks, Stages
  <1>3. Typed' /\ Placed' /\ EndedMeansAnswered'
    BY <1>1, <1>2 DEF Intact, Typed, Placed, EndedMeansAnswered, Live
  <1>4. LeaseMeansRunning'
    BY <1>1, <1>2 DEF Intact, LeaseMeansRunning
  <1>5. Recorded'
    BY <1>1, <1>2 DEF Intact, Recorded, Stored
  <1>6. QED
    BY <1>3, <1>4, <1>5 DEF Intact

LEMMA LeasedStep ==
    ASSUME Intact, NEW r \in Requests, Leased(r)
    PROVE  Intact'
  <1>1. PICK g \in Gpus :
          /\ lease[g] = <<>> /\ lease' = [lease EXCEPT ![g] = <<"ask", r>>]
          /\ ask' = [ask EXCEPT ![r].stage = "running", ![r].gpu = g] /\ ask[r].stage = "waiting"
          /\ UNCHANGED <<conn, handler, open, kept, queue, disk, now, pool>>
    BY Zenon DEF Leased, Free
  <1>2. /\ ask' \in [Requests -> Tasks]
        /\ ask'[r].stage = "running" /\ ask'[r].at = ask[r].at /\ ask'[r].gpu = g
        /\ \A q \in Requests \ {r} : ask'[q] = ask[q]
    BY <1>1, ZenonT(120) DEF Intact, Typed, Tasks, Stages
  <1>3. lease' \in [Gpus -> Holders] /\ lease'[g] = <<"ask", r>> /\ \A h \in Gpus \ {g} : lease'[h] = lease[h]
    BY <1>1 DEF Intact, Typed, Holders
  <1>4. Typed' /\ Placed' /\ EndedMeansAnswered'
    BY <1>1, <1>2, <1>3 DEF Intact, Typed, Placed, EndedMeansAnswered, Live
  <1>5. LeaseMeansRunning'
    BY <1>1, <1>2, <1>3, HolderOf DEF Intact, LeaseMeansRunning
  <1>6. Recorded'
    BY <1>1, <1>2 DEF Intact, Recorded, Stored
  <1>7. QED
    BY <1>4, <1>5, <1>6 DEF Intact

LEMMA BusyStep ==
    ASSUME Intact, NEW r \in Requests, Busy(r)
    PROVE  Intact'
  <1> DEFINE busy == pool.busy \cup {r}
  <1>1. /\ ask' = [ask EXCEPT ![r].stage = "done"] /\ ask[r].stage = "waiting"
        /\ pool' = [pool EXCEPT !.busy = busy] \/ pool' = pool
        /\ UNCHANGED <<conn, handler, open, lease, kept, queue, disk, now>>
    BY DEF Busy
  <1>2. /\ ask' \in [Requests -> Tasks]
        /\ ask'[r].stage = "done" /\ ask'[r].at = ask[r].at /\ ask'[r].gpu = ask[r].gpu
        /\ \A q \in Requests \ {r} : ask'[q] = ask[q]
    BY <1>1, ZenonT(120) DEF Intact, Typed, Tasks, Stages
  <1>3. busy \in SUBSET Requests /\ pool \in Pools
    BY DEF Intact, Typed, Pools
  <1> HIDE DEF busy
  <1>4. /\ pool' \in Pools /\ pool'.answered = pool.answered /\ pool'.opened = pool.opened
        /\ pool'.refused = pool.refused /\ pool'.lost = pool.lost /\ pool'.silent = pool.silent
    BY <1>1, <1>3 DEF Pools
  <1>5. Typed' /\ Placed' /\ EndedMeansAnswered'
    BY <1>1, <1>2, <1>4 DEF Intact, Typed, Placed, EndedMeansAnswered, Live
  <1>6. LeaseMeansRunning'
    BY <1>1, <1>2 DEF Intact, LeaseMeansRunning
  <1>7. Recorded'
    BY <1>1, <1>2, <1>4 DEF Intact, Recorded, Stored
  <1>8. QED
    BY <1>5, <1>6, <1>7 DEF Intact

LEMMA RanStep ==
    ASSUME Intact, NEW r \in Requests, Ran(r)
    PROVE  Intact'
  <1> DEFINE g == ask[r].gpu
  <1>1. PICK s \in {"ran", "done"} :
          /\ ask' = [ask EXCEPT ![r].stage = s] /\ ask[r].stage = "running"
          /\ lease' = [lease EXCEPT ![g] = <<>>]
          /\ UNCHANGED <<conn, handler, open, kept, queue, disk, now, pool>>
    BY DEF Ran
  <1>2. /\ ask' \in [Requests -> Tasks]
        /\ ask'[r].stage = s /\ ask'[r].at = ask[r].at /\ ask'[r].gpu = g
        /\ \A q \in Requests \ {r} : ask'[q] = ask[q]
    BY <1>1, ZenonT(120) DEF Intact, Typed, Tasks, Stages
  <1>3. g \in Gpus /\ lease[g] = <<"ask", r>>
    BY <1>1 DEF Intact, Placed, LeaseMeansRunning
  <1>4. lease' \in [Gpus -> Holders] /\ lease'[g] = <<>> /\ \A h \in Gpus \ {g} : lease'[h] = lease[h]
    BY <1>1, <1>3 DEF Intact, Typed, Holders
  <1> HIDE DEF g
  <1>5. Typed' /\ Placed' /\ EndedMeansAnswered'
    BY <1>1, <1>2, <1>4 DEF Intact, Typed, Placed, EndedMeansAnswered, Live
  <1>6. LeaseMeansRunning'
    BY <1>1, <1>2, <1>3, <1>4, HolderOf DEF Intact, LeaseMeansRunning
  <1>7. Recorded'
    BY <1>1, <1>2 DEF Intact, Recorded, Stored
  <1>8. QED
    BY <1>5, <1>6, <1>7 DEF Intact

\* keep: the other traces that may still be asked for stay where they are.
LEMMA KeepKeeps ==
    ASSUME Assumed, Intact, NEW r \in All, NEW g \in Gpus \cup {None}, keep(r, g)
    PROVE  /\ kept' \in [All -> Records] /\ disk' \in [All -> Records] /\ queue' \in SUBSET (All \X Nat)
           /\ queue' = queue \cup {<<r, now>>}
           /\ kept'[r].here /\ kept'[r].at = now
           /\ \A x \in All \ {r} : \A at \in Nat :
                at + Keep >= now /\ kept[x].here /\ kept[x].at = at
                  => kept'[x] = kept[x] /\ disk'[x] = disk[x]
  <1> DEFINE new == [at |-> now, gpu |-> g, here |-> TRUE]
             old == Retain(kept)
  <1>1. /\ kept \in [All -> Records] /\ disk \in [All -> Records] /\ now \in Nat /\ Keep \in Nat
        /\ queue \in SUBSET (All \X Nat)
    BY DEF Intact, Typed, Assumed
  <1>2. new \in Records /\ new.here /\ new.at = now /\ Absent \in Records
    BY <1>1 DEF Records, Absent
  <1>3. /\ old \in [All -> Records]
        /\ \A x \in All : kept[x].here /\ kept[x].at + Keep >= now => old[x] = kept[x]
    BY <1>1, <1>2 DEF Retain
  <1>4. /\ kept' = [old EXCEPT ![r] = new] /\ queue' = queue \cup {<<r, now>>}
        /\ disk' = [x \in All |-> IF kept[x].here /\ kept[x].at + Keep < now THEN Absent ELSE disk[x]]
    BY DEF keep
  <1> HIDE DEF new, old
  <1>5. /\ kept' \in [All -> Records] /\ kept'[r] = new /\ \A x \in All \ {r} : kept'[x] = old[x]
        /\ queue' \in SUBSET (All \X Nat)
    BY <1>1, <1>2, <1>3, <1>4
  <1>6. disk' \in [All -> Records]
    BY <1>1, <1>2, <1>4
  <1>7. ASSUME NEW x \in All \ {r}, NEW at \in Nat, at + Keep >= now, kept[x].here, kept[x].at = at
        PROVE  kept'[x] = kept[x] /\ disk'[x] = disk[x]
    <2>1. ~(kept[x].at + Keep < now)
      BY <1>1, <1>7
    <2>2. QED
      BY <1>3, <1>4, <1>5, <1>7, <2>1
  <1>8. QED
    BY <1>2, <1>4, <1>5, <1>6, <1>7

LEMMA KeptStep ==
    ASSUME Assumed, Intact, NEW r \in Requests, Kept(r)
    PROVE  Intact'
  <1>1. /\ ask' = [ask EXCEPT ![r].stage = "sending", ![r].at = now] /\ ask[r].stage = "ran"
        /\ UNCHANGED <<conn, handler, open, lease, now, pool>> /\ now \in Nat /\ r \in All
    BY DEF Kept, Intact, Typed, All
  <1>2. /\ ask' \in [Requests -> Tasks]
        /\ ask'[r].stage = "sending" /\ ask'[r].at = now /\ ask'[r].gpu = ask[r].gpu
        /\ \A q \in Requests \ {r} : ask'[q] = ask[q]
        /\ ask[r].gpu \in Gpus \cup {None} /\ \A q \in Requests : ask[q].at \in Nat
    BY <1>1, ZenonT(120) DEF Intact, Typed, Tasks, Stages
  <1>3. Placed' /\ EndedMeansAnswered'
    BY <1>1, <1>2 DEF Intact, Placed, EndedMeansAnswered, Live
  <1>4. LeaseMeansRunning'
    BY <1>1, <1>2 DEF Intact, LeaseMeansRunning
  <1>5. CASE r \in Traced
    <2>1. keep(r, ask[r].gpu)
      BY <1>5 DEF Kept
    <2>2. /\ kept' \in [All -> Records] /\ disk' \in [All -> Records] /\ queue' \in SUBSET (All \X Nat)
          /\ queue' = queue \cup {<<r, now>>}
          /\ kept'[r].here /\ kept'[r].at = now
          /\ \A x \in All \ {r} : \A at \in Nat :
                at + Keep >= now /\ kept[x].here /\ kept[x].at = at
                  => kept'[x] = kept[x] /\ disk'[x] = disk[x]
      BY <1>1, <1>2, <2>1, KeepKeeps
    <2>3. Typed'
      BY <1>1, <1>2, <2>2 DEF Intact, Typed
    <2>4. \A w \in queue' : w[1] \in Requests =>
            w[2] = ask'[w[1]].at /\ ask'[w[1]].stage \in {"sending", "done"}
      <3>1. \A w \in queue : w[1] \in Requests => w[1] # r
        BY <1>1 DEF Intact, Recorded
      <3>2. QED
        BY <1>2, <2>2, <3>1 DEF Intact, Recorded
    <2>5. ASSUME NEW q \in (Requests \cap Traced) \ pool.lost,
                 ask'[q].stage = "sending" \/ q \in pool.answered, ask'[q].at + Keep >= now
          PROVE  Stored(q, ask[q].at)'
      <3>1. CASE q = r
        BY <1>2, <2>2, <3>1 DEF Stored
      <3>2. CASE q # r
        <4>1. Stored(q, ask[q].at) /\ ask'[q].at = ask[q].at /\ ask[q].at \in Nat /\ q \in All \ {r}
          BY <1>2, <2>5, <3>2 DEF Intact, Recorded, All
        <4>2. kept'[q] = kept[q] /\ disk'[q] = disk[q]
          BY <2>2, <2>5, <4>1 DEF Stored
        <4>3. QED
          BY <2>2, <4>1, <4>2 DEF Stored
      <3>3. QED
        BY <3>1, <3>2
    <2>6. Recorded'
      BY <1>1, <2>4, <2>5, Zenon DEF Recorded
    <2>7. QED
      BY <1>3, <1>4, <2>3, <2>6 DEF Intact
  <1>6. CASE r \notin Traced
    <2>1. UNCHANGED <<kept, queue, disk>>
      BY <1>6 DEF Kept
    <2>2. Typed'
      BY <1>1, <1>2, <2>1 DEF Intact, Typed
    <2>3. Recorded'
      BY <1>1, <1>2, <1>6, <2>1 DEF Intact, Recorded, Stored
    <2>4. QED
      BY <1>3, <1>4, <2>2, <2>3 DEF Intact
  <1>7. QED
    BY <1>5, <1>6

LEMMA AnswerStep ==
    ASSUME Intact, NEW r \in Requests, Answer(r)
    PROVE  Intact'
  <1> DEFINE answered == pool.answered \cup {r}
  <1>1. /\ ask' = [ask EXCEPT ![r].stage = "done"] /\ ask[r].stage = "sending"
        /\ pool' = [pool EXCEPT !.answered = answered] \/ pool' = pool
        /\ UNCHANGED <<conn, handler, open, lease, kept, queue, disk, now>>
    BY DEF Answer
  <1>2. /\ ask' \in [Requests -> Tasks]
        /\ ask'[r].stage = "done" /\ ask'[r].at = ask[r].at /\ ask'[r].gpu = ask[r].gpu
        /\ \A q \in Requests \ {r} : ask'[q] = ask[q]
    BY <1>1, ZenonT(120) DEF Intact, Typed, Tasks, Stages
  <1>3. answered \in SUBSET Requests /\ pool \in Pools
    BY DEF Intact, Typed, Pools
  <1>4. /\ pool' \in Pools /\ pool'.answered \in {pool.answered, answered} /\ pool'.opened = pool.opened
        /\ pool'.refused = pool.refused /\ pool'.lost = pool.lost /\ pool'.silent = pool.silent
    <2> HIDE DEF answered
    <2>1. QED
      BY <1>1, <1>3 DEF Pools
  <1>5. Typed' /\ Placed' /\ EndedMeansAnswered'
    BY <1>1, <1>2, <1>4 DEF Intact, Typed, Placed, EndedMeansAnswered, Live
  <1>6. LeaseMeansRunning'
    BY <1>1, <1>2 DEF Intact, LeaseMeansRunning
  <1>7. Recorded'
    BY <1>1, <1>2, <1>4 DEF Intact, Recorded, Stored
  <1>8. QED
    BY <1>5, <1>6, <1>7 DEF Intact

-----------------------------------------------------------------------------
(* The openings.                                                           *)

\* A step of the opening of r leaves the traces and the answers alone.
LEMMA RecordedKept ==
    ASSUME Recorded, UNCHANGED <<ask, kept, queue, disk, now>>,
           pool'.answered = pool.answered, pool'.lost = pool.lost
    PROVE  Recorded'
  BY DEF Recorded, Stored

\* A reply: the opening has ended and was answered, or its connection is gone.
LEMMA Replied ==
    ASSUME pool \in Pools, NEW r \in All, NEW to \in {"opened", "refused"}, NEW c,
           pool' = Reply(r, to, c)
    PROVE  /\ pool' \in Pools /\ pool'.answered = pool.answered /\ pool'.lost = pool.lost
           /\ c = conn => r \in pool'.opened \cup pool'.refused
           /\ pool.opened \subseteq pool'.opened /\ pool.refused \subseteq pool'.refused
           /\ pool'.silent = pool.silent
  <1> DEFINE o == pool.opened \cup {r}
             f == pool.refused \cup {r}
  <1>1. o \in SUBSET All /\ f \in SUBSET All
    BY DEF Pools
  <1>2. CASE c # conn
    BY <1>2 DEF Reply
  <1>3. CASE c = conn /\ to = "opened"
    <2>1. pool' = [pool EXCEPT !.opened = o]
      BY <1>3, Zenon DEF Reply
    <2>2. r \in o /\ pool.opened \subseteq o
      OBVIOUS
    <2> HIDE DEF o
    <2>3. pool' \in Pools /\ pool'.opened = o /\ pool'.answered = pool.answered /\ pool'.lost = pool.lost
          /\ pool'.refused = pool.refused /\ pool'.silent = pool.silent
      BY <1>1, <2>1 DEF Pools
    <2>4. QED
      BY <2>2, <2>3
  <1>4. CASE c = conn /\ to = "refused"
    <2>1. pool' = [pool EXCEPT !.refused = f]
      BY <1>4, Zenon DEF Reply
    <2>2. r \in f /\ pool.refused \subseteq f
      OBVIOUS
    <2> HIDE DEF f
    <2>3. pool' \in Pools /\ pool'.refused = f /\ pool'.answered = pool.answered /\ pool'.lost = pool.lost
          /\ pool'.opened = pool.opened /\ pool'.silent = pool.silent
      BY <1>1, <2>1 DEF Pools
    <2>4. QED
      BY <2>2, <2>3
  <1>5. QED
    BY <1>2, <1>3, <1>4

LEMMA OpeningStep ==
    ASSUME Assumed, Intact, NEW r \in All, handle_ai_opening(r)
    PROVE  Intact'
  <1> DEFINE o == pool.opened \ {r}
             f == pool.refused \ {r}
             s == pool.silent \ {r}
             fr == f \cup {r}
             fresh == [pool EXCEPT !.opened = o, !.refused = f, !.silent = s]
  <1>1. /\ open[r].stage \in {"none", "done"}
        /\ UNCHANGED <<conn, ask, lease, kept, queue, disk, now>>
        /\ \/ /\ open' = [open EXCEPT ![r].stage = "waiting", ![r].conn = conn, ![r].gpu = kept[r].gpu]
              /\ pool' = fresh /\ handler' = None
           \/ /\ open' = [open EXCEPT ![r].stage = "fetching", ![r].conn = conn]
              /\ pool' = fresh /\ handler' = r /\ r \in Foreign
           \/ /\ open' = [open EXCEPT ![r].stage = "done", ![r].conn = conn]
              /\ pool' = [fresh EXCEPT !.refused = fr] /\ handler' = None
    BY DEF handle_ai_opening, Afresh
  <1>2. /\ pool \in Pools /\ o \in SUBSET All /\ f \in SUBSET All /\ s \in SUBSET All /\ fr \in SUBSET All
        /\ pool.opened \subseteq o \cup {r} /\ pool.refused \subseteq f \cup {r}
        /\ pool.silent \subseteq s \cup {r} /\ fr = f \cup {r}
    BY DEF Intact, Typed, Pools
  <1> HIDE DEF o, f, s, fr
  <1>3. /\ fresh \in Pools /\ fresh.answered = pool.answered /\ fresh.lost = pool.lost
        /\ fresh.opened = o /\ fresh.refused = f /\ fresh.silent = s
    BY <1>2, Zenon DEF Pools
  <1> HIDE DEF fresh
  <1>4. /\ pool' \in Pools /\ pool'.answered = pool.answered /\ pool'.lost = pool.lost
        /\ pool'.opened = o /\ pool'.silent = s
        /\ pool'.refused = f \/ (open'[r].stage = "done" /\ pool'.refused = fr)
        /\ open'[r].stage = "done" => pool'.refused = fr
    <2>1. open \in [All -> Tasks]
      BY DEF Intact, Typed
    <2>2. CASE pool' = fresh /\ open'[r].stage # "done"
      BY <1>3, <2>2
    <2>3. CASE pool' = [fresh EXCEPT !.refused = fr] /\ open'[r].stage = "done"
      BY <1>2, <1>3, <2>3 DEF Pools
    <2>4. QED
      BY <1>1, <2>1, <2>2, <2>3 DEF Tasks
  <1>5. /\ open' \in [All -> Tasks] /\ open'[r].stage \in {"waiting", "fetching", "done"}
        /\ open'[r].conn = conn /\ \A q \in All \ {r} : open'[q] = open[q]
    <2>1. kept[r].gpu \in Gpus \cup {None} /\ conn \in Nat /\ open \in [All -> Tasks]
      BY DEF Intact, Typed, Records
    <2>2. QED
      BY <1>1, <2>1 DEF Tasks, Stages
  <1>6. Typed'
    BY <1>1, <1>4, <1>5 DEF Intact, Typed
  <1>7. Placed'
    <2>1. handler' = None \/ (handler' = r /\ open'[r].stage = "fetching")
      BY <1>1 DEF Intact, Typed, Tasks
    <2>2. QED
      BY <1>1, <1>5, <2>1 DEF Intact, Placed, Typed, Assumed
  <1>8. LeaseMeansRunning'
    BY <1>1, <1>5 DEF Intact, LeaseMeansRunning
  <1>9. EndedMeansAnswered'
    BY <1>1, <1>2, <1>4, <1>5 DEF Intact, EndedMeansAnswered, Live
  <1>10. Recorded'
    BY <1>1, <1>4, RecordedKept DEF Intact
  <1>11. QED
    BY <1>6, <1>7, <1>8, <1>9, <1>10 DEF Intact

LEMMA FetchStep ==
    ASSUME Assumed, Intact, NEW r \in All, fetch_foreign(r)
    PROVE  Intact'
  <1>1. /\ r \in Foreign /\ r \notin Requests /\ handler' = None /\ pool \in Pools
        /\ open[r].stage = "fetching" /\ None \notin All
        /\ UNCHANGED <<conn, ask, lease, now>>
    BY DEF fetch_foreign, Assumed, Intact, Typed, Placed
  <1>2. ASSUME NEW g \in Gpus, open' = [open EXCEPT ![r].stage = "waiting", ![r].gpu = g], keep(r, g),
               UNCHANGED pool
        PROVE  Intact'
    <2>1. /\ open' \in [All -> Tasks] /\ open'[r].stage = "waiting"
          /\ open'[r].conn = open[r].conn /\ \A q \in All \ {r} : open'[q] = open[q]
      BY <1>2, ZenonT(120) DEF Intact, Typed, Tasks, Stages
    <2>2. /\ kept' \in [All -> Records] /\ disk' \in [All -> Records] /\ queue' \in SUBSET (All \X Nat)
          /\ queue' = queue \cup {<<r, now>>}
          /\ \A x \in All \ {r} : \A at \in Nat :
                at + Keep >= now /\ kept[x].here /\ kept[x].at = at
                  => kept'[x] = kept[x] /\ disk'[x] = disk[x]
      BY <1>2, KeepKeeps
    <2>3. Typed'
      BY <1>1, <1>2, <2>1, <2>2 DEF Intact, Typed
    <2>4. LeaseMeansRunning'
      BY <1>1, <2>1 DEF Intact, LeaseMeansRunning
    <2>5. Placed' /\ EndedMeansAnswered'
      BY <1>1, <1>2, <2>1 DEF Intact, Placed, EndedMeansAnswered, Live
    <2>6. \A w \in queue' : w[1] \in Requests =>
            w[2] = ask'[w[1]].at /\ ask'[w[1]].stage \in {"sending", "done"}
      BY <1>1, <2>2 DEF Intact, Recorded
    <2>7. ASSUME NEW q \in (Requests \cap Traced) \ pool.lost,
                 ask[q].stage = "sending" \/ q \in pool.answered, ask[q].at + Keep >= now
          PROVE  Stored(q, ask[q].at)'
      <3>1. Stored(q, ask[q].at) /\ ask[q].at \in Nat /\ q \in All \ {r}
        BY <1>1, <2>7 DEF Intact, Recorded, All, Typed, Tasks
      <3>2. kept'[q] = kept[q] /\ disk'[q] = disk[q]
        BY <2>2, <2>7, <3>1 DEF Stored
      <3>3. QED
        BY <1>1, <2>2, <3>1, <3>2 DEF Stored
    <2>8. Recorded'
      BY <1>1, <1>2, <2>6, <2>7 DEF Recorded
    <2>9. QED
      BY <2>3, <2>4, <2>5, <2>8 DEF Intact
  <1>3. ASSUME open' = [open EXCEPT ![r].stage = "done"], pool' = Reply(r, "refused", open[r].conn),
               UNCHANGED <<kept, queue, disk>>
        PROVE  Intact'
    <2>1. /\ open' \in [All -> Tasks] /\ open'[r].stage = "done"
          /\ open'[r].conn = open[r].conn /\ \A q \in All \ {r} : open'[q] = open[q]
      BY <1>3 DEF Intact, Typed, Tasks, Stages
    <2>2. /\ pool' \in Pools /\ pool'.answered = pool.answered /\ pool'.lost = pool.lost
          /\ open[r].conn = conn => r \in pool'.opened \cup pool'.refused
          /\ pool.opened \subseteq pool'.opened /\ pool.refused \subseteq pool'.refused
          /\ pool'.silent = pool.silent
      BY <1>1, <1>3, Replied
    <2>3. Typed' /\ Placed'
      BY <1>1, <1>3, <2>1, <2>2 DEF Intact, Typed, Placed
    <2>4. LeaseMeansRunning'
      BY <1>1, <2>1 DEF Intact, LeaseMeansRunning
    <2>5. EndedMeansAnswered'
      BY <1>1, <2>1, <2>2 DEF Intact, EndedMeansAnswered, Live
    <2>6. Recorded'
      BY <1>1, <1>3, <2>2, RecordedKept DEF Intact
    <2>7. QED
      BY <2>3, <2>4, <2>5, <2>6 DEF Intact
  <1>4. QED
    BY <1>2, <1>3 DEF fetch_foreign

LEMMA OpenLeasedStep ==
    ASSUME Intact, NEW r \in All, OpenLeased(r)
    PROVE  Intact'
  <1>1. PICK g \in Gpus :
          /\ lease[g] = <<>> /\ lease' = [lease EXCEPT ![g] = <<"open", r>>]
          /\ open' = [open EXCEPT ![r].stage = "replaying", ![r].gpu = g] /\ open[r].stage = "waiting"
          /\ UNCHANGED <<conn, handler, ask, kept, queue, disk, now, pool>>
    BY Zenon DEF OpenLeased, Free
  <1>2. /\ open' \in [All -> Tasks]
        /\ open'[r].stage = "replaying" /\ open'[r].conn = open[r].conn /\ open'[r].gpu = g
        /\ \A q \in All \ {r} : open'[q] = open[q]
    BY <1>1, ZenonT(120) DEF Intact, Typed, Tasks, Stages
  <1>3. lease' \in [Gpus -> Holders] /\ lease'[g] = <<"open", r>> /\ \A h \in Gpus \ {g} : lease'[h] = lease[h]
    BY <1>1 DEF Intact, Typed, Holders
  <1>4. Typed' /\ Placed' /\ EndedMeansAnswered'
    BY <1>1, <1>2, <1>3 DEF Intact, Typed, Placed, EndedMeansAnswered, Live
  <1>5. LeaseMeansRunning'
    BY <1>1, <1>2, <1>3, HolderOf DEF Intact, LeaseMeansRunning
  <1>6. Recorded'
    BY <1>1, RecordedKept DEF Intact
  <1>7. QED
    BY <1>4, <1>5, <1>6 DEF Intact

LEMMA OpenTimesOutStep ==
    ASSUME Intact, NEW r \in All, OpenTimesOut(r)
    PROVE  Intact'
  <1>1. /\ open' = [open EXCEPT ![r].stage = "failed"] /\ open[r].stage = "waiting"
        /\ UNCHANGED <<conn, handler, ask, lease, kept, queue, disk, now, pool>>
    BY DEF OpenTimesOut
  <1>2. /\ open' \in [All -> Tasks]
        /\ open'[r].stage = "failed" /\ open'[r].conn = open[r].conn
        /\ \A q \in All \ {r} : open'[q] = open[q]
    BY <1>1 DEF Intact, Typed, Tasks, Stages
  <1>3. Typed' /\ Placed' /\ EndedMeansAnswered'
    BY <1>1, <1>2 DEF Intact, Typed, Placed, EndedMeansAnswered, Live
  <1>4. LeaseMeansRunning'
    BY <1>1, <1>2 DEF Intact, LeaseMeansRunning
  <1>5. Recorded'
    BY <1>1, RecordedKept DEF Intact
  <1>6. QED
    BY <1>3, <1>4, <1>5 DEF Intact

LEMMA ReplayedStep ==
    ASSUME Intact, NEW r \in All, Replayed(r)
    PROVE  Intact'
  <1> DEFINE g == open[r].gpu
             silent == pool.silent \cup {r}
  <1>1. PICK s \in {"built", "failed", "done"} :
          /\ open' = [open EXCEPT ![r].stage = s] /\ open[r].stage = "replaying"
          /\ lease' = [lease EXCEPT ![g] = <<>>]
          /\ IF s = "done" THEN pool' = [pool EXCEPT !.silent = silent] ELSE pool' = pool
          /\ UNCHANGED <<conn, handler, ask, kept, queue, disk, now>>
    BY DEF Replayed
  <1>2. /\ open' \in [All -> Tasks]
        /\ open'[r].stage = s /\ open'[r].conn = open[r].conn /\ open'[r].gpu = g
        /\ \A q \in All \ {r} : open'[q] = open[q]
    BY <1>1, ZenonT(120) DEF Intact, Typed, Tasks, Stages
  <1>3. g \in Gpus /\ lease[g] = <<"open", r>>
    BY <1>1 DEF Intact, Placed, LeaseMeansRunning
  <1>4. lease' \in [Gpus -> Holders] /\ lease'[g] = <<>> /\ \A h \in Gpus \ {g} : lease'[h] = lease[h]
    BY <1>1, <1>3 DEF Intact, Typed, Holders
  <1>5. silent \in SUBSET All /\ pool \in Pools /\ r \in silent /\ pool.silent \subseteq silent
    BY DEF Intact, Typed, Pools
  <1> HIDE DEF g, silent
  <1>6. /\ pool' \in Pools /\ pool'.answered = pool.answered /\ pool'.lost = pool.lost
        /\ pool'.opened = pool.opened /\ pool'.refused = pool.refused
        /\ pool.silent \subseteq pool'.silent /\ (s = "done" => r \in pool'.silent)
    BY <1>1, <1>5 DEF Pools
  <1>7. Typed' /\ Placed'
    BY <1>1, <1>2, <1>4, <1>6 DEF Intact, Typed, Placed
  <1>8. LeaseMeansRunning'
    BY <1>1, <1>2, <1>3, <1>4, HolderOf DEF Intact, LeaseMeansRunning
  <1>9. EndedMeansAnswered'
    BY <1>1, <1>2, <1>6 DEF Intact, EndedMeansAnswered, Live
  <1>10. Recorded'
    BY <1>1, <1>6, RecordedKept DEF Intact
  <1>11. QED
    BY <1>7, <1>8, <1>9, <1>10 DEF Intact

LEMMA OpenReplyStep ==
    ASSUME Intact, NEW r \in All, OpenReply(r)
    PROVE  Intact'
  <1>1. PICK to \in {"opened", "refused"} :
          /\ open' = [open EXCEPT ![r].stage = "done"] /\ open[r].stage \in {"built", "failed"}
          /\ pool' = Reply(r, to, open[r].conn) /\ pool \in Pools
          /\ UNCHANGED <<conn, handler, ask, lease, kept, queue, disk, now>>
    BY DEF OpenReply, Intact, Typed
  <1>2. /\ open' \in [All -> Tasks] /\ open'[r].stage = "done"
        /\ open'[r].conn = open[r].conn /\ \A q \in All \ {r} : open'[q] = open[q]
    BY <1>1 DEF Intact, Typed, Tasks, Stages
  <1>3. /\ pool' \in Pools /\ pool'.answered = pool.answered /\ pool'.lost = pool.lost
        /\ open[r].conn = conn => r \in pool'.opened \cup pool'.refused
        /\ pool.opened \subseteq pool'.opened /\ pool.refused \subseteq pool'.refused
        /\ pool'.silent = pool.silent
    BY <1>1, Replied
  <1>4. Typed' /\ Placed'
    BY <1>1, <1>2, <1>3 DEF Intact, Typed, Placed
  <1>5. LeaseMeansRunning'
    BY <1>1, <1>2 DEF Intact, LeaseMeansRunning
  <1>6. EndedMeansAnswered'
    BY <1>1, <1>2, <1>3 DEF Intact, EndedMeansAnswered, Live
  <1>7. Recorded'
    BY <1>1, <1>3, RecordedKept DEF Intact
  <1>8. QED
    BY <1>4, <1>5, <1>6, <1>7 DEF Intact

-----------------------------------------------------------------------------
(* The writer thread, the clock, the connection and the process.           *)

LEMMA WrittenStep ==
    ASSUME Intact, Written
    PROVE  Intact'
  <1>1. PICK w \in queue :
          /\ disk' = [disk EXCEPT ![w[1]] = [at |-> w[2], gpu |-> None, here |-> TRUE]]
          /\ queue' = queue \ {w}
          /\ UNCHANGED <<conn, handler, ask, open, lease, kept, now, pool>>
    BY Zenon DEF Written
  <1> DEFINE new == [at |-> w[2], gpu |-> None, here |-> TRUE]
  <1>2. w[1] \in All /\ w[2] \in Nat /\ w = <<w[1], w[2]>> /\ disk \in [All -> Records]
    BY DEF Intact, Typed
  <1>3. new \in Records /\ new.here /\ new.at = w[2] /\ disk' = [disk EXCEPT ![w[1]] = new]
    BY <1>1, <1>2 DEF Records
  <1> HIDE DEF new
  <1>4. disk' \in [All -> Records] /\ disk'[w[1]] = new /\ \A x \in All \ {w[1]} : disk'[x] = disk[x]
    BY <1>2, <1>3
  <1>5. Typed' /\ Placed' /\ EndedMeansAnswered'
    BY <1>1, <1>4 DEF Intact, Typed, Placed, EndedMeansAnswered, Live
  <1>6. LeaseMeansRunning'
    BY <1>1 DEF Intact, LeaseMeansRunning
  <1>7. ASSUME NEW q \in (Requests \cap Traced) \ pool.lost,
               ask[q].stage = "sending" \/ q \in pool.answered, ask[q].at + Keep >= now
        PROVE  Stored(q, ask[q].at)'
    <2>1. Stored(q, ask[q].at) /\ q \in All
      BY <1>7 DEF Intact, Recorded, All
    <2>2. CASE w[1] = q
      <3>1. w[2] = ask[q].at
        BY <1>7, <2>2 DEF Intact, Recorded
      <3>2. QED
        BY <1>1, <1>3, <1>4, <2>1, <2>2, <3>1 DEF Stored
    <2>3. CASE w[1] # q
      <3>1. disk'[q] = disk[q] /\ w # <<q, ask[q].at>>
        BY <1>2, <1>4, <2>1, <2>3
      <3>2. QED
        BY <1>1, <2>1, <3>1 DEF Stored
    <2>4. QED
      BY <2>2, <2>3
  <1>8. Recorded'
    BY <1>1, <1>7 DEF Intact, Recorded
  <1>9. QED
    BY <1>5, <1>6, <1>8 DEF Intact

LEMMA TickStep ==
    ASSUME Assumed, Intact, Tick
    PROVE  Intact'
  <1>1. /\ now' = now + 1 /\ now \in Nat /\ Keep \in Nat /\ \A r \in Requests : ask[r].at \in Nat
        /\ UNCHANGED <<conn, handler, ask, open, lease, kept, queue, disk, pool>>
    BY DEF Tick, Intact, Typed, Tasks, Assumed
  <1>2. Typed' /\ Placed' /\ EndedMeansAnswered'
    BY <1>1 DEF Intact, Typed, Placed, EndedMeansAnswered, Live
  <1>3. LeaseMeansRunning'
    BY <1>1 DEF Intact, LeaseMeansRunning
  <1>4. \A r \in Requests : ask[r].at + Keep >= now' => ask[r].at + Keep >= now
    BY <1>1
  <1>5. Recorded'
    BY <1>1, <1>4 DEF Intact, Recorded, Stored
  <1>6. QED
    BY <1>2, <1>3, <1>5 DEF Intact

LEMMA ReconnectStep ==
    ASSUME Assumed, Intact, Reconnect
    PROVE  Intact'
  <1>1. /\ conn' = conn + 1 /\ conn \in Nat /\ handler' = None /\ None \notin All
        /\ open' = [r \in All |-> IF handler = r THEN [open[r] EXCEPT !.stage = "done"] ELSE open[r]]
        /\ UNCHANGED <<ask, lease, kept, queue, disk, now, pool>>
    BY DEF Reconnect, Intact, Typed, Assumed
  <1>2. ASSUME NEW r \in All
        PROVE  /\ open'[r] \in Tasks /\ open'[r].conn = open[r].conn /\ open[r].conn \in Nat
               /\ (open'[r].stage = "replaying" <=> open[r].stage = "replaying") /\ open'[r].gpu = open[r].gpu
    <2>1. open[r] \in Tasks /\ "done" \in Stages /\ open[r].conn \in Nat
      BY DEF Intact, Typed, Tasks, Stages
    <2>2. CASE handler # r
      BY <1>1, <2>1, <2>2
    <2>3. CASE handler = r
      <3>1. open'[r] = [open[r] EXCEPT !.stage = "done"]
        BY <1>1, <2>3
      <3>2. open[r].stage = "fetching"
        BY <2>3 DEF Intact, Placed
      <3>3. QED
        BY <2>1, <3>1, <3>2 DEF Tasks
    <2>4. QED
      BY <2>2, <2>3
  <1>3. ASSUME NEW r \in All PROVE open'[r].conn # conn' /\ open'[r].conn <= conn'
    <2>1. open[r].conn <= conn
      BY DEF Intact, Placed
    <2>2. conn' = conn + 1 /\ conn \in Nat /\ open'[r].conn = open[r].conn /\ open[r].conn \in Nat
      BY <1>1, <1>2, Zenon
    <2>3. QED
      BY <2>1, <2>2
  <1>4. Typed' /\ Placed'
    <2>1. open' \in [All -> Tasks]
      BY <1>1, <1>2
    <2>2. QED
      BY <1>1, <1>2, <1>3, <2>1 DEF Intact, Typed, Placed
  <1>5. EndedMeansAnswered'
    BY <1>3 DEF EndedMeansAnswered, Live
  <1>6. LeaseMeansRunning'
    BY <1>1, <1>2 DEF Intact, LeaseMeansRunning
  <1>7. Recorded'
    BY <1>1, RecordedKept DEF Intact
  <1>8. QED
    BY <1>4, <1>5, <1>6, <1>7 DEF Intact

LEMMA RestartStep ==
    ASSUME Assumed, Intact, Restart
    PROVE  Intact'
  <1> DEFINE lost == pool.lost \cup {w[1] : w \in queue}
  <1>1. /\ conn' = conn + 1 /\ handler' = None /\ None \notin All /\ now' = now /\ queue' = {}
        /\ pool' = [pool EXCEPT !.lost = lost]
        /\ lease' = [g \in Gpus |-> <<>>]
        /\ conn \in Nat /\ now \in Nat /\ Keep \in Nat
    BY DEF Restart, Intact, Typed, Assumed
  <1>2. ASSUME NEW r \in Requests
        PROVE  /\ ask'[r] \in Tasks /\ ask'[r].at = ask[r].at /\ ask'[r].stage \in {"none", "done"}
    <2>1. /\ ask[r] \in Tasks /\ "done" \in Stages
          /\ ask'[r] = IF ask[r].stage = "none" THEN ask[r] ELSE [ask[r] EXCEPT !.stage = "done"]
      BY DEF Restart, Intact, Typed, Stages
    <2>2. QED
      BY <2>1 DEF Tasks
  <1>3. ASSUME NEW r \in All
        PROVE  /\ open'[r] \in Tasks /\ open'[r].conn = open[r].conn /\ open'[r].stage \in {"none", "done"}
               /\ open[r].conn \in Nat /\ open[r].conn <= conn
    <2>1. /\ open[r] \in Tasks /\ "done" \in Stages /\ open[r].conn <= conn
          /\ open'[r] = IF open[r].stage = "none" THEN open[r] ELSE [open[r] EXCEPT !.stage = "done"]
      BY DEF Restart, Intact, Typed, Placed, Stages
    <2>2. QED
      BY <2>1 DEF Tasks
  <1>4. ASSUME NEW r \in All
        PROVE  /\ kept'[r] \in Records /\ disk'[r] \in Records
               /\ disk[r].here /\ disk[r].at + Keep >= now => kept'[r] = disk[r] /\ disk'[r] = disk[r]
    <2>1. disk[r] \in Records /\ Absent \in Records /\ ~Absent.here
      BY DEF Intact, Typed, Records, Absent
    <2>2. /\ kept'[r] = IF disk[r].here /\ disk[r].at + Keep >= now THEN disk[r] ELSE Absent
          /\ disk'[r] = IF kept'[r].here THEN disk[r] ELSE Absent
      BY DEF Restart, ReadBack
    <2>3. QED
      BY <2>1, <2>2
  <1>5. pool \in Pools /\ lost \in SUBSET All
    BY DEF Intact, Typed, Pools
  <1>6. /\ pool' \in Pools /\ pool'.answered = pool.answered /\ pool'.lost = lost
        /\ pool'.opened = pool.opened /\ pool'.refused = pool.refused /\ pool'.silent = pool.silent
    <2> HIDE DEF lost
    <2>1. QED
      BY <1>1, <1>5 DEF Pools
  <1>7. Typed'
    <2>1. ask' \in [Requests -> Tasks] /\ open' \in [All -> Tasks]
      <3>1. /\ ask' = [r \in Requests |-> ask'[r]] /\ open' = [r \in All |-> open'[r]]
        BY DEF Restart
      <3>2. QED
        BY <1>2, <1>3, <3>1
    <2>2. kept' \in [All -> Records] /\ disk' \in [All -> Records]
      <3>1. /\ kept' = [r \in All |-> kept'[r]] /\ disk' = [r \in All |-> disk'[r]]
        BY DEF Restart, ReadBack
      <3>2. QED
        BY <1>4, <3>1
    <2>3. QED
      BY <1>1, <1>6, <2>1, <2>2 DEF Typed, Holders
  <1>8. Placed'
    <2>1. \A r \in All : open'[r].conn <= conn'
      BY <1>1, <1>3
    <2>2. QED
      BY <1>1, <1>2, <1>3, <2>1 DEF Placed
  <1>9. EndedMeansAnswered'
    <2>1. \A r \in All : open'[r].conn # conn'
      BY <1>1, <1>3
    <2>2. QED
      BY <2>1 DEF EndedMeansAnswered, Live
  <1>10. LeaseMeansRunning'
    BY <1>1, <1>2, <1>3, HolderOf DEF LeaseMeansRunning
  <1>11. ASSUME NEW q \in (Requests \cap Traced) \ lost, q \in pool.answered, ask[q].at + Keep >= now
         PROVE  Stored(q, ask[q].at)'
    <2>1. q \in All /\ q \notin pool.lost /\ \A w \in queue : w[1] # q
      BY <1>11 DEF All
    <2>2. Stored(q, ask[q].at)
      BY <1>11, <2>1 DEF Intact, Recorded
    <2>3. disk[q].here /\ disk[q].at = ask[q].at
      BY <2>1, <2>2 DEF Stored
    <2>4. QED
      BY <1>2, <1>4, <1>11, <2>1, <2>3 DEF Stored
  <1>12. Recorded'
    BY <1>1, <1>2, <1>6, <1>11 DEF Recorded
  <1>13. QED
    BY <1>7, <1>8, <1>9, <1>10, <1>12 DEF Intact

-----------------------------------------------------------------------------
LEMMA IntactInit ==
    ASSUME Assumed, Init
    PROVE  Intact
  <1>1. Idle \in Tasks /\ Idle.stage = "none" /\ Idle.conn = 0 /\ Absent \in Records
    BY DEF Idle, Tasks, Stages, Absent, Records
  <1>2. Typed
    BY <1>1 DEF Init, Typed, Pools, Holders
  <1>3. Placed /\ EndedMeansAnswered
    BY <1>1 DEF Init, Placed, EndedMeansAnswered, Assumed
  <1>4. LeaseMeansRunning
    BY <1>1, HolderOf DEF Init, LeaseMeansRunning
  <1>5. Recorded
    BY <1>1 DEF Init, Recorded
  <1>6. QED
    BY <1>2, <1>3, <1>4, <1>5 DEF Intact

\* While an answer may be audited its trace can be opened, across reconnects and
\* restarts, unless the process died before the writer had saved it; a card is
\* leased to the task that runs on it; and an opening that has ended was answered
\* on the connection it came from (traces.rs, handle_ai_request,
\* handle_ai_opening).  For any requests of this rig and of others, cards, faults
\* and times.
THEOREM AnswersStayOpenable ==
    ASSUME Requests \cap Foreign = {}, None \notin All, Keep \in Nat
    PROVE  Spec => []TracesStayOpenable
  <1> Assumed
    BY DEF Assumed
  <1>1. Init => Intact
    BY IntactInit
  <1>2. Intact /\ [Next]_answers => Intact'
    <2> SUFFICES ASSUME Intact, [Next]_answers PROVE Intact'
      OBVIOUS
    <2>1. ASSUME NEW r \in Requests, Refuse(r) \/ handle_ai_request(r) \/ TaskStep(r) PROVE Intact'
      BY <2>1, RefuseStep, RequestStep, LeasedStep, BusyStep, RanStep, KeptStep, AnswerStep DEF TaskStep
    <2>2. ASSUME NEW r \in All, handle_ai_opening(r) \/ OpenStep(r) PROVE Intact'
      BY <2>2, OpeningStep, FetchStep, OpenLeasedStep, OpenTimesOutStep, ReplayedStep, OpenReplyStep
         DEF OpenStep
    <2>3. CASE Written \/ Tick \/ Reconnect \/ Restart
      BY <2>3, WrittenStep, TickStep, ReconnectStep, RestartStep
    <2>4. CASE UNCHANGED answers
      <3>1. UNCHANGED <<conn, handler, ask, open, lease, kept, queue, disk, now, pool>>
        BY <2>4 DEF answers
      <3>2. QED
        BY <3>1 DEF Intact, Typed, Placed, Recorded, Stored, LeaseMeansRunning, EndedMeansAnswered, Live
    <2>5. QED
      BY <2>1, <2>2, <2>3, <2>4 DEF Next
  <1>3. Intact => TracesStayOpenable
    BY Zenon DEF Intact, Typed, Pools, Recorded, Stored, TracesStayOpenable, AnswerStaysOpenable
  <1>4. QED
    BY <1>1, <1>2, <1>3, PTL DEF Spec
=============================================================================
