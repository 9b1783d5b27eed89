------------------------ MODULE EscrowWatcherProofs ------------------------
EXTENDS EscrowWatcher, WellFoundedInduction, FiniteSetTheorems, TLAPS

\* The backends that try a leaf, in turn, unless it names its own.
USE SMTT(30), ZenonT(30), Z3T(30)

-----------------------------------------------------------------------------
(* Induction over the naturals in terms of sets, and the recursive         *)
(* functions it defines.                                                   *)

\* A nonempty set of naturals has a least member.
LEMMA LeastNat ==
    ASSUME NEW T \in SUBSET Nat, T # {}
    PROVE  \E m \in T : \A k \in T : m <= k
<1>1. PICK x \in T : \A y \in T : ~ (<<y, x>> \in OpToRel(<, Nat))
  BY NatLessThanWellFounded, WFMin, Zenon
<1>2. ASSUME NEW y \in T, y < x PROVE <<y, x>> \in OpToRel(<, Nat)
  BY <1>2 DEF OpToRel
<1>3. \A y \in T : ~ (y < x)
  BY <1>1, <1>2, Zenon
<1> HIDE <1>1, <1>2
<1>4. \A y \in T : x <= y
  BY <1>3
<1> QED BY <1>4

\* A set with 0 and the successor of each of its members holds every natural.
LEMMA InductNat ==
    ASSUME NEW S \in SUBSET Nat, 0 \in S, \A n \in Nat : n \in S => n + 1 \in S
    PROVE  Nat \subseteq S
<1> SUFFICES ASSUME Nat \ S # {} PROVE FALSE
  OBVIOUS
<1>1. PICK m \in Nat \ S : \A k \in Nat \ S : m <= k
  BY LeastNat, Zenon
<1>2. m - 1 \in S
  BY <1>1
<1> QED BY <1>2

\* F applies the step n times to the value a
Iterates(F, N, A, a, step) ==
    /\ F \in [0 .. N -> A]
    /\ F[0] = a
    /\ \A n \in 1 .. N : F[n] = step[<<F[n - 1], n>>]

\* A value and a step define a function by recursion.
LEMMA Recursion ==
    ASSUME NEW N \in Nat, NEW A, NEW a \in A, NEW step \in [A \X (1 .. N) -> A]
    PROVE  \E F : Iterates(F, N, A, a, step)
<1> DEFINE Upto(F, m) == /\ F[0] = a
                         /\ \A n \in 1 .. m : F[n] = step[<<F[n - 1], n>>]
           S == {m \in Nat : m <= N => \E F \in [0 .. m -> A] : Upto(F, m)}
<1>1. 0 \in S
  <2> DEFINE F == [i \in 0 .. 0 |-> a]
  <2>1. F \in [0 .. 0 -> A] /\ Upto(F, 0)
    OBVIOUS
  <2> QED BY <2>1, Zenon
<1>2. ASSUME NEW m \in Nat, m \in S PROVE m + 1 \in S
  <2> SUFFICES ASSUME m + 1 <= N PROVE \E F \in [0 .. m + 1 -> A] : Upto(F, m + 1)
    OBVIOUS
  <2>1. PICK G \in [0 .. m -> A] : Upto(G, m)
    BY <1>2
  <2> DEFINE F == [i \in 0 .. m + 1 |-> IF i = m + 1 THEN step[<<G[m], m + 1>>] ELSE G[i]]
  <2>2. F \in [0 .. m + 1 -> A]
    OBVIOUS
  <2>3. F[0] = a
    BY <2>1
  <2>4. ASSUME NEW n \in 1 .. m + 1 PROVE F[n] = step[<<F[n - 1], n>>]
    <3>1. F[n - 1] = G[n - 1]
      OBVIOUS
    <3>2. CASE n = m + 1
      <4>1. F[m + 1] = step[<<G[m], m + 1>>]
        OBVIOUS
      <4>2. n - 1 = m
        BY <3>2
      <4> HIDE DEF F
      <4> QED BY <3>1, <3>2, <4>1, <4>2, Zenon
    <3>3. CASE n # m + 1
      <4>1. n \in 1 .. m /\ F[n] = G[n]
        BY <3>3
      <4> QED BY <3>1, <4>1, <2>1
    <3> QED BY <3>2, <3>3
  <2> QED BY <2>2, <2>3, <2>4, Zenon
<1>3. N \in S
  <2> HIDE DEF S
  <2>1. S \subseteq Nat
    BY DEF S
  <2> QED BY <1>1, <1>2, <2>1, InductNat
<1> QED BY <1>3 DEF Iterates

-----------------------------------------------------------------------------
(* What the operators on entries return.                                   *)

\* an entry, its counters left unbounded
Shaped ==
    [out : Outs, claimed : BOOLEAN, slashed : BOOLEAN, orphan_slashed : BOOLEAN,
     orphan_retries : Nat, rest : Int, submit_retries : Nat,
     batch_cap : Nat, capAge : Int, age : Int]

\* The filter keeps entries of its argument only, those of the set.
LEMMA AmongFacts ==
    ASSUME NEW T, NEW es \in Seq(T), NEW S
    PROVE  /\ Among(es, S) \in Seq(T)
           /\ Range(Among(es, S)) \subseteq Range(es) \cap S
<1> DEFINE U == Range(es) \cap S
           A == Seq(U)
           N == Len(es)
           empty == <<>>
           step == [p \in A \X (1 .. N) |->
                      IF es[p[2]] \in S THEN Append(p[1], es[p[2]]) ELSE p[1]]
           Defines(g) == g = [n \in 0 .. Len(es) |->
                      IF n = 0 THEN <<>>
                      ELSE IF es[n] \in S THEN Append(g[n - 1], es[n]) ELSE g[n - 1]]
           kept == CHOOSE g : Defines(g)
<1>1. N \in Nat /\ empty \in A /\ step \in [A \X (1 .. N) -> A]
  BY DEF Range
<1>2. PICK F : Iterates(F, N, A, empty, step)
  <2> HIDE DEF A, step, N, empty
  <2> QED BY <1>1, Recursion, Zenon
<1>3. ASSUME NEW n \in 0 .. N, n # 0
      PROVE  F[n] = IF es[n] \in S THEN Append(F[n - 1], es[n]) ELSE F[n - 1]
  <2>1. n \in 1 .. N /\ F[n - 1] \in A /\ F[n] = step[<<F[n - 1], n>>]
    <3> HIDE DEF step, A
    <3> QED BY <1>2, <1>3 DEF Iterates
  <2> QED BY <2>1
<1>4. Defines(F)
  <2>1. F = [n \in 0 .. N |-> F[n]] /\ F[0] = <<>>
    BY <1>2 DEF Iterates
  <2> QED BY <1>3, <2>1, Zenon
<1>5. Defines(kept)
  BY <1>4, Zenon
<1>6. Among(es, S) = kept[N]
  BY Zenon DEF Among
<1> HIDE DEF kept
<1>7. ASSUME NEW n \in 1 .. N, kept[n - 1] \in A PROVE kept[n] \in A
  <2>1. kept[n] = IF es[n] \in S THEN Append(kept[n - 1], es[n]) ELSE kept[n - 1]
    <3>1. n \in 0 .. Len(es) /\ n # 0
      OBVIOUS
    <3> QED BY <1>5, <3>1, Zenon
  <2>2. es[n] \in S => es[n] \in U
    BY DEF Range
  <2> QED BY <1>7, <2>1, <2>2
<1>8. kept[N] \in A
  <2> DEFINE Good == {m \in Nat : m \in 0 .. N => kept[m] \in A}
  <2>1. 0 \in Good
    BY <1>1, <1>5
  <2>2. ASSUME NEW m \in Nat, m \in Good PROVE m + 1 \in Good
    <3> SUFFICES ASSUME m + 1 \in 0 .. N PROVE kept[m + 1] \in A
      OBVIOUS
    <3>1. m + 1 \in 1 .. N /\ (m + 1) - 1 = m /\ m \in 0 .. N
      OBVIOUS
    <3> QED BY <1>7, <2>2, <3>1
  <2>3. Nat \subseteq Good
    <3>1. Good \in SUBSET Nat
      OBVIOUS
    <3> HIDE DEF Good
    <3> QED BY <2>1, <2>2, <3>1, InductNat
  <2> QED BY <1>1, <2>3
<1>9. Among(es, S) \in Seq(U)
  BY <1>6, <1>8
<1> QED BY <1>9 DEF Range

\* A sequence over a set lies in it, and is one over every larger set.
LEMMA SeqRange ==
    ASSUME NEW T, NEW s \in Seq(T), NEW U, T \subseteq U
    PROVE  Range(s) \subseteq T /\ s \in Seq(U)
BY DEF Range

\* The elements of a sequence over a set lie in it and in the range.
LEMMA SeqElements ==
    ASSUME NEW T, NEW s \in Seq(T)
    PROVE  \A n \in DOMAIN s : s[n] \in T /\ s[n] \in Range(s)
BY DEF Range

\* What appending an element adds to the range of a sequence.
LEMMA AppendRange ==
    ASSUME NEW T, NEW s \in Seq(T), NEW x \in T
    PROVE  Append(s, x) \in Seq(T) /\ Range(Append(s, x)) \subseteq Range(s) \cup {x}
BY DEF Range

\* r is a function on the domain of s
ImageOf(r, s, U) == r \in [DOMAIN s -> U]

\* A function on the domain of a sequence is one, over any set of its values.
LEMMA ImageSeq ==
    ASSUME NEW T, NEW s \in Seq(T), NEW U, NEW r, ImageOf(r, s, U)
    PROVE  r \in Seq(U) /\ \A f \in Range(r) : \E n \in DOMAIN s : f = r[n]
<1>1. Len(s) \in Nat /\ DOMAIN s = 1 .. Len(s)
  OBVIOUS
<1>2. DOMAIN r = DOMAIN s /\ r \in [1 .. Len(s) -> U]
  BY <1>1 DEF ImageOf
<1> QED BY <1>1, <1>2 DEF Range

\* A concatenation holds what its parts hold.
LEMMA ConcatRange ==
    ASSUME NEW T, NEW s \in Seq(T), NEW t \in Seq(T)
    PROVE  s \o t \in Seq(T) /\ Range(s \o t) \subseteq Range(s) \cup Range(t)
BY DEF Range

\* The empty sequence holds nothing.
LEMMA NothingListed == Range(<<>>) = {}
BY DEF Range

\* A candidate batch takes outputs of the entries it is gathered from.
LEMMA GatherFacts ==
    ASSUME NEW es \in Seq(Shaped), NEW locks \in SUBSET Nat
    PROVE  /\ Gather(es, locks) \in Seq(Outs)
           /\ Range(Gather(es, locks)) \subseteq {e.out : e \in Range(es)}
<1> DEFINE U == {e.out : e \in Range(es)}
           A == [batch : Seq(U), limit : Nat, locks : SUBSET Nat]
           N == Len(es)
           first == [batch |-> <<>>, limit |-> MaxBatch, locks |-> locks]
           Join(acc, e) ==
             LET limit == AtMost(CapOf(e), acc.limit)
             IN  IF Lock(e.out) \in acc.locks /\ Len(acc.batch) + 1 <= limit
                 THEN [batch |-> Append(acc.batch, e.out), limit |-> limit,
                       locks |-> {Lock(e.out)}]
                 ELSE acc
           step == [p \in A \X (1 .. N) |-> Join(p[1], es[p[2]])]
           Defines(g) == g = [n \in 0 .. Len(es) |->
                      IF n = 0 THEN [batch |-> <<>>, limit |-> MaxBatch, locks |-> locks]
                      ELSE Join(g[n - 1], es[n])]
           taken == CHOOSE g : Defines(g)
<1>1. N \in Nat /\ first \in A
  BY EntriesAssumption
<1>2. ASSUME NEW acc \in A, NEW n \in 1 .. N PROVE Join(acc, es[n]) \in A
  <2>1. es[n] \in Shaped /\ es[n].out \in U /\ es[n].batch_cap \in Nat
    <3>1. es[n] \in Shaped /\ es[n] \in Range(es)
      BY DEF Range
    <3> QED BY <3>1, Zenon DEF Shaped
  <2>2. Lock(es[n].out) \in Nat /\ AtMost(CapOf(es[n]), acc.limit) \in Nat
    <3>1. acc.limit \in Nat
      OBVIOUS
    <3>2. Lock(es[n].out) \in Nat
      BY EntriesAssumption DEF Lock
    <3>3. CapOf(es[n]) \in Nat
      BY <2>1, EntriesAssumption DEF CapOf, AtMost
    <3> QED BY <3>1, <3>2, <3>3 DEF AtMost
  <2>3. Append(acc.batch, es[n].out) \in Seq(U)
    BY <2>1
  <2> HIDE DEF U
  <2> QED BY <2>2, <2>3
<1>3. step \in [A \X (1 .. N) -> A]
  <2> HIDE DEF Join, A
  <2> QED BY <1>2
<1>4. PICK F : Iterates(F, N, A, first, step)
  <2> HIDE DEF A, step, N, first
  <2> QED BY <1>1, <1>3, Recursion, Zenon
<1>5. ASSUME NEW n \in 0 .. N, n # 0 PROVE F[n] = Join(F[n - 1], es[n])
  <2>1. n \in 1 .. N /\ F[n - 1] \in A /\ F[n] = step[<<F[n - 1], n>>]
    <3> HIDE DEF step, A
    <3> QED BY <1>4, <1>5 DEF Iterates
  <2> HIDE DEF Join, A
  <2> QED BY <2>1
<1>6. Defines(F)
  <2>1. F = [n \in 0 .. N |-> F[n]] /\ F[0] = first
    BY <1>4, Zenon DEF Iterates
  <2> HIDE DEF Join
  <2> QED BY <1>5, <2>1, Zenon
<1>7. Defines(taken)
  <2> HIDE DEF Defines
  <2> QED BY <1>6
<1>8. Gather(es, locks) = taken[N].batch
  BY Zenon DEF Gather
<1> HIDE DEF taken
<1>9. ASSUME NEW n \in 1 .. N, taken[n - 1] \in A PROVE taken[n] \in A
  <2>1. taken[n] = Join(taken[n - 1], es[n])
    <3>1. n \in 0 .. Len(es) /\ n # 0
      OBVIOUS
    <3> HIDE DEF Join
    <3> QED BY <1>7, <3>1, Zenon
  <2> HIDE DEF Join, A
  <2> QED BY <1>2, <1>9, <2>1
<1>10. taken[N] \in A
  <2> DEFINE Good == {m \in Nat : m \in 0 .. N => taken[m] \in A}
  <2>1. 0 \in Good
    <3>1. taken[0] = first
      <4> HIDE DEF Join
      <4> QED BY <1>7
    <3> HIDE DEF A, first
    <3> QED BY <1>1, <3>1
  <2>2. ASSUME NEW m \in Nat, m \in Good PROVE m + 1 \in Good
    <3> HIDE DEF A
    <3> SUFFICES ASSUME m + 1 \in 0 .. N PROVE taken[m + 1] \in A
      OBVIOUS
    <3>1. m + 1 \in 1 .. N /\ (m + 1) - 1 = m /\ m \in 0 .. N
      OBVIOUS
    <3> QED BY <1>9, <2>2, <3>1
  <2>3. Nat \subseteq Good
    <3>1. Good \in SUBSET Nat
      OBVIOUS
    <3> HIDE DEF Good
    <3> QED BY <2>1, <2>2, <3>1, InductNat
  <2> HIDE DEF A
  <2> QED BY <1>1, <2>3
<1>11. Gather(es, locks) \in Seq(U)
  <2> HIDE DEF U
  <2> QED BY <1>8, <1>10
<1>12. U \subseteq Outs
  <2>1. Range(es) \subseteq Shaped
    BY SeqRange
  <2> QED BY <2>1 DEF Shaped
<1> HIDE DEF U
<1>13. Range(Gather(es, locks)) \subseteq U /\ Gather(es, locks) \in Seq(Outs)
  BY <1>11, <1>12, SeqRange
<1> QED BY <1>13 DEF U

\* The batch select_claim_batch releases spends outputs of eligible entries.
LEMMA BatchFacts ==
    ASSUME NEW es \in Seq(Shaped), NEW gate, NEW flying
    PROVE  LET batch == SelectClaimBatch(es, gate, flying)
           IN  /\ batch \in Seq(Outs)
               /\ \A o \in Range(batch) : \E e \in Range(es) : e.out = o /\ Eligible(e, flying)
<1> DEFINE Ready == {e \in Range(es) : Eligible(e, flying)}
           ready == Among(es, Ready)
           pass == [n \in 0 .. 3 |-> Among(ready, {e \in Range(ready) : InPass(n, e, gate)})]
           inference == {e \in Range(ready) : e.out \in Inference}
           nominal == Among(pass[0], inference) \o Among(pass[0], Range(ready) \ inference)
           minted == IF gate THEN BondLock ELSE LegacyLock
           other == IF gate THEN LegacyLock ELSE BondLock
           candidates == [n \in 1 .. 5 |->
               CASE n = 1 -> Gather(nominal, {minted})
                 [] n = 2 -> Gather(nominal, {other})
                 [] OTHER -> Gather(pass[n - 2], {minted, other})]
           releasable == {n \in 1 .. 5 : Len(candidates[n]) >= IF n <= 2 THEN MaxBatch ELSE 1}
           Sound(b) == /\ b \in Seq(Outs)
                       /\ \A o \in Range(b) : \E e \in Range(es) : e.out = o /\ Eligible(e, flying)
<1>1. SelectClaimBatch(es, gate, flying) =
        IF ready = <<>> \/ releasable = {} THEN <<>> ELSE candidates[First(releasable)]
  BY Zenon DEF SelectClaimBatch
<1>2. {minted} \in SUBSET Nat /\ {other} \in SUBSET Nat /\ {minted, other} \in SUBSET Nat
  BY EntriesAssumption
<1>3. ready \in Seq(Shaped) /\ Range(ready) \subseteq Ready
  BY AmongFacts
<1>4. ASSUME NEW n \in 0 .. 3
      PROVE  pass[n] \in Seq(Shaped) /\ Range(pass[n]) \subseteq Ready
  <2> DEFINE Q == {e \in Range(ready) : InPass(n, e, gate)}
  <2>1. pass[n] = Among(ready, Q)
    OBVIOUS
  <2> HIDE DEF Q, ready, Ready, pass
  <2> QED BY <1>3, <2>1, AmongFacts
<1>5. nominal \in Seq(Shaped) /\ Range(nominal) \subseteq Ready
  <2> DEFINE s == Among(pass[0], inference)
             t == Among(pass[0], Range(ready) \ inference)
  <2>1. s \in Seq(Shaped) /\ Range(s) \subseteq Ready
    <3> HIDE DEF pass, inference, Ready, ready
    <3> QED BY <1>4, AmongFacts
  <2>2. t \in Seq(Shaped) /\ Range(t) \subseteq Ready
    <3> HIDE DEF pass, inference, Ready, ready
    <3> QED BY <1>4, AmongFacts
  <2> HIDE DEF s, t, Ready
  <2>3. s \o t \in Seq(Shaped) /\ Range(s \o t) \subseteq Ready
    BY <2>1, <2>2 DEF Range
  <2> QED BY <2>3 DEF s, t
<1>6. ASSUME NEW cs \in Seq(Shaped), Range(cs) \subseteq Ready, NEW locks \in SUBSET Nat
      PROVE  Sound(Gather(cs, locks))
  <2>1. /\ Gather(cs, locks) \in Seq(Outs)
        /\ Range(Gather(cs, locks)) \subseteq {e.out : e \in Range(cs)}
    BY <1>6, GatherFacts
  <2>2. \A e \in Ready : e \in Range(es) /\ Eligible(e, flying)
    OBVIOUS
  <2> HIDE DEF Ready
  <2> QED BY <1>6, <2>1, <2>2
<1>7. ASSUME NEW n \in 1 .. 5 PROVE Sound(candidates[n])
  <2>1. CASE n = 1
    <3>1. candidates[n] = Gather(nominal, {minted})
      BY <2>1
    <3> HIDE DEF Sound, candidates, nominal, minted
    <3> QED BY <1>2, <1>5, <1>6, <3>1
  <2>2. CASE n = 2
    <3>1. candidates[n] = Gather(nominal, {other})
      BY <2>2
    <3> HIDE DEF Sound, candidates, nominal, other
    <3> QED BY <1>2, <1>5, <1>6, <3>1
  <2>3. CASE n \in 3 .. 5
    <3>1. candidates[n] = Gather(pass[n - 2], {minted, other}) /\ n - 2 \in 0 .. 3
      BY <2>3
    <3> HIDE DEF Sound, candidates, pass, minted, other
    <3> QED BY <1>2, <1>4, <1>6, <3>1, Zenon
  <2> HIDE DEF Sound, candidates
  <2> QED BY <2>1, <2>2, <2>3
<1>8. ASSUME releasable # {} PROVE First(releasable) \in 1 .. 5
  <2> HIDE DEF candidates
  <2>1. releasable \in SUBSET Nat /\ releasable \subseteq 1 .. 5
    OBVIOUS
  <2> HIDE DEF releasable
  <2>2. \E x \in releasable : \A y \in releasable : x <= y
    BY <1>8, <2>1, LeastNat
  <2>3. First(releasable) \in releasable
    BY <2>2 DEF First
  <2> QED BY <2>1, <2>3, Zenon
<1>9. Sound(<<>>)
  BY DEF Range
<1> HIDE DEF Sound, candidates, releasable, ready
<1>10. Sound(SelectClaimBatch(es, gate, flying))
  BY <1>1, <1>7, <1>8, <1>9
<1> QED BY <1>10 DEF Sound

-----------------------------------------------------------------------------
(* What happens to one entry.                                              *)

\* f is what became of the entry e in a step that undid the coinbases gone,
\* recorded the outputs taken as claimed and blamed the outputs blamed
Follows(f, e, gone, taken, blamed) ==
    /\ f.out = e.out
    /\ f.claimed => e.claimed \/ e.out \in taken
    /\ f.slashed => e.slashed \/ e.out \in gone \cup blamed
    /\ f.orphan_slashed => e.orphan_slashed \/ e.out \in blamed
    /\ Pending(f) => Pending(e) /\ e.out \notin gone

\* Powers of two, and so the time an entry stays in the dead pool, are integers.
LEMMA HoldoffInt == ASSUME NEW n \in Nat PROVE Holdoff(n) \in Int
<1>1. AtMost(n, 10) \in Nat
  BY DEF AtMost
<1>2. 2 ^ AtMost(n, 10) \in Int
  BY <1>1
<1> QED BY <1>2, EntriesAssumption DEF Holdoff

\* Time passing changes the counters of an entry only.
LEMMA OlderFacts ==
    ASSUME NEW e \in Shaped, NEW d \in Nat
    PROVE  LET f == Older(e, d)
           IN  /\ f \in Shaped
               /\ f.out = e.out /\ f.claimed = e.claimed /\ f.slashed = e.slashed
               /\ f.orphan_slashed = e.orphan_slashed
<1> DEFINE floor == IF e.orphan_slashed THEN -Holdoff(e.orphan_retries) ELSE 0
           age == AtMost(e.age + d, Lock(e.out))
           rest == AtLeast(e.rest - d, floor)
           capAge == IF e.batch_cap = 0 THEN 0 ELSE AtMost(e.capAge + d, CapExpiry)
<1>1. /\ e.orphan_retries \in Nat /\ e.age \in Int /\ e.rest \in Int /\ e.capAge \in Int
      /\ e.out \in Outs
  BY DEF Shaped
<1>2. floor \in Int
  BY <1>1, HoldoffInt
<1>3. Lock(e.out) \in Int /\ CapExpiry \in Int
  BY EntriesAssumption DEF Lock
<1> HIDE DEF floor
<1>4. age \in Int /\ rest \in Int /\ capAge \in Int
  BY <1>1, <1>2, <1>3 DEF AtMost, AtLeast
<1>5. Older(e, d) = IF ~Pending(e) THEN e ELSE [e EXCEPT !.age = age, !.rest = rest, !.capAge = capAge]
  BY DEF Older, floor
<1> HIDE DEF age, rest, capAge
<1> QED BY <1>4, <1>5, ZenonT(60) DEF Shaped

\* find_claim forgives, and blames nothing.
LEMMA HealedFacts ==
    ASSUME NEW e \in Shaped
    PROVE  LET f == Healed(e)
           IN  /\ f \in Shaped
               /\ f.out = e.out /\ f.claimed = e.claimed /\ f.slashed = e.slashed
               /\ f.orphan_slashed => e.orphan_slashed
<1> DEFINE uncapped == e.batch_cap # 0 /\ e.capAge >= CapExpiry
           forgiven == e.orphan_slashed /\ e.rest <= -Holdoff(e.orphan_retries)
           cap == IF uncapped THEN 0 ELSE e.batch_cap
           capAge == IF uncapped THEN 0 ELSE e.capAge
           dead == e.orphan_slashed /\ ~forgiven
           rest == IF forgiven THEN 0 ELSE e.rest
<1>1. Healed(e) = [e EXCEPT !.batch_cap = cap, !.capAge = capAge,
                            !.orphan_slashed = dead, !.rest = rest]
  BY DEF Healed
<1> HIDE DEF uncapped, forgiven
<1>2. cap \in Nat /\ capAge \in Int /\ rest \in Int
  BY DEF Shaped
<1>3. dead \in BOOLEAN /\ (dead => e.orphan_slashed)
  BY Zenon
<1> HIDE DEF cap, capAge, dead, rest
<1> QED BY <1>1, <1>2, <1>3, ZenonT(60) DEF Shaped

\* A block that undoes the coinbases gone slashes their pending entries.
LEMMA JudgedFacts ==
    ASSUME NEW e \in Shaped, NEW d \in Nat, NEW gone, NEW claiming
    PROVE  /\ Judged(e, d, gone, claiming) \in Shaped
           /\ Follows(Judged(e, d, gone, claiming), e, gone, {}, {})
<1> DEFINE aged == Older(e, d)
           judged == IF e.out \in gone THEN Slashed(aged) ELSE aged
<1>1. /\ aged \in Shaped
      /\ aged.out = e.out /\ aged.claimed = e.claimed /\ aged.slashed = e.slashed
      /\ aged.orphan_slashed = e.orphan_slashed
  BY OlderFacts
<1> HIDE DEF aged
<1>2. /\ Slashed(aged) \in Shaped
      /\ Slashed(aged).out = e.out /\ Slashed(aged).claimed = e.claimed
      /\ Slashed(aged).slashed <=> e.slashed \/ Pending(e)
      /\ Slashed(aged).orphan_slashed = e.orphan_slashed
  BY <1>1, Zenon DEF Slashed, Pending, Shaped
<1>3. judged \in Shaped /\ Follows(judged, e, gone, {}, {})
  BY <1>1, <1>2 DEF Follows, Pending
<1> HIDE DEF judged
<1>4. Healed(judged) \in Shaped /\ Follows(Healed(judged), e, gone, {}, {})
  BY <1>3, HealedFacts DEF Follows, Pending
<1>5. Judged(e, d, gone, claiming) = IF claiming THEN Healed(judged) ELSE judged
  BY DEF Judged, judged, aged
<1> QED BY <1>3, <1>4, <1>5

\* A cap on the batches of an entry blames nothing.
LEMMA CappedFacts ==
    ASSUME NEW e \in Shaped, NEW cap \in Nat
    PROVE  LET f == Capped(e, cap)
           IN  /\ f \in Shaped
               /\ f.out = e.out /\ f.claimed = e.claimed /\ f.slashed = e.slashed
               /\ f.orphan_slashed = e.orphan_slashed
<1>1. ASSUME NEW c, c \in Nat, NEW z, z \in Int
      PROVE  LET f == [e EXCEPT !.batch_cap = c, !.capAge = z]
             IN  /\ f \in Shaped
                 /\ f.out = e.out /\ f.claimed = e.claimed /\ f.slashed = e.slashed
                 /\ f.orphan_slashed = e.orphan_slashed
  BY <1>1, Zenon DEF Shaped
<1>2. 0 \in Int
  OBVIOUS
<1> QED BY <1>1, <1>2, Zenon DEF Capped

\* whom an answer to a claim of outs records as claimed, and whom it blames
Taken(err, outs) == IF err \in {"none", "duplicate"} THEN outs ELSE {}
Blamed(err, outs) == IF err = "orphan" /\ ~(Cardinality(outs) > 1) THEN outs ELSE {}

\* An answer records the entries of its claim as claimed when the node took
\* it, and blames one only when it was alone in the claim.
LEMMA AnswerFacts ==
    ASSUME NEW e \in Shaped, NEW err \in Errors, NEW outs, e.out \in outs,
           Cardinality(outs) \in Nat
    PROVE  LET f == AfterAnswer(e, err, Cardinality(outs))
           IN  f \in Shaped /\ Follows(f, e, {}, Taken(err, outs), Blamed(err, outs))
<1> DEFINE n == Cardinality(outs)
<1>1. CASE err \in {"none", "duplicate"}
  <2>1. AfterAnswer(e, err, n) = [e EXCEPT !.claimed = TRUE]
    BY <1>1 DEF AfterAnswer
  <2> QED BY <1>1, <2>1, Zenon DEF Taken, Blamed, Follows, Pending, Shaped
<1>2. CASE err = "seqlock"
  <2>1. AfterAnswer(e, err, n) = [e EXCEPT !.rest = SeqCooldown]
    BY <1>2 DEF AfterAnswer, AfterSeqLock
  <2> QED BY <1>2, <2>1, EntriesAssumption DEF Taken, Blamed, Follows, Pending, Shaped
<1>3. CASE err = "orphan" /\ n > 1
  <2>1. AfterAnswer(e, err, n) = Capped(e, HalvedCap(n))
    BY <1>3 DEF AfterAnswer, AfterOrphan
  <2>2. HalvedCap(n) \in Nat
    BY DEF HalvedCap, AtLeast
  <2>3. /\ Capped(e, HalvedCap(n)) \in Shaped
        /\ Follows(Capped(e, HalvedCap(n)), e, {}, {}, {})
    BY <2>2, CappedFacts DEF Follows, Pending
  <2> QED BY <1>3, <2>1, <2>3 DEF Taken, Blamed
<1>4. CASE err = "orphan" /\ ~(n > 1)
  <2>1. AfterAnswer(e, err, n) = SoloOrphaned(e)
    BY <1>4 DEF AfterAnswer, AfterOrphan
  <2>2. /\ SoloOrphaned(e) \in Shaped
        /\ SoloOrphaned(e).out = e.out
        /\ SoloOrphaned(e).claimed = e.claimed
        /\ e.slashed => SoloOrphaned(e).slashed
    <3> DEFINE retries == e.orphan_retries + 1
    <3>1. retries \in Nat /\ OrphanCooldown \in Int
      BY EntriesAssumption DEF Shaped
    <3>2. SoloOrphaned(e) \in
            {[e EXCEPT !.orphan_retries = retries, !.orphan_slashed = FALSE, !.slashed = TRUE],
             [e EXCEPT !.orphan_retries = retries, !.orphan_slashed = TRUE,
                       !.rest = OrphanCooldown]}
      BY DEF SoloOrphaned
    <3> HIDE DEF retries
    <3> QED BY <3>1, <3>2, ZenonT(60) DEF Shaped
  <2>3. Blamed(err, outs) = outs
    BY <1>4 DEF Blamed
  <2> QED BY <2>1, <2>2, <2>3 DEF Follows, Pending
<1>5. CASE err = "other"
  <2> DEFINE tries == AtMost(e.submit_retries + 1, MaxSubmits)
             rest == AtMost(UnknownBase * 2 ^ AtMost(tries, 9), UnknownMax)
             bisected == IF n > 1 THEN Capped(e, HalvedCap(n)) ELSE e
  <2>1. tries \in Nat
    BY EntriesAssumption DEF AtMost, Shaped
  <2>2. rest \in Int
    <3> HIDE DEF tries
    <3>1. AtMost(tries, 9) \in Nat
      BY <2>1 DEF AtMost
    <3>2. 2 ^ AtMost(tries, 9) \in Int
      BY <3>1
    <3>3. UnknownBase * 2 ^ AtMost(tries, 9) \in Int /\ UnknownMax \in Int
      BY <3>2, EntriesAssumption
    <3> QED BY <3>3 DEF AtMost
  <2>3. HalvedCap(n) \in Nat
    BY DEF HalvedCap, AtLeast
  <2>4. /\ bisected \in Shaped
        /\ bisected.out = e.out /\ bisected.claimed = e.claimed /\ bisected.slashed = e.slashed
        /\ bisected.orphan_slashed = e.orphan_slashed
    BY <2>3, CappedFacts
  <2>5. AfterAnswer(e, err, n) = [bisected EXCEPT !.submit_retries = tries, !.rest = rest]
    BY <1>5 DEF AfterAnswer, AfterUnknown
  <2> HIDE DEF tries, rest, bisected
  <2> QED BY <1>5, <2>1, <2>2, <2>4, <2>5, ZenonT(60) DEF Taken, Blamed, Follows, Pending, Shaped
<1> QED BY <1>1, <1>2, <1>3, <1>4, <1>5 DEF Errors

-----------------------------------------------------------------------------
(* The inductive invariants.  The file is part of them: what it holds comes *)
(* back with a restart.                                                    *)

Known == Range(entries) \cup Range(disk)

Typed ==
    /\ entries \in Seq(Shaped) /\ disk \in Seq(Shaped)
    /\ inFlight \subseteq [tx : Seq(Outs), age : Int]
    /\ requests \subseteq Seq(Outs)
    /\ replies \subseteq [tx : Seq(Outs), err : Errors]
    /\ Timeout \in Int

\* what the node took is spent, and only answers to that record a claim
ClaimInv ==
    /\ \A tx \in accepted : Range(tx) \subseteq spent
    /\ \A r \in replies : r.err \in {"none", "duplicate"} => Range(r.tx) \subseteq spent
    /\ \A e \in Known : e.claimed => e.out \in spent

\* an output of a block the chain may no longer hold awaits its validation
GhostInv ==
    /\ \A e \in Known : e.out \notin Inference => BlockOf[e.out] \in chain \cup Reorgs
    /\ ~online => inFlight = {}
    /\ online => \A e \in Range(entries) :
                    Pending(e) /\ e.out \notin Inference => BlockOf[e.out] \in chain \cup checking
    /\ NoGhostIsClaimed

\* the output was in the chain; it is spent or never reached the chain
Based(o) == o \in Inference \/ BlockOf[o] \in chain
Dead(o) == o \in spent \/ o \in Phantom

\* only the dead are blamed, and an orphaned claim has a dead input
LiveInv ==
    /\ \A e \in Known : Based(e.out)
    /\ \A tx \in requests : \A o \in Range(tx) : Based(o)
    /\ \A e \in Known : e.slashed \/ e.orphan_slashed => Dead(e.out)
    /\ \A r \in replies : r.err = "orphan" => \E o \in Range(r.tx) : Dead(o)

-----------------------------------------------------------------------------
(* What a step of the watcher does to its entries, the file and the claims. *)

EntriesFollow(gone, taken, blamed, new) ==
    \A f \in Range(entries') :
        \/ \E e \in Range(entries) : Follows(f, e, gone, taken, blamed)
        \/ \E o \in new : f = Fresh(o)

FileFollows ==
    \A f \in Range(disk') :
        \/ f \in Range(entries')
        \/ \E e \in Range(disk) : Follows(f, e, {}, {}, {})

SpendsPending(tx) ==
    \A o \in Range(tx) : \E e \in Range(entries') : e.out = o /\ Pending(e)

ClaimsFollow ==
    /\ \A f \in inFlight' : \/ \E g \in inFlight : f.tx = g.tx
                            \/ checking = {} /\ SpendsPending(f.tx)
    /\ \A tx \in requests' : tx \in requests \/ SpendsPending(tx)

\* The new entry of an output of ours is one.
LEMMA FreshFacts == ASSUME NEW o \in Outs PROVE Fresh(o) \in Shaped
BY DEF Fresh, Shaped

\* A fresh entry is neither claimed nor blamed.
LEMMA FreshIsClean ==
    ASSUME NEW o
    PROVE  /\ Fresh(o).out = o /\ ~Fresh(o).claimed
           /\ ~Fresh(o).slashed /\ ~Fresh(o).orphan_slashed
BY DEF Fresh

\* Any set of outputs can be listed.
LEMMA Listed == ASSUME NEW S \in SUBSET Outs PROVE Listing(S) \in Seq(S)
<1>1. IsFiniteSet(S)
  BY EntriesAssumption, FS_Subset
<1>2. Cardinality(S) \in Nat /\ ExistsBijection(1 .. Cardinality(S), S)
  BY <1>1, FS_CardinalityType
<1>3. Injection(1 .. Cardinality(S), S) # {}
  BY <1>2 DEF ExistsBijection, Bijection
<1>4. Listing(S) \in Injection(1 .. Cardinality(S), S)
  BY <1>3 DEF Listing
<1>5. Listing(S) \in [1 .. Cardinality(S) -> S]
  BY <1>4 DEF Injection
<1> QED BY <1>2, <1>5

\* handle_block: entries age, the coinbases of the reds are undone, new
\* outputs are tracked, and a claim spends pending entries after validation.
LEMMA BlockStep ==
    ASSUME Typed, NEW reds, NEW new \in SUBSET Outs, NEW d \in Nat, NEW gate, NEW flush,
           HandleBlock(reds, new, d, gate, flush)
    PROVE  /\ Typed'
           /\ EntriesFollow(UNION {OutsOf(b) : b \in reds}, {}, {}, new)
           /\ FileFollows /\ ClaimsFollow
<1> DEFINE compacts == blocks_since_compact + 1 >= CompactEvery
           flights == Expire({[f EXCEPT !.age = AtMost(@ + d, Timeout)] : f \in inFlight})
           kept == IF compacts THEN Among(entries, {e \in Range(entries) : Pending(e)})
                   ELSE entries
           fresh == new \ {e.out : e \in Range(kept)}
           gone == UNION {OutsOf(b) : b \in reds}
           claiming == MayClaim(flights)
           old == Map(LAMBDA e : Judged(e, d, gone, claiming), kept)
           tracked == old \o Map(Fresh, Listing(fresh))
           batch == IF claiming
                    THEN SelectClaimBatch(tracked, gate, Flying(flights)) ELSE <<>>
           aged == Map(LAMBDA e : Older(e, d), disk)
<1>1. /\ entries' = tracked
      /\ inFlight' = IF Ships(batch) THEN flights \cup {[tx |-> batch, age |-> 0]} ELSE flights
      /\ requests' = IF Ships(batch) /\ Cardinality(requests) < MaxOnWire
                     THEN requests \cup {batch} ELSE requests
      /\ disk' = IF flush THEN tracked ELSE aged
      /\ replies' = replies
  BY DEF HandleBlock, MaybeFlush
<1>2. kept \in Seq(Shaped) /\ Range(kept) \subseteq Range(entries)
  BY AmongFacts DEF Typed
<1>3. fresh \in SUBSET Outs /\ fresh \subseteq new
  OBVIOUS
<1> HIDE DEF kept, fresh, gone, claiming
<1>4. /\ old \in Seq(Shaped)
      /\ \A f \in Range(old) : \E e \in Range(entries) : Follows(f, e, gone, {}, {})
  <2>1. \A n \in DOMAIN kept :
           /\ kept[n] \in Shaped /\ kept[n] \in Range(entries)
           /\ Judged(kept[n], d, gone, claiming) \in Shaped
           /\ Follows(Judged(kept[n], d, gone, claiming), kept[n], gone, {}, {})
    <3> SUFFICES ASSUME NEW n \in DOMAIN kept
                 PROVE  /\ kept[n] \in Shaped /\ kept[n] \in Range(entries)
                        /\ Judged(kept[n], d, gone, claiming) \in Shaped
                        /\ Follows(Judged(kept[n], d, gone, claiming), kept[n], gone, {}, {})
      OBVIOUS
    <3>1. kept[n] \in Shaped /\ kept[n] \in Range(entries)
      BY <1>2 DEF Range
    <3> QED BY <3>1, JudgedFacts
  <2>2. old = [n \in DOMAIN kept |-> Judged(kept[n], d, gone, claiming)]
    BY DEF Map
  <2> HIDE DEF old
  <2>3. ImageOf(old, kept, Shaped)
    BY <2>1, <2>2 DEF ImageOf
  <2>4. old \in Seq(Shaped) /\ \A f \in Range(old) : \E n \in DOMAIN kept : f = old[n]
    BY <1>2, <2>3, ImageSeq
  <2>5. \A n \in DOMAIN kept : old[n] = Judged(kept[n], d, gone, claiming)
    BY <2>2
  <2> QED BY <2>1, <2>4, <2>5, Zenon
<1>5. /\ Map(Fresh, Listing(fresh)) \in Seq(Shaped)
      /\ \A f \in Range(Map(Fresh, Listing(fresh))) : \E o \in new : f = Fresh(o)
  <2> DEFINE s == Listing(fresh)
  <2>1. s \in Seq(fresh)
    BY <1>3, Listed
  <2> HIDE DEF s
  <2>2. \A n \in DOMAIN s : s[n] \in new /\ Fresh(s[n]) \in Shaped
    BY <1>3, <2>1, FreshFacts
  <2>3. Map(Fresh, s) = [n \in DOMAIN s |-> Fresh(s[n])]
    BY DEF Map
  <2>4. /\ Map(Fresh, s) \in Seq(Shaped)
        /\ \A f \in Range(Map(Fresh, s)) : \E o \in new : f = Fresh(o)
    BY <2>1, <2>2, <2>3 DEF Range
  <2> QED BY <2>4, Zenon DEF s
<1>6. /\ tracked \in Seq(Shaped)
      /\ Range(tracked) \subseteq Range(old) \cup Range(Map(Fresh, Listing(fresh)))
  <2> HIDE DEF old
  <2> QED BY <1>4, <1>5, ConcatRange
<1>7. EntriesFollow(gone, {}, {}, new)
  <2> HIDE DEF old, tracked
  <2> QED BY <1>1, <1>4, <1>5, <1>6, ZenonT(60) DEF EntriesFollow
<1>8. aged \in Seq(Shaped) /\ \A f \in Range(aged) : \E e \in Range(disk) : Follows(f, e, {}, {}, {})
  <2>1. aged = [n \in DOMAIN disk |-> Older(disk[n], d)]
    BY DEF Map
  <2>2. \A n \in DOMAIN disk : /\ Older(disk[n], d) \in Shaped
                              /\ Follows(Older(disk[n], d), disk[n], {}, {}, {})
    <3> SUFFICES ASSUME NEW n \in DOMAIN disk
                 PROVE  /\ Older(disk[n], d) \in Shaped
                        /\ Follows(Older(disk[n], d), disk[n], {}, {}, {})
      OBVIOUS
    <3>1. disk[n] \in Shaped
      BY DEF Typed
    <3> QED BY <3>1, OlderFacts DEF Follows, Pending
  <2> HIDE DEF aged
  <2>3. ImageOf(aged, disk, Shaped)
    BY <2>1, <2>2 DEF ImageOf
  <2>4. aged \in Seq(Shaped) /\ \A f \in Range(aged) : \E n \in DOMAIN disk : f = aged[n]
    BY <2>3, ImageSeq DEF Typed
  <2>5. \A n \in DOMAIN disk : disk[n] \in Range(disk)
    BY DEF Range
  <2> QED BY <2>1, <2>2, <2>4, <2>5
<1> HIDE DEF old, tracked, aged
<1>9. FileFollows /\ disk' \in Seq(Shaped)
  BY <1>1, <1>6, <1>8 DEF FileFollows
<1>10. \A f \in flights : /\ f \in [tx : Seq(Outs), age : Int]
                          /\ \E g \in inFlight : f.tx = g.tx
  <2>1. ASSUME NEW g \in inFlight
        PROVE  LET f == [g EXCEPT !.age = AtMost(@ + d, Timeout)]
               IN  f \in [tx : Seq(Outs), age : Int] /\ f.tx = g.tx
    <3>1. g \in [tx : Seq(Outs), age : Int] /\ g.age \in Int
      BY DEF Typed
    <3>2. AtMost(g.age + d, Timeout) \in Int
      BY <3>1 DEF AtMost, Typed
    <3> QED BY <3>1, <3>2
  <2>2. \A f \in flights : \E g \in inFlight : f = [g EXCEPT !.age = AtMost(@ + d, Timeout)]
    BY DEF Expire
  <2> QED BY <2>1, <2>2, ZenonT(60)
<1> HIDE DEF flights
<1>11. batch \in Seq(Outs) /\ (batch # <<>> => checking = {} /\ SpendsPending(batch))
  <2>1. CASE claiming
    <3>1. checking = {}
      BY <2>1 DEF claiming, MayClaim
    <3>2. batch = SelectClaimBatch(tracked, gate, Flying(flights))
      BY <2>1
    <3> QED BY <1>1, <1>6, <3>1, <3>2, BatchFacts DEF SpendsPending, Eligible
  <2>2. CASE ~claiming
    BY <2>2
  <2> QED BY <2>1, <2>2
<1> HIDE DEF batch
<1>12. ClaimsFollow
  BY <1>1, <1>10, <1>11 DEF ClaimsFollow, Ships
<1>13. /\ inFlight' \subseteq [tx : Seq(Outs), age : Int]
       /\ requests' \subseteq Seq(Outs)
  BY <1>1, <1>10, <1>11 DEF Typed
<1>14. Typed'
  BY <1>1, <1>6, <1>9, <1>13, ZenonT(60) DEF Typed
<1> QED BY <1>7, <1>9, <1>12, <1>14 DEF gone

\* An entry left alone follows itself.
LEMMA FollowsSelf ==
    ASSUME NEW e, NEW taken, NEW blamed
    PROVE  Follows(e, e, {}, taken, blamed)
BY DEF Follows

\* on_block_validated: the pending entries of a block that is gone are slashed.
LEMMA ValidatedStep ==
    ASSUME Typed, NEW b, NEW onChain \in BOOLEAN, NEW flush, Validated(b, onChain, flush),
           UNCHANGED <<requests, replies>>
    PROVE  /\ Typed'
           /\ EntriesFollow(IF onChain THEN {} ELSE OutsOf(b), {}, {}, {})
           /\ FileFollows
<1> DEFINE gone == IF onChain THEN {} ELSE OutsOf(b)
           After(e) == IF ~onChain /\ e.out \in OutsOf(b) THEN Slashed(e) ELSE e
<1>1. /\ entries' = Map(After, entries)
      /\ disk' = entries' \/ disk' = disk
      /\ inFlight' = inFlight
  BY DEF Validated, MaybeFlush
<1>2. entries' = [n \in DOMAIN entries |-> After(entries[n])]
  BY <1>1 DEF Map
<1>3. ASSUME NEW e \in Shaped PROVE After(e) \in Shaped /\ Follows(After(e), e, gone, {}, {})
  <2>1. /\ Slashed(e) \in Shaped
        /\ Slashed(e).out = e.out /\ Slashed(e).claimed = e.claimed
        /\ Slashed(e).slashed <=> e.slashed \/ Pending(e)
        /\ Slashed(e).orphan_slashed = e.orphan_slashed
    BY ZenonT(60) DEF Slashed, Pending, Shaped
  <2> QED BY <2>1 DEF Follows, Pending
<1>4. \A n \in DOMAIN entries : entries[n] \in Shaped /\ entries[n] \in Range(entries)
  BY SeqElements, ZenonT(60) DEF Typed
<1> HIDE DEF After, gone
<1>5. ImageOf(entries', entries, Shaped)
  BY <1>2, <1>3, <1>4, ZenonT(60) DEF ImageOf
<1>6. /\ entries' \in Seq(Shaped)
      /\ \A f \in Range(entries') : \E n \in DOMAIN entries : f = entries'[n]
  <2>1. entries \in Seq(Shaped)
    BY Zenon DEF Typed
  <2> QED BY <1>5, <2>1, ImageSeq
<1>7. EntriesFollow(gone, {}, {}, {})
  BY <1>2, <1>3, <1>4, <1>6, ZenonT(60) DEF EntriesFollow
<1>8. FileFollows
  BY <1>1, FollowsSelf DEF FileFollows
<1>9. Typed'
  BY <1>1, <1>6 DEF Typed
<1> QED BY <1>7, <1>8, <1>9 DEF gone

\* on_submit_response: an answer bears on the entries of its own claim.
LEMMA SubmitStep ==
    ASSUME Typed, NEW r \in replies, NEW flush, OnSubmitResponse(r, flush)
    PROVE  /\ Typed'
           /\ EntriesFollow({}, Taken(r.err, Range(r.tx)), Blamed(r.err, Range(r.tx)), {})
           /\ FileFollows
           /\ inFlight' \subseteq inFlight
<1> DEFINE outs == Range(r.tx)
           After(e) == IF e.out \in outs THEN AfterAnswer(e, r.err, Cardinality(outs)) ELSE e
<1>1. r.tx \in Seq(Outs) /\ r.err \in Errors
  BY DEF Typed
<1>2. /\ inFlight' \subseteq inFlight /\ replies' \subseteq replies /\ requests' = requests
      /\ disk' = entries' \/ disk' = disk
  BY DEF OnSubmitResponse, MaybeFlush
<1>3. FileFollows
  BY <1>2, FollowsSelf DEF FileFollows
<1>4. CASE Matched(r) = {}
  <2>1. entries' = entries /\ disk' = disk
    BY <1>4 DEF OnSubmitResponse
  <2>2. Typed'
    BY <1>2, <2>1 DEF Typed
  <2> QED BY <1>2, <1>3, <2>1, <2>2, FollowsSelf, ZenonT(60) DEF EntriesFollow
<1>5. CASE Matched(r) # {}
  <2>1. Flying(Matched(r)) = outs
    BY <1>5 DEF Flying, Matched
  <2>2. Cardinality(outs) \in Nat
    <3>1. outs \subseteq Outs
      BY <1>1, SeqRange
    <3> HIDE DEF outs
    <3> QED BY <3>1, EntriesAssumption, FS_Subset, FS_CardinalityType
  <2>3. entries' = [n \in DOMAIN entries |-> After(entries[n])]
    BY <1>5, <2>1 DEF OnSubmitResponse, Map
  <2>4. ASSUME NEW e \in Shaped
        PROVE  After(e) \in Shaped /\ Follows(After(e), e, {}, Taken(r.err, outs), Blamed(r.err, outs))
    <3> HIDE DEF outs
    <3>1. CASE e.out \in outs
      BY <1>1, <2>2, <3>1, AnswerFacts, ZenonT(60)
    <3>2. CASE e.out \notin outs
      BY <3>2, FollowsSelf, ZenonT(60)
    <3> QED BY <3>1, <3>2, ZenonT(60)
  <2>5. \A n \in DOMAIN entries : entries[n] \in Shaped /\ entries[n] \in Range(entries)
    BY SeqElements, ZenonT(60) DEF Typed
  <2> HIDE DEF After, outs
  <2>6. ImageOf(entries', entries, Shaped)
    BY <2>3, <2>4, <2>5, ZenonT(60) DEF ImageOf
  <2>7. /\ entries' \in Seq(Shaped)
        /\ \A f \in Range(entries') : \E n \in DOMAIN entries : f = entries'[n]
    BY <2>6, ImageSeq DEF Typed
  <2>8. EntriesFollow({}, Taken(r.err, outs), Blamed(r.err, outs), {})
    BY <2>3, <2>4, <2>5, <2>7, ZenonT(60) DEF EntriesFollow
  <2>9. Typed'
    BY <1>2, <2>7, ZenonT(60) DEF Typed
  <2> QED BY <1>2, <1>3, <2>8, <2>9 DEF outs
<1> QED BY <1>4, <1>5

\* a step that takes in a block, a validation or an answered request
Watches(gone, new) ==
    /\ EntriesFollow(gone, {}, {}, new) /\ FileFollows /\ ClaimsFollow
    /\ \A o \in gone : o \in Outs \ Inference /\ BlockOf[o] \notin chain
    /\ \A o \in new : o \in Outs /\ Based(o)
    /\ checking' \subseteq checking
    /\ \A b \in checking \ checking' : b \in chain \cup Pruned \/ OutsOf(b) \subseteq gone
    /\ checking = {} => online
    /\ UNCHANGED <<chain, spent, accepted, replies, online>>

\* What blocks, validations and answered requests do.
LEMMA WatchesStep ==
    ASSUME Typed,
           \/ \E reds \in SUBSET Reorgs, d \in 0 .. 1, gate \in BOOLEAN, flush \in Flushes :
                 \/ BlockAdded(reds, d, gate, flush)
                 \/ \E b \in Blocks : GotChainBlock(b, reds, d, gate, flush)
           \/ \E b \in Blocks, flush \in Flushes : GotValidation(b, flush)
           \/ \E o \in Inference, flush \in Flushes : TrackInferenceEscrow(o, flush)
    PROVE  Typed' /\ \E gone, new : Watches(gone, new)
<1>1. ASSUME NEW d \in 0 .. 1, NEW gate \in BOOLEAN, NEW flush \in Flushes,
             NEW reds \in SUBSET Reorgs, BlockAdded(reds, d, gate, flush)
      PROVE  Typed' /\ \E gone, new : Watches(gone, new)
  <2> DEFINE gone == UNION {OutsOf(b) : b \in reds}
  <2>1. /\ HandleBlock(reds, {}, d, gate, flush) /\ online /\ reds \subseteq Blocks \ chain
        /\ UNCHANGED <<chain, spent, accepted>>
    BY <1>1 DEF BlockAdded, node
  <2>2. Typed' /\ EntriesFollow(gone, {}, {}, {}) /\ FileFollows /\ ClaimsFollow
    BY <2>1, BlockStep
  <2>3. UNCHANGED <<checking, replies, online>>
    BY <2>1 DEF HandleBlock
  <2>4. \A o \in gone : o \in Outs \ Inference /\ BlockOf[o] \notin chain
    BY <2>1 DEF OutsOf
  <2> HIDE DEF gone
  <2>5. Watches(gone, {})
    BY <2>1, <2>2, <2>3, <2>4 DEF Watches
  <2> QED BY <2>2, <2>5
<1>2. ASSUME NEW b \in checking, NEW onChain \in BOOLEAN, NEW flush,
             Validated(b, onChain, flush), onChain => b \in chain \cup Pruned,
             ~onChain => b \notin chain, UNCHANGED <<requests, replies, node>>
      PROVE  Typed' /\ \E gone, new : Watches(gone, new)
  <2> DEFINE gone == IF onChain THEN {} ELSE OutsOf(b)
  <2>1. Typed' /\ EntriesFollow(gone, {}, {}, {}) /\ FileFollows
    BY <1>2, ValidatedStep
  <2>2. /\ checking' = checking \ {b} /\ inFlight' = inFlight /\ requests' = requests
        /\ UNCHANGED <<chain, spent, accepted, replies, online>>
    BY <1>2 DEF Validated, node
  <2>3. ClaimsFollow
    BY <2>2 DEF ClaimsFollow
  <2>4. \A o \in gone : o \in Outs \ Inference /\ BlockOf[o] \notin chain
    BY <1>2 DEF OutsOf
  <2>5. b \in chain \cup Pruned \/ OutsOf(b) \subseteq gone
    BY <1>2
  <2> HIDE DEF gone
  <2>6. Watches(gone, {})
    BY <2>1, <2>2, <2>3, <2>4, <2>5 DEF Watches
  <2> QED BY <2>1, <2>6
<1>3. ASSUME NEW d \in 0 .. 1, NEW gate \in BOOLEAN, NEW flush \in Flushes,
             NEW reds \in SUBSET Reorgs, NEW b \in Blocks, GotChainBlock(b, reds, d, gate, flush)
      PROVE  Typed' /\ \E gone, new : Watches(gone, new)
  <2>1. CASE b \in checking
    <3>1. Validated(b, b \in chain, flush) /\ UNCHANGED <<requests, replies, node>>
      BY <1>3, <2>1 DEF GotChainBlock
    <3>2. CASE b \in chain
      <4>1. Validated(b, TRUE, flush)
        BY <3>1, <3>2 DEF Validated
      <4> QED BY <1>2, <2>1, <3>1, <3>2, <4>1, ZenonT(60)
    <3>3. CASE b \notin chain
      <4>1. Validated(b, FALSE, flush)
        BY <3>1, <3>3 DEF Validated
      <4> QED BY <1>2, <2>1, <3>1, <3>3, <4>1, ZenonT(60)
    <3> QED BY <3>2, <3>3
  <2>2. CASE b \notin checking
    <3> DEFINE new == IF b \in chain THEN OutsOf(b) ELSE {}
    <3>1. /\ HandleBlock(reds, new, d, gate, flush) /\ online /\ reds \subseteq Blocks \ chain
          /\ UNCHANGED <<chain, spent, accepted>>
      BY <1>3, <2>2, ZenonT(60) DEF GotChainBlock, node
    <3>2. new \in SUBSET Outs /\ \A o \in new : o \in Outs /\ Based(o)
      BY DEF OutsOf, Based
    <3> HIDE DEF new
    <3>3. d \in Nat
      OBVIOUS
    <3>4. Typed' /\ EntriesFollow(UNION {OutsOf(c) : c \in reds}, {}, {}, new) /\ FileFollows /\ ClaimsFollow
      BY <3>1, <3>2, <3>3, BlockStep, ZenonT(60)
    <3> DEFINE gone == UNION {OutsOf(c) : c \in reds}
    <3>5. EntriesFollow(gone, {}, {}, new)
      BY <3>4, ZenonT(60)
    <3>6. \A o \in gone : o \in Outs \ Inference /\ BlockOf[o] \notin chain
      BY <3>1 DEF OutsOf
    <3> HIDE DEF gone
    <3>7. UNCHANGED <<checking, replies, online>>
      BY <3>1, ZenonT(60) DEF HandleBlock
    <3>8. Watches(gone, new)
      BY <3>1, <3>2, <3>4, <3>5, <3>6, <3>7, ZenonT(60) DEF Watches
    <3> QED BY <3>4, <3>8, ZenonT(60)
  <2> QED BY <2>1, <2>2
<1>4. ASSUME NEW b \in Blocks, NEW flush \in Flushes, GotValidation(b, flush)
      PROVE  Typed' /\ \E gone, new : Watches(gone, new)
  <2>1. PICK onChain \in BOOLEAN : /\ onChain <=> b \in chain \/ (onChain /\ b \in Pruned)
                                   /\ Validated(b, onChain, flush)
    BY <1>4 DEF GotValidation
  <2>2. b \in checking /\ UNCHANGED <<requests, replies, node>>
    BY <1>4 DEF GotValidation, wire
  <2>3. (onChain => b \in chain \cup Pruned) /\ (~onChain => b \notin chain)
    BY <2>1
  <2> QED BY <1>2, <2>1, <2>2, <2>3
<1>5. ASSUME NEW o \in Inference, NEW flush \in Flushes, TrackInferenceEscrow(o, flush)
      PROVE  Typed' /\ \E gone, new : Watches(gone, new)
  <2>1. o \in Outs /\ Fresh(o) \in Shaped
    BY EntriesAssumption, FreshFacts, ZenonT(60)
  <2>2. /\ entries' = entries \/ entries' = Append(entries, Fresh(o))
        /\ disk' = entries' \/ disk' = disk
        /\ UNCHANGED <<checking, inFlight, requests, chain, spent, accepted, replies, online>>
        /\ online
    BY <1>5, ZenonT(60) DEF TrackInferenceEscrow, MaybeFlush, node, wire
  <2>3. entries' \in Seq(Shaped) /\ Range(entries') \subseteq Range(entries) \cup {Fresh(o)}
    <3>1. CASE entries' = entries
      BY <3>1 DEF Typed
    <3>2. CASE entries' = Append(entries, Fresh(o))
      BY <2>1, <3>2, AppendRange, ZenonT(60) DEF Typed
    <3> QED BY <2>2, <3>1, <3>2, ZenonT(60)
  <2>4. Typed'
    BY <2>2, <2>3, ZenonT(60) DEF Typed
  <2>5. EntriesFollow({}, {}, {}, {o})
    BY <2>3, FollowsSelf DEF EntriesFollow
  <2>6. FileFollows /\ ClaimsFollow
    BY <2>2, FollowsSelf DEF FileFollows, ClaimsFollow
  <2>7. Watches({}, {o})
    BY <2>1, <2>2, <2>5, <2>6 DEF Watches, Based
  <2> QED BY <2>4, <2>7
<1> QED BY <1>1, <1>3, <1>4, <1>5

\* the steps of the specification, the ones above taken together
Steps ==
    \/ UNCHANGED vars
    \/ \E b \in Blocks : Extend(b) \/ Retract(b)
    \/ \E tx \in requests, err \in Errors : NodeAnswers(tx, err)
    \/ \E r \in replies : LoseReply(r)
    \/ \E old \in Holds : GotInfo(old)
    \/ \E gone, new : Watches(gone, new)
    \/ \E r \in replies, flush \in Flushes : OnSubmitResponse(r, flush)
    \/ \E torn \in BOOLEAN : Restart(torn)

\* Entries, file and messages keep their shape.
LEMMA TypedStep ==
    ASSUME Typed, [Next]_vars
    PROVE  Typed' /\ Steps
<1>1. ASSUME UNCHANGED <<entries, disk, inFlight>>, requests' \subseteq requests,
             replies' \subseteq [tx : Seq(Outs), err : Errors]
      PROVE  Typed'
  BY <1>1, ZenonT(60) DEF Typed
<1>2. CASE UNCHANGED vars
  BY <1>1, <1>2, Zenon DEF vars, watcher, node, wire, Steps, Typed
<1>3. ASSUME NEW b \in Blocks, Extend(b) \/ Retract(b) PROVE Typed' /\ Steps
  <2>1. UNCHANGED <<entries, disk, inFlight, requests, replies>>
    BY <1>3 DEF Extend, Retract, watcher, wire
  <2> QED BY <1>1, <1>3, <2>1, ZenonT(60) DEF Steps, Typed
<1>4. ASSUME NEW tx \in requests, NEW err \in Errors, NodeAnswers(tx, err) PROVE Typed' /\ Steps
  <2>1. /\ UNCHANGED <<entries, disk, inFlight>> /\ requests' \subseteq requests
        /\ replies' = replies \cup {[tx |-> tx, err |-> err]}
    BY <1>4, ZenonT(60) DEF NodeAnswers, watcher
  <2>2. [tx |-> tx, err |-> err] \in [tx : Seq(Outs), err : Errors]
    BY ZenonT(60) DEF Typed
  <2>3. replies' \subseteq [tx : Seq(Outs), err : Errors]
    BY <2>1, <2>2, ZenonT(60) DEF Typed
  <2>4. Typed'
    BY <1>1, <2>1, <2>3, ZenonT(60)
  <2> QED BY <1>4, <2>4, Zenon DEF Steps
<1>5. ASSUME NEW r \in replies, LoseReply(r) PROVE Typed' /\ Steps
  <2>1. UNCHANGED <<entries, disk, inFlight, requests>> /\ replies' \subseteq replies
    BY <1>5 DEF LoseReply, watcher
  <2> QED BY <1>1, <1>5, <2>1, ZenonT(60) DEF Steps, Typed
<1>6. ASSUME NEW old \in Holds, GotInfo(old) PROVE Typed' /\ Steps
  <2>1. UNCHANGED <<entries, disk, inFlight, requests, replies>>
    BY <1>6 DEF GotInfo, wire
  <2> QED BY <1>1, <1>6, <2>1, ZenonT(60) DEF Steps, Typed
<1>7. ASSUME NEW r \in replies, NEW flush \in Flushes, OnSubmitResponse(r, flush)
      PROVE  Typed' /\ Steps
  BY <1>7, SubmitStep DEF Steps
<1>8. ASSUME NEW torn \in BOOLEAN, Restart(torn) PROVE Typed' /\ Steps
  <2>1. /\ disk' = <<>> \/ disk' = disk
        /\ entries' = disk' /\ inFlight' = {} /\ requests' = {} /\ replies' = {}
    BY <1>8 DEF Restart
  <2>2. <<>> \in Seq(Shaped) /\ disk \in Seq(Shaped)
    BY DEF Typed
  <2>3. disk' \in Seq(Shaped)
    BY <2>1, <2>2, ZenonT(60)
  <2> QED BY <1>8, <2>1, <2>3 DEF Steps, Typed
<1> QED BY <1>2, <1>3, <1>4, <1>5, <1>6, <1>7, <1>8, WatchesStep, ZenonT(60) DEF Next, Node, Watcher, Steps

-----------------------------------------------------------------------------
(* Claims.                                                                 *)

\* An entry newly recorded as claimed is one of a claim the node took.
LEMMA ClaimFollows ==
    ASSUME ClaimInv, NEW gone, NEW taken, NEW blamed, NEW new,
           EntriesFollow(gone, taken, blamed, new), FileFollows,
           taken \subseteq spent, spent' = spent
    PROVE  \A e \in Known' : e.claimed => e.out \in spent'
<1>1. ASSUME NEW f \in Range(entries') PROVE f.claimed => f.out \in spent
  <2>1. CASE \E o \in new : f = Fresh(o)
    BY <2>1, FreshIsClean, ZenonT(60)
  <2>2. CASE \E e \in Range(entries) : Follows(f, e, gone, taken, blamed)
    BY <2>2 DEF Follows, ClaimInv, Known
  <2> QED BY <2>1, <2>2, ZenonT(60) DEF EntriesFollow
<1>2. ASSUME NEW f \in Range(disk') PROVE f.claimed => f.out \in spent
  BY <1>1, ZenonT(60) DEF FileFollows, Follows, ClaimInv, Known
<1> QED BY <1>1, <1>2 DEF Known

\* What answers and claims in the making know is kept by every step.
LEMMA ClaimStep ==
    ASSUME Typed, ClaimInv, [Next]_vars
    PROVE  ClaimInv'
<1>1. Steps
  BY TypedStep
<1>2. CASE UNCHANGED vars
  BY <1>2, ZenonT(60) DEF ClaimInv, Known, vars, watcher, node, wire
<1>3. ASSUME NEW b \in Blocks, Extend(b) \/ Retract(b) PROVE ClaimInv'
  BY <1>3, ZenonT(60) DEF Extend, Retract, ClaimInv, Known, watcher, wire
<1>4. ASSUME NEW tx \in requests, NEW err \in Errors, NodeAnswers(tx, err) PROVE ClaimInv'
  <2>1. /\ UNCHANGED <<entries, disk>>
        /\ replies' = replies \cup {[tx |-> tx, err |-> err]}
        /\ accepted' = IF err = "none" THEN accepted \cup {tx} ELSE accepted
        /\ spent' = IF err = "none" THEN spent \cup Range(tx) ELSE spent
    BY <1>4, ZenonT(60) DEF NodeAnswers, watcher
  <2>2. err = "duplicate" => tx \in accepted
    BY <1>4, ZenonT(60) DEF NodeAnswers, Verdicts
  <2>3. err \in {"none", "duplicate"} => Range(tx) \subseteq spent'
    BY <2>1, <2>2, ZenonT(60) DEF ClaimInv
  <2>4. spent \subseteq spent' /\ accepted' \subseteq accepted \cup {tx}
    BY <2>1
  <2>5. \A t \in accepted' : Range(t) \subseteq spent'
    BY <2>1, <2>3, <2>4, ZenonT(60) DEF ClaimInv
  <2>6. ASSUME NEW r \in replies', r.err \in {"none", "duplicate"}
        PROVE  Range(r.tx) \subseteq spent'
    <3>1. CASE r \in replies
      BY <2>4, <2>6, <3>1, ZenonT(60) DEF ClaimInv
    <3>2. CASE r = [tx |-> tx, err |-> err]
      <4>1. r.tx = tx /\ r.err = err
        BY <3>2, ZenonT(60)
      <4> QED BY <2>3, <2>6, <4>1, ZenonT(60)
    <3> QED BY <2>1, <3>1, <3>2, ZenonT(60)
  <2>7. \A e \in Known' : e.claimed => e.out \in spent'
    BY <2>1, <2>4, ZenonT(60) DEF ClaimInv, Known
  <2> QED BY <2>5, <2>6, <2>7, ZenonT(60) DEF ClaimInv
<1>5. ASSUME NEW r \in replies, LoseReply(r) PROVE ClaimInv'
  BY <1>5, ZenonT(60) DEF LoseReply, ClaimInv, Known, watcher, node
<1>6. ASSUME NEW old \in Holds, GotInfo(old) PROVE ClaimInv'
  BY <1>6, ZenonT(60) DEF GotInfo, ClaimInv, Known, node, wire
<1>7. ASSUME NEW gone, NEW new, Watches(gone, new) PROVE ClaimInv'
  <2>1. \A e \in Known' : e.claimed => e.out \in spent'
    BY <1>7, ClaimFollows DEF Watches
  <2> QED BY <1>7, <2>1, ZenonT(60) DEF Watches, ClaimInv
<1>8. ASSUME NEW r \in replies, NEW flush \in Flushes, OnSubmitResponse(r, flush)
      PROVE  ClaimInv'
  <2>1. /\ EntriesFollow({}, Taken(r.err, Range(r.tx)), Blamed(r.err, Range(r.tx)), {})
        /\ FileFollows
    BY <1>8, SubmitStep
  <2>2. UNCHANGED <<spent, accepted>> /\ replies' \subseteq replies
    BY <1>8 DEF OnSubmitResponse, node
  <2>3. Taken(r.err, Range(r.tx)) \subseteq spent
    BY DEF Taken, ClaimInv
  <2>4. \A e \in Known' : e.claimed => e.out \in spent'
    BY <2>1, <2>2, <2>3, ClaimFollows, ZenonT(60)
  <2> QED BY <2>2, <2>4, ZenonT(60) DEF ClaimInv
<1>9. ASSUME NEW torn \in BOOLEAN, Restart(torn) PROVE ClaimInv'
  <2>1. /\ disk' = <<>> \/ disk' = disk
        /\ entries' = disk' /\ replies' = {} /\ UNCHANGED <<spent, accepted>>
    BY <1>9 DEF Restart, node
  <2>2. Known' \subseteq Known
    BY <2>1, NothingListed, ZenonT(60) DEF Known
  <2> QED BY <2>1, <2>2, ZenonT(60) DEF ClaimInv
<1> QED BY <1>1, <1>2, <1>3, <1>4, <1>5, <1>6, <1>7, <1>8, <1>9 DEF Steps

\* Initially nothing is tracked.
LEMMA InitKnown == Init => Typed /\ Range(entries) = {} /\ Known = {}
<1>1. Init => Range(entries) = {} /\ Range(disk) = {}
  BY DEF Init, Range
<1>2. Init => Typed
  BY WatcherAssumption DEF Init, Typed
<1> QED BY <1>1, <1>2, ZenonT(60) DEF Known

\* So no claim is recorded.
LEMMA InitTyped == Init => Typed /\ ClaimInv
BY InitKnown, ZenonT(60) DEF Init, ClaimInv

\* An entry is recorded as claimed only when the node took a claim that spends
\* it (on_submit_response matches the answer by txid, and "duplicate" means the
\* node has that very claim), across lost answers, timeouts, retries, restarts
\* from a stale or torn file and reorganisations, for any number of outputs,
\* blocks and claims in flight.
THEOREM ClaimedOnlyIfSpent == Spec => []ClaimedIsSpent
<1>1. Init => Typed /\ ClaimInv
  BY InitTyped
<1>2. Typed /\ ClaimInv /\ [Next]_vars => Typed' /\ ClaimInv'
  BY TypedStep, ClaimStep
<1>3. ClaimInv => ClaimedIsSpent
  BY DEF ClaimInv, ClaimedIsSpent, Known
<1> QED BY <1>1, <1>2, <1>3, PTL DEF Spec

-----------------------------------------------------------------------------
(* Claims in flight.                                                       *)

\* Two claims in flight share no output: what a claim awaiting its answer
\* spends is not eligible for the next one.
DisjointFlights ==
    \A f, g \in inFlight : Range(f.tx) \cap Range(g.tx) # {} => f = g

\* handle_block adds no claim that competes with one in flight.
LEMMA BlockFlights ==
    ASSUME Typed, DisjointFlights, NEW reds, NEW new \in SUBSET Outs, NEW d \in Nat,
           NEW gate, NEW flush, HandleBlock(reds, new, d, gate, flush)
    PROVE  DisjointFlights'
<1> DEFINE flights == Expire({[f EXCEPT !.age = AtMost(@ + d, Timeout)] : f \in inFlight})
           claiming == MayClaim(flights)
           batch == IF claiming
                    THEN SelectClaimBatch(entries', gate, Flying(flights)) ELSE <<>>
           claim == [tx |-> batch, age |-> 0]
<1>1. inFlight' = IF Ships(batch) THEN flights \cup {claim} ELSE flights
  BY DEF HandleBlock
<1>2. entries' \in Seq(Shaped)
  BY BlockStep, Zenon DEF Typed
<1>3. ASSUME NEW f \in flights, NEW g \in flights, Range(f.tx) \cap Range(g.tx) # {}
      PROVE  f = g
  <2>1. PICK f0 \in inFlight : f = [f0 EXCEPT !.age = AtMost(@ + d, Timeout)]
    BY DEF Expire
  <2>2. PICK g0 \in inFlight : g = [g0 EXCEPT !.age = AtMost(@ + d, Timeout)]
    BY DEF Expire
  <2>3. f.tx = f0.tx /\ g.tx = g0.tx
    BY <2>1, <2>2 DEF Typed
  <2>4. f0 = g0
    BY <1>3, <2>3 DEF DisjointFlights
  <2> QED BY <2>1, <2>2, <2>4
<1> HIDE DEF flights, claiming
<1>4. ASSUME NEW g \in flights PROVE Range(batch) \cap Range(g.tx) = {}
  <2>1. CASE claiming
    <3>1. batch = SelectClaimBatch(entries', gate, Flying(flights))
      BY <2>1
    <3>2. \A o \in Range(batch) : o \notin Flying(flights)
      BY <1>2, <3>1, BatchFacts DEF Eligible
    <3> QED BY <3>2, ZenonT(60) DEF Flying
  <2>2. CASE ~claiming
    BY <2>2 DEF Range
  <2> QED BY <2>1, <2>2, Zenon
<1> HIDE DEF batch
<1>5. claim.tx = batch
  OBVIOUS
<1> HIDE DEF claim
<1> QED BY <1>1, <1>3, <1>4, <1>5, ZenonT(60) DEF DisjointFlights

\* At no time do two claims awaiting their answers spend the same output:
\* select_claim_batch leaves out what in_flight spends, and a claim leaves
\* in_flight by its answer, its timeout or with the watcher.  So bisection,
\* retries and late answers never make the miner compete with itself.
THEOREM ClaimsDoNotCompete == Spec => []DisjointFlights
<1>1. Init => Typed /\ DisjointFlights
  BY InitTyped DEF Init, DisjointFlights
<1>2. Typed /\ DisjointFlights /\ [Next]_vars => Typed' /\ DisjointFlights'
  <2> SUFFICES ASSUME Typed, DisjointFlights, [Next]_vars PROVE Typed' /\ DisjointFlights'
    OBVIOUS
  <2>1. Typed'
    BY TypedStep
  <2>2. ASSUME inFlight' \subseteq inFlight PROVE DisjointFlights'
    BY <2>2 DEF DisjointFlights
  <2>3. ASSUME UNCHANGED vars PROVE DisjointFlights'
    <3>1. inFlight' \subseteq inFlight
      BY <2>3 DEF vars, watcher
    <3> QED BY <2>2, <3>1
  <2>4. ASSUME Node PROVE DisjointFlights'
    <3>1. inFlight' \subseteq inFlight
      BY <2>4, ZenonT(60) DEF Node, Extend, Retract, NodeAnswers, LoseReply, watcher
    <3> QED BY <2>2, <3>1
  <2>5. ASSUME NEW old \in Holds, GotInfo(old) PROVE DisjointFlights'
    BY <2>2, <2>5 DEF GotInfo
  <2>6. ASSUME NEW d \in 0 .. 1, NEW gate \in BOOLEAN, NEW flush \in Flushes,
               NEW reds \in SUBSET Reorgs, BlockAdded(reds, d, gate, flush)
        PROVE  DisjointFlights'
    BY <2>6, BlockFlights DEF BlockAdded
  <2>7. ASSUME NEW d \in 0 .. 1, NEW gate \in BOOLEAN, NEW flush \in Flushes,
               NEW reds \in SUBSET Reorgs, NEW b \in Blocks, GotChainBlock(b, reds, d, gate, flush)
        PROVE  DisjointFlights'
    <3>1. CASE b \in checking
      BY <2>2, <2>7, <3>1 DEF GotChainBlock, Validated
    <3>2. CASE b \notin checking
      <4> DEFINE new == IF b \in chain THEN OutsOf(b) ELSE {}
      <4>1. HandleBlock(reds, new, d, gate, flush)
        BY <2>7, <3>2 DEF GotChainBlock
      <4>2. new \in SUBSET Outs
        BY DEF OutsOf
      <4> HIDE DEF new
      <4> QED BY <4>1, <4>2, BlockFlights
    <3> QED BY <3>1, <3>2
  <2>8. ASSUME NEW b \in Blocks, NEW flush \in Flushes, GotValidation(b, flush)
        PROVE  DisjointFlights'
    BY <2>2, <2>8 DEF GotValidation, Validated
  <2>9. ASSUME NEW o \in Inference, NEW flush \in Flushes, TrackInferenceEscrow(o, flush)
        PROVE  DisjointFlights'
    BY <2>2, <2>9 DEF TrackInferenceEscrow
  <2>10. ASSUME NEW r \in replies, NEW flush \in Flushes, OnSubmitResponse(r, flush)
         PROVE  DisjointFlights'
    BY <2>2, <2>10 DEF OnSubmitResponse
  <2>11. ASSUME NEW torn \in BOOLEAN, Restart(torn) PROVE DisjointFlights'
    BY <2>2, <2>11 DEF Restart
  <2>12. ASSUME Watcher PROVE DisjointFlights'
    <3>1. CASE \E reds \in SUBSET Reorgs, d \in 0 .. 1, gate \in BOOLEAN, flush \in Flushes :
                  \/ BlockAdded(reds, d, gate, flush)
                  \/ \E b \in Blocks : GotChainBlock(b, reds, d, gate, flush)
      BY <2>6, <2>7, <3>1, Zenon
    <3>2. CASE \E b \in Blocks, flush \in Flushes : GotValidation(b, flush)
      BY <2>8, <3>2, Zenon
    <3>3. CASE \E r \in replies, flush \in Flushes : OnSubmitResponse(r, flush)
      BY <2>10, <3>3, Zenon
    <3>4. CASE \/ \E old \in Holds : GotInfo(old)
               \/ \E o \in Inference, flush \in Flushes : TrackInferenceEscrow(o, flush)
               \/ \E torn \in BOOLEAN : Restart(torn)
      BY <2>5, <2>9, <2>11, <3>4, ZenonT(60)
    <3> QED BY <2>12, <3>1, <3>2, <3>3, <3>4, ZenonT(60) DEF Watcher
  <2> QED BY <2>1, <2>3, <2>4, <2>12 DEF Next
<1> QED BY <1>1, <1>2, PTL DEF Spec

-----------------------------------------------------------------------------
(* Reorganisations while the miner is away.                                *)

\* Every step keeps the blocks of pending entries in the chain or in
\* validation, when the chain loses blocks only while the miner is away and
\* the node forgets none of those.
LEMMA GhostStep ==
    ASSUME ~LateReorgs, Pruned \cap Reorgs = {}, Typed, GhostInv, [Next]_vars
    PROVE  GhostInv'
<1>1. Steps
  BY TypedStep, Zenon
<1>2. CASE UNCHANGED vars
  BY <1>2, Zenon DEF GhostInv, NoGhostIsClaimed, Flying, Known, vars, watcher, node, wire
<1>3. ASSUME NEW b \in Blocks, Extend(b) PROVE GhostInv'
  BY <1>3, Zenon DEF Extend, GhostInv, NoGhostIsClaimed, Flying, Known, watcher
<1>4. ASSUME NEW b \in Blocks, Retract(b) PROVE GhostInv'
  <2>1. /\ UNCHANGED <<entries, disk, inFlight, online>> /\ ~online
        /\ chain' = chain \ {b} /\ b \in Reorgs
    BY <1>4 DEF Retract, watcher
  <2>2. inFlight' = {} /\ ~online'
    BY <2>1 DEF GhostInv
  <2>3. \A e \in Known' : e.out \notin Inference => BlockOf[e.out] \in chain' \cup Reorgs
    BY <2>1, Zenon DEF GhostInv, Known
  <2> QED BY <2>2, <2>3, ZenonT(60) DEF GhostInv, NoGhostIsClaimed, Flying
<1>5. ASSUME NEW tx \in requests, NEW err \in Errors, NodeAnswers(tx, err) PROVE GhostInv'
  BY <1>5, Zenon DEF NodeAnswers, GhostInv, NoGhostIsClaimed, Flying, Known, watcher
<1>6. ASSUME NEW r \in replies, LoseReply(r) PROVE GhostInv'
  BY <1>6, Zenon DEF LoseReply, GhostInv, NoGhostIsClaimed, Flying, Known, watcher, node
<1>7. ASSUME NEW old \in Holds, GotInfo(old) PROVE GhostInv'
  <2>1. /\ UNCHANGED <<entries, disk, inFlight, chain>> /\ ~online /\ online'
        /\ checking' = Unvalidated
    BY <1>7 DEF GotInfo, node
  <2>2. inFlight' = {}
    BY <2>1, ZenonT(60) DEF GhostInv
  <2>3. \A e \in Known' : e.out \notin Inference => BlockOf[e.out] \in chain' \cup Reorgs
    BY <2>1, ZenonT(60) DEF GhostInv, Known
  <2>4. \A e \in Range(entries') :
           Pending(e) /\ e.out \notin Inference => BlockOf[e.out] \in chain' \cup checking'
    BY <2>1 DEF Unvalidated
  <2> QED BY <2>1, <2>2, <2>3, <2>4, ZenonT(60) DEF GhostInv, NoGhostIsClaimed, Flying
<1>8. ASSUME NEW gone, NEW new, Watches(gone, new) PROVE GhostInv'
  <2>1. UNCHANGED <<chain, online>> /\ checking' \subseteq checking
    BY <1>8 DEF Watches
  <2>2. \A e \in Known : e.out \in Outs
    <3>1. Range(entries) \subseteq Shaped /\ Range(disk) \subseteq Shaped
      BY SeqRange, Zenon DEF Typed
    <3> QED BY <3>1 DEF Known, Shaped
  <2>3. ASSUME NEW f \in Range(entries'), f.out \notin Inference
        PROVE  /\ BlockOf[f.out] \in chain \cup Reorgs
               /\ online /\ Pending(f) => BlockOf[f.out] \in chain \cup checking'
    <3>1. CASE \E o \in new : f = Fresh(o)
      <4>1. PICK o \in new : f = Fresh(o)
        BY <3>1
      <4>2. f.out = o
        BY <4>1, FreshIsClean, ZenonT(60)
      <4>3. BlockOf[o] \in chain
        BY <1>8, <2>3, <4>1, <4>2, ZenonT(60) DEF Watches, Based
      <4> QED BY <4>2, <4>3, ZenonT(60)
    <3>2. CASE \E e \in Range(entries) : Follows(f, e, gone, {}, {})
      <4>1. PICK e \in Range(entries) : Follows(f, e, gone, {}, {})
        BY <3>2
      <4>2. /\ f.out = e.out /\ e.out \in Outs /\ BlockOf[e.out] \in chain \cup Reorgs
            /\ Pending(f) => Pending(e) /\ e.out \notin gone
        BY <2>2, <2>3, <4>1, Zenon DEF Follows, GhostInv, Known
      <4>3. ASSUME online, Pending(f) PROVE BlockOf[e.out] \in chain \cup checking'
        <5>1. BlockOf[e.out] \in chain \cup checking
          BY <2>3, <4>2, <4>3, ZenonT(60) DEF GhostInv
        <5>2. e.out \in OutsOf(BlockOf[e.out])
          BY <2>3, <4>2 DEF OutsOf
        <5> QED BY <1>8, <4>2, <4>3, <5>1, <5>2, ZenonT(60) DEF Watches
      <4> QED BY <4>2, <4>3, ZenonT(60)
    <3> QED BY <1>8, <3>1, <3>2, Zenon DEF Watches, EntriesFollow
  <2>4. ASSUME NEW f \in Range(disk'), f.out \notin Inference
        PROVE  BlockOf[f.out] \in chain \cup Reorgs
    BY <1>8, <2>3, <2>4, Zenon DEF Watches, FileFollows, Follows, GhostInv, Known
  <2>5. ASSUME NEW f \in inFlight'
        PROVE  /\ online
               /\ \A o \in Range(f.tx) \ Inference : BlockOf[o] \in chain
    <3>1. CASE \E g \in inFlight : f.tx = g.tx
      BY <3>1, ZenonT(60) DEF GhostInv, NoGhostIsClaimed, Flying
    <3>2. CASE checking = {} /\ SpendsPending(f.tx)
      BY <1>8, <2>1, <2>3, <3>2 DEF Watches, SpendsPending
    <3> QED BY <1>8, <3>1, <3>2, Zenon DEF Watches, ClaimsFollow
  <2> QED BY <2>1, <2>3, <2>4, <2>5, ZenonT(60) DEF GhostInv, NoGhostIsClaimed, Flying, Known
<1>9. ASSUME NEW r \in replies, NEW flush \in Flushes, OnSubmitResponse(r, flush)
      PROVE  GhostInv'
  <2>1. /\ EntriesFollow({}, Taken(r.err, Range(r.tx)), Blamed(r.err, Range(r.tx)), {})
        /\ FileFollows /\ inFlight' \subseteq inFlight
    BY <1>9, SubmitStep
  <2>2. UNCHANGED <<chain, online, checking>>
    BY <1>9 DEF OnSubmitResponse, node
  <2>3. ASSUME NEW f \in Range(entries'), f.out \notin Inference
        PROVE  /\ BlockOf[f.out] \in chain \cup Reorgs
               /\ online /\ Pending(f) => BlockOf[f.out] \in chain \cup checking
    BY <2>1, <2>3, Zenon DEF EntriesFollow, Follows, GhostInv, Known
  <2>4. ASSUME NEW f \in Range(disk'), f.out \notin Inference
        PROVE  BlockOf[f.out] \in chain \cup Reorgs
    BY <2>1, <2>3, <2>4, Zenon DEF FileFollows, Follows, GhostInv, Known
  <2> QED BY <2>1, <2>2, <2>3, <2>4, ZenonT(60) DEF GhostInv, NoGhostIsClaimed, Flying, Known
<1>10. ASSUME NEW torn \in BOOLEAN, Restart(torn) PROVE GhostInv'
  <2>1. /\ disk' = <<>> \/ disk' = disk
        /\ entries' = disk' /\ inFlight' = {} /\ ~online' /\ chain' = chain
    BY <1>10 DEF Restart, node
  <2>2. Known' \subseteq Known
    BY <2>1, NothingListed, Zenon DEF Known
  <2> QED BY <2>1, <2>2, ZenonT(60) DEF GhostInv, NoGhostIsClaimed, Flying
<1> QED BY <1>1, <1>2, <1>3, <1>4, <1>5, <1>6, <1>7, <1>8, <1>9, <1>10 DEF Steps

\* No claim in flight spends a coinbase that a reorganisation undid while the
\* miner was away: the state file may hold it, but find_claim waits until every
\* block of a pending entry was validated, and an undone block slashes its
\* entries.  For any number of blocks and restarts, if the node still knows the
\* blocks its chain may lose.
THEOREM GhostsStayUnclaimed ==
    ASSUME ~LateReorgs, Pruned \cap Reorgs = {}
    PROVE  Spec => []NoGhostIsClaimed
<1>1. Init => Typed /\ GhostInv
  BY InitKnown, ZenonT(60) DEF Init, GhostInv, NoGhostIsClaimed, Flying
<1>2. Typed /\ GhostInv /\ [Next]_vars => Typed' /\ GhostInv'
  BY TypedStep, GhostStep
<1>3. GhostInv => NoGhostIsClaimed
  BY DEF GhostInv
<1> QED BY <1>1, <1>2, <1>3, PTL DEF Spec

-----------------------------------------------------------------------------
(* Bisection.                                                              *)

\* A set of at most one output has one member at most.
LEMMA Alone ==
    ASSUME NEW S \in SUBSET Outs, ~(Cardinality(S) > 1), NEW x \in S, NEW y \in S
    PROVE  x = y
<1>1. IsFiniteSet(S)
  BY EntriesAssumption, FS_Subset, ZenonT(60)
<1>2. Cardinality(S) \in Nat /\ ExistsBijection(1 .. Cardinality(S), S)
  BY <1>1, FS_CardinalityType
<1>3. PICK f \in [1 .. Cardinality(S) -> S] : \A z \in S : \E n \in 1 .. Cardinality(S) : f[n] = z
  BY <1>2 DEF ExistsBijection, Bijection, Surjection
<1>4. \A n \in 1 .. Cardinality(S) : n = 1
  BY <1>2
<1>5. f[1] = x /\ f[1] = y
  BY <1>3, <1>4
<1> QED BY <1>5

\* The entries after a step were in the chain, and only the dead are blamed.
LEMMA LiveFollows ==
    ASSUME LiveInv, NEW gone, NEW taken, NEW blamed, NEW new,
           EntriesFollow(gone, taken, blamed, new), FileFollows,
           \A o \in gone : ~Based(o), \A o \in blamed : Dead(o), \A o \in new : Based(o),
           UNCHANGED <<chain, spent>>
    PROVE  \A e \in Known' : /\ Based(e.out)'
                             /\ e.slashed \/ e.orphan_slashed => Dead(e.out)'
<1>1. ASSUME NEW f \in Range(entries')
      PROVE  Based(f.out) /\ (f.slashed \/ f.orphan_slashed => Dead(f.out))
  <2>1. CASE \E o \in new : f = Fresh(o)
    BY <2>1, FreshIsClean, ZenonT(60)
  <2>2. CASE \E e \in Range(entries) : Follows(f, e, gone, taken, blamed)
    BY <2>2, Zenon DEF Follows, LiveInv, Known
  <2> QED BY <2>1, <2>2, ZenonT(60) DEF EntriesFollow
<1>2. ASSUME NEW f \in Range(disk')
      PROVE  Based(f.out) /\ (f.slashed \/ f.orphan_slashed => Dead(f.out))
  BY <1>1, ZenonT(60) DEF FileFollows, Follows, LiveInv, Known
<1>3. \A o : (Based(o) => Based(o)') /\ (Dead(o) => Dead(o)')
  BY DEF Based, Dead
<1> QED BY <1>1, <1>2, <1>3, Zenon DEF Known

\* Every step blames only the dead, when the chain loses no block.
LEMMA LiveStep ==
    ASSUME Reorgs = {}, Typed, LiveInv, [Next]_vars
    PROVE  LiveInv'
<1>1. Steps
  BY TypedStep, ZenonT(60)
<1>2. ASSUME UNCHANGED <<entries, disk>>, chain \subseteq chain', spent \subseteq spent',
             requests' \subseteq requests, replies' \subseteq replies
      PROVE  LiveInv'
  BY <1>2, ZenonT(60) DEF LiveInv, Known, Based, Dead
<1>3. CASE UNCHANGED vars
  BY <1>2, <1>3 DEF vars, watcher, node, wire
<1>4. ASSUME NEW b \in Blocks, Extend(b) \/ Retract(b) PROVE LiveInv'
  BY <1>2, <1>4 DEF Extend, Retract, watcher, wire
<1>5. ASSUME NEW tx \in requests, NEW err \in Errors, NodeAnswers(tx, err) PROVE LiveInv'
  <2>1. /\ UNCHANGED <<entries, disk, chain>> /\ requests' \subseteq requests
        /\ replies' = replies \cup {[tx |-> tx, err |-> err]} /\ spent \subseteq spent'
    BY <1>5, ZenonT(60) DEF NodeAnswers, watcher
  <2>2. ASSUME err = "orphan" PROVE \E o \in Range(tx) : Dead(o)
    <3>1. PICK o \in Range(tx) : ~Live(o)
      BY <1>5, <2>2 DEF NodeAnswers, Verdicts
    <3>2. Based(o)
      BY DEF LiveInv
    <3> QED BY <3>1, <3>2 DEF Live, Based, Dead
  <2>3. \A o : (Based(o) => Based(o)') /\ (Dead(o) => Dead(o)')
    BY <2>1 DEF Based, Dead
  <2>4. Known' = Known
    BY <2>1 DEF Known
  <2>5. \A r \in replies' : r.err = "orphan" => \E o \in Range(r.tx) : Dead(o)
    <3> DEFINE new == [tx |-> tx, err |-> err]
    <3>1. new.tx = tx /\ new.err = err
      BY Zenon
    <3> HIDE DEF new
    <3>2. \A r \in replies : r.err = "orphan" => \E o \in Range(r.tx) : Dead(o)
      BY Zenon DEF LiveInv
    <3>3. replies' = replies \cup {new}
      BY <2>1, ZenonT(60) DEF new
    <3> QED BY <2>2, <3>1, <3>2, <3>3, Zenon
  <2> QED BY <2>1, <2>3, <2>4, <2>5, ZenonT(60) DEF LiveInv
<1>6. ASSUME NEW r \in replies, LoseReply(r) PROVE LiveInv'
  BY <1>2, <1>6 DEF LoseReply, watcher, node
<1>7. ASSUME NEW old \in Holds, GotInfo(old) PROVE LiveInv'
  BY <1>2, <1>7 DEF GotInfo, node, wire
<1>8. ASSUME NEW gone, NEW new, Watches(gone, new) PROVE LiveInv'
  <2>1. \A e \in Known' : /\ Based(e.out)'
                          /\ e.slashed \/ e.orphan_slashed => Dead(e.out)'
    <3>1. (\A o \in gone : ~Based(o)) /\ \A o \in new : Based(o)
      BY <1>8 DEF Watches, Based
    <3> QED BY <1>8, <3>1, LiveFollows DEF Watches
  <2>2. ASSUME NEW tx \in requests', NEW o \in Range(tx) PROVE Based(o)'
    <3>1. CASE tx \in requests
      BY <1>8, <3>1, ZenonT(60) DEF Watches, LiveInv, Based
    <3>2. CASE SpendsPending(tx)
      BY <2>1, <3>2 DEF SpendsPending, Known
    <3> QED BY <1>8, <3>1, <3>2, Zenon DEF Watches, ClaimsFollow
  <2>3. \A r \in replies' : r.err = "orphan" => \E o \in Range(r.tx) : Dead(o)'
    BY <1>8, Zenon DEF Watches, LiveInv, Dead
  <2> QED BY <2>1, <2>2, <2>3, ZenonT(60) DEF LiveInv
<1>9. ASSUME NEW r \in replies, NEW flush \in Flushes, OnSubmitResponse(r, flush)
      PROVE  LiveInv'
  <2> DEFINE outs == Range(r.tx)
  <2>1. /\ EntriesFollow({}, Taken(r.err, outs), Blamed(r.err, outs), {}) /\ FileFollows
    BY <1>9, SubmitStep
  <2>2. UNCHANGED <<chain, spent, requests>> /\ replies' \subseteq replies
    BY <1>9 DEF OnSubmitResponse, node
  <2>3. ASSUME NEW x \in Blamed(r.err, outs) PROVE Dead(x)
    <3>1. r.err = "orphan" /\ ~(Cardinality(outs) > 1) /\ x \in outs
      BY <2>3 DEF Blamed
    <3>2. PICK o \in outs : Dead(o)
      BY <3>1, ZenonT(60) DEF LiveInv
    <3>3. outs \in SUBSET Outs
      BY SeqRange DEF Typed
    <3> HIDE DEF outs
    <3>4. x = o
      BY <3>1, <3>2, <3>3, Alone
    <3> QED BY <3>2, <3>4
  <2>4. \A e \in Known' : /\ Based(e.out)'
                          /\ e.slashed \/ e.orphan_slashed => Dead(e.out)'
    <3> HIDE DEF outs
    <3> QED BY <2>1, <2>2, <2>3, LiveFollows
  <2> QED BY <2>2, <2>4, ZenonT(60) DEF LiveInv, Based, Dead
<1>10. ASSUME NEW torn \in BOOLEAN, Restart(torn) PROVE LiveInv'
  <2>1. /\ disk' = <<>> \/ disk' = disk
        /\ entries' = disk' /\ requests' = {} /\ replies' = {} /\ UNCHANGED <<spent, chain>>
    BY <1>10 DEF Restart, node
  <2>2. Known' \subseteq Known
    BY <2>1, NothingListed, Zenon DEF Known
  <2> QED BY <2>1, <2>2, ZenonT(60) DEF LiveInv, Based, Dead
<1> QED BY <1>1, <1>3, <1>4, <1>5, <1>6, <1>7, <1>8, <1>9, <1>10 DEF Steps

\* When the chain loses no block, an output the node still holds is never
\* slashed nor put in the dead pool, whatever dead inputs it was batched with:
\* on_submit_response blames an entry only when it was alone in the claim.  For
\* any number of outputs, any batch size and any order of answers.
THEOREM LiveIsSpared ==
    ASSUME Reorgs = {}
    PROVE  Spec => []LiveIsNotWrittenOff
<1>1. Init => Typed /\ LiveInv
  BY InitKnown, ZenonT(60) DEF Init, LiveInv
<1>2. Typed /\ LiveInv /\ [Next]_vars => Typed' /\ LiveInv'
  BY TypedStep, LiveStep
<1>3. LiveInv => LiveIsNotWrittenOff
  BY WatcherAssumption, Zenon DEF LiveInv, LiveIsNotWrittenOff, Live, Dead, Known
<1> QED BY <1>1, <1>2, <1>3, PTL DEF Spec

=============================================================================
