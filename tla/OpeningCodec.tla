---------------------------- MODULE OpeningCodec ----------------------------
(***************************************************************************)
(* The wire format of trace, residual, attention and recurrent openings,   *)
(* and the seeded envelope around them (verifiable-inference/opening.rs).  *)
(*                                                                         *)
(* A body is a sequence of cells: one for an integer, a tag or a hash, a   *)
(* length cell and its cells for a byte string or a list of hashes.  What  *)
(* the writer `W' and the reader `R' of opening.rs do for a field is given *)
(* by the kind of the field; a structure is the list of its fields in the  *)
(* order its own method visits them, the writer's and the reader's apart.  *)
(*                                                                         *)
(* Below it, the Merkle proofs over model chunks and trace leaves that an  *)
(* opening carries (merkle.rs).                                            *)
(*                                                                         *)
(* A hash is the term it is the hash of, so that two hashes are equal only *)
(* when what they hash is.  The model tree (rt_) pairs an odd last node    *)
(* with itself; the trace tree (b3_) carries it up unchanged, as BLAKE3    *)
(* does, and marks its root.  NoHash stands for every refusal.             *)
(***************************************************************************)
EXTENDS Naturals, Sequences, SequencesExt, FiniteSets

CONSTANT Chunk               \* B3_CHUNK, in bytes

Num == [kind |-> "num"]           \* u16, u32, u64 and hashes
Bytes == [kind |-> "bytes"]       \* bytes32, and the u16 length of an entry
hashes == [kind |-> "hashes"]
Struct(fields) == [kind |-> "struct", of |-> fields]
List(f) == [kind |-> "list", of |-> f]        \* u8 count
Option(f) == [kind |-> "option", of |-> f]    \* 0 or 1, anything else is refused
Lax(f) == [kind |-> "lax", of |-> f]          \* 1, anything else is None
Choice(alts) == [kind |-> "choice", of |-> alts]

None == << >>
Some(v) == <<v>>

(* The count of a list is one byte; a body that is built stays below 256.  *)
RECURSIVE Write(_, _)
Write(f, v) ==
    CASE f.kind = "num" -> <<v>>
      [] f.kind = "bytes" -> <<Len(v)>> \o v
      [] f.kind = "hashes" -> <<Len(v) % 256>> \o v
      [] f.kind = "struct" -> FlattenSeq([i \in DOMAIN f.of |-> Write(f.of[i], v[i])])
      [] f.kind = "list" -> <<Len(v) % 256>> \o FlattenSeq([i \in DOMAIN v |-> Write(f.of, v[i])])
      [] f.kind \in {"option", "lax"} -> IF v = None THEN <<0>> ELSE <<1>> \o Write(f.of, v[1])
      [] f.kind = "choice" -> <<v.tag>> \o Write(f.of[v.tag + 1], v.val)

Refused == [ok |-> FALSE, v |-> None, o |-> 0]
Read1(v, o) == [ok |-> TRUE, v |-> v, o |-> o]

(* R::take: nothing past the end of the body. *)
take(b, o, n) == IF o + n > Len(b) THEN Refused ELSE Read1(SubSeq(b, o + 1, o + n), o + n)

RECURSIVE Read(_, _, _)
RECURSIVE ReadAll(_, _, _)
Read(f, b, o) ==
    CASE f.kind = "num" -> LET c == take(b, o, 1) IN IF c.ok THEN Read1(c.v[1], c.o) ELSE Refused
      [] f.kind \in {"bytes", "hashes"} ->
            LET n == take(b, o, 1) IN IF n.ok THEN take(b, n.o, n.v[1]) ELSE Refused
      [] f.kind = "struct" -> ReadAll(f.of, b, o)
      [] f.kind = "list" ->
            LET n == take(b, o, 1) IN
            IF n.ok /\ n.v[1] <= Len(b) THEN ReadAll([i \in 1..n.v[1] |-> f.of], b, n.o) ELSE Refused
      [] f.kind \in {"option", "lax"} ->
            LET t == take(b, o, 1) IN
            IF ~t.ok THEN Refused
            ELSE IF t.v[1] = 1
            THEN LET r == Read(f.of, b, t.o) IN IF r.ok THEN Read1(Some(r.v), r.o) ELSE Refused
            ELSE IF t.v[1] = 0 \/ f.kind = "lax" THEN Read1(None, t.o) ELSE Refused
      [] f.kind = "choice" ->
            LET t == take(b, o, 1) IN
            IF ~t.ok THEN Refused
            ELSE IF t.v[1] >= Len(f.of) THEN Refused
            ELSE LET r == Read(f.of[t.v[1] + 1], b, t.o) IN
                 IF r.ok THEN Read1([tag |-> t.v[1], val |-> r.v], r.o) ELSE Refused
ReadAll(fs, b, o) ==
    IF fs = << >> THEN Read1(<< >>, o)
    ELSE LET first == Read(Head(fs), b, o) IN
         IF ~first.ok THEN Refused
         ELSE LET rest == ReadAll(Tail(fs), b, first.o) IN
              IF rest.ok THEN Read1(<<first.v>> \o rest.v, rest.o) ELSE Refused

-----------------------------------------------------------------------------
(* The structures both sides share field by field. *)

entry == Struct(<<Num, Bytes, hashes>>)                     \* index, bytes, path
range == Struct(<<Num, Bytes, hashes>>)                     \* first_chunk, chunks, proof
weights == Struct(<<entry, range>>)
leaf_chunk == Struct(<<Num, Num, Bytes, hashes, hashes>>)   \* total_len, index, chunk, paths
leaf_bytes == Struct(<<Bytes, hashes>>)
seq_span == Struct(<<Num, Bytes, hashes, hashes>>)
ExpertIds == Struct(<<Bytes, hashes>>)

WLink == Choice(<<Struct(<< >>), Struct(<<leaf_bytes, weights>>), Struct(<<weights, weights>>),
                  Struct(<<entry, leaf_chunk, Option(ExpertIds)>>)>>)
RLink == Choice(<<Struct(<< >>), Struct(<<leaf_bytes, weights>>), Struct(<<weights, weights>>),
                  Struct(<<entry, leaf_chunk, Option(ExpertIds)>>)>>)

(* scores, bias, ids, slots, shexp, router_row, resid, norm *)
MoeAdd == Struct(<<leaf_bytes, weights, ExpertIds, List(leaf_chunk), leaf_chunk, weights, leaf_bytes, weights>>)

(* n_ubatch, tok, pos_path, meta_path, layer, product, dst, src, add *)
WResid == Struct(<<Num, Num, hashes, hashes, entry, entry, leaf_chunk,
                   Choice(<<leaf_chunk, weights>>),
                   Choice(<<leaf_chunk, Struct(<<leaf_bytes, weights>>), MoeAdd>>)>>)
RResid == Struct(<<Num, Num, hashes, hashes, entry, entry, leaf_chunk,
                   Choice(<<leaf_chunk, weights>>),
                   Choice(<<leaf_chunk, Struct(<<leaf_bytes, weights>>), MoeAdd>>)>>)

(* n_ubatch, pos_path, meta_path, entry, partner, bias, rows, x, x_path,   *)
(* y_total_len, y_chunk_index, y_chunk, y_chunk_path, y_path               *)
WPoint == Struct(<<Num, hashes, hashes, entry, Option(entry), Option(weights), List(range), Bytes, hashes,
                   Num, Num, Bytes, hashes, hashes>>)
RPoint == Struct(<<Num, hashes, hashes, entry, Lax(entry), Lax(weights), List(range), Bytes, hashes,
                   Num, Num, Bytes, hashes, hashes>>)

(* n_ubatch, pos_path, meta_path, entry, x, x_path, embd, norm *)
PrefixPoint == Struct(<<Num, hashes, hashes, entry, Bytes, hashes, weights, weights>>)

VERSION == 1
VERSION_PREFIX == 2
VERSION_CHAIN == 3
VERSION_SEEDED == 4
VERSION_ATTN == 5
VERSION_RECUR == 6
VERSION_ROOTS == 7
VERSION_RESID == 8

-----------------------------------------------------------------------------
(* Opening: [txid, roots, points, links, experts, prefix, resid].  The     *)
(* version follows from what the opening carries.                          *)
Opening_encode(op) ==
    LET chain == op.links # << >> \/ op.resid # None
        version == IF chain /\ op.roots # None THEN VERSION_ROOTS
                   ELSE IF chain THEN VERSION_CHAIN
                   ELSE IF op.prefix # None THEN VERSION_PREFIX
                   ELSE VERSION
        link(i) == <<op.links[i].tok>> \o Write(WLink, op.links[i].link) \o Write(Option(ExpertIds), op.experts[i])
    IN <<version, op.txid>>
       \o (IF chain /\ op.roots # None THEN op.roots[1] ELSE << >>)
       \o Write(List(WPoint), op.points)
       \o (IF chain THEN FlattenSeq([i \in DOMAIN op.links |-> link(i)]) ELSE << >>)
       \o (IF op.prefix # None THEN Write(PrefixPoint, op.prefix[1]) ELSE << >>)
       \o (IF op.resid # None THEN Write(WResid, op.resid[1]) ELSE << >>)

Fail == [ok |-> FALSE]

(* The inner body of an envelope; a nested envelope is refused. *)
inner_body(b) ==
    IF b = << >> \/ (IF b = << >> THEN FALSE ELSE b[1] # VERSION_SEEDED) THEN [ok |-> TRUE, body |-> b]
    ELSE IF Len(b) < 4 THEN Fail
    ELSE IF b[4] = VERSION_SEEDED THEN Fail
    ELSE [ok |-> TRUE, body |-> <<b[4], b[2]>> \o SubSeq(b, 5, Len(b))]

(* Everything a chain body carries after the roots; nothing may be left over. *)
IsChain(b) == b[1] \in {VERSION_CHAIN, VERSION_ROOTS}
Present(r) == IF r.ok THEN Read1(Some(r.v), r.o) ELSE Refused
DecodeLinks(b, points) ==
    IF ~points.ok THEN Refused
    ELSE IF IsChain(b)
    THEN ReadAll([i \in DOMAIN points.v |-> Struct(<<Num, RLink, Option(ExpertIds)>>)], b, points.o)
    ELSE Read1(<< >>, points.o)
DecodePrefix(b, links) ==
    IF ~links.ok THEN Refused
    ELSE IF b[1] >= VERSION_PREFIX THEN Present(Read(PrefixPoint, b, links.o))
    ELSE Read1(None, links.o)
DecodeResid(b, prefix) ==
    IF ~prefix.ok THEN Refused
    ELSE IF IsChain(b) /\ prefix.o < Len(b) THEN Present(Read(RResid, b, prefix.o))
    ELSE Read1(None, prefix.o)
DecodedAs(b, points, links, prefix, resid) ==
    IF ~resid.ok \/ resid.o # Len(b) THEN Fail
    ELSE [ok |-> TRUE,
          op |-> [txid |-> b[2], roots |-> IF b[1] = VERSION_ROOTS THEN Some(<<b[3], b[4]>>) ELSE None,
                  points |-> points.v, prefix |-> prefix.v, resid |-> resid.v,
                  links |-> [i \in DOMAIN links.v |-> [tok |-> links.v[i][1], link |-> links.v[i][2]]],
                  experts |-> [i \in DOMAIN links.v |-> links.v[i][3]]]]
AfterPrefix(b, points, links, prefix) == DecodedAs(b, points, links, prefix, DecodeResid(b, prefix))
AfterLinks(b, points, links) == AfterPrefix(b, points, links, DecodePrefix(b, links))
AfterPoints(b, points) == AfterLinks(b, points, DecodeLinks(b, points))

DecodeInner(b) ==
    IF Len(b) < 2 THEN Fail
    ELSE IF b[1] \notin {VERSION, VERSION_PREFIX, VERSION_CHAIN, VERSION_ROOTS} THEN Fail
    ELSE IF b[1] = VERSION_ROOTS /\ Len(b) < 4 THEN Fail
    ELSE AfterPoints(b, Read(List(RPoint), b, IF b[1] = VERSION_ROOTS THEN 4 ELSE 2))

Opening_decode(body) ==
    LET inner == inner_body(body) IN IF ~inner.ok THEN Fail ELSE DecodeInner(inner.body)

(* The other openings: a version cell, then a fixed list of fields. *)
DecodeWhole(b, version, f) ==
    IF b = << >> THEN Refused
    ELSE IF b[1] # version THEN Refused
    ELSE LET r == Read(f, b, 1) IN IF r.ok /\ r.o = Len(b) THEN r ELSE Refused

(* txid, roots, resid, feed (x, x_path, row, bias), expert (entry, x, x_path, row) *)
WResidOpening == Struct(<<Num, Option(Struct(<<Num, Num>>)), WResid, Bytes, hashes, range, Option(weights),
                          Option(Struct(<<entry, Bytes, hashes, range>>))>>)
RResidOpening == Struct(<<Num, Option(Struct(<<Num, Num>>)), RResid, Bytes, hashes, range, Option(weights),
                          Option(Struct(<<entry, Bytes, hashes, range>>))>>)

(* txid, pos_root, seq_root, layer, q_entry, o_entry, norms, pos_path, q,  *)
(* out, kcache, vcache, anchor_pos_path, anchor_k, anchor_v, absorb, path, *)
(* parent, parent_path, partials, lse                                      *)
WAttnOpening == Struct(<<Num, Num, Num, entry, entry, entry, List(weights), hashes, List(leaf_chunk), leaf_bytes,
                         seq_span, seq_span, hashes, List(leaf_chunk), List(leaf_chunk), List(leaf_chunk),
                         List(Num), Bytes, hashes, Bytes, seq_span>>)
RAttnOpening == Struct(<<Num, Num, Num, entry, entry, entry, List(weights), hashes, List(leaf_chunk), leaf_bytes,
                         seq_span, seq_span, hashes, List(leaf_chunk), List(leaf_chunk), List(leaf_chunk),
                         List(Num), Bytes, hashes, Bytes, seq_span>>)

RecurTap == Struct(<<hashes, leaf_chunk, leaf_chunk, leaf_chunk>>)

(* txid, pos_root, seq_root, layer, out_entry, decay_entry, weights,       *)
(* records, start_rows, end_rows, taps, beta, decay, gate, out             *)
WRecurOpening == Struct(<<Num, Num, Num, entry, entry, entry, List(weights), seq_span, seq_span, seq_span,
                          List(RecurTap), leaf_chunk, leaf_chunk, leaf_chunk, leaf_bytes>>)
RRecurOpening == Struct(<<Num, Num, Num, entry, entry, entry, List(weights), seq_span, seq_span, seq_span,
                          List(RecurTap), leaf_chunk, leaf_chunk, leaf_chunk, leaf_bytes>>)

ResidOpening_encode(v) == <<VERSION_RESID>> \o Write(WResidOpening, v)
ResidOpening_decode(b) == DecodeWhole(b, VERSION_RESID, RResidOpening)
AttnOpening_encode(v) == <<VERSION_ATTN>> \o Write(WAttnOpening, v)
AttnOpening_decode(b) == DecodeWhole(b, VERSION_ATTN, RAttnOpening)
RecurOpening_encode(v) == <<VERSION_RECUR>> \o Write(WRecurOpening, v)
RecurOpening_decode(b) == DecodeWhole(b, VERSION_RECUR, RRecurOpening)

(* [4] [response id] [seed block] [inner version] [the rest] *)
seeded(b, block) ==
    IF Len(b) < 2 THEN Fail
    ELSE IF b[1] \notin (1..8) \ {VERSION_SEEDED} THEN Fail
    ELSE [ok |-> TRUE, body |-> <<VERSION_SEEDED, b[2], block, b[1]>> \o SubSeq(b, 3, Len(b))]

seed_block(b) == IF Len(b) >= 3 /\ (IF b = << >> THEN FALSE ELSE b[1] = VERSION_SEEDED) THEN Some(b[3]) ELSE None

is_audit_body(b) ==
    \/ Opening_decode(b).ok
    \/ LET inner == inner_body(b) IN
       inner.ok /\ (\/ AttnOpening_decode(inner.body).ok
                    \/ RecurOpening_decode(inner.body).ok
                    \/ ResidOpening_decode(inner.body).ok)

-----------------------------------------------------------------------------
(* What the miner builds: a chain opening always carries its prefix, and   *)
(* one link and one expert slot per point.                                 *)
Buildable(op) ==
    /\ Len(op.experts) = Len(op.links)
    /\ (op.links # << >> \/ op.resid # None) =>
          /\ op.prefix # None
          /\ Len(op.links) = Len(op.points)
    /\ op.roots # None => op.links # << >> \/ op.resid # None

(* A trace opening reads back as it was built, bare or in its envelope,    *)
(* and a body cut short is refused, or read as the same opening without    *)
(* the residual point that was cut off.                                    *)
ReadsBackAs(op, block, b, env) ==
        /\ Opening_decode(b) = [ok |-> TRUE, op |-> op]
        /\ env.ok /\ Opening_decode(env.body) = [ok |-> TRUE, op |-> op]
        /\ inner_body(env.body) = [ok |-> TRUE, body |-> b]
        /\ seed_block(env.body) = Some(block) /\ seed_block(b) = None
        /\ ~seeded(env.body, block).ok
        /\ \A n \in 0..(Len(b) - 1) :
              LET cut == Opening_decode(SubSeq(b, 1, n)) IN
              cut.ok => cut.op = [op EXCEPT !.resid = None]
SentReadsBack(op, block, b) == ReadsBackAs(op, block, b, seeded(b, block))
OpeningReadsBack(op, block) == Buildable(op) => SentReadsBack(op, block, Opening_encode(op))

(* The bodies sent apart from a trace opening read back too, each by its   *)
(* own reader and by no other, and none of them survives being cut.        *)
PartsReadAs(resid, attn, recur, rb, ab, cb) ==
       /\ ResidOpening_decode(rb).ok /\ ResidOpening_decode(rb).v = resid
       /\ AttnOpening_decode(ab).ok /\ AttnOpening_decode(ab).v = attn
       /\ RecurOpening_decode(cb).ok /\ RecurOpening_decode(cb).v = recur
       /\ \A b \in {rb, ab, cb} :
            /\ is_audit_body(b) /\ is_audit_body(seeded(b, 1).body)
            /\ ~Opening_decode(b).ok
            /\ \A n \in 0..(Len(b) - 1) : ~is_audit_body(SubSeq(b, 1, n))
PartsReadBack(resid, attn, recur) ==
    PartsReadAs(resid, attn, recur, ResidOpening_encode(resid), AttnOpening_encode(attn), RecurOpening_encode(recur))

-----------------------------------------------------------------------------
(* Merkle proofs (merkle.rs). *)

NoHash == <<"none">>

At(s, i) == s[i + 1]
Halves(n) == (n + 1) \div 2
Odd(i) == i % 2 = 1

hash_pair(l, r) == <<"pair", l, r>>
b3_merge(l, r, root) == <<IF root THEN "root" ELSE "node", l, r>>

(* A level above: rt_ duplicates the odd last node, b3_ carries it. *)
rt_level(level) ==
    [i \in 1..Halves(Len(level)) |->
        hash_pair(level[2 * i - 1], IF 2 * i <= Len(level) THEN level[2 * i] ELSE level[2 * i - 1])]
b3_level(level, root) ==
    [i \in 1..Halves(Len(level)) |->
        IF 2 * i <= Len(level) THEN b3_merge(level[2 * i - 1], level[2 * i], root) ELSE level[2 * i - 1]]

-----------------------------------------------------------------------------
(* The proofs. *)

(* The neighbours a span lacks at one level. *)
Flanks(level, lo, hi) ==
    (IF Odd(lo) THEN <<At(level, lo - 1)>> ELSE << >>)
    \o (IF ~Odd(hi) /\ hi + 1 < Len(level) THEN <<At(level, hi + 1)>> ELSE << >>)

RECURSIVE rt_climb(_, _, _)
rt_climb(level, lo, hi) ==
    IF Len(level) = 1 THEN [root |-> level[1], proof |-> << >>]
    ELSE LET up == rt_climb(rt_level(level), lo \div 2, hi \div 2)
         IN [root |-> up.root, proof |-> Flanks(level, lo, hi) \o up.proof]
rt_range_proof(leaves, first, count) == rt_climb(leaves, first, first + count - 1)

RECURSIVE b3_root(_)
b3_root(level) == IF Len(level) = 1 THEN level[1] ELSE b3_root(b3_level(level, Len(level) = 2))

RECURSIVE b3_path(_, _)
b3_path(level, i) ==
    IF Len(level) = 1 THEN << >>
    ELSE (IF ~Odd(Len(level)) \/ i # Len(level) - 1 THEN <<At(level, IF Odd(i) THEN i - 1 ELSE i + 1)>> ELSE << >>)
         \o b3_path(b3_level(level, Len(level) = 2), i \div 2)

RECURSIVE b3_climb(_, _, _)
b3_climb(level, lo, hi) ==
    IF Len(level) = 1 THEN << >>
    ELSE Flanks(level, lo, hi) \o b3_climb(b3_level(level, Len(level) = 2), lo \div 2, hi \div 2)
b3_range_proof(leaves, first, count) == b3_climb(leaves, first, first + count - 1)

-----------------------------------------------------------------------------
(* The checks: fold the span up with the proof, level by level.           *)
(* need: how many proof nodes the level takes; cur: the widened span.     *)

Left(lo) == IF Odd(lo) THEN 1 ELSE 0
Right(hi, n) == IF ~Odd(hi) /\ hi + 1 < n THEN 1 ELSE 0
Widened(level, lo, n, proof) ==
    LET hi == lo + Len(level) - 1 IN
    SubSeq(proof, 1, Left(lo)) \o level \o SubSeq(proof, Left(lo) + 1, Left(lo) + Right(hi, n))
Rest(level, lo, n, proof) ==
    LET used == Left(lo) + Right(lo + Len(level) - 1, n) IN SubSeq(proof, used + 1, Len(proof))
Short(level, lo, n, proof) == Len(proof) < Left(lo) + Right(lo + Len(level) - 1, n)

RECURSIVE rt_fold(_, _, _, _)
rt_fold(level, lo, n, proof) ==
    IF n = 1 THEN (IF proof = << >> /\ Len(level) = 1 THEN level[1] ELSE NoHash)
    ELSE IF Short(level, lo, n, proof) THEN NoHash
    ELSE rt_fold(rt_level(Widened(level, lo, n, proof)), lo \div 2, Halves(n), Rest(level, lo, n, proof))

rt_verify_range(root, n_leaves, first, leaves, proof) ==
    /\ leaves # << >> /\ first + Len(leaves) <= n_leaves /\ Len(proof) <= 128
    /\ rt_fold(leaves, first, n_leaves, proof) = root

RECURSIVE b3_climbing(_, _, _, _)
b3_climbing(level, lo, n, proof) ==
    IF n = 1 THEN (IF proof = << >> /\ Len(level) = 1 THEN level[1] ELSE NoHash)
    ELSE IF Short(level, lo, n, proof) THEN NoHash
    ELSE b3_climbing(b3_level(Widened(level, lo, n, proof), n = 2), lo \div 2, Halves(n), Rest(level, lo, n, proof))
b3_range_fold(n_leaves, first, leaves, proof) ==
    IF leaves = << >> \/ first + Len(leaves) > n_leaves \/ Len(proof) > 128 THEN NoHash
    ELSE b3_climbing(leaves, first, n_leaves, proof)

RECURSIVE b3_up(_, _, _, _)
b3_up(acc, i, n, path) ==
    IF n = 1 THEN (IF path = << >> THEN acc ELSE NoHash)
    ELSE IF Odd(n) /\ i = n - 1 THEN b3_up(acc, i \div 2, Halves(n), path)
    ELSE IF path = << >> THEN NoHash
    ELSE b3_up(IF Odd(i) THEN b3_merge(Head(path), acc, n = 2) ELSE b3_merge(acc, Head(path), n = 2),
               i \div 2, Halves(n), Tail(path))
b3_fold(n_leaves, index, leaf, path) ==
    IF index >= n_leaves \/ Len(path) > 64 THEN NoHash ELSE b3_up(leaf, index, n_leaves, path)
b3_verify(root, n_leaves, index, leaf, path) == b3_fold(n_leaves, index, leaf, path) = root

-----------------------------------------------------------------------------
(* A hash rebuilt from some chunks of its input. *)

n_chunks(total) == IF total = 0 THEN 1 ELSE (total + Chunk - 1) \div Chunk
ChunkOf(data, c) == SubSeq(data, c * Chunk + 1, IF (c + 1) * Chunk < Len(data) THEN (c + 1) * Chunk ELSE Len(data))
b3_chunk_cv(chunk, c) == <<"cv", c, chunk>>
Cvs(data) == [i \in 1..n_chunks(Len(data)) |-> b3_chunk_cv(ChunkOf(data, i - 1), i - 1)]
Blake3(data) == IF n_chunks(Len(data)) = 1 THEN <<"hash", data>> ELSE b3_root(Cvs(data))

b3_leaf_from_chunk(total, c, chunk, path) ==
    LET n == n_chunks(total) IN
    IF c >= n \/ Len(chunk) # (IF c + 1 < n THEN Chunk ELSE total - c * Chunk) THEN NoHash
    ELSE IF n = 1 THEN (IF path = << >> THEN <<"hash", chunk>> ELSE NoHash)
    ELSE b3_fold(n, c, b3_chunk_cv(chunk, c), path)

b3_leaf_from_chunks(total, first, bytes, proof) ==
    LET n == n_chunks(total)
        count == (Len(bytes) + Chunk - 1) \div Chunk
        end == first + count
        upto == IF total < end * Chunk THEN total ELSE end * Chunk
    IN IF count = 0 \/ end > n \/ Len(bytes) # upto - first * Chunk THEN NoHash
       ELSE IF n = 1 THEN (IF proof = << >> THEN <<"hash", bytes>> ELSE NoHash)
       ELSE b3_range_fold(n, first, [i \in 1..count |-> b3_chunk_cv(ChunkOf(bytes, i - 1), first + i - 1)], proof)

b3_chunks_proof(data, first, count) ==
    IF n_chunks(Len(data)) <= 1 THEN << >> ELSE b3_range_proof(Cvs(data), first, count)

-----------------------------------------------------------------------------
(* What the proofs promise, for a tree of n leaves. *)

Leaves(n) == [i \in 1..n |-> <<"leaf", i>>]
Forged(span, i) == [span EXCEPT ![i] = <<"leaf", 0>>]

(* The proof built for a span of leaves verifies against the root for     *)
(* that span alone: not at another place of a tree of that size, not with *)
(* a leaf replaced, not with a node missing or left over (rt_verify_range, *)
(* b3_range_fold, b3_fold of merkle.rs, over rt_range_proof and b3_path).  *)
RangeProvesItself(n, first, count) ==
    LET leaves == Leaves(n)
        span == SubSeq(leaves, first + 1, first + count)
        rt == rt_range_proof(leaves, first, count)
        b3 == b3_range_proof(leaves, first, count)
        b3root == b3_root(leaves)
        path == b3_path(leaves, first)
        places == 0..n
    IN /\ \A at \in places : rt_verify_range(rt.root, n, at, span, rt.proof) = (at = first)
       /\ \A at \in places : (b3_range_fold(n, at, span, b3) = b3root) = (at = first)
       /\ \A at \in places : b3_verify(b3root, n, at, span[1], path) = (at = first)
       /\ \A i \in 1..count : /\ ~rt_verify_range(rt.root, n, first, Forged(span, i), rt.proof)
                              /\ b3_range_fold(n, first, Forged(span, i), b3) # b3root
       /\ \A p \in {Append(rt.proof, rt.root)} \cup (IF rt.proof = << >> THEN {} ELSE {Front(rt.proof)}) :
            ~rt_verify_range(rt.root, n, first, span, p)
       /\ count = 1 => b3 = path

(* The hash of an input is rebuilt from any one of its chunks and from any *)
(* run of them, the short last chunk included (b3_leaf_from_chunk and      *)
(* b3_leaf_from_chunks agree with BLAKE3).                                 *)
ChunksRebuildTheHash(total, first, count) ==
    LET data == [i \in 1..total |-> i]
        bytes == SubSeq(data, first * Chunk + 1, IF (first + count) * Chunk < total THEN (first + count) * Chunk ELSE total)
    IN first + count <= n_chunks(total) /\ bytes # << >> =>
         /\ b3_leaf_from_chunks(total, first, bytes, b3_chunks_proof(data, first, count)) = Blake3(data)
         /\ b3_leaf_from_chunk(total, first, ChunkOf(data, first),
                               IF n_chunks(total) = 1 THEN << >> ELSE b3_path(Cvs(data), first)) = Blake3(data)
=============================================================================
