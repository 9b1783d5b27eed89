---------------------------- MODULE TraceOpening ----------------------------
(***************************************************************************)
(* The trace of a response: what the miner commits, which points a draw    *)
(* asks for, how it opens them, and the checks the opening must pass       *)
(* (trace.rs, and verify.rs, prefix.rs and chain.rs of the verifiable-     *)
(* inference crate, which the miner runs on its own openings before it     *)
(* sends them).                                                            *)
(*                                                                         *)
(* Arithmetic is modulo P in place of floating point within a tolerance:   *)
(* a value that was computed from what it should be equals it, any other   *)
(* does not.  A byte offset is an offset in values: a model chunk holds WC *)
(* weights, a leaf chunk CE values, a Q8 block BE values.  A Merkle path   *)
(* is the siblings it stands for (OpeningCodec is about the hashing).      *)
(***************************************************************************)
EXTENDS Naturals, Sequences, SequencesExt, FiniteSets, FiniteSetsExt, Functions, Folds

CONSTANTS WC, CE, BE, P,
          PADDING,          \* MATRIX_ROW_PADDING: an input row is padded to a multiple
          NORM_BLOCKS,      \* NORM_FRAGMENT_BLOCKS
          UBATCH, MMVQ_MAX, \* batch size of a prompt, largest batch of the vector layout
          PREFIX_LEN, PEAK,
          Weight(_)         \* the model's weights, by address

NONE == 9999                \* manifest::NONE
POINTS == 2
PREFIX_POINT == POINTS
RESID_POINT == POINTS + 1
FRAGMENT_DRAW == 64

At(s, i) == s[i + 1]
Cut(s, from, n) == SubSeq(s, from + 1, from + n)
Ceil(a, b) == (a + b - 1) \div b
Least(a, b) == IF a < b THEN a ELSE b
Most(a, b) == IF a > b THEN a ELSE b
Seqn(f) == f \o << >>       \* f as a tuple of its values
Total(s) ==
    LET t == Seqn(s)
        upto[i \in 0..Len(t)] == IF i = 0 THEN 0 ELSE (upto[i - 1] + t[i]) % P
    IN upto[Len(t)]
None == [ok |-> FALSE]

-----------------------------------------------------------------------------
(* Leaves and trees.  A leaf is its kind and its values: the input blocks  *)
(* of a product, an output or residual vector, or the meta leaf.           *)

Empty == <<"empty", << >>>>
Unwritten == <<"unwritten", << >>>>
Bad == <<"bad", << >>>>

b3_path(leaves, i) == SubSeq(leaves, 1, i) \o SubSeq(leaves, i + 2, Len(leaves))
b3_fold(n, i, leaf, path) ==
    IF i >= n \/ Len(path) # n - 1 THEN << >>
    ELSE SubSeq(path, 1, i) \o <<leaf>> \o SubSeq(path, i + 1, n - 1)
b3_verify(root, n, i, leaf, path) == b3_fold(n, i, leaf, path) = root

n_chunks(len) == Most(Ceil(len, CE), 1)

(* One chunk of a leaf, with what the rest of the leaf hashes to. *)
chunk_with_path(y, c) ==
    IF c >= n_chunks(Len(y)) THEN None
    ELSE [ok |-> TRUE, chunk |-> Cut(y, c * CE, Least(CE, Len(y) - c * CE)),
          path |-> <<Cut(y, 0, c * CE), SubSeq(y, (c + 1) * CE + 1, Len(y))>>]

b3_leaf_from_chunk(total, c, chunk, path) ==
    LET n == n_chunks(total)
        expected == IF c + 1 < n THEN CE ELSE total - c * CE
    IN IF c < n /\ Len(chunk) = expected /\ Len(path[1]) = c * CE
       THEN <<"y", path[1] \o chunk \o path[2]>> ELSE Bad

meta(t, n_ubatch, tok) == <<"meta", <<t, n_ubatch, tok>>>>

-----------------------------------------------------------------------------
(* Weights, in chunks of the resident model. *)

row_chunks(e, exp, row) ==
    LET start == (exp * e.m + row) * e.row IN
    IF row >= e.m \/ exp >= e.n_exp \/ start + e.row > (e.n_cells \div WC) * WC THEN None
    ELSE [ok |-> TRUE, first |-> e.base + start \div WC, last |-> e.base + (start + e.row - 1) \div WC]

ModelChunks(first, last) == [j \in 1..((last - first + 1) * WC) |-> Weight(first * WC + j - 1)]

range_proof(mf, first, last) ==
    IF first > last \/ last >= mf.n_chunks THEN None
    ELSE [ok |-> TRUE, first |-> first, cells |-> ModelChunks(first, last), proof |-> <<first, last>>]

rt_verify_range(mf, first, cells, proof) ==
    LET last == first + Len(cells) \div WC - 1 IN
    last < mf.n_chunks /\ proof = <<first, last>> /\ cells = ModelChunks(first, last)

open_bytes(mf, e, r, offset, len) ==
    LET first == e.base + offset \div WC
        last == e.base + (offset + len - 1) \div WC
    IN IF len = 0 \/ ~r.ok \/ offset + len > (e.n_cells \div WC) * WC THEN None
       ELSE IF r.first # first \/ Len(r.cells) # (last - first + 1) * WC THEN None
       ELSE IF ~rt_verify_range(mf, first, r.cells, r.proof) THEN None
       ELSE [ok |-> TRUE, v |-> Cut(r.cells, offset % WC, len)]

open_expert_row(mf, e, r, exp, row) ==
    IF row >= e.m \/ exp >= e.n_exp THEN None ELSE open_bytes(mf, e, r, (exp * e.m + row) * e.row, e.row)

open_row(mf, e, r, row) == IF row >= e.m \/ e.n_exp # 1 THEN None ELSE open_bytes(mf, e, r, row * e.row, e.row)

Entry(mf, i) == At(mf.entries, i)
entry_opening(mf, i) == [index |-> i, entry |-> Entry(mf, i)]
open_entry(mf, o, expected) == o.index = expected /\ o.entry = Entry(mf, expected)

bytes_range(mf, i, offset, len) ==
    IF len = 0 THEN None
    ELSE LET e == Entry(mf, i)
             r == range_proof(mf, e.base + offset \div WC, e.base + (offset + len - 1) \div WC)
         IN [ok |-> r.ok, entry |-> entry_opening(mf, i), range |-> r]

row_opening(mf, i, row) ==
    LET c == row_chunks(Entry(mf, i), 0, row) IN
    IF ~c.ok THEN None
    ELSE LET r == range_proof(mf, c.first, c.last) IN [ok |-> r.ok, entry |-> entry_opening(mf, i), range |-> r]

-----------------------------------------------------------------------------
(* Quantised inputs: blocks <<layout, scale, stored sum, values>>. *)

layout_for(n_ubatch, wtype) == IF n_ubatch <= MMVQ_MAX THEN "mmvq" ELSE IF wtype = "k" THEN "ds4" ELSE "d4"
input_layout(role, n_ubatch, wtype) == IF role = "output" THEN "mmvq" ELSE layout_for(n_ubatch, wtype)

x_len(k) == (Ceil(k, PADDING) * PADDING) \div BE      \* blocks of one row

Scale(v) == 1 + (Total(v) % 3)
Quantise(v, layout) ==
    Seqn([b \in 1..x_len(Len(v)) |->
        LET vals == SubSeq(v, (b - 1) * BE + 1, Least(b * BE, Len(v))) IN
        <<layout, Scale(vals), Total(vals), vals>>])

blocks(x, layout, k) ==
    IF Len(x) < Ceil(k, BE) \/ (\E b \in 1..Ceil(k, BE) : x[b][1] # layout) THEN None
    ELSE [ok |-> TRUE, b |-> SubSeq(x, 1, Ceil(k, BE))]

sums_consistent(x, layout, k) ==
    LET bs == blocks(x, layout, k) IN bs.ok /\ \A i \in DOMAIN bs.b : bs.b[i][3] = Total(bs.b[i][4])

Dequantised(x, k) ==
    LET vals(j) == LET b == x[((j - 1) \div BE) + 1] IN (b[4][((j - 1) % BE) + 1] + b[2]) % P
    IN Seqn([j \in 1..k |-> vals(j)])

canonical_dot(row, k, x) ==
    LET v == Dequantised(x, k) IN Total([j \in 1..k |-> (row[j] * v[j]) % P])

(* Every block from first_block is what the quantiser writes for v. *)
BlocksMatch(x, layout, k, first_block, v) ==
    LET bs == blocks(x, layout, k)
        n == Ceil(Len(v), BE)
    IN /\ bs.ok /\ first_block + n <= Len(bs.b)
       /\ \A b \in 1..n :
            LET vals == SubSeq(v, (b - 1) * BE + 1, Least(b * BE, Len(v))) IN
            bs.b[first_block + b] = <<layout, Scale(vals), Total(vals), vals>>

peak_bounded(x, layout, k, slot) ==
    LET one == x_len(k)
        from == IF Len(x) = one THEN 0 ELSE slot * one
        bs == blocks(Cut(x, from, one), layout, k)
        d == SortSeq([i \in DOMAIN bs.b |-> bs.b[i][2]], LAMBDA a, b : a < b)
    IN /\ k % BE = 0 /\ Len(x) > 0 /\ Len(x) % one = 0 /\ from + one <= Len(x) /\ bs.ok
       /\ d[Len(d)] <= PEAK * d[(Len(d) \div 2) + 1]

rms_scaled(v, scale) ==
    LET e == Seqn([i \in DOMAIN v |-> (v[i] * scale) % P])
        inv == 1 + Total([i \in DOMAIN e |-> (e[i] * e[i]) % P])
    IN Seqn([i \in DOMAIN e |-> (e[i] * inv) % P])
Times(v, w) == Seqn([i \in DOMAIN v |-> (v[i] * w[i]) % P])
glu(g, u) == (((g * g + 1) % P) * u) % P

-----------------------------------------------------------------------------
(* Draws.  seed[i] is the draw of point i: d0..d3 and the high parts of d3. *)

expected_ubatch(t, n_prompt) ==
    IF t >= n_prompt THEN 1 ELSE Least(UBATCH, n_prompt - (t \div UBATCH) * UBATCH)

norm_fragment(block, k) ==
    LET bs == Ceil(k, BE)
        n == Least(NORM_BLOCKS, bs)
    IN [b0 |-> Least(block, bs - n), n |-> n]

(* A block at random, or by the weight of its scale. *)
link_block(seed, i, x, layout, k) ==
    LET bs == blocks(x, layout, k)
        r == seed[FRAGMENT_DRAW + i]
        w == [b \in 1..Len(bs.b) |-> 1 + bs.b[b][2]]
        upto(b) == FoldFunction(LAMBDA a, c : a + c, 0, SubSeq(w, 1, b))
        target == r.d2 % upto(Len(w))
    IN IF k % BE # 0 \/ k = 0 THEN None
       ELSE IF ~bs.ok THEN None
       ELSE IF r.d1 % 2 = 0 THEN [ok |-> TRUE, b |-> r.d0 % Len(bs.b)]
       ELSE [ok |-> TRUE, b |-> Min({b \in 1..Len(w) : target < upto(b)}) - 1]

MOut(g) == IF g.form = "split" THEN g.m \div 2 ELSE g.m

(* trace.rs: the point the node will verify. *)
draw_point(mf, n_prompt, n_pos, d) ==
    LET rank == d.d1 % mf.n_products
        e0 == Entry(mf, rank)
        first_pos == n_prompt - 1
        t == IF e0.role = "output" THEN first_pos + (d.d0 % (n_pos - first_pos)) ELSE d.d0 % n_pos
        g_rank == IF e0.form = "pair_up" THEN e0.partner ELSE rank
        g == Entry(mf, g_rank)
        heads == e0.role = "heads"
        experts == g.n_exp > 1 /\ ~heads
        n_used == IF experts THEN mf.n_used ELSE IF heads THEN g.n_exp ELSE 1
    IN IF n_pos = 0 \/ n_prompt = 0 \/ n_prompt > n_pos THEN None
       ELSE IF g.n_exp # 1 /\ ~mf.chain THEN None
       ELSE IF MOut(g) = 0 \/ n_used = 0 THEN None
       ELSE [ok |-> TRUE, rank |-> rank, g_rank |-> g_rank, t |-> t, row |-> d.d2 % MOut(g), n_used |-> n_used,
             slot |-> IF n_used > 1 THEN d.hi % n_used ELSE 0, experts |-> experts]

resid_position(mf, rec, layer, d0) ==
    IF mf.trim_last /\ layer + 1 = mf.n_layers
    THEN (rec.n_prompt - 1) + (d0 % (rec.n_pos - (rec.n_prompt - 1))) ELSE d0 % rec.n_pos

(* Site 2 * layer + kind, earlier sites the likelier. *)
resid_site(d1, n) ==
    LET x == d1 % Most((n * (n + 1)) \div 2, 1)
        before(j) == FoldFunction(LAMBDA a, b : a + b, 0, [i \in 1..j |-> n - (i - 1)])
    IN Max({j \in 0..(n - 1) : before(j) <= x})

-----------------------------------------------------------------------------
(* Leaf layout of a position. *)

resid_leaf(np, layer, kind) == 2 * np + 2 * layer + (IF kind = "attn" THEN 0 ELSE 1)
router_leaf(np, n_layers, layer) == 2 * np + 2 * n_layers + layer
n_router(mf) == IF mf.n_used > 0 THEN mf.n_layers ELSE 0
meta_leaf(mf) == IF mf.chain THEN 2 * mf.n_products + 2 * mf.n_layers + n_router(mf) ELSE 2 * mf.n_products
n_leaves(mf) == meta_leaf(mf) + 1
meta_hash(mf, t, n_ubatch, tok) == meta(t, n_ubatch, IF mf.chain THEN tok ELSE 0)

(* TraceRecord::new and new_chain: leaves the engine never writes are      *)
(* filled in; any other leaf left unwritten is an error.                   *)
FillIn(mf, n_prompt, t, leaf, i) ==
    LET np == mf.n_products
        e == Entry(mf, i \div 2)
        last == mf.n_layers - 1
        before_output == t + 1 < n_prompt
        l == i - router_leaf(np, mf.n_layers, 0)
    IN IF i < 2 * np
       THEN IF (e.form = "pair_up" /\ i % 2 = 1) \/ (e.role = "output" /\ before_output) THEN Empty ELSE leaf
       ELSE IF mf.chain /\ mf.trim_last /\ before_output
               /\ i \in {resid_leaf(np, last, "attn"), resid_leaf(np, last, "out")} THEN Empty
       ELSE IF mf.chain /\ mf.n_used > 0 /\ l \in 0..(mf.n_layers - 1)
               /\ (\/ ~Entry(mf, mf.layer_base + l).ll.moe
                   \/ mf.trim_last /\ l = last /\ before_output) THEN Empty
       ELSE leaf

TraceRecord(mf, n_prompt, ubatch, leaves, tokens) ==
    LET n_pos == Len(ubatch)
        filled == Seqn([t \in 1..n_pos |-> Seqn([i \in 1..n_leaves(mf) |->
                     IF i - 1 = meta_leaf(mf) THEN meta_hash(mf, t - 1, ubatch[t], tokens[t])
                     ELSE FillIn(mf, n_prompt, t - 1, leaves[t][i], i - 1)])])
    IN IF n_pos = 0 \/ n_prompt = 0 \/ n_prompt > n_pos \/ Len(leaves) # n_pos \/ Len(tokens) # n_pos THEN None
       ELSE IF \E t \in 1..n_pos : \E i \in DOMAIN filled[t] : filled[t][i] = Unwritten THEN None
       ELSE [ok |-> TRUE, n_prompt |-> n_prompt, n_pos |-> n_pos, ubatch |-> ubatch, root |-> filled, tokens |-> tokens]

-----------------------------------------------------------------------------
(* The prover.  caps[<<t, leaf>>] are the leaf values a replay captured.   *)

leaf_chunk(rec, t, leaf, y, c) ==
    LET ch == chunk_with_path(y, c) IN
    IF ~ch.ok THEN None
    ELSE [ok |-> TRUE, total |-> Len(y), index |-> c, chunk |-> ch.chunk, chunk_path |-> ch.path,
          leaf_path |-> b3_path(At(rec.root, t), leaf)]
leaf_bytes(rec, t, leaf, y) == [ok |-> TRUE, bytes |-> y, leaf_path |-> b3_path(At(rec.root, t), leaf)]

(* The expert ids that close an expert output; they start a chunk. *)
expert_ids(y, n_used) ==
    LET body == Len(y) - n_used IN IF body % CE # 0 THEN None ELSE chunk_with_path(y, body \div CE)

build_point(mf, rec, p, x, y) ==
    LET g == Entry(mf, p.g_rank)
        m_out == MOut(g)
        body == p.n_used * m_out
        exp == IF p.experts THEN At(y, body + p.slot) ELSE IF p.n_used > 1 THEN p.slot ELSE 0
        row_range(e, row) == LET c == row_chunks(e, exp, row) IN IF c.ok THEN range_proof(mf, c.first, c.last) ELSE None
        other == IF g.form = "pair_gate" THEN row_range(Entry(mf, g.partner), p.row) ELSE row_range(g, p.row + m_out)
        rows == IF g.form = "none" THEN <<row_range(g, p.row)>> ELSE <<row_range(g, p.row), other>>
        bias == IF g.bias = NONE THEN None
                ELSE [ok |-> TRUE, entry |-> entry_opening(mf, g.bias),
                      range |-> LET f == Entry(mf, g.bias).base + p.row \div WC IN range_proof(mf, f, f)]
        pos == At(rec.root, p.t)
        c == (p.slot * m_out + p.row) \div CE
        ch == chunk_with_path(y, c)
    IN IF Len(y) # body + (IF p.experts THEN p.n_used ELSE 0) \/ p.t >= rec.n_pos \/ p.slot >= p.n_used THEN None
       ELSE IF exp >= g.n_exp \/ (\E r \in Range(rows) : ~r.ok) \/ ~ch.ok THEN None
       ELSE [ok |-> TRUE, n_ubatch |-> At(rec.ubatch, p.t), pos_path |-> b3_path(rec.root, p.t),
             meta_path |-> b3_path(pos, n_leaves(mf) - 1), entry |-> entry_opening(mf, p.rank),
             partner |-> IF g.form = "pair_gate"
                         THEN <<entry_opening(mf, IF p.rank = p.g_rank THEN g.partner ELSE p.g_rank)>> ELSE << >>,
             bias |-> bias, rows |-> rows, x |-> x, x_path |-> b3_path(pos, 2 * p.g_rank),
             y_total |-> Len(y), y_index |-> c, y_chunk |-> ch.chunk, y_chunk_path |-> ch.path,
             y_path |-> b3_path(pos, 2 * p.g_rank + 1)]

expected_token(pctx, request, t) ==
    IF t < pctx.offset \/ t - pctx.offset >= PREFIX_LEN THEN NONE ELSE pctx.table[At(request, t - pctx.offset)]
position(pctx, seed) == pctx.offset + (seed[PREFIX_POINT].d0 % PREFIX_LEN)
fits(n_prompt, offset) == n_prompt >= offset + PREFIX_LEN

NormWeights(mf, i, block) ==
    LET k == Entry(mf, i).k
        f == norm_fragment(block, k)
    IN bytes_range(mf, i, f.b0 * BE, Least(f.n * BE, k - f.b0 * BE))

(* build_prefix_point opens the whole norm, chain_opening a fragment of it. *)
build_prefix_point(mf, pctx, rec, request, seed, x) ==
    LET t == position(pctx, seed)
        tok == expected_token(pctx, request, t)
        pos == At(rec.root, t)
        e0 == Entry(mf, 0)
        block == link_block(seed, PREFIX_POINT, x, input_layout(e0.role, At(rec.ubatch, t), e0.wtype), e0.k)
        k == Entry(mf, pctx.norm_entry).k
        embd == row_opening(mf, pctx.embd_entry, tok)
    IN IF t >= rec.n_pos \/ tok = NONE THEN None
       ELSE IF ~embd.ok \/ (mf.chain /\ ~block.ok) THEN None
       ELSE [ok |-> TRUE, n_ubatch |-> At(rec.ubatch, t), pos_path |-> b3_path(rec.root, t),
             meta_path |-> b3_path(pos, n_leaves(mf) - 1), entry |-> entry_opening(mf, 0), x |-> x,
             x_path |-> b3_path(pos, 0), embd |-> embd,
             norm |-> IF mf.chain THEN NormWeights(mf, pctx.norm_entry, block.b)
                      ELSE bytes_range(mf, pctx.norm_entry, 0, k)]

(* The committed leaf the input of a product is computed from. *)
link_leaf(mf, g_rank) ==
    LET g == Entry(mf, g_rank)
        np == mf.n_products
    IN CASE g.link = "none" \/ (g.link = "attn_in" /\ g.layer = 0) -> NONE
         [] g.link = "attn_in" -> resid_leaf(np, g.layer - 1, "out")
         [] g.link = "ffn_in" -> resid_leaf(np, g.layer, "attn")
         [] g.link = "head" -> resid_leaf(np, mf.n_layers - 1, "out")
         [] OTHER -> 2 * g.src + 1

resid_draw(mf, rec, d) ==
    LET sel == resid_site(d.d1, 2 * mf.n_layers)
        layer == sel \div 2
        kind == IF sel % 2 = 0 THEN "attn" ELSE "out"
        ll == Entry(mf, mf.layer_base + layer).ll
        rank == IF kind = "attn" THEN ll.proj ELSE ll.down
    IN [layer |-> layer, kind |-> kind, ll |-> ll, rank |-> rank, t |-> resid_position(mf, rec, layer, d.d0),
        c |-> d.d2 % n_chunks(Entry(mf, rank).m), moe |-> ll.moe /\ kind = "out" /\ ll.post_ffn = NONE,
        post |-> IF kind = "attn" THEN ll.post_attn ELSE ll.post_ffn]

src_leaf(mf, r) ==
    IF r.kind = "out" THEN resid_leaf(mf.n_products, r.layer, "attn")
    ELSE IF r.layer = 0 THEN NONE ELSE resid_leaf(mf.n_products, r.layer - 1, "out")

draw_chain(mf, pctx, rec, seed) ==
    LET pts == [i \in 1..POINTS |-> draw_point(mf, rec.n_prompt, rec.n_pos, seed[i - 1])] IN
    IF \E i \in 1..POINTS : ~pts[i].ok THEN None
    ELSE [ok |-> TRUE, points |-> pts, links |-> [i \in 1..POINTS |-> link_leaf(mf, pts[i].g_rank)],
          prefix_t |-> position(pctx, seed), resid |-> resid_draw(mf, rec, seed[RESID_POINT])]

(* variant: the router scores of a routed layer not captured. *)
capturesUnrouted(mf, d) ==
    LET r == d.resid
        ofpoint(i) == {<<d.points[i].t, 2 * d.points[i].g_rank>>, <<d.points[i].t, 2 * d.points[i].g_rank + 1>>}
                      \cup (IF d.links[i] = NONE THEN {} ELSE {<<d.points[i].t, d.links[i]>>})
    IN UNION {ofpoint(i) : i \in 1..POINTS}
       \cup {<<d.prefix_t, 0>>, <<r.t, resid_leaf(mf.n_products, r.layer, r.kind)>>,
             <<r.t, 2 * r.rank>>, <<r.t, 2 * r.rank + 1>>}
       \cup (IF src_leaf(mf, r) = NONE THEN {} ELSE {<<r.t, src_leaf(mf, r)>>})
       \cup (IF r.moe THEN {<<r.t, 2 * r.ll.down_exps>>, <<r.t, 2 * r.ll.down_exps + 1>>} ELSE {})

(* What the replay must capture for the opening. *)
captures(mf, d) ==
    LET r == d.resid
        ofpoint(i) == {<<d.points[i].t, 2 * d.points[i].g_rank>>, <<d.points[i].t, 2 * d.points[i].g_rank + 1>>}
                      \cup (IF d.links[i] = NONE THEN {} ELSE {<<d.points[i].t, d.links[i]>>})
    IN UNION {ofpoint(i) : i \in 1..POINTS}
       \cup {<<d.prefix_t, 0>>, <<r.t, resid_leaf(mf.n_products, r.layer, r.kind)>>,
             <<r.t, 2 * r.rank>>, <<r.t, 2 * r.rank + 1>>}
       \cup (IF src_leaf(mf, r) = NONE THEN {} ELSE {<<r.t, src_leaf(mf, r)>>})
       \cup (IF r.moe THEN {<<r.t, 2 * r.ll.down_exps>>, <<r.t, 2 * r.ll.down_exps + 1>>,
                            <<r.t, router_leaf(mf.n_products, mf.n_layers, r.layer)>>} ELSE {})

captures_match(rec, caps) ==
    \A tl \in DOMAIN caps : tl[1] < rec.n_pos /\ At(At(rec.root, tl[1]), tl[2])[2] = caps[tl]

(* The slot of a row input, or the row that serves every slot. *)
InputOf(x, k, slot) == LET one == x_len(k) IN IF Len(x) = one THEN x ELSE Cut(x, slot * one, one)

Link(mf, rec, caps, seed, i, p, leaf, x) ==
    LET g == Entry(mf, p.g_rank)
        layout == input_layout(g.role, At(rec.ubatch, p.t), g.wtype)
        block == link_block(seed, i, InputOf(x, g.k, p.slot), layout, g.k)
        y == caps[<<p.t, leaf>>]
        source(c, ids) == [ok |-> TRUE, kind |-> "source", src |-> entry_opening(mf, g.src),
                           y |-> leaf_chunk(rec, p.t, leaf, y, c), ids |-> ids]
    IN IF leaf = NONE /\ g.link = "none" THEN [ok |-> TRUE, kind |-> "none"]
       ELSE IF ~block.ok THEN None
       ELSE IF leaf = NONE
       THEN [ok |-> TRUE, kind |-> "token", embd |-> row_opening(mf, mf.embd_entry, At(rec.tokens, p.t)),
             norm |-> NormWeights(mf, g.norm, block.b)]
       ELSE IF <<p.t, leaf>> \notin DOMAIN caps THEN None
       ELSE IF g.link = "glu" /\ p.experts
       THEN IF g.k \div CE = 0 THEN None
            ELSE source(p.slot * (g.k \div CE) + block.b \div (CE \div BE), <<expert_ids(y, p.n_used)>>)
       ELSE IF g.link = "head_slice"
       THEN source((p.slot * (Entry(mf, g.src).m \div g.n_exp) + block.b * BE) \div CE, << >>)
       ELSE IF g.link \in {"glu", "direct"} THEN source(block.b \div (CE \div BE), << >>)
       ELSE [ok |-> TRUE, kind |-> "norm", src |-> leaf_bytes(rec, p.t, leaf, y), norm |-> NormWeights(mf, g.norm, block.b)]

(* The residual point, with one row of the product it adds and, on a       *)
(* routed layer, one row of a routed expert.                               *)
ResidPoint(mf, rec, caps, seed, r) ==
    LET np == mf.n_products
        cap(leaf) == caps[<<r.t, leaf>>]
        dst_leaf == resid_leaf(np, r.layer, r.kind)
        y_leaf == 2 * r.rank + 1
        dim == Entry(mf, r.rank).m
        n_exp == Entry(mf, r.ll.router).m
        down == 2 * r.ll.down_exps + 1
        chunk(leaf, c) == leaf_chunk(rec, r.t, leaf, cap(leaf), c)
        routed == [kind |-> "moe", scores |-> leaf_bytes(rec, r.t, router_leaf(np, mf.n_layers, r.layer),
                                                         cap(router_leaf(np, mf.n_layers, r.layer))),
                   bias |-> bytes_range(mf, r.ll.probs_bias, 0, n_exp), ids |-> expert_ids(cap(down), mf.n_used),
                   slots |-> [sl \in 1..mf.n_used |-> chunk(down, (sl - 1) * (dim \div CE) + r.c)],
                   shexp |-> chunk(y_leaf, r.c),
                   router_row |-> bytes_range(mf, r.ll.router, (seed[RESID_POINT].d3 % n_exp) * dim, dim),
                   resid |-> leaf_bytes(rec, r.t, resid_leaf(np, r.layer, "attn"), cap(resid_leaf(np, r.layer, "attn"))),
                   norm |-> bytes_range(mf, r.ll.ffn_norm, 0, dim)]
        normed == [kind |-> "normed", y |-> leaf_bytes(rec, r.t, y_leaf, cap(y_leaf)),
                   norm |-> bytes_range(mf, r.post, r.c * CE, Least(Len(cap(dst_leaf)) - r.c * CE, CE))]
        needs == {dst_leaf, y_leaf} \cup ({src_leaf(mf, r)} \ {NONE})
                 \cup (IF r.moe THEN {down, router_leaf(np, mf.n_layers, r.layer)} ELSE {})
    IN IF \E l \in needs : <<r.t, l>> \notin DOMAIN caps THEN None
       ELSE [ok |-> TRUE, n_ubatch |-> At(rec.ubatch, r.t), tok |-> At(rec.tokens, r.t),
             pos_path |-> b3_path(rec.root, r.t), meta_path |-> b3_path(At(rec.root, r.t), n_leaves(mf) - 1),
             layer |-> entry_opening(mf, mf.layer_base + r.layer), product |-> entry_opening(mf, r.rank),
             dst |-> chunk(dst_leaf, r.c),
             src |-> IF src_leaf(mf, r) = NONE
                     THEN [kind |-> "token", w |-> row_opening(mf, mf.embd_entry, At(rec.tokens, r.t))]
                     ELSE [kind |-> "chunk", c |-> chunk(src_leaf(mf, r), r.c)],
             add |-> IF r.moe THEN routed
                     ELSE IF r.post = NONE THEN [kind |-> "chunk", c |-> chunk(y_leaf, r.c)] ELSE normed]

FeedRowOf(d, c, dim) == c * CE + (d.hi % Least(CE, dim - c * CE))

Feed(mf, rec, caps, seed, r) ==
    LET pe == Entry(mf, r.rank)
        row == FeedRowOf(seed[RESID_POINT], r.c, pe.m)
    IN [x |-> caps[<<r.t, 2 * r.rank>>], x_path |-> b3_path(At(rec.root, r.t), 2 * r.rank),
        row |-> row_opening(mf, r.rank, row).range,
        bias |-> IF pe.bias = NONE THEN None ELSE bytes_range(mf, pe.bias, row, 1)]

ExpertRow(mf, rec, caps, seed, r) ==
    LET d == seed[RESID_POINT]
        down == r.ll.down_exps
        y == caps[<<r.t, 2 * down + 1>>]
        id == At(y, Len(y) - mf.n_used + (d.top % Most(mf.n_used, 1)))
        c == row_chunks(Entry(mf, down), id, FeedRowOf(d, r.c, Entry(mf, r.rank).m))
    IN IF ~c.ok THEN None
       ELSE [ok |-> TRUE, entry |-> entry_opening(mf, down), x |-> caps[<<r.t, 2 * down>>],
             x_path |-> b3_path(At(rec.root, r.t), 2 * down), row |-> range_proof(mf, c.first, c.last)]

(* The opening, unless a part of it could not be built. *)
Whole(op, moe) ==
    IF \/ ~op.prefix.ok \/ ~op.resid.ok \/ (moe /\ ~op.expert.ok)
       \/ \E i \in 1..POINTS : ~op.points[i].ok \/ ~op.links[i].ok
    THEN None ELSE op

chain_opening(mf, pctx, rec, seed, request, d, caps) ==
    LET x(p) == caps[<<p.t, 2 * p.g_rank>>]
        y(p) == caps[<<p.t, 2 * p.g_rank + 1>>]
    IN Whole([ok |-> TRUE,
              points |-> [i \in 1..POINTS |->
                             build_point(mf, rec, d.points[i], x(d.points[i]), y(d.points[i]))],
              links |-> [i \in 1..POINTS |->
                            Link(mf, rec, caps, seed, i - 1, d.points[i], d.links[i], x(d.points[i]))],
              prefix |-> build_prefix_point(mf, pctx, rec, request, seed, caps[<<d.prefix_t, 0>>]),
              resid |-> ResidPoint(mf, rec, caps, seed, d.resid),
              toks |-> [i \in 1..POINTS |-> At(rec.tokens, d.points[i].t)],
              experts |-> [i \in 1..POINTS |->
                              IF d.points[i].experts
                              THEN <<expert_ids(y(d.points[i]), d.points[i].n_used)>> ELSE << >>],
              feed |-> Feed(mf, rec, caps, seed, d.resid),
              expert |-> IF d.resid.moe THEN ExpertRow(mf, rec, caps, seed, d.resid) ELSE None],
             d.resid.moe)

-----------------------------------------------------------------------------
(* The checks.  resp is what the response commits: [n_prompt, n_pos, root]. *)

(* verify_point_at: the product, its input and the opened output row. *)
verify_point_at(mf, resp, d, p, tok, ids) ==
    LET rank == d.d1 % mf.n_products
        first == Entry(mf, rank)
        first_pos == resp.n_prompt - 1
        t == IF first.role = "output" THEN first_pos + (d.d0 % (resp.n_pos - first_pos)) ELSE d.d0 % resp.n_pos
        paired == first.form \in {"pair_gate", "pair_up"}
        other == Entry(mf, first.partner)
        g_rank == IF first.form = "pair_up" THEN first.partner ELSE rank
        g == Entry(mf, g_rank)
        up == IF first.form = "pair_up" THEN first ELSE other
        heads == first.role = "heads"
        experts == g.n_exp > 1 /\ ~heads
        n_used == IF experts THEN mf.n_used ELSE IF heads THEN g.n_exp ELSE 1
        slot == IF n_used > 1 THEN d.hi % n_used ELSE 0
        m_out == MOut(g)
        row == d.d2 % m_out
        nl == n_leaves(mf)
        layout == input_layout(first.role, p.n_ubatch, g.wtype)
        x == InputOf(p.x, g.k, slot)
        pos_root == b3_fold(nl, 2 * g_rank, <<"x", p.x>>, p.x_path)
        body == n_used * m_out
        y_off == slot * m_out + row
        y_leaf == b3_leaf_from_chunk(p.y_total, p.y_index, p.y_chunk, p.y_chunk_path)
        y == At(p.y_chunk, y_off % CE)
        exp == IF ids = << >> THEN slot ELSE At(ids[1].chunk, slot)
        dot(e, r, rr) == LET b == open_expert_row(mf, e, r, exp, rr) IN
                         IF b.ok THEN [ok |-> TRUE, v |-> canonical_dot(b.v, g.k, x)] ELSE None
        gate == dot(g, p.rows[1], row)
        second == IF g.form = "split" THEN dot(g, p.rows[2], row + m_out) ELSE dot(up, p.rows[2], row)
        be == Entry(mf, g.bias)
        bias == open_bytes(mf, be, p.bias.range, row, 1)
    IN IF /\ resp.n_pos > 0 /\ resp.n_prompt > 0 /\ resp.n_prompt <= resp.n_pos
          /\ open_entry(mf, p.entry, rank) /\ first.role \in {"product", "output", "heads"}
          /\ IF paired THEN /\ p.partner # << >> /\ open_entry(mf, p.partner[1], first.partner)
                            /\ other.partner = rank /\ other.k = first.k /\ other.m = first.m
             ELSE p.partner = << >>
          /\ experts = (ids # << >>) /\ ~(experts /\ mf.n_used = 0) /\ ~(heads /\ (g.n_exp < 2 \/ paired))
          /\ (paired => up.n_exp = g.n_exp) /\ m_out > 0
          /\ Len(p.x) = x_len(g.k) \/ (n_used > 1 /\ Len(p.x) = n_used * x_len(g.k))
          /\ b3_verify(resp.root, resp.n_pos, t, pos_root, p.pos_path)
          /\ p.n_ubatch = expected_ubatch(t, resp.n_prompt)
          /\ b3_verify(pos_root, nl, nl - 1, meta_hash(mf, t, p.n_ubatch, tok), p.meta_path)
          /\ ~(experts /\ body % CE # 0)
          /\ p.y_total = body + (IF experts THEN n_used ELSE 0) /\ p.y_index = y_off \div CE
          /\ b3_verify(pos_root, nl, 2 * g_rank + 1, y_leaf, p.y_path)
          /\ experts => /\ b3_leaf_from_chunk(p.y_total, body \div CE, ids[1].chunk, ids[1].path) = y_leaf
                        /\ exp < g.n_exp
          /\ sums_consistent(x, layout, g.k)
          /\ IF g.form = "none"
             THEN /\ Len(p.rows) = 1 /\ gate.ok
                  /\ (g.bias = NONE) = ~p.bias.ok
                  /\ IF g.bias = NONE THEN y = gate.v
                     ELSE /\ open_entry(mf, p.bias.entry, g.bias) /\ be.role = "bias" /\ be.k = g.m
                          /\ bias.ok /\ y = (gate.v + bias.v[1]) % P
             ELSE /\ Len(p.rows) = 2 /\ ~p.bias.ok /\ gate.ok /\ second.ok
                  /\ y = glu(gate.v, second.v)
       THEN [ok |-> TRUE, pos_root |-> pos_root, g_rank |-> g_rank, input |-> g, layout |-> layout, slot |-> slot, expert |-> exp]
       ELSE None

dequant_row(row) == [j \in DOMAIN row |-> (2 * row[j] + 1) % P]

f32_weights(mf, w, i, k, offset, n) ==
    LET e == Entry(mf, i) IN
    IF ~w.ok THEN None
    ELSE IF ~open_entry(mf, w.entry, i) \/ e.role # "norm" \/ e.k # k THEN None
    ELSE open_bytes(mf, e, w.range, offset, n)

embedding(mf, w, tok, k) ==
    LET e == Entry(mf, mf.embd_entry)
        row == open_row(mf, e, w.range, tok)
    IN IF ~w.ok THEN None
       ELSE IF ~open_entry(mf, w.entry, mf.embd_entry) \/ e.role # "embd" \/ e.k # k \/ e.n_exp # 1 \/ ~row.ok THEN None
       ELSE [ok |-> TRUE, v |-> dequant_row(row.v)]

whole_leaf(mf, pos_root, index, l, len) ==
    IF Len(l.bytes) # len \/ ~b3_verify(pos_root, n_leaves(mf), index, <<"y", l.bytes>>, l.leaf_path) THEN None
    ELSE [ok |-> TRUE, v |-> l.bytes]

chunk_leaf(c, total, index) ==
    IF ~c.ok THEN Bad
    ELSE IF c.total # total \/ c.index # index THEN Bad
    ELSE b3_leaf_from_chunk(total, index, c.chunk, c.chunk_path)

checked_chunk(mf, pos_root, leaf, c, total, index) ==
    LET h == chunk_leaf(c, total, index) IN
    IF h = Bad THEN None
    ELSE IF ~b3_verify(pos_root, n_leaves(mf), leaf, h, c.leaf_path) THEN None
    ELSE [ok |-> TRUE, v |-> c.chunk]

(* The drawn blocks of x are those of scaled * weights. *)
FragmentHolds(mf, x, layout, k, norm_entry, norm, scaled, f) ==
    LET lo == f.b0 * BE
        len == Least(f.n * BE, k - lo)
        w == f32_weights(mf, norm, norm_entry, k, lo, len)
    IN w.ok /\ BlocksMatch(x, layout, k, f.b0, Times(Cut(scaled, lo, len), w.v))

fragment_link(mf, seed, i, x, layout, k, norm_entry, norm, scaled) ==
    LET block == link_block(seed, i, x, layout, k) IN
    block.ok /\ FragmentHolds(mf, x, layout, k, norm_entry, norm, scaled, norm_fragment(block.b, k))

glu_link(x, layout, k, first_block, h) == h.ok /\ Len(h.v) > 0 /\ BlocksMatch(x, layout, k, first_block, h.v)

(* The input of a routed down product: the gate output of the same slot,   *)
(* computed by the same expert.                                            *)
ExpertSourceLink(mf, seed, i, p, o, link) ==
    LET g == o.input
        src == Entry(mf, g.src)
        per_slot == g.k \div CE
        body == mf.n_used * g.k
        ids == link.ids[1]
        x == InputOf(p.x, g.k, o.slot)
        block == link_block(seed, i, x, o.layout, g.k)
        c == o.slot * per_slot + block.b \div (CE \div BE)
    IN /\ open_entry(mf, link.src, g.src) /\ src.form = "pair_gate" /\ src.n_exp = g.n_exp /\ src.m = g.k
       /\ per_slot > 0 /\ g.k % CE = 0 /\ ids.ok
       /\ b3_verify(o.pos_root, n_leaves(mf), 2 * g.src + 1,
                    b3_leaf_from_chunk(body + mf.n_used, body \div CE, ids.chunk, ids.path), link.y.leaf_path)
       /\ At(ids.chunk, o.slot) = o.expert /\ block.ok
       /\ glu_link(x, o.layout, g.k, ((c - o.slot * per_slot) * CE) \div BE,
                   checked_chunk(mf, o.pos_root, 2 * g.src + 1, link.y, body + mf.n_used, c))

SourceLink(mf, seed, i, p, o, link) ==
    LET g == o.input
        src == Entry(mf, g.src)
        m_out == CASE g.link = "glu" /\ src.form = "pair_gate" -> src.m
                   [] g.link = "glu" /\ src.form = "split" -> src.m \div 2
                   [] g.link = "direct" /\ src.form = "none" /\ src.role = "product" -> src.m
                   [] g.link = "direct" /\ src.form = "none" /\ src.role = "heads" -> src.m * src.n_exp
                   [] OTHER -> 0
        block == link_block(seed, i, p.x, o.layout, g.k)
        c == block.b \div (CE \div BE)
    IN /\ open_entry(mf, link.src, g.src) /\ m_out = g.k /\ (src.n_exp = 1 \/ src.role = "heads") /\ block.ok
       /\ glu_link(p.x, o.layout, g.k, (c * CE) \div BE, checked_chunk(mf, o.pos_root, 2 * g.src + 1, link.y, m_out, c))

(* A head's input: its slice of the projection, within the opened chunk. *)
HeadSliceLink(mf, seed, i, p, o, link) ==
    LET g == o.input
        src == Entry(mf, g.src)
        stride == src.m \div g.n_exp
        start == o.slot * stride
        x == InputOf(p.x, g.k, o.slot)
        block == link_block(seed, i, x, o.layout, g.k)
        c == (start + block.b * BE) \div CE
        lo == Most(c * CE, start)
        hi == Least((c + 1) * CE, start + g.k)
        h == checked_chunk(mf, o.pos_root, 2 * g.src + 1, link.y, src.m, c)
    IN /\ open_entry(mf, link.src, g.src) /\ src.role = "product" /\ src.n_exp = 1 /\ g.n_exp >= 2 /\ src.m % g.n_exp = 0
       /\ g.k <= stride /\ g.k % BE = 0 /\ stride % BE = 0 /\ block.ok /\ h.ok
       /\ glu_link(x, o.layout, g.k, (lo - start) \div BE, [ok |-> TRUE, v |-> Cut(h.v, lo - c * CE, hi - lo)])

NormLink(mf, seed, i, p, o, link) ==
    LET g == o.input
        h == whole_leaf(mf, o.pos_root, link_leaf(mf, o.g_rank), link.src, g.k)
    IN h.ok /\ fragment_link(mf, seed, i, InputOf(p.x, g.k, o.slot), o.layout, g.k, g.norm, link.norm, rms_scaled(h.v, 1))

TokenLink(mf, seed, i, p, o, tok, link) ==
    LET g == o.input
        e == embedding(mf, link.embd, tok, g.k)
    IN e.ok /\ fragment_link(mf, seed, i, p.x, o.layout, g.k, g.norm, link.norm, rms_scaled(e.v, mf.embd_scale))

(* The link of a point whose product was verified as o. *)
LinkHolds(mf, seed, i, p, tok, link, o) ==
    LET g == o.input IN
       /\ o.ok
       /\ g.link # "head" => g.layer < mf.n_layers
       /\ CASE g.link = "none" -> link.kind = "none" /\ peak_bounded(p.x, o.layout, g.k, o.slot)
            [] g.link = "attn_in" /\ g.layer = 0 -> link.kind = "token" /\ TokenLink(mf, seed, i, p, o, tok, link)
            [] g.link \in {"attn_in", "ffn_in", "head"} /\ ~(g.link = "attn_in" /\ g.layer = 0) ->
                 link.kind = "norm" /\ NormLink(mf, seed, i, p, o, link)
            [] g.link = "head_slice" -> link.kind = "source" /\ link.ids = << >> /\ g.role = "heads" /\ HeadSliceLink(mf, seed, i, p, o, link)
            [] g.link = "glu" /\ g.n_exp > 1 -> link.kind = "source" /\ link.ids # << >> /\ ExpertSourceLink(mf, seed, i, p, o, link)
            [] g.link \in {"glu", "direct"} /\ g.n_exp = 1 ->
                 link.kind = "source" /\ link.ids = << >> /\ SourceLink(mf, seed, i, p, o, link)
            [] OTHER -> FALSE

verify_chain_point(mf, resp, seed, i, p, tok, link, ids) ==
    LinkHolds(mf, seed, i, p, tok, link, verify_point_at(mf, resp, seed[i], p, tok, ids))

verify_prefix_point_at(mf, pctx, resp, seed, request, p) ==
    LET t == position(pctx, seed)
        tok == expected_token(pctx, request, t)
        first == Entry(mf, 0)
        norm == Entry(mf, pctx.norm_entry)
        nl == n_leaves(mf)
        layout == layout_for(p.n_ubatch, first.wtype)
        pos_root == b3_fold(nl, 0, <<"x", p.x>>, p.x_path)
        e == embedding([mf EXCEPT !.embd_entry = pctx.embd_entry], p.embd, tok, first.k)
        scaled == rms_scaled(e.v, mf.embd_scale)
        whole == f32_weights(mf, p.norm, pctx.norm_entry, first.k, 0, first.k)
    IN /\ resp.n_pos > 0 /\ resp.n_prompt > 0 /\ resp.n_prompt <= resp.n_pos /\ fits(resp.n_prompt, pctx.offset)
       /\ tok # NONE /\ open_entry(mf, p.entry, 0) /\ first.role = "product" /\ first.n_exp = 1
       /\ open_entry(mf, p.norm.entry, pctx.norm_entry) /\ norm.role = "norm" /\ norm.k = first.k
       /\ Len(p.x) = x_len(first.k)
       /\ b3_verify(resp.root, resp.n_pos, t, pos_root, p.pos_path)
       /\ p.n_ubatch = expected_ubatch(t, resp.n_prompt)
       /\ b3_verify(pos_root, nl, nl - 1, meta_hash(mf, t, p.n_ubatch, tok), p.meta_path)
       /\ e.ok
       /\ IF mf.chain THEN fragment_link(mf, seed, PREFIX_POINT, p.x, layout, first.k, pctx.norm_entry, p.norm, scaled)
          ELSE whole.ok /\ BlocksMatch(p.x, layout, first.k, 0, Times(scaled, whole.v))

(* Mixing weights of the committed experts, which must be the best scored, *)
(* best first, and distinct.                                               *)
route_weights(scores, bias, ids, scale) ==
    LET sel(i) == At(scores, i) + At(bias, i)
        sum == Total([s \in DOMAIN ids |-> At(scores, ids[s])])
    IN IF Len(scores) # Len(bias) \/ ids = << >> \/ Len(ids) > Len(scores) THEN None
       ELSE IF /\ \A s \in DOMAIN ids : ids[s] < Len(scores)
               /\ IsInjective(ids)
               /\ \A s \in 1..(Len(ids) - 1) : sel(ids[s + 1]) <= sel(ids[s])
               /\ \A i \in (0..(Len(scores) - 1)) \ Range(ids) : sel(i) <= sel(ids[Len(ids)])
            THEN [ok |-> TRUE, w |-> [s \in DOMAIN ids |-> ((At(scores, ids[s]) + sum) * scale) % P]]
            ELSE None

(* MoeCheck::verify *)
MoeHolds(mf, seed, r, m, pos_root, dst, src) ==
    LET re == Entry(mf, r.ll.router)
        dim == Entry(mf, r.rank).m
        n_exp == re.m
        np == mf.n_products
        scores == whole_leaf(mf, pos_root, router_leaf(np, mf.n_layers, r.layer), m.scores, n_exp)
        bias == f32_weights(mf, m.bias, r.ll.probs_bias, n_exp, 0, n_exp)
        body == mf.n_used * dim
        total == body + mf.n_used
        y_leaf == 2 * r.ll.down_exps + 1
        ids == Cut(m.ids.chunk, 0, mf.n_used)
        w == route_weights(scores.v, bias.v, ids, r.ll.w_scale)
        h == whole_leaf(mf, pos_root, resid_leaf(np, r.layer, "attn"), m.resid, dim)
        norm == f32_weights(mf, m.norm, r.ll.ffn_norm, dim, 0, dim)
        row == seed[RESID_POINT].d3 % n_exp
        wr == open_bytes(mf, re, m.router_row.range, row * dim, dim)
        ys == [sl \in 1..mf.n_used |-> checked_chunk(mf, pos_root, y_leaf, m.slots[sl], total, (sl - 1) * (dim \div CE) + r.c)]
        sh == checked_chunk(mf, pos_root, 2 * r.rank + 1, m.shexp, dim, r.c)
    IN /\ mf.n_used > 0 /\ Len(m.slots) = mf.n_used
       /\ open_entry(mf, m.router_row.entry, r.ll.router) /\ re.role = "router" /\ re.k = dim
       /\ scores.ok /\ bias.ok /\ dim % CE = 0 /\ m.ids.ok /\ Len(m.ids.chunk) >= mf.n_used
       /\ b3_verify(pos_root, n_leaves(mf), y_leaf,
                    b3_leaf_from_chunk(total, body \div CE, m.ids.chunk, m.ids.path), m.slots[1].leaf_path)
       /\ w.ok /\ h.ok /\ norm.ok /\ wr.ok
       /\ At(scores.v, row) = Total(Times(wr.v, Times(rms_scaled(h.v, 1), norm.v)))
       /\ sh.ok /\ \A sl \in 1..mf.n_used : ys[sl].ok /\ Len(ys[sl].v) = Len(dst)
       /\ Len(sh.v) = Len(dst) /\ Len(src) = Len(dst)
       /\ \A j \in DOMAIN dst :
            dst[j] = (sh.v[j] + src[j] + Total([sl \in 1..mf.n_used |-> (w.w[sl] * ys[sl].v[j]) % P])) % P

residual_link(dst, add, src, scale) ==
    /\ dst # << >> /\ Len(dst) = Len(add) /\ Len(dst) = Len(src)
    /\ \A j \in DOMAIN dst : dst[j] = (scale * (add[j] + src[j])) % P

layer_role(role, trimmed) == role = "product" \/ (trimmed /\ role = "output")

(* The position root the residual point folds to. *)
ResidRoot(mf, r, p) ==
    b3_fold(n_leaves(mf), resid_leaf(mf.n_products, r.layer, r.kind),
            chunk_leaf(p.dst, Entry(mf, r.rank).m, r.c), p.dst.leaf_path)

ResidPointHolds(mf, resp, seed, p, r, pos_root) ==
    LET nl == n_leaves(mf)
        pe == Entry(mf, r.rank)
        off == r.c * CE
        n == Len(p.dst.chunk)
        e == embedding(mf, p.src.w, p.tok, pe.m)
        src == IF src_leaf(mf, r) = NONE
               THEN IF p.src.kind # "token" THEN None
                    ELSE IF ~e.ok THEN None
                    ELSE [ok |-> TRUE, v |-> [j \in 1..n |-> (e.v[off + j] * mf.embd_scale) % P]]
               ELSE IF p.src.kind # "chunk" THEN None
               ELSE checked_chunk(mf, pos_root, src_leaf(mf, r), p.src.c, pe.m, r.c)
        chunk == checked_chunk(mf, pos_root, 2 * r.rank + 1, p.add.c, pe.m, r.c)
        y == whole_leaf(mf, pos_root, 2 * r.rank + 1, p.add.y, pe.m)
        w == f32_weights(mf, p.add.norm, r.post, pe.m, off, n)
    IN /\ resp.n_pos > 0 /\ mf.n_layers > 0
       /\ open_entry(mf, p.layer, mf.layer_base + r.layer) /\ p.layer.entry.role = "layer" /\ r.ll.layer = r.layer
       /\ open_entry(mf, p.product, r.rank) /\ pe.form = "none" /\ pe.n_exp = 1
       /\ layer_role(pe.role, mf.trim_last /\ r.layer + 1 = mf.n_layers)
       /\ p.n_ubatch = expected_ubatch(r.t, resp.n_prompt)
       /\ b3_verify(resp.root, resp.n_pos, r.t, pos_root, p.pos_path)
       /\ b3_verify(pos_root, nl, nl - 1, meta_hash(mf, r.t, p.n_ubatch, p.tok), p.meta_path)
       /\ src.ok /\ r.moe = (p.add.kind = "moe")
       /\ IF r.moe THEN MoeHolds(mf, seed, r, p.add, pos_root, p.dst.chunk, src.v)
          ELSE LET scale == IF r.ll.scale = NONE \/ r.kind = "attn" THEN 1 ELSE r.ll.scale IN
               IF r.post = NONE
               THEN p.add.kind = "chunk" /\ chunk.ok /\ residual_link(p.dst.chunk, chunk.v, src.v, scale)
               ELSE /\ p.add.kind = "normed" /\ y.ok /\ w.ok
                    /\ residual_link(p.dst.chunk, Times(Cut(rms_scaled(y.v, 1), off, n), w.v), src.v, scale)

verify_resid_point(mf, resp, seed, p, r) == ResidPointHolds(mf, resp, seed, p, r, ResidRoot(mf, r, p))

(* y is row row of expert exp of product rank, over its committed input. *)
feed_row(mf, pos_root, n_ubatch, rank, exp, slot, n_slots, row, y, f, bias) ==
    LET e == Entry(mf, rank)
        layout == input_layout(e.role, n_ubatch, e.wtype)
        x == InputOf(f.x, e.k, slot)
        w == open_expert_row(mf, e, f.row, exp, row)
        be == Entry(mf, e.bias)
        b == open_bytes(mf, be, bias.range, row, 1)
    IN /\ Len(f.x) = x_len(e.k) \/ (n_slots > 1 /\ Len(f.x) = n_slots * x_len(e.k))
       /\ b3_verify(pos_root, n_leaves(mf), 2 * rank, <<"x", f.x>>, f.x_path)
       /\ sums_consistent(x, layout, e.k) /\ w.ok
       /\ IF e.bias = NONE THEN ~bias.ok /\ y = canonical_dot(w.v, e.k, x)
          ELSE /\ bias.ok /\ n_slots = 1 /\ open_entry(mf, bias.entry, e.bias) /\ be.role = "bias" /\ be.k = e.m /\ b.ok
               /\ y = (canonical_dot(w.v, e.k, x) + b.v[1]) % P

ResidOpeningHolds(mf, resp, seed, op, r, pos_root) ==
    LET p == op.resid
        d == seed[RESID_POINT]
        dim == Entry(mf, r.rank).m
        row == FeedRowOf(d, r.c, dim)
        y == CASE p.add.kind = "chunk" -> At(p.add.c.chunk, row - r.c * CE)
               [] p.add.kind = "normed" -> At(p.add.y.bytes, row)
               [] OTHER -> At(p.add.shexp.chunk, row - r.c * CE)
        de == Entry(mf, r.ll.down_exps)
        slot == d.top % Most(mf.n_used, 1)
    IN /\ verify_resid_point(mf, resp, seed, p, r)
       /\ feed_row(mf, pos_root, p.n_ubatch, r.rank, 0, 0, 1, row, y, op.feed, op.feed.bias)
       /\ op.expert.ok = (p.add.kind = "moe")
       /\ op.expert.ok =>
            /\ open_entry(mf, op.expert.entry, r.ll.down_exps) /\ de.form = "none" /\ de.n_exp >= 2 /\ de.m = dim
            /\ layer_role(de.role, mf.trim_last /\ r.layer + 1 = mf.n_layers)
            /\ feed_row(mf, pos_root, p.n_ubatch, r.ll.down_exps, At(p.add.ids.chunk, slot), slot, mf.n_used, row,
                        At(p.add.slots[slot + 1].chunk, row - r.c * CE), op.expert, None)

verify_resid_opening(mf, resp, seed, op) ==
    LET r == resid_draw(mf, resp, seed[RESID_POINT]) IN
    ResidOpeningHolds(mf, resp, seed, op, r, ResidRoot(mf, r, op.resid))

verify_chain_opening(mf, pctx, resp, seed, request, op) ==
    /\ Len(op.points) = POINTS /\ Len(op.links) = POINTS
    /\ \A i \in 1..POINTS : verify_chain_point(mf, resp, seed, i - 1, op.points[i], op.toks[i], op.links[i], op.experts[i])
    /\ verify_prefix_point_at(mf, pctx, resp, seed, request, op.prefix)
    /\ verify_resid_opening(mf, resp, seed, op)

-----------------------------------------------------------------------------
(* What the openings promise.  leaves are those the engine recorded.       *)

Replayed(mf, rec, d) == [tl \in captures(mf, d) |-> At(At(rec.root, tl[1]), tl[2])[2]]
OpenedWith(mf, pctx, rec, seed, request, d, caps) ==
    IF captures_match(rec, caps) THEN chain_opening(mf, pctx, rec, seed, request, d, caps) ELSE None
OpenedAt(mf, pctx, rec, seed, request, d) ==
    IF d.ok THEN OpenedWith(mf, pctx, rec, seed, request, d, Replayed(mf, rec, d)) ELSE None
Opened(mf, pctx, rec, seed, request) ==
    OpenedAt(mf, pctx, rec, seed, request, draw_chain(mf, pctx, rec, seed))
Accepted(mf, pctx, rec, seed, request, op) == op.ok /\ verify_chain_opening(mf, pctx, rec, seed, request, op)

(* The opening of an honestly computed response passes every check,        *)
(* whatever the draw: trace.rs replays, captures and opens, and would      *)
(* forfeit the response's deposit if its own opening were refused.  A      *)
(* response that commits a wrong value at a place the draw opens (an       *)
(* output row, a block of a linked input, a residual chunk) has no opening *)
(* that passes: the chain of checks ties each opened value to the weights  *)
(* and to the leaves it was computed from.                                 *)
HonestAloneOpens(mf, pctx, rec, cheats, seed, request) ==
    \A c \in {rec} \cup cheats :
        Accepted(mf, pctx, c, seed, request, Opened(mf, pctx, c, seed, request)) <=> c = rec
=============================================================================
