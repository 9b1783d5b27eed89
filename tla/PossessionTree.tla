--------------------------- MODULE PossessionTree ---------------------------
(***************************************************************************)
(* The possession index of a model: the canonical chunk stream of a GGUF,  *)
(* its sparse checkpoint Merkle tree, the inclusion paths read from it,    *)
(* the v4 walk witness built and re-checked against it, and the v5 walk,   *)
(* which interleaves weight tiles with tiles of a context pad that nobody  *)
(* transmits because both sides derive it (pom.rs, pom_v4.rs, pom_v5.rs,   *)
(* gguf.rs).                                                               *)
(*                                                                         *)
(* Hashing is free: blake wraps its argument, hash_pair pairs its two, so  *)
(* two nodes are equal only if they were built alike.  A chunk of the file *)
(* is named by its byte offset.  A model `m' is the sequence of its        *)
(* tensors in name order, each [file_off, nbytes].  TLC takes K = 2: a     *)
(* tile is four chunks and every second level is stored.                   *)
(***************************************************************************)
EXTENDS Integers, Sequences, SequencesExt, FiniteSetsExt, FiniteSets, TLC

CONSTANTS
    K,        \* CHECKPOINT_INTERVAL = POM_V4_TILE_SUBTREE_DEPTH
    Block,    \* bytes of a chunk (32)
    Steps,    \* POM_V4_K, steps of a walk
    PadTilesH14, PadTilesH16,   \* POM_V5_PAD_TILES_*: pad tiles of each tier, from tier 0
    PadGate                     \* pad_margin_activation_daa

Pow2(e) == 2^e
DivCeil(a, b) == (a + b - 1) \div b

blake(chunk) == <<chunk>>
hash_pair(l, r) == <<l, r>>

(* One canonical level up: neighbours are paired, a last lone node with itself. *)
PairUp(level) ==
    [i \in 1..DivCeil(Len(level), 2) |->
        hash_pair(level[2*i - 1], IF 2*i <= Len(level) THEN level[2*i] ELSE level[2*i - 1])]

RECURSIVE FoldTimes(_, _)
FoldTimes(level, rounds) == IF rounds = 0 THEN level ELSE FoldTimes(PairUp(level), rounds - 1)

RECURSIVE merkle_root(_)
merkle_root(level) == IF Len(level) = 1 THEN level[1] ELSE merkle_root(PairUp(level))

(* Exactly `rounds' levels up, a lone node carried by hash(x, x). *)
fold_levels(batch, rounds) == FoldTimes(batch, rounds)[1]

RECURSIVE merkle_proof(_, _)
merkle_proof(level, idx) ==
    IF Len(level) = 1 THEN << >>
    ELSE LET sib == IF idx % 2 = 0 THEN idx + 1 ELSE idx - 1 IN
         <<IF sib < Len(level) THEN level[sib + 1] ELSE level[idx + 1]>>
            \o merkle_proof(PairUp(level), idx \div 2)

RECURSIVE verify_merkle(_, _, _, _)
verify_merkle(acc, idx, path, root) ==
    IF path = << >> THEN acc = root
    ELSE verify_merkle(IF idx % 2 = 0 THEN hash_pair(acc, Head(path)) ELSE hash_pair(Head(path), acc),
                       idx \div 2, Tail(path), root)

-----------------------------------------------------------------------------
(* The chunk stream. *)

(* GgufMeta::read_header: a header `h' lists its tensors [name, rows, ne0, *)
(* block, ts, offset], in file order; `pos' is where the header ends.       *)
(* Rows that are not whole blocks make it unreadable.                      *)
HeaderReads(h) == \A i \in DOMAIN h.tensors : h.tensors[i].ne0 % h.tensors[i].block = 0

tensor_data_offset(h) == DivCeil(h.pos, h.alignment) * h.alignment

nbytes(t) == ((t.ne0 * t.rows) \div t.block) * t.ts

(* sorted_names, each with its place and size in the file. *)
sorted_names(h) ==
    LET sorted == SortSeq(h.tensors, LAMBDA s, t : s.name < t.name) IN
    [i \in DOMAIN sorted |->
        [file_off |-> tensor_data_offset(h) + sorted[i].offset, nbytes |-> nbytes(sorted[i])]]

required_file_len(h) ==
    Max({tensor_data_offset(h)} \cup
        {tensor_data_offset(h) + h.tensors[i].offset + nbytes(h.tensors[i]) : i \in DOMAIN h.tensors})

completeness_reason(h, file_len) ==
    IF ~HeaderReads(h) THEN "not a parseable GGUF header"
    ELSE IF file_len < required_file_len(h) THEN "incomplete/truncated"
    ELSE "none"

Full(t) == t.nbytes \div Block

n_chunks(m) == FoldSeq(LAMBDA t, n : n + Full(t), 0, m)

(* (first canonical chunk, file offset) of every tensor with a whole chunk. *)
ChunkTable(m) ==
    LET starts == [i \in DOMAIN m |-> n_chunks(SubSeq(m, 1, i - 1))]
        rows == [i \in DOMAIN m |-> [start |-> starts[i], file_off |-> m[i].file_off, full |-> Full(m[i])]]
    IN SelectSeq(rows, LAMBDA r : r.full > 0)

(* partition_point(start <= off) - 1 *)
TensorOf(table, off) == Cardinality({j \in DOMAIN table : table[j].start <= off})

read_chunk_bytes(table, off) ==
    LET row == table[TensorOf(table, off)] IN row.file_off + (off - row.start) * Block

RECURSIVE FillFrom(_, _, _, _, _)
FillFrom(table, total, j, off, left) ==
    IF left = 0 THEN << >>
    ELSE LET end == IF j < Len(table) THEN table[j + 1].start ELSE total
             n == IF end - off < left THEN end - off ELSE left
         IN [i \in 1..n |-> table[j].file_off + (off - table[j].start + i - 1) * Block]
              \o FillFrom(table, total, j + 1, off + n, left - n)

(* One read per overlapped tensor. *)
read_chunks_into(table, total, first, count) ==
    FillFrom(table, total, TensorOf(table, first), first, count)

Leaves(table, total) ==
    LET chunks == read_chunks_into(table, total, 0, total) IN [i \in 1..total |-> blake(chunks[i])]

-----------------------------------------------------------------------------
(* The sparse tree file: every K-th level and the root, bottom up. *)

RECURSIVE count_at_level(_, _)
count_at_level(n, level) == IF level = 0 THEN n ELSE DivCeil(count_at_level(n, level - 1), 2)

TotalLevels(n) == 1 + CHOOSE l \in 0..n : count_at_level(n, l) = 1 /\ \A h \in 0..(l - 1) : count_at_level(n, h) # 1

compute_checkpoint_offsets(n) ==
    LET top == TotalLevels(n) - 1
        levels == SelectSeq([l \in 1..(top + 1) |-> l - 1], LAMBDA l : (l > 0 /\ l % K = 0) \/ l = top)
        counts == [i \in DOMAIN levels |-> count_at_level(n, levels[i])]
    IN [i \in DOMAIN levels |->
          [level |-> levels[i], count |-> counts[i],
           offset |-> FoldSeq(LAMBDA c, s : c + s, 0, SubSeq(counts, 1, i - 1))]]

(* `nodes' in consecutive batches of 2^rounds, each folded `rounds' levels. *)
FoldBatches(nodes, rounds) ==
    LET b == Pow2(rounds) IN
    [i \in 1..DivCeil(Len(nodes), b) |->
        fold_levels(SubSeq(nodes, (i - 1)*b + 1, IF i*b < Len(nodes) THEN i*b ELSE Len(nodes)), rounds)]

RECURSIVE UpperLevels(_, _, _)
UpperLevels(file, cps, i) ==
    IF i > Len(cps) THEN file
    ELSE LET prev == cps[i - 1]
             nodes == SubSeq(file, prev.offset + 1, prev.offset + prev.count)
         IN UpperLevels(file \o FoldBatches(nodes, cps[i].level - prev.level), cps, i + 1)

(* The levels above the first stored one, and R_T from the last one's place. *)
finalize_checkpoint_upper(file, n) ==
    LET cps == compute_checkpoint_offsets(n)
        done == UpperLevels(file, cps, 2)
    IN [file |-> done, checkpoints |-> cps, r_t |-> done[cps[Len(cps)].offset + 1]]

IndexOf(table, n, tree) ==
    [table |-> table, n |-> n, total_levels |-> TotalLevels(n),
     tree_file |-> tree.file, checkpoints |-> tree.checkpoints, r_t |-> tree.r_t]
build_tree_to(m) ==
    LET table == ChunkTable(m)
        n == n_chunks(m)
    IN IndexOf(table, n, finalize_checkpoint_upper(FoldBatches(Leaves(table, n), K), n))

find_checkpoint(idx, level) ==
    idx.checkpoints[CHOOSE i \in DOMAIN idx.checkpoints : idx.checkpoints[i].level = level]

StoredNode(idx, cp, i) == idx.tree_file[cp.offset + i + 1]

(* The node `log2(span)' levels above src_level, from the stored or leaf nodes below it. *)
compute_subtree_hash(idx, start, rounds, src_level) ==
    LET span == Pow2(rounds)
        count == IF src_level = 0 THEN idx.n ELSE find_checkpoint(idx, src_level).count
        end == IF start + span < count THEN start + span ELSE count
        nodes == IF src_level = 0
                 THEN LET chunks == read_chunks_into(idx.table, idx.n, start, end - start)
                      IN [i \in DOMAIN chunks |-> blake(chunks[i])]
                 ELSE [i \in 1..(end - start) |-> StoredNode(idx, find_checkpoint(idx, src_level), start + i - 1)]
    IN fold_levels(nodes, rounds)

(* The sibling of node i at a level, the node itself past the right edge. *)
Sibling(idx, level, i) ==
    LET sib == IF i % 2 = 0 THEN i + 1 ELSE i - 1
        in_range == IF sib < count_at_level(idx.n, level) THEN sib ELSE i
        src == (level \div K) * K
    IN IF level > 0 /\ level % K = 0
       THEN StoredNode(idx, find_checkpoint(idx, level), in_range)
       ELSE compute_subtree_hash(idx, in_range * Pow2(level - src), level - src, src)

merkle_path_from_level(idx, off, first_level) ==
    [j \in 1..(idx.total_levels - 1 - first_level) |->
        Sibling(idx, first_level + j - 1, off \div Pow2(first_level + j - 1))]

(* The opt-in resident tree: every level in memory. *)
build_dense(idx) == [l \in 1..idx.total_levels |-> FoldTimes(Leaves(idx.table, idx.n), l - 1)]

DensePath(dense, off, first_level) ==
    [j \in 1..(Len(dense) - 1 - first_level) |->
        LET level == dense[first_level + j]
            i == off \div Pow2(first_level + j - 1)
            sib == IF i % 2 = 0 THEN i + 1 ELSE i - 1
        IN IF sib < Len(level) THEN level[sib + 1] ELSE level[i + 1]]

-----------------------------------------------------------------------------
(* The int8 dot product of a 32-byte state row and tile column, as the     *)
(* scalar loop and each vector unit add it up.  Rows are functions on      *)
(* 0..31 of bytes.                                                         *)

I8(b) == IF b >= 128 THEN b - 256 ELSE b
Prod(row, col, i) == I8(row[i]) * I8(col[i])
SumOver(S, f(_)) == FoldSet(LAMBDA i, n : f(i) + n, 0, S)

dot_i8_scalar(row, col) == SumOver(0..31, LAMBDA i : Prod(row, col, i))

(* madd_epi16: neighbouring products added into 32-bit lanes. *)
Madd(row, col, base, j) == Prod(row, col, base + 2*j) + Prod(row, col, base + 2*j + 1)

(* The horizontal sum: lanes 8 bytes up, then 4 bytes up, then lane 0. *)
LaneSum(s) ==
    LET a == [j \in 0..3 |-> s[j] + (IF j + 2 <= 3 THEN s[j + 2] ELSE 0)]
        b == [j \in 0..3 |-> a[j] + (IF j + 1 <= 3 THEN a[j + 1] ELSE 0)]
    IN b[0]

dot_i8_avx2(row, col) ==
    LET sum == [j \in 0..7 |-> Madd(row, col, 0, j) + Madd(row, col, 16, j)]
    IN LaneSum([j \in 0..3 |-> sum[j] + sum[j + 4]])

dot_i8_sse41(row, col) ==
    LaneSum([j \in 0..3 |-> SumOver({0, 8, 16, 24}, LAMBDA off : Madd(row, col, off, j))])

(* Widening multiplies of four lanes each, added lane by lane, then across. *)
dot_i8_neon(row, col) ==
    LET half(base) == [j \in 0..3 |-> SumOver({0, 4, 8, 12}, LAMBDA q : Prod(row, col, base + q + j))]
    IN SumOver(0..3, LAMBDA j : half(0)[j] + half(16)[j])

-----------------------------------------------------------------------------
(* The v4 walk witness.  The mixing functions are free apart from the      *)
(* offsets they draw, which are spread over the tiles.                     *)

TileChunks == Pow2(K)

v4_first_offset(seed, n_tiles) == (7 * seed + 3) % n_tiles
v4_next_offset(seed, step, snippet, n_tiles) == (seed + 5 * step + 3 * snippet) % n_tiles
v4_initial_state(seed) == <<seed>>
v4_transition(state, tile, step) == <<state, tile, step>>
v4_state_root(state) == blake(state)
v4_tile_subtree_root(tile) == merkle_root([i \in DOMAIN tile |-> blake(tile[i])])

RECURSIVE WalkFrom(_, _, _, _, _)
WalkFrom(idx, seed, step, off, state) ==
    LET n_tiles == idx.n \div TileChunks
        tile == read_chunks_into(idx.table, idx.n, off * TileChunks, TileChunks)
        path == merkle_path_from_level(idx, off * TileChunks, K)
        next == v4_transition(state, tile, step)
    IN IF step = Steps
       THEN [tiles |-> <<tile>>, merkle |-> <<path>>, final |-> v4_state_root(next)]
       ELSE LET rest == WalkFrom(idx, seed, step + 1, v4_next_offset(seed, step, tile[1], n_tiles), next)
            IN [tiles |-> <<tile>> \o rest.tiles, merkle |-> <<path>> \o rest.merkle, final |-> rest.final]

(* Refused for a blob of less than a tile. *)
build_proof_v4(seed, idx) ==
    WalkFrom(idx, seed, 1, v4_first_offset(seed, idx.n \div TileChunks), v4_initial_state(seed))

RECURSIVE CheckFrom(_, _, _, _, _, _, _)
CheckFrom(proof, r_t, n, seed, step, off, state) ==
    LET n_tiles == n \div TileChunks
        tile == proof.tiles[step]
        next == v4_transition(state, tile, step)
    IN IF Len(tile) # TileChunks \/ ~verify_merkle(v4_tile_subtree_root(tile), off, proof.merkle[step], r_t)
       THEN [ok |-> FALSE, final |-> << >>]
       ELSE IF step = Steps THEN [ok |-> TRUE, final |-> v4_state_root(next)]
       ELSE CheckFrom(proof, r_t, n, seed, step + 1, v4_next_offset(seed, step, tile[1], n_tiles), next)

verify_proof_v4(seed, proof, r_t, n) ==
    IF Len(proof.tiles) # Steps \/ Len(proof.merkle) # Steps \/ n \div TileChunks = 0
    THEN [ok |-> FALSE, final |-> << >>]
    ELSE CheckFrom(proof, r_t, n, seed, 1, v4_first_offset(seed, n \div TileChunks), v4_initial_state(seed))

-----------------------------------------------------------------------------
(* A file that staging adopts as complete holds every chunk the index will *)
(* ever read: the coverage gguf.rs computes from its header bounds the     *)
(* reads pom.rs derives from the same header.                              *)
CompleteIsReadable(h, file_len) ==
    LET m == sorted_names(h) IN
    completeness_reason(h, file_len) = "none" =>
        \A c \in 0..(n_chunks(m) - 1) : read_chunk_bytes(ChunkTable(m), c) + Block <= file_len

(* The root the sparse build computes batch by batch is the canonical      *)
(* duplicate-last root of the leaves, and every inclusion path, from every *)
(* level, is the dense one and leads to that root, partial batches and     *)
(* lone nodes included (the build refuses no length; the walk needs at     *)
(* least one tile, and so does this).                                      *)
PathsOf(idx, dense, leaves) ==
        /\ idx.r_t = merkle_root(leaves)
        /\ \A off \in 0..(idx.n - 1) :
            /\ merkle_path_from_level(idx, off, 0) = merkle_proof(leaves, off)
            /\ \A first \in 0..(idx.total_levels - 1) :
                  LET path == merkle_path_from_level(idx, off, first)
                      node == dense[first + 1][off \div Pow2(first) + 1]
                  IN /\ path = DensePath(dense, off, first)
                     /\ verify_merkle(node, off \div Pow2(first), path, idx.r_t)
PathsAreCanonical(idx) ==
    PathsOf(idx, build_dense(idx), [i \in 1..idx.n |-> blake(read_chunk_bytes(idx.table, i - 1))])

(* "Result is bit-identical on every path": the vector units and the       *)
(* scalar loop agree on every row and column.                              *)
DotsAgree(row, col) ==
    /\ dot_i8_avx2(row, col) = dot_i8_scalar(row, col)
    /\ dot_i8_sse41(row, col) = dot_i8_scalar(row, col)
    /\ dot_i8_neon(row, col) = dot_i8_scalar(row, col)

(* A witness the miner builds passes its own pre-submit check with the     *)
(* same final state, and one with any of its tiles exchanged for another   *)
(* tile of the model does not.                                             *)
ProofIsChecked(idx, seed, proof) ==
        /\ verify_proof_v4(seed, proof, idx.r_t, idx.n) = [ok |-> TRUE, final |-> proof.final]
        /\ \A step \in 1..Steps, t \in 0..(idx.n \div TileChunks - 1) :
              LET other == read_chunks_into(idx.table, idx.n, t * TileChunks, TileChunks) IN
              other # proof.tiles[step] =>
                ~verify_proof_v4(seed, [proof EXCEPT !.tiles[step] = other], idx.r_t, idx.n).ok
WitnessIsChecked(idx, seed) == ProofIsChecked(idx, seed, build_proof_v4(seed, idx))

-----------------------------------------------------------------------------
(***************************************************************************)
(* The v5 walk.  Tile offsets below the weight tiles are weight tiles, the *)
(* ones above are pad tiles.  The ARX rounds of a pad entry are free:      *)
(* entry `index' of the pad is the number -1 - index, apart from every     *)
(* chunk of the file.                                                      *)
(***************************************************************************)

pom_v5_pad_tiles(tier, daa) ==
    LET table == IF daa >= PadGate THEN PadTilesH16 ELSE PadTilesH14 IN
    IF tier < Len(table) THEN table[tier + 1] ELSE 0

pad_entry_into(index) == -1 - index

v5_pad_tile(tile) == [k \in 1..TileChunks |-> pad_entry_into(tile * TileChunks + k - 1)]

v5_pad_steps(weight_tiles, pad_tiles) ==
    LET n == weight_tiles + pad_tiles
        share == (Steps * pad_tiles + n \div 2) \div n
    IN IF share < 1 THEN 1 ELSE IF share > Steps - 1 THEN Steps - 1 ELSE share

v5_is_pad_step(step, pad_steps) ==
    (step * pad_steps) \div Steps # ((step - 1) * pad_steps) \div Steps

(* Any number that depends on the whole state. *)
RECURSIVE v5_state_fold(_)
v5_state_fold(state) ==
    IF Len(state) = 1 THEN state[1] ELSE 3 * v5_state_fold(state[1]) + state[2][1] + state[3]

v5_first_offset(seed, weight_tiles) == v4_first_offset(seed, weight_tiles)

v5_next_offset(seed, step, snippet, state_fold, weight_tiles, pad_tiles, pad_steps) ==
    LET raw == seed + 5 * (step + 1) + 3 * snippet + state_fold IN
    IF v5_is_pad_step(step + 1, pad_steps) THEN weight_tiles + (raw % pad_tiles) ELSE raw % weight_tiles

(* The walk both sides run: `fetch(step, off)' gives [ok, tile], an empty  *)
(* tile standing for a position the pad fills.  The walk of an index and   *)
(* the walk of a proof differ in nothing else.  `visited' is history: the  *)
(* offsets in order.                                                       *)
RECURSIVE WalkV5From(_, _, _, _, _, _, _)
WalkV5From(seed, weights, pads, fetch, step, off, state) ==
    LET got == fetch[step][off]
        tile == IF got.tile = << >> THEN v5_pad_tile(off - weights) ELSE got.tile
        next == v4_transition(state, tile, step)
    IN IF ~got.ok THEN [ok |-> FALSE, final |-> << >>, visited |-> << >>]
       ELSE IF step = Steps THEN [ok |-> TRUE, final |-> v4_state_root(next), visited |-> <<off>>]
       ELSE LET to == v5_next_offset(seed, step, tile[1], v5_state_fold(state), weights, pads,
                                     v5_pad_steps(weights, pads))
                rest == WalkV5From(seed, weights, pads, fetch, step + 1, to, next)
            IN [rest EXCEPT !.visited = <<off>> \o @]

walk(seed, weights, pads, fetch) ==
    IF weights = 0 \/ pads = 0 THEN [ok |-> FALSE, final |-> << >>, visited |-> << >>]
    ELSE WalkV5From(seed, weights, pads, fetch, 1, v5_first_offset(seed, weights), v4_initial_state(seed))

WeightTile(idx, off) == read_chunks_into(idx.table, idx.n, off * TileChunks, TileChunks)

(* Weight tiles with their paths, and empty places where the pad is read.  *)
build_proof_v5(seed, idx, pads) ==
    LET weights == idx.n \div TileChunks
        read == [off \in 0..(weights + pads - 1) |->
                    [ok |-> TRUE, tile |-> IF off < weights THEN WeightTile(idx, off) ELSE << >>]]
        w == walk(seed, weights, pads, [step \in 1..Steps |-> read])
    IN [ok |-> w.ok, final |-> w.final, visited |-> w.visited,
        tiles |-> [i \in DOMAIN w.visited |-> read[w.visited[i]].tile],
        merkle |-> [i \in DOMAIN w.visited |->
            IF w.visited[i] < weights
            THEN merkle_path_from_level(idx, w.visited[i] * TileChunks, K)
            ELSE << >>]]

(* What verify_proof_v5 takes for step i: a weight tile that its range     *)
(* proof ties to R_T, or a pad position that carries nothing.              *)
Fetched(proof, r_t, weights, i, off) ==
    IF off < weights
    THEN [ok |-> /\ Len(proof.tiles[i]) = TileChunks
                 /\ verify_merkle(v4_tile_subtree_root(proof.tiles[i]), off, proof.merkle[i], r_t),
          tile |-> proof.tiles[i]]
    ELSE [ok |-> proof.tiles[i] = << >> /\ proof.merkle[i] = << >>, tile |-> << >>]

verify_proof_v5(seed, proof, r_t, n, pads) ==
    LET weights == n \div TileChunks IN
    IF Len(proof.tiles) # Steps \/ Len(proof.merkle) # Steps
    THEN [ok |-> FALSE, final |-> << >>, visited |-> << >>]
    ELSE walk(seed, weights, pads,
              [i \in 1..Steps |-> [off \in 0..(weights + pads - 1) |-> Fetched(proof, r_t, weights, i, off)]])

-----------------------------------------------------------------------------
(* Whatever the shares of weights and pad, exactly pad_steps of a walk's   *)
(* steps read the pad, the first never does (its offset is drawn over the  *)
(* weights alone), and at least one step reads each side.                  *)
PadStepsAreExact(weights, pads) ==
    LET steps == v5_pad_steps(weights, pads)
        padded == {s \in 1..Steps : v5_is_pad_step(s, steps)}
    IN weights > 0 /\ pads > 0 =>
        Cardinality(padded) = steps /\ 1 \notin padded /\ steps \in 1..(Steps - 1)

(* A v5 witness passes the miner's pre-submit check with its own final     *)
(* state; each step reads the side its number calls for; and a witness     *)
(* with a tile exchanged, emptied or put into a pad position is refused.   *)
(* A tier without a pad gives no witness.                                  *)
PadProofIsChecked(idx, seed, pads, proof) ==
    LET weights == idx.n \div TileChunks
        Verdict(p) == verify_proof_v5(seed, p, idx.r_t, idx.n, pads)
        others == {<< >>, v5_pad_tile(0)} \cup {WeightTile(idx, t) : t \in 0..(weights - 1)}
    IN  /\ proof.ok = (pads > 0)
        /\ proof.ok =>
            /\ Verdict(proof).ok /\ Verdict(proof).final = proof.final
            /\ \A s \in 1..Steps :
                 (proof.visited[s] >= weights) <=> v5_is_pad_step(s, v5_pad_steps(weights, pads))
            /\ \A s \in 1..Steps, other \in others :
                 other # proof.tiles[s] => ~Verdict([proof EXCEPT !.tiles[s] = other]).ok
PadWitnessIsChecked(idx, seed, pads) == PadProofIsChecked(idx, seed, pads, build_proof_v5(seed, idx, pads))
=============================================================================
