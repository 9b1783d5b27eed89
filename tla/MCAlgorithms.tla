---------------------------- MODULE MCAlgorithms ----------------------------
(* The algorithms, each over a bounded set of inputs: an action picks one  *)
(* input, the invariants hold the algorithm against its reference.  Beside *)
(* them, parts that step: the launches of a walk, and the start and the    *)
(* stop of the miner.  Three workers are dropped; two cards and one asking *)
(* thread pass the start-up gate, whose windows are in the order of the    *)
(* defaults (10 s < 120 s < 2700 s); one thread stages a model; two        *)
(* processes share a possession tree.                                      *)
(*                                                                         *)
(* The traces are those of a small network of two layers, the second with  *)
(* experts, over five tokens; the inference engine that writes them is     *)
(* external, and is given here.                                            *)
EXTENDS TraceOpening, TLC

CONSTANTS Nil, LastSeed

VARIABLES
    input,      \* the input that was picked, its kind in the field k, or the part that steps
    manifest, record,    \* a manifest and the record of a trace under it
    worker, table, tables, model, held, tune, want, probed, caps, offsets, seeds, prefetch,
    handles, joining, exiting, kill_switch, watcher, waited, signalled, clearedAt,
    now, firstReg, registered, ready, opened, installed, card, asked,
    disk, ok, task, faults,
    inode, tmp, cache, sidecar, lock, private, proc, killed, slow, robbed

launch == <<worker, table, tables, model, held, tune, want, probed, caps, offsets, seeds, prefetch>>
drop == <<handles, joining, exiting, kill_switch, watcher, waited, signalled, clearedAt>>
gate == <<now, firstReg, registered, ready, opened, installed, card, asked>>
files == <<disk, ok, task, faults>>
trees == <<inode, tmp, cache, sidecar, lock, private, proc, killed, slow, robbed>>

Plans == INSTANCE LaunchPlans WITH
    None <- Nil, Tile <- 4, Window <- 3, Npg <- 2, DefaultSub <- 4, Nonces <- 16, MaxBatch <- 6, V5Cap <- 6,
    Gib <- 8, Spread <- 3
Trees == INSTANCE PossessionTree WITH
    K <- 2, Block <- 8, Steps <- 4, PadGate <- 5, PadTilesH14 <- <<3, 7>>, PadTilesH16 <- <<2, 1>>
Codec == INSTANCE OpeningCodec WITH Chunk <- 2
Wire == INSTANCE WireFormats WITH
    MaxRecipients <- 3, MaxRequest <- 20, MaxBody <- 3, Byte <- 6, Base <- 4,
    Word <- 6, D1 <- 3, D1Exp <- 19, ByteBits <- 2, TargetBytes <- 12, NonceBytes <- 3, MaxLine <- 10
Launch == INSTANCE WalkLaunch WITH
    None <- Nil, off <- offsets, Works <- {"tc", "sidecar", "ncf"}, NcfDefault <- FALSE,
    Prefetch <- TRUE, Batches <- {1, 2},
    MaxJobs <- 2, MaxStart <- 3, MaxTables <- 2, MaxModel <- 2
Shutdown == INSTANCE WorkerShutdown WITH NumWorkers <- 3, GracePolls <- 3, worker <- exiting
Gate == INSTANCE WaitReady WITH
    Devices <- {"d1", "d2"}, Askers <- {"a1"}, Grace <- 1, NoWorker <- 2, Timeout <- 4, Horizon <- 6,
    worker <- card
Files == INSTANCE ModelFiles WITH
    Tasks <- {"t1"}, Size <- 3, Small <- 1, MaxAttempts <- 3, MaxFaults <- 4
Cache == INSTANCE TreeCache WITH
    Procs <- {"p1", "p2"}, None <- Nil, MaxInodes <- 3, MaxKills <- 2, MaxSlow <- 1

ASSUME WindowsAssumption == Shutdown!ShutdownAssumption /\ Gate!TimesAssumption

-----------------------------------------------------------------------------
(* Plans: the models of a rig, the tiles, kernels and launches of OpenCL.  *)

Rigs ==
    [k : {"rig"}, cards : {<< >>, <<1, 0>>},
     total : {(0 :> 9) @@ (1 :> 31), (0 :> 23) @@ (1 :> 16)},
     free : {(0 :> 9) @@ (1 :> 31), (0 :> 6) @@ (1 :> 16)},
     smi : {0, 9, 31}, selected : {<< >>, <<1>>, <<1, 0>>},
     forced : {<< >>, <<4>>, <<Nil, 1>>, <<3, 0>>}, pinned : {Nil, 3},
     ondisk : {{}, {"glm4"}, {"qwen3.6", "qwen3.5"}}, post : BOOLEAN]

Layouts == [k : {"layout"}, n : {0, 1, 3, 4, 5, 11, 12, 13, 17, 23, 26}, real : {3, 4, 6, 8, 12, 30},
            reported : {4, 8, 30}, slabs : 0..4, shift : {-1, 1, 2, 3}]
Kernels == [k : {"kernel"}, family : {"rdna3", "sdot4", "plain"},
            rejects : SUBSET {"wmma", "sudot4", "layout"},
            missing : SUBSET {"wmma", "wmma_sp", "wmma_1state"},
            mode : {"", "wmma", "wmma1", "tp", "tpwmma", "sp"},
            gfx1100 : BOOLEAN, no_dot : BOOLEAN, offsets : BOOLEAN]
Grinds == [k : {"grind"}, sub : {0, 1, 3, 5}, cap : {0, 2, 3}, fail : {0, 1, 2}, code : {-2, -3, 9},
           pause : {0, 1, 3}, base : {0, 9, 13}, batch : {0, 1, 5, 7},
           wins : {{}, {10}, {0, 12}, {9, 15}}]
Fills == [k : {"fill"}, n : 1..40]
Scopes == [k : {"scope"}, rx : {0, 5700, 9070}, gfx : {0, 803, 1010, 1100},
           ip : {<< >>, <<10, 1>>, <<11, 0>>}, mi : BOOLEAN, req : {"", "opencl", "vulkan"},
           abi : {0, 1}, devices : {<< >>, <<"a">>, <<"?">>, <<"a", "b">>},
           allow : {{"-"}, {}, {"a"}, {"b"}}, any : BOOLEAN]

Env == [slabs |-> 0, shift |-> -1, no_dot |-> FALSE, mode |-> "", sub |-> 0]
Device == [vram |-> 40, real |-> 40, reported |-> 40, family |-> "plain", rejects |-> {}, missing |-> {},
           gfx1100 |-> FALSE]
ByOrdinal(s) == [i \in 0..Len(s) - 1 |-> s[i + 1]]

(* Commitments: model files with odd tensors, and trees of every size.     *)

Models == [k : {"model"}, a : {0, 17, 40}, b : {3, 32, 67}, c : {0, 24}, seed : {1, 4}, tier : 0..2,
           daa : {4, 5}]
Ranges == {[k |-> "range", n |-> n, first |-> f, count |-> c] : n \in 1..9, f \in 0..8, c \in 1..9}
Rows == [k : {"row"}, p : 0..31, a : {0, 127, 128, 255}]

Tensor(name, ne0, rows, block, ts, offset) ==
    [name |-> name, ne0 |-> ne0, rows |-> rows, block |-> block, ts |-> ts, offset |-> offset]
Header(m) == [pos |-> 20, alignment |-> 16,
              tensors |-> <<Tensor(2, m.a, 1, 1, 1, 0), Tensor(3, m.b, 1, 1, 1, 48),
                            Tensor(1, m.c, 2, 4, 2, 128)>>]
Row(p, a, b) == [i \in 0..31 |-> IF i = p THEN a ELSE IF i % 3 = 0 THEN b ELSE (a + i) % 256]

(* Formats: openings, private requests and answers, and stratum lines.     *)

Openings == [k : {"opening"}, i : 0..60]
Requests == [k : {"request"}, s : 1..2, seed : 1..2, ms : (SUBSET (1..3)) \ {{}}, c : 0..5, nb : 0..2,
             nt : 0..2, hr : 0..1]
Lines == {[k |-> "line"]}
Difficulties == [k : {"difficulty"}, a : 4..7, b : (-18)..7]
Compacts == [k : {"compact"}, a : 0..31, b : 0..15, sign : BOOLEAN, d : {0, 1, 40, 8388607}]
Extranonces == [k : {"extranonce"}, a : 0..5, b : 0..5, c : 0..4]

RECURSIVE Sample(_, _)
Cells(k) == [i \in 1..(k % 3) |-> (5 * k + i) % 97]
Sample(f, k) ==
    CASE f.kind = "num" -> k % 101
      [] f.kind \in {"bytes", "hashes"} -> Cells(k)
      [] f.kind = "struct" -> [i \in DOMAIN f.of |-> Sample(f.of[i], (k + 7 * i) % 211)]
      [] f.kind = "list" -> [i \in 1..((k \div 2) % 3) |-> Sample(f.of, k + i)]
      [] f.kind \in {"option", "lax"} ->
            IF k % 2 = 0 THEN Codec!None ELSE Codec!Some(Sample(f.of, k + 1))
      [] f.kind = "choice" ->
            LET t == (k \div 3) % Len(f.of) IN [tag |-> t, val |-> Sample(f.of[t + 1], k + 2)]

OpeningOf(k) ==
    LET pts == Sample(Codec!List(Codec!WPoint), k)
        chain == (k \div 6) % 2 = 0 /\ pts # << >>
        When(c, v) == IF c THEN Codec!Some(v) ELSE Codec!None
        Each(Op(_)) == IF chain THEN [i \in DOMAIN pts |-> Op(i)] ELSE << >>
    IN [txid |-> k, roots |-> When(chain /\ k % 2 = 0, <<k + 1, k + 2>>), points |-> pts,
        links |-> Each(LAMBDA i : [tok |-> k + i, link |-> Sample(Codec!WLink, k + 5 * i)]),
        experts |-> Each(LAMBDA i : Sample(Codec!Option(Codec!ExpertIds), k + i)),
        prefix |-> When(chain \/ k % 2 = 0, Sample(Codec!PrefixPoint, k)),
        resid |-> When(chain /\ k % 3 # 0, Sample(Codec!WResid, k))]

Key(c, i) == [x |-> i, parity |-> (c \div i) % 2]
Recipients(x) == LET q == SetToSeq(x.ms) IN q \o Reverse(q)
Ask == [model_id |-> 1, max_tokens |-> 2, inference_reward |-> 3, priority_fee |-> 4, prompt |-> << >>]
Seal(x, b, nonce, p) ==
    IF x.s = 2 THEN Wire!seal_request(b, nonce, Ask, p, 1, Recipients(x)).v
    ELSE Wire!seal_request_v1(b, [x |-> 50 + b, parity |-> b % 2], nonce, Ask, p, 1, Recipients(x)).v
Answer(x) ==
    [request_hash |-> 1, challenge_window_end |-> 2, cid |-> 3, response_length |-> 4,
     responder |-> IF x.hr = 1 THEN <<[key |-> 5, signature |-> 6]>> ELSE << >>,
     body |-> IF x.hr = 1 THEN [i \in 1..x.nb |-> 20 + i] ELSE << >>,
     trace |-> IF x.hr = 0 \/ x.nb = 0 \/ x.nt = 0 THEN << >>
               ELSE <<[root |-> 7, n_prompt |-> 8, n_pos |-> 9, stage |-> 10,
                       tokens_root |-> IF x.nt = 1 THEN << >> ELSE <<11>>]>>]
(* The bytes of an answer, cut short, prolonged or with one byte changed. *)
Altered(b) ==
    {SubSeq(b, 1, i) : i \in 1..Len(b)} \cup {Append(b, v) : v \in {0, 1, 2, 128, 129}}
    \cup {[b EXCEPT ![i] = v] : i \in DOMAIN b, v \in {0, 1, 2, 3, 4, 128, 129}}

-----------------------------------------------------------------------------
(* The network and its engine.                                             *)

WeightOf(a) == 1 + ((a * 37 + 11) % 101)

Ll == [layer |-> 0, proj |-> 1, down |-> 4, post_attn |-> 22, post_ffn |-> NONE, scale |-> 3, moe |-> FALSE,
       down_exps |-> 0, router |-> 0, probs_bias |-> 0, ffn_norm |-> 0, w_scale |-> 0]
Lls == <<Ll, [layer |-> 1, proj |-> 7, down |-> 12, post_attn |-> NONE, post_ffn |-> NONE, scale |-> NONE, moe |-> TRUE,
       down_exps |-> 10, router |-> 25, probs_bias |-> 26, ffn_norm |-> 20, w_scale |-> 2]>>
E(role, form, k, m, n_exp, partner, bias, link, layer, norm, src) ==
  [role |-> role, form |-> form, wtype |-> IF (k + m) % 16 = 0 THEN "k" ELSE "q", k |-> k, m |-> m, n_exp |-> n_exp, partner |-> partner, bias |-> bias,
   link |-> link, layer |-> layer, norm |-> norm, src |-> src, row |-> k, ll |-> Ll]
Plain(role, k, m) == E(role, "none", k, m, 1, NONE, NONE, "none", 0, NONE, NONE)
Entries(trim) ==
  LET late == IF trim THEN "output" ELSE "product" IN
  << E("product","none",8,8,1,NONE,14,"attn_in",0,17,NONE),
     E("product","none",8,8,1,NONE,NONE,"none",0,NONE,NONE),
     E("product","pair_gate",8,8,1,3,NONE,"ffn_in",0,18,NONE),
     E("product","pair_up",8,8,1,2,NONE,"ffn_in",0,18,NONE),
     E("product","none",8,8,1,NONE,15,"glu",0,NONE,2),
     E("product","none",8,8,1,NONE,NONE,"attn_in",1,19,NONE),
     E("heads","none",4,4,2,NONE,NONE,"head_slice",1,NONE,5),
     E(late,"none",8,8,1,NONE,NONE,"direct",1,NONE,6),
     E(late,"pair_gate",8,8,3,9,NONE,"ffn_in",1,20,NONE),
     E(late,"pair_up",8,8,3,8,NONE,"ffn_in",1,20,NONE),
     E(late,"none",8,8,3,NONE,NONE,"glu",1,NONE,8),
     E(late,"split",8,16,1,NONE,NONE,"ffn_in",1,20,NONE),
     E(late,"none",8,8,1,NONE,NONE,"glu",1,NONE,11),
     E("output","none",8,8,1,NONE,NONE,"head",0,21,NONE),
     Plain("bias",8,1), Plain("bias",8,1), Plain("embd",8,4),
     Plain("norm",8,1), Plain("norm",8,1), Plain("norm",8,1), Plain("norm",8,1), Plain("norm",8,1), Plain("norm",8,1),
     [Plain("layer",8,1) EXCEPT !.ll = Lls[1]], [Plain("layer",8,1) EXCEPT !.ll = Lls[2]], Plain("router",8,3), Plain("norm",3,1) >>
Chunks(e) == Ceil(e.k * e.m * e.n_exp, WC)
Mf(trim) ==
  LET es == Entries(trim)
      base(i) == FoldFunction(LAMBDA a, b : a + b, 0, [j \in 1..(i - 1) |-> Chunks(es[j])])
  IN [entries |-> Seqn([i \in DOMAIN es |-> es[i] @@ [base |-> base(i), n_cells |-> Chunks(es[i]) * WC]]),
      n_products |-> 14, n_chunks |-> base(Len(es) + 1), chain |-> TRUE, n_layers |-> 2, layer_base |-> 23, embd_entry |-> 16,
      trim_last |-> trim, n_used |-> 2, embd_scale |-> 5]
Mf0 == Mf(FALSE)
Mf1 == Mf(TRUE)
Mfs(b) == IF b THEN Mf1 ELSE Mf0

WRow(mf, r, exp, row) == LET e == Entry(mf, r) IN [j \in 1..e.row |-> WeightOf(e.base * WC + (exp * e.m + row) * e.row + j - 1)]
WVec(mf, i, n) == [j \in 1..n |-> WeightOf(Entry(mf, i).base * WC + j - 1)]
Dot(mf, r, exp, row, x) == LET e == Entry(mf, r) IN (canonical_dot(WRow(mf, r, exp, row), e.k, x) + (IF e.bias = NONE THEN 0 ELSE WVec(mf, e.bias, 8)[row + 1])) % P
One(mf, r, exp, x) ==
   LET e == Entry(mf, r) IN
   Seqn(CASE e.form = "none" -> [j \in 1..e.m |-> Dot(mf, r, exp, j - 1, x)]
     [] e.form = "split" -> [j \in 1..(e.m \div 2) |-> glu(Dot(mf, r, exp, j - 1, x), Dot(mf, r, exp, j - 1 + e.m \div 2, x))]
     [] OTHER -> [j \in 1..e.m |-> glu(Dot(mf, r, exp, j - 1, x), Dot(mf, e.partner, exp, j - 1, x))])
Slots(mf, r, ids, x) == FlattenSeq([s \in DOMAIN ids |-> One(mf, r, ids[s], InputOf(x, Entry(mf, r).k, s - 1))])
Lay(mf, r, ub) == LET e == Entry(mf, r) IN input_layout(e.role, ub, e.wtype)
Normed(mf, v, i, s) == Times(rms_scaled(v, s), WVec(mf, i, Len(v)))

(* external: one position of the engine.  v holds the values so far; a     *)
(* stage adds one or two of them.                                          *)
X(mf, r, ub, v) == Quantise(v, Lay(mf, r, ub))
Add(a, b) == Seqn([j \in DOMAIN a |-> (a[j] + b[j]) % P])
Halves(mf, r, ub, v, n) == X(mf, r, ub, SubSeq(v, 1, n)) \o X(mf, r, ub, SubSeq(v, n + 1, 2 * n))
In1(mf, ub, v) == v @@ [x0 |-> X(mf, 0, ub, Normed(mf, v.e, 17, 5))]
Out1(mf, ub, v) == v @@ [y0 |-> One(mf, 0, 0, v.x0)]
Attend(mf, t, ub, v) == v @@ [x1 |-> X(mf, 1, ub, Seqn([j \in 1..8 |-> (v.y0[j] * (t + 1)) % P]))]
Project(mf, v) == v @@ [y1 |-> One(mf, 1, 0, v.x1)]
Resid1(mf, v) == v @@ [a0 |-> Add(Normed(mf, v.y1, 22, 1), [j \in 1..8 |-> v.e[j] * 5])]
In2(mf, ub, v) == v @@ [x2 |-> X(mf, 2, ub, Normed(mf, v.a0, 18, 1))]
Glu2(mf, v) == v @@ [y2 |-> One(mf, 2, 0, v.x2)]
In4(mf, ub, v) == v @@ [x4 |-> X(mf, 4, ub, v.y2)]
Down4(mf, v) == v @@ [y4 |-> One(mf, 4, 0, v.x4)]
Resid2(v) == v @@ [o0 |-> Seqn([j \in 1..8 |-> (3 * (v.y4[j] + v.a0[j])) % P])]
In5(mf, ub, v) == v @@ [x5 |-> X(mf, 5, ub, Normed(mf, v.o0, 19, 1))]
Out5(mf, v) == v @@ [y5 |-> One(mf, 5, 0, v.x5)]
In6(mf, ub, v) == v @@ [x6 |-> Halves(mf, 6, ub, v.y5, 4)]
Heads6(mf, v) == v @@ [y6 |-> Slots(mf, 6, <<0, 1>>, v.x6)]
In7(mf, ub, v) == v @@ [x7 |-> X(mf, 7, ub, v.y6)]
Out7(mf, v) == v @@ [y7 |-> One(mf, 7, 0, v.x7)]
Resid3(v) == v @@ [a1 |-> Add(v.y7, v.o0)]
Norm8(mf, v) == v @@ [f |-> Normed(mf, v.a1, 20, 1)]
Score(mf, v) == v @@ [sc |-> Seqn([i \in 1..3 |-> Total(Times(WRow(mf, 25, 0, i - 1), v.f))])]
Choose(mf, v) ==
    LET sel(i) == v.sc[i + 1] + WVec(mf, 26, 3)[i + 1] IN
    v @@ [ids |-> SubSeq(SortSeq(<<0, 1, 2>>, LAMBDA a, b : sel(a) > sel(b)), 1, 2)]
In8(mf, ub, v) == v @@ [x8 |-> X(mf, 8, ub, v.f), x11 |-> X(mf, 11, ub, v.f)]
Glu8(mf, v) == v @@ [y8 |-> Slots(mf, 8, v.ids, v.x8), y11 |-> One(mf, 11, 0, v.x11)]
In10(mf, ub, v) == v @@ [x10 |-> Halves(mf, 10, ub, v.y8, 8), x12 |-> X(mf, 12, ub, v.y11)]
Down10(mf, v) == v @@ [y10 |-> Slots(mf, 10, v.ids, v.x10), y12 |-> One(mf, 12, 0, v.x12),
                       w |-> route_weights(v.sc, WVec(mf, 26, 3), v.ids, 2).w]
Resid4(v) == v @@ [o1 |-> Seqn([j \in 1..8 |->
    (v.y12[j] + v.a1[j] + Total([s \in 1..2 |-> (v.w[s] * v.y10[(s - 1) * 8 + j]) % P])) % P])]
In13(mf, ub, v) == v @@ [x13 |-> X(mf, 13, ub, Normed(mf, v.o1, 21, 1))]
Out13(mf, v) == v @@ [y13 |-> One(mf, 13, 0, v.x13)]
Layer0(mf, t, ub, v) ==
    Resid2(Down4(mf, In4(mf, ub, Glu2(mf, In2(mf, ub,
        Resid1(mf, Project(mf, Attend(mf, t, ub, Out1(mf, ub, In1(mf, ub, v))))))))))
Layer1(mf, ub, v) ==
    Resid4(Down10(mf, In10(mf, ub, Glu8(mf, In8(mf, ub, Choose(mf, Score(mf, Norm8(mf,
        Resid3(Out7(mf, In7(mf, ub, Heads6(mf, In6(mf, ub, Out5(mf, In5(mf, ub, v)))))))))))))))
LeavesOf(v) ==
    LET x(w) == <<"x", w>>
        y(w) == <<"y", w>>
    IN <<x(v.x0), y(v.y0), x(v.x1), y(v.y1), x(v.x2), y(v.y2), x(v.x2), Unwritten, x(v.x4), y(v.y4),
         x(v.x5), y(v.y5), x(v.x6), y(v.y6), x(v.x7), y(v.y7), x(v.x8), y(v.y8 \o v.ids), x(v.x8), Unwritten,
         x(v.x10), y(v.y10 \o v.ids), x(v.x11), y(v.y11), x(v.x12), y(v.y12), x(v.x13), y(v.y13),
         y(v.a0), y(v.o0), y(v.a1), y(v.o1), Unwritten, y(v.sc), Unwritten>>
Leaves(mf, t, ub, tok) ==
    LeavesOf(Out13(mf, In13(mf, ub, Layer1(mf, ub, Layer0(mf, t, ub, [e |-> dequant_row(WRow(mf, 16, 0, tok))])))))

Toks == <<1, 2, 0, 3, 1>>
Request == <<1, 0>>
Pctx(mf) == [offset |-> 1, table |-> [b \in {0, 1} |-> IF b = 1 THEN 2 ELSE 0], embd_entry |-> 16, norm_entry |-> 17]
Ub == <<2, 2, 1, 1, 1>>
Raw(b) == Seqn([t \in 1..5 |-> Leaves(Mfs(b), t - 1, Ub[t], Toks[t])])

Draw(a, b, c, d) == [d0 |-> a, d1 |-> b, d2 |-> c, d3 |-> d, hi |-> d \div 3, top |-> d \div 5]
Seed(k) == [i \in {0, 1, 2, 3, 64, 65, 66} |->
   CASE i = 0 -> Draw(k \div 14, k % 14, k \div 3, k)
     [] i = 1 -> Draw(k \div 5, (k * 5 + 3) % 14, k \div 2, k + 1)
     [] OTHER -> Draw(k \div 2 + i, k + (i % 5), k \div 4 + i, k * 7 + i)]
(* Deviations of a trace where a seed looks. *)
With(r, t, leaf, v) == [r EXCEPT !.root[t + 1][leaf + 1] = v]
Val(r, t, leaf) == r.root[t + 1][leaf + 1][2]
Bump(v, i) == [v EXCEPT ![i + 1] = (@ + 1) % P]
BumpBlock(b) == LET v == Bump(b[4], 0) IN <<b[1], Scale(v), Total(v), v>>
CheatY(m, r, p) == With(r, p.t, 2 * p.g_rank + 1, <<"y", Bump(Val(r, p.t, 2 * p.g_rank + 1), p.slot * MOut(Entry(m, p.g_rank)) + p.row)>>)
(* input of a product wrong at the drawn block, its output computed from it *)
Bent(m, r, sd, i, p, off, j, lay, xx) ==
   LET g == Entry(m, p.g_rank)
       bad == [xx EXCEPT ![off + j + 1] = BumpBlock(@)]
       y == Val(r, p.t, 2 * p.g_rank + 1)
       ids == IF p.experts THEN SubSeq(y, Len(y) - p.n_used + 1, Len(y)) ELSE IF p.n_used > 1 THEN <<0, 1>> ELSE <<0>>
       out == Slots(m, p.g_rank, ids, bad) \o (IF p.experts THEN ids ELSE << >>)
   IN IF g.link = "none" \/ link_block(sd, i, Cut(bad, off, x_len(g.k)), lay, g.k).b # j THEN {}
      ELSE {With(With(r, p.t, 2 * p.g_rank, <<"x", bad>>), p.t, 2 * p.g_rank + 1, <<"y", out>>)}
CheatX(m, r, sd, i, p) ==
   LET k == Entry(m, p.g_rank).k
       lay == Lay(m, p.g_rank, r.ubatch[p.t + 1])
       xx == Val(r, p.t, 2 * p.g_rank)
       off == IF Len(xx) = x_len(k) THEN 0 ELSE p.slot * x_len(k)
   IN Bent(m, r, sd, i, p, off, link_block(sd, i, Cut(xx, off, x_len(k)), lay, k).b, lay, xx)
CheatsAt(m, r, sd, d) ==
   LET rs == d.resid
       dl == resid_leaf(14, rs.layer, rs.kind)
       pp == [t |-> d.prefix_t, g_rank |-> 0, slot |-> 0, experts |-> FALSE, n_used |-> 1]
       down == Val(r, rs.t, 21)
   IN {CheatY(m, r, d.points[1])}
      \cup UNION {CheatX(m, r, sd, ip[1], ip[2]) : ip \in {<<0, d.points[1]>>, <<PREFIX_POINT, pp>>}}
      \cup {With(r, rs.t, dl, <<"y", Bump(Val(r, rs.t, dl), rs.c * CE + (input.seed % CE))>>)}
      \cup {With(r, rs.t, 2 * rs.rank, <<"x", [Val(r, rs.t, 2 * rs.rank) EXCEPT ![1] = BumpBlock(@)]>>)}
      \cup (IF rs.moe THEN {With(r, rs.t, 21, <<"y", SubSeq(down, 1, 16) \o <<down[18], down[17]>>>>),
                            With(r, rs.t, 33, <<"y", Bump(Val(r, rs.t, 33), sd[RESID_POINT].d3 % 3)>>)} ELSE {})
Cheats(m, r, sd) == CheatsAt(m, r, sd, draw_chain(m, Pctx(m), r, sd))

-----------------------------------------------------------------------------
Kinds == {"rig", "layout", "kernel", "grind", "fill", "scope", "model", "range", "row", "opening",
          "request", "line", "difficulty", "compact", "extranonce", "trace"}

In(part) == input.k = part

(* A kind is chosen first, an input of that kind next. *)
Init ==
    /\ input \in [k : {"none"}, kind : Kinds]
                 \cup [k : {"launch", "shutdown", "gate", "files", "trees"}]
    /\ manifest = << >> /\ record = << >>
    /\ Launch!Init /\ Shutdown!Init /\ Gate!Init /\ Files!Init /\ Cache!Init
    /\ ~In("launch") => want = 1
    /\ ~In("shutdown") => \A w \in 1..3 : exiting[w] = "busy"

Awaited(kind) == input.k = "none" /\ input.kind = kind /\ UNCHANGED <<manifest, record, launch, drop, gate, files, trees>>
Pick(S, kind) == Awaited(kind) /\ input' \in S

PickPlan ==
    \/ Awaited("rig") /\ \E r \in Rigs : (\A c \in {0, 1} : r.free[c] <= r.total[c]) /\ input' = r
    \/ Pick(Layouts, "layout") \/ Pick(Kernels, "kernel") \/ Pick(Grinds, "grind")
    \/ Pick(Fills, "fill") \/ Pick(Scopes, "scope")
PickCommitment ==
    \/ Awaited("range") /\ \E r \in Ranges : r.first + r.count <= r.n /\ input' = r
    \/ Pick(Models, "model") \/ Pick(Rows, "row")
PickFormat ==
    \/ Pick(Openings, "opening") \/ Pick(Requests, "request") \/ Pick(Lines, "line")
    \/ Pick(Difficulties, "difficulty") \/ Pick(Compacts, "compact") \/ Pick(Extranonces, "extranonce")

(* A trace, then one seed of the audit after the other. *)
PickTrace ==
    /\ input.k = "none" /\ input.kind = "trace"
    /\ input' = [k |-> "trace", seed |-> 0]
    /\ \E b \in BOOLEAN : manifest' = Mfs(b) /\ record' = TraceRecord(Mfs(b), 3, Ub, Raw(b), Toks)
    /\ UNCHANGED <<launch, drop, gate, files, trees>>
NextSeed ==
    /\ input.k = "trace" /\ input.seed < LastSeed
    /\ input' = [input EXCEPT !.seed = @ + 1]
    /\ UNCHANGED <<manifest, record, launch, drop, gate, files, trees>>

Walk == In("launch") /\ UNCHANGED <<input, manifest, record, drop, gate, files, trees>> /\ Launch!Next
Drop == In("shutdown") /\ UNCHANGED <<input, manifest, record, launch, gate, files, trees>> /\ Shutdown!Next
Open == In("gate") /\ UNCHANGED <<input, manifest, record, launch, drop, files, trees>> /\ Gate!Next
Download == In("files") /\ UNCHANGED <<input, manifest, record, launch, drop, gate, trees>> /\ Files!Next
(* Until a living builder is robbed: nothing is claimed of the tree from there on. *)
Building == In("trees") /\ ~robbed
Build == Building /\ UNCHANGED <<input, manifest, record, launch, drop, gate, files>> /\ Cache!Next

Next ==
    \/ PickPlan \/ PickCommitment \/ PickFormat \/ PickTrace \/ NextSeed
    \/ Walk \/ Drop \/ Open \/ Download \/ Build

(* The weak fairness of the parts that step. *)
Fairness ==
    /\ WF_drop(In("shutdown") /\ Shutdown!PopHandle) /\ WF_drop(In("shutdown") /\ Shutdown!Joined)
    /\ \A w \in 1..3 :
          WF_drop(/\ In("shutdown")
                  /\ Shutdown!CheckKillSwitch(w) \/ Shutdown!Poll(w) \/ Shutdown!Kill(w))
    /\ WF_gate(In("gate") /\ Gate!Tick)
    /\ WF_gate(In("gate") /\ (Gate!Ask("a1") \/ Gate!Decide("a1")))
    /\ WF_files(In("files") /\ Files!Step("t1"))
    /\ WF_trees(Building /\ lock.owner \in Cache!Dead /\ Cache!Age)
    /\ \A p \in {"p1", "p2"} : WF_trees(Building /\ UNCHANGED slow /\ Cache!Step(p))

Spec ==
    /\ Init /\ [][Next]_<<input, manifest, record, launch, drop, gate, files, trees>>
    /\ Fairness

-----------------------------------------------------------------------------
\* What a rig is given to mine and to serve is complete, forced where the user forced
\* it and fits (main.rs); the OpenCL tiles are the canonical ones, the chosen kernel
\* exists and is exact, a split grind finds what one grind finds, a wrong fill is
\* refused, and only cards in scope are used (pom_opencl.rs, llama_vulkan.rs); a CUDA
\* launch reads the offsets of its own range, inside the measured room (pom_gpu.rs).
LaunchPlansHold ==
    /\ CASE input.k = "rig" -> Plans!PlanIsComplete(input) /\ Plans!ForcedAndFitting(input)
         [] input.k = "layout" ->
              Plans!TilesAreCanonical([Device EXCEPT !.real = input.real, !.reported = input.reported],
                                      [Env EXCEPT !.slabs = input.slabs, !.shift = input.shift], input.n)
         [] input.k = "kernel" ->
              Plans!LaunchIsSound([Device EXCEPT !.family = input.family, !.rejects = input.rejects,
                                                 !.missing = input.missing, !.gfx1100 = input.gfx1100],
                                  [Env EXCEPT !.mode = input.mode, !.no_dot = input.no_dot], input.offsets)
         [] input.k = "grind" ->
              Plans!GrindIsExact(Device, [Env EXCEPT !.sub = input.sub],
                                 [cap |-> input.cap, fail |-> input.fail, code |-> input.code,
                                  pause |-> input.pause], 8, input.base, input.batch, input.wins)
         [] input.k = "fill" -> Plans!WrongFillIsRefused(input.n)
         [] input.k = "scope" ->
              Plans!CardsStayInScope([rx |-> input.rx, gfx |-> input.gfx, ip |-> input.ip, mi |-> input.mi],
                                     input.req,
                                     [abi |-> input.abi, devices |-> ByOrdinal(input.devices),
                                      probe |-> TRUE, any |-> input.any], input.allow)
         [] OTHER -> TRUE
    /\ Launch!WalkReadsItsOffsets /\ Launch!LaunchFitsCap

TreeHolds(idx, m) ==
    /\ Trees!PathsAreCanonical(idx) /\ Trees!WitnessIsChecked(idx, m.seed)
    /\ Trees!PadWitnessIsChecked(idx, m.seed, Trees!pom_v5_pad_tiles(m.tier, m.daa))

\* A path of the sparse tree is the path of the dense one, a witness of the walk is
\* accepted and a changed one refused, with the context pad too, and every dot product
\* gives the scalar's result (pom.rs, pom_v4.rs, pom_v5.rs); a range of chunks proves
\* itself and nothing else (merkle.rs); the opening of an honest trace is accepted for
\* every seed and one that deviates where the seed looks is refused (trace.rs).
CommitmentsHold ==
    CASE input.k = "range" ->
            /\ Codec!RangeProvesItself(input.n, input.first, input.count)
            /\ Codec!ChunksRebuildTheHash(input.n, input.first, input.count)
      [] input.k = "model" ->
            LET m == Trees!sorted_names(Header(input)) IN
            /\ \A l \in 0..200 : Trees!CompleteIsReadable(Header(input), l)
            /\ Trees!PadStepsAreExact(input.seed + 8 * input.tier, input.daa + input.a)
            /\ Trees!n_chunks(m) >= Trees!TileChunks => TreeHolds(Trees!build_tree_to(m), input)
      [] input.k = "row" ->
            Trees!DotsAgree(Row(input.p, input.a, 128), Row((input.p * 7) % 32, 128, input.a))
      [] input.k = "trace" ->
            /\ record.ok
            /\ HonestAloneOpens(manifest, Pctx(manifest), record, Cheats(manifest, record, Seed(input.seed)),
                                Seed(input.seed), Request)
      [] OTHER -> TRUE

\* Every opening is read back as it was written (opening.rs); a private request is read
\* by its cohort and by nobody else, and payloads have one serialisation (private.rs,
\* inference); stratum lines, targets and extranonces are decoded to what the pool means,
\* and so is a difficulty outside the two edges TargetIsExact names (stratum.rs,
\* statum_codec.rs).
FormatsReadBack ==
    CASE input.k = "opening" ->
            LET op == OpeningOf(input.i) IN
            /\ Codec!Buildable(op) /\ Codec!OpeningReadsBack(op, input.i + 3)
            /\ Codec!PartsReadBack(Sample(Codec!WResidOpening, input.i), Sample(Codec!WAttnOpening, input.i),
                                   Sample(Codec!WRecurOpening, input.i))
      [] input.k = "request" ->
            LET secret == [schedule |-> input.s, bytes |-> input.seed]
                cohort == {Key(input.c, i) : i \in input.ms}
                sealed == Seal(input, input.seed, 9, "p")
                other == Seal(input, input.seed + 5, 10, "q")
            IN  /\ Wire!CohortReads(secret, sealed, "p", cohort, Key(input.c, 4), 30)
                /\ Wire!AnswersArePrivate(secret, sealed, cohort)
                /\ Wire!TamperedOpensForNobody(sealed, other, cohort)
                /\ Wire!PayloadsAreCanonical([Ask EXCEPT !.prompt = [i \in 1..input.nb |-> i]],
                                                Answer(input), Altered(Wire!response_serialize(Answer(input))))
                /\ Wire!CidKeepsItsValue(<<input.seed, input.nb, input.nt, input.c>>)
      [] input.k = "line" -> Wire!WireIsUnambiguous
      [] input.k = "difficulty" -> Wire!TargetIsExact(input.a, input.b)
      [] input.k = "compact" ->
            Wire!NetworkTargetIsExact([mantissa |-> input.a, size |-> input.b, sign |-> input.sign], input.d)
      [] input.k = "extranonce" -> Wire!ExtranoncesPartition(input.a, input.b, input.c)
      [] OTHER -> TRUE

\* The sentinel of a model stands beside the genuine bytes only; until the lock of a
\* living builder is stolen for its age, one process at a time builds the shared tree
\* and an index in use is the genuine tree, whatever is interrupted, killed or stolen
\* from the dead meanwhile (slm.rs, pom.rs).
StagedIsGenuine == Files!OkMeansGenuine /\ Cache!TreeIsGenuine /\ Cache!OneBuilder

\* Every staging of a model ends with the sentinel, and every process gets a tree while
\* no living builder is robbed (download_file, build_from_gguf); the start-up gate opens, and unless it times out
\* only while every registered card has its walk in the driver's map (wait_ready.rs);
\* the drop of a manager returns whatever its workers do, and a worker joined before
\* its grace period is over is never sent SIGUSR1 (trigger_freeze_handler).
StartAndStopEnd ==
    /\ <>[](In("files") => ok /\ task["t1"].pc = "done")
    /\ []<>(Building => \A p \in {"p1", "p2"} : proc[p].pc \in {"done", "killed"})
    /\ []<>(In("gate") => opened) /\ Gate!OpensWithWalksInstalled
    /\ []<>(In("shutdown") => Shutdown!Returned) /\ []Shutdown!EarlyExitNotSignalled

=============================================================================
