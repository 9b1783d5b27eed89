---------------------------- MODULE WireFormats -----------------------------
(***************************************************************************)
(* The formats of pool lines and of AI payloads.                           *)
(*                                                                         *)
(* The stratum wire (statum_codec.rs) and the numbers that come over it    *)
(* (extranonce_assignment and set_difficulty of stratum.rs, the compact    *)
(* targets of target.rs).                                                  *)
(*                                                                         *)
(* A JSON value is its kind; a message is the sequence of the kinds of its *)
(* parameters, and an untagged enum is read as its first variant whose     *)
(* types take them.  Widths are scaled: a word has Word bits and a target  *)
(* four words; a byte of a compact target or a nonce has ByteBits bits.    *)
(*                                                                         *)
(* AI payloads and private inference (ai_payload.rs, private.rs): the      *)
(* binary layouts, the sealing of a prompt to a cohort of escrow keys and  *)
(* of an answer to its requester.                                          *)
(*                                                                         *)
(* A fixed-width field is one item of a sequence; a length counts items.   *)
(* Keys, hashes and ciphertexts are the terms they are computed from: two  *)
(* are equal when computed from equal inputs, and a ciphertext opens under *)
(* its own key, nonce and associated data only.  A secret key is a number  *)
(* and the parity of its public point; its x-only key is the number.       *)
(***************************************************************************)
EXTENDS Naturals, Integers, Sequences, SequencesExt, FiniteSets, FiniteSetsExt, Functions

CONSTANTS Word,         \* 64
          D1, D1Exp,    \* DIFFICULTY_1_TARGET
          ByteBits,     \* 8
          TargetBytes,  \* 32
          NonceBytes,   \* 8
          MaxLine       \* MAX_STRATUM_LINE_BYTES

CONSTANTS MaxRecipients,     \* MAX_PRIVATE_RECIPIENTS
          MaxRequest,        \* MAX_AI_REQUEST_PRIVATE_PAYLOAD_LEN, in items
          MaxBody,           \* MAX_AI_RESPONSE_PRIVATE_BODY_LEN
          Byte, Base         \* 256 and 58 in base58btc_encode

None == [ok |-> FALSE]
Some(v) == [ok |-> TRUE, v |-> v]

-----------------------------------------------------------------------------
(* Untagged enums *)

Takes(type, kind) ==
    CASE type = "String" -> kind = "str"
      [] type = "u64" -> kind = "int"
      [] type = "u32" -> kind = "int"
      [] type = "[u64; 4]" -> kind = "array4"
      [] type = "Vec<String>" -> kind = "strings"
      [] type = "bool" -> kind = "bool"
      [] type = "Option<bool>" -> kind \in {"bool", "null"}
      [] type = "Value" -> TRUE
TakesAll(types, kinds) == Len(types) = Len(kinds) /\ \A i \in DOMAIN types : Takes(types[i], kinds[i])

Variant(name, types) == [name |-> name, types |-> types]
Untagged(variants, kinds) ==
    LET fit == {i \in DOMAIN variants : TakesAll(variants[i].types, kinds)}
    IN IF fit = {} THEN None ELSE Some(variants[Min(fit)].name)

S(n) == [i \in 1..n |-> "String"]

MiningNotify ==
    <<Variant("V4", <<"String", "String", "u64", "u64", "u32", "String">>),
      Variant("WithTaskV3", <<"String", "[u64; 4]", "u64", "u64", "u32", "Value">>),
      Variant("ShortV3", <<"String", "[u64; 4]", "u64", "u64", "u32">>),
      Variant("WithTask", <<"String", "[u64; 4]", "u64", "u64", "Value">>),
      Variant("ShortV2", <<"String", "[u64; 4]", "u64", "u64">>),
      Variant("Short", <<"String", "[u64; 4]", "u64">>),
      Variant("Long", S(4) \o <<"Vec<String>">> \o S(3) \o <<"bool">>)>>

MiningSubmit ==
    <<Variant("WithUnsignedResponse", S(7) \o <<"u32">>), Variant("WithPomTask", S(7)), Variant("WithPom", S(6)),
      Variant("WithCID", S(5)), Variant("WithTag", S(4)), Variant("Short", S(3))>>
MiningSubscribe == <<Variant("Default", S(1)), Variant("Options", S(2))>>
SetExtranonce == <<Variant("Plain", <<"String", "u32">>), Variant("PlainEth", S(1))>>

(* AiRequestParams: seven positional values and an optional object. *)
ai_request_deserialize(kinds) ==
    IF Len(kinds) \notin {7, 8} THEN None
    ELSE IF \E i \in {1, 2, 3, 4, 5, 7} : kinds[i] # "str" THEN None
    ELSE IF kinds[6] # "int" THEN None
    ELSE Some([fields |-> SubSeq(kinds, 1, 7), ext |-> IF Len(kinds) = 8 /\ kinds[8] # "null" THEN <<kinds[8]>> ELSE << >>])
ai_request_serialize(p) == p.fields \o p.ext

(* One command or one result, by the presence of a method. *)
StratumCommand(method, kinds) ==
    CASE method = "mining.set_extranonce" -> Untagged(SetExtranonce, kinds)
      [] method = "mining.notify" -> Untagged(MiningNotify, kinds)
      [] method = "mining.submit" -> Untagged(MiningSubmit, kinds)
      [] method = "mining.subscribe" -> Untagged(MiningSubscribe, kinds)
      [] method = "mining.ai_request" -> LET p == ai_request_deserialize(kinds) IN IF p.ok THEN Some("AiRequest") ELSE None
      [] method \in {"mining.authorize", "mining.challenge"} -> IF TakesAll(S(2), kinds) THEN Some(method) ELSE None
      [] OTHER -> None
StratumResult ==
    <<Variant("Plain", <<"Option<bool>">>), Variant("Eth", <<"bool", "String">>), Variant("Subscribe", <<"Value", "String", "u32">>)>>

(* decode: the first line that is not oversized, and what follows it. *)
decode(lines) ==
    LET fit == {i \in DOMAIN lines : lines[i].size <= MaxLine}
        i == Min(fit)
    IN IF fit = {} THEN [item |-> None, rest |-> << >>]
       ELSE [item |-> Some(StratumCommand(lines[i].method, lines[i].kinds)), rest |-> SubSeq(lines, i + 1, Len(lines))]

-----------------------------------------------------------------------------
(* Numbers *)

Shl(w, n) == (w * 2^(n % Word)) % 2^Word
(* A shift by the word's own width is a shift by zero in a release build. *)
Shr(w, n) == w \div 2^(n % Word)
Bits(w) == Max({b \in 1..Word : b = 1 \/ w >= 2^(b - 1)})
leading_zeros(w) == Word - Bits(w)

(* The value of four words, the lowest first: their order is numeric. *)
Uint256(words) == FoldLeft(LAMBDA high, w : (high * 2^Word) + w, 0, Reverse(words))

(* set_difficulty, from the mantissa and the exponent of 1/difficulty: the *)
(* target, None when it is refused, or the panic of an index past the last *)
(* word.                                                                   *)
Panic == [ok |-> FALSE, panic |-> TRUE]

set_difficulty(mantissa, exponent) ==
    LET m == mantissa * D1
        e == D1Exp + exponent
        start == e \div Word
        remainder == e % Word
    IN IF start > 3 THEN Panic
       ELSE IF start = 3 /\ leading_zeros(m) < remainder THEN None
       ELSE Some(Uint256([i \in 1..4 |-> CASE i = start + 1 -> Shl(m, remainder)
                                            [] i = start + 2 -> Shr(m, Word - remainder)
                                            [] OTHER -> 0]))

Pow(bytes) == 2^(ByteBits * bytes)

from_u64(v) == <<v, 0, 0, 0>>

(* variant: the carry guarded by the word shift alone. *)
shlNoCarry(words, shift) ==
    [j \in 1..4 |-> LET i == j - (shift \div Word) IN IF i >= 1 THEN Shl(words[i], shift % Word) ELSE 0]

(* Shl for Uint256: what leaves the top word is lost. *)
shl(words, shift) ==
    LET word_shift == shift \div Word
        bit_shift == shift % Word
        at(i) == IF i \in 1..4 THEN words[i] ELSE 0
        carry(i) == IF bit_shift > 0 THEN Shr(at(i), Word - bit_shift) ELSE 0
    IN [j \in 1..4 |-> Shl(at(j - word_shift), bit_shift) + carry(j - word_shift - 1)]

(* A compact target: a size in bytes, a sign and a mantissa of 3 bytes. *)
u256_from_compact_target(c) ==
    LET raw == c.mantissa + IF c.sign THEN Pow(3) \div 2 ELSE 0
        mant == IF c.size <= 3 THEN raw \div Pow(3 - c.size) ELSE raw
    IN IF mant >= Pow(3) \div 2 THEN 0
       ELSE Uint256(shl(from_u64(mant), IF c.size <= 3 THEN 0 ELSE ByteBits * (c.size - 3)))

MAX_DIFFICULTY_TARGET == (Pow(TargetBytes) \div 2) - 1

network_target_from_compact_target(c) ==
    LET t == u256_from_compact_target(c) IN
    IF \/ c.sign \/ c.mantissa = 0 \/ c.size > TargetBytes + 2
       \/ c.size > TargetBytes + 1 /\ c.mantissa >= Pow(1)
       \/ c.size > TargetBytes /\ c.mantissa >= Pow(2)
    THEN None
    ELSE IF t = 0 \/ t > MAX_DIFFICULTY_TARGET THEN None ELSE Some(t)

is_pool_block_candidate(pow_value, network_target) ==
    network_target.ok /\ network_target.v # 0 /\ pow_value <= network_target.v

(* The target mined: block_bits never loosens or tightens it. *)
effective_target(target_pool, block_bits) == target_pool

extranonce_assignment(extra, nonce_size) ==
    LET all == Pow(NonceBytes)
        low == Pow(nonce_size)
    IN IF nonce_size > NonceBytes THEN None
       ELSE IF nonce_size = NonceBytes THEN IF extra # 0 THEN None ELSE Some([mask |-> all - 1, fixed |-> 0])
       ELSE IF extra > (all - 1) \div low THEN None
       ELSE Some([mask |-> low - 1, fixed |-> extra * low])

(* set_extranonce: the old assignment stays when the new one is refused. *)
set_extranonce(s, extra, nonce_size) ==
    LET a == extranonce_assignment(extra, nonce_size)
    IN IF a.ok THEN [s EXCEPT !.extranonce = extra, !.mask = a.v.mask, !.fixed = a.v.fixed] ELSE s

-----------------------------------------------------------------------------
(* What the wire promises. *)

(* The kinds a message of this variant has; its task, if it has one, is an *)
(* object or the legacy double-encoded string.                             *)
Kind(type, task) ==
    CASE type = "String" -> "str" [] type \in {"u64", "u32"} -> "int" [] type = "[u64; 4]" -> "array4"
      [] type = "Vec<String>" -> "strings" [] type \in {"bool", "Option<bool>"} -> "bool" [] OTHER -> task
Sent(v, task) == [i \in DOMAIN v.types |-> Kind(v.types[i], task)]

(* Every shape of notify, submit, subscribe, set_extranonce and result is  *)
(* read as itself although the enums are untagged, an AI request survives  *)
(* its encoding, and an oversized line costs only itself.                  *)
WireIsUnambiguous ==
    /\ \A enum \in {MiningNotify, MiningSubmit, MiningSubscribe, SetExtranonce, StratumResult} :
         \A i \in DOMAIN enum, task \in {"object", "str"} :
           Untagged(enum, Sent(enum[i], task)) = Some(enum[i].name)
    /\ \A ext \in {<< >>, <<"object">>} :
         LET p == [fields |-> <<"str", "str", "str", "str", "str", "int", "str">>, ext |-> ext]
         IN ai_request_deserialize(ai_request_serialize(p)) = Some(p)
    /\ LET line(size, i) == [size |-> size, method |-> "mining.notify", kinds |-> Sent(MiningNotify[i], "object")]
       IN \A i, j \in DOMAIN MiningNotify :
            decode(<<line(MaxLine + 1, i), line(MaxLine, j)>>).item = Some(Some(MiningNotify[j].name))

(* The share target is exactly difficulty-one times the reciprocal, or is  *)
(* refused when it does not fit, except at two edges.  Where the lowest    *)
(* bit falls on the first bit of a word below the last (a difficulty from  *)
(* 2^56 to 2^57, or from 2^120 to 2^121), the shift by the whole width     *)
(* wraps and the next word repeats the mantissa: the target is 2^64 times  *)
(* too easy.  And where it falls past the last word (a difficulty of at    *)
(* most 2^-71, or 0), the handler panics instead of refusing the target.   *)
TargetIsExact(mantissa, exponent) ==
    LET e == D1Exp + exponent
        exact == mantissa * D1 * 2^e
        wraps == e % Word = 0 /\ e \div Word < 3
        beyond == e \div Word > 3
    IN set_difficulty(mantissa, exponent) =
          CASE wraps -> Some(exact + exact * 2^Word)
            [] beyond -> Panic
            [] OTHER -> IF exact < 2^(4 * Word) THEN Some(exact) ELSE None

(* A network target is accepted exactly when its untruncated value is      *)
(* positive and at most the network maximum, and then is that value; a     *)
(* share is a block candidate exactly when it meets it, the bound itself   *)
(* included.                                                               *)
NetworkTargetIsExact(c, pow_value) ==
    LET exact == IF c.size <= 3 THEN c.mantissa \div Pow(3 - c.size) ELSE c.mantissa * Pow(c.size - 3)
        valid == ~c.sign /\ exact > 0 /\ exact <= MAX_DIFFICULTY_TARGET
        t == network_target_from_compact_target(c)
    IN /\ t = IF valid THEN Some(exact) ELSE None
       /\ is_pool_block_candidate(pow_value, t) = (valid /\ pow_value <= exact)

(* Two extranonces of one size give disjoint halves of the nonce space,    *)
(* each of the full mutable width, and a refused one changes nothing.      *)
ExtranoncesPartition(x1, x2, nonce_size) ==
    LET s0 == [extranonce |-> 0, mask |-> Pow(NonceBytes) - 1, fixed |-> 0]
        s(x) == set_extranonce(s0, x, nonce_size)
        domain(a) == {(raw % (a.mask + 1)) + a.fixed : raw \in 0..(Pow(NonceBytes) - 1)}
        ok(x) == extranonce_assignment(x, nonce_size).ok
    IN /\ \A x \in {x1, x2} : /\ ok(x) => domain(s(x)) \subseteq 0..(Pow(NonceBytes) - 1) /\ Cardinality(domain(s(x))) = Pow(nonce_size)
                              /\ ~ok(x) => s(x) = s0
       /\ x1 # x2 /\ ok(x1) /\ ok(x2) => domain(s(x1)) \cap domain(s(x2)) = {}

-----------------------------------------------------------------------------
(* AI payloads and private inference. *)

From(s, i) == SubSeq(s, i, Len(s))

-----------------------------------------------------------------------------
(* AiRequestPayload *)

HEADER_LEN == 4
header_bytes(req) == <<req.model_id, req.max_tokens, req.inference_reward, req.priority_fee>>
request_serialize(req) == header_bytes(req) \o req.prompt
request_deserialize(data) ==
    IF Len(data) < HEADER_LEN \/ Len(data) > MaxRequest THEN None
    ELSE Some([model_id |-> data[1], max_tokens |-> data[2], inference_reward |-> data[3],
               priority_fee |-> data[4], prompt |-> From(data, 5)])

(* AiResponsePayload: responder and trace are sequences of at most one. *)

V1_LEN == 4
V2_LEN == 6
EXT_LEN == 2
BODY_KIND == 128
TRACE_KIND == 129
TRACE_LEN == 4
TRACE_TOKENS_LEN == 5

v1_bytes(r) == <<r.request_hash, r.challenge_window_end, r.cid, r.response_length>>
trace_bytes(t) == <<t.root, t.n_prompt, t.n_pos, t.stage>> \o t.tokens_root
extension_bytes(r) ==
    IF r.body = << >> THEN << >>
    ELSE <<BODY_KIND, Len(r.body)>> \o r.body
         \o (IF r.trace = << >> THEN << >>
             ELSE <<TRACE_KIND, Len(trace_bytes(r.trace[1]))>> \o trace_bytes(r.trace[1]))
signed_bytes(r) == v1_bytes(r) \o extension_bytes(r)
response_serialize(r) ==
    v1_bytes(r) \o (IF r.responder = << >> THEN << >> ELSE <<r.responder[1].key, r.responder[1].signature>>) \o extension_bytes(r)

trace_from_bytes(b) ==
    IF Len(b) \notin {TRACE_LEN, TRACE_TOKENS_LEN} THEN None
    ELSE Some([root |-> b[1], n_prompt |-> b[2], n_pos |-> b[3], stage |-> b[4], tokens_root |-> From(b, 5)])

(* The trailing trace commitment, or nothing. *)
Trailing(rest) ==
    LET n == Len(rest) - EXT_LEN IN
    IF rest = << >> THEN Some(<< >>)
    ELSE IF Len(rest) < EXT_LEN THEN None
    ELSE IF n \notin {TRACE_LEN, TRACE_TOKENS_LEN} \/ rest[1] # TRACE_KIND \/ rest[2] # n THEN None
    ELSE LET t == trace_from_bytes(From(rest, EXT_LEN + 1)) IN IF t.ok THEN Some(<<t.v>>) ELSE None

Extension(ext) ==
    IF ext = << >> THEN Some([body |-> << >>, trace |-> << >>])
    ELSE IF Len(ext) < EXT_LEN THEN None
    ELSE IF ext[1] # BODY_KIND \/ ext[2] = 0 \/ ext[2] > MaxBody \/ EXT_LEN + ext[2] > Len(ext) THEN None
    ELSE LET t == Trailing(From(ext, EXT_LEN + ext[2] + 1))
         IN IF t.ok THEN Some([body |-> SubSeq(ext, EXT_LEN + 1, EXT_LEN + ext[2]), trace |-> t.v]) ELSE None

response_deserialize(data) ==
    LET signed == Len(data) >= V2_LEN
        x == Extension(From(data, V2_LEN + 1))
    IN IF ~signed /\ Len(data) # V1_LEN THEN None
       ELSE IF ~x.ok THEN None
       ELSE Some([request_hash |-> data[1], challenge_window_end |-> data[2], cid |-> data[3], response_length |-> data[4],
                  responder |-> IF signed THEN <<[key |-> data[5], signature |-> data[6]]>> ELSE << >>,
                  body |-> x.v.body, trace |-> x.v.trace])

(* base58btc_encode: the digits, most significant first. *)
AddByte(digits, byte) ==
    LET carry[i \in 0..Len(digits)] == IF i = 0 THEN byte ELSE (carry[i - 1] + digits[i] * Byte) \div Base
        low == [i \in 1..Len(digits) |-> (carry[i - 1] + digits[i] * Byte) % Base]
        more[c \in 0..(Byte * Base)] == IF c = 0 THEN << >> ELSE <<c % Base>> \o more[c \div Base]
    IN low \o more[carry[Len(digits)]]
base58btc_encode(input) ==
    LET digits[i \in 0..Len(input)] == IF i = 0 THEN <<0>> ELSE AddByte(digits[i - 1], input[i])
        zeros == Max({n \in 0..Len(input) : \A i \in 1..n : input[i] = 0})
    IN [i \in 1..zeros |-> 0] \o Reverse(digits[Len(input)])

-----------------------------------------------------------------------------
(* Keys *)

Even == 0
Odd == 1
negate(sk) == [sk EXCEPT !.parity = 1 - @]
x_only(sk) == sk.x
public_key(sk) == [x |-> sk.x, parity |-> sk.parity]
lift_x(key) == [x |-> key, parity |-> Even]
(* The point shared by a secret key and a public point, and its parity. *)
ECDH(point, sk) == <<"shared", {point.x, sk.x}, (point.parity + sk.parity) % 2>>

hkdf(salt, ikm, info) == <<"hkdf", salt, ikm, info>>
aead_encrypt(key, nonce, msg, aad) == [key |-> key, nonce |-> nonce, msg |-> msg, aad |-> aad]
aead_decrypt(key, nonce, c, aad) ==
    IF c.key = key /\ c.nonce = nonce /\ c.aad = aad THEN Some(c.msg) ELSE None

salt(schedule) == <<"salt", schedule>>
(* The first scalar of the seed's stream that is valid. *)
ephemeral_secret_v2(seed) == [x |-> 100 + seed, parity |-> seed % 2]
root_key(secret) ==
    IF secret.schedule = 1 THEN <<"random", secret.bytes>> ELSE hkdf(salt(2), <<"seed", secret.bytes>>, <<"root">>)
response_key_v1(root, responder) == hkdf(salt(1), root, <<"response", responder>>)
response_key_v2(shared, root, responder) == hkdf(salt(2), <<"both", shared, root>>, <<"response", responder>>)
response_key(secret, responder) ==
    IF secret.schedule = 1 THEN response_key_v1(root_key(secret), responder)
    ELSE response_key_v2(ECDH(lift_x(responder), ephemeral_secret_v2(secret.bytes)), root_key(secret), responder)

(* The secret as kept by the requester: tagged under schedule 2. *)
secret_to_hex(secret) == IF secret.schedule = 1 THEN <<secret.bytes>> ELSE <<2, secret.bytes>>
secret_from_hex(h) ==
    CASE Len(h) = 2 /\ h[1] = 2 -> Some([schedule |-> 2, bytes |-> h[2]])
      [] Len(h) = 1 -> Some([schedule |-> 1, bytes |-> h[1]])
      [] OTHER -> None

-----------------------------------------------------------------------------
(* The request envelope: the whole prompt field. *)

MAGIC == "KXP"
VERSION == 1
ENV_LEN == 5
ENTRY_LEN == 2

is_private(prompt) == Len(prompt) >= 1 /\ prompt[1] = MAGIC
EnvelopeHeader(e) ==
    <<MAGIC, VERSION, e.ephemeral, e.nonce, Len(e.recipients)>>
    \o FlattenSeq([i \in DOMAIN e.recipients |-> <<e.recipients[i].key, e.recipients[i].wrapped>>])
envelope_serialize(e) == EnvelopeHeader(e) \o e.ciphertext
header_len(e) == ENV_LEN + Len(e.recipients) * ENTRY_LEN

envelope_parse(prompt) ==
    LET n == prompt[5]
        end == ENV_LEN + n * ENTRY_LEN
        at(i) == ENV_LEN + (i - 1) * ENTRY_LEN + 1
        keys == [i \in 1..n |-> prompt[at(i)]]
    IN IF ~is_private(prompt) \/ Len(prompt) < ENV_LEN THEN None
       ELSE IF prompt[2] # VERSION \/ n = 0 \/ n > MaxRecipients \/ Len(prompt) < end + 1 THEN None
       ELSE IF \E i \in 1..(n - 1) : keys[i] >= keys[i + 1] THEN None
       ELSE Some([ephemeral |-> prompt[3], nonce |-> prompt[4], ciphertext |-> From(prompt, end + 1),
                  recipients |-> [i \in 1..n |-> [key |-> keys[i], wrapped |-> prompt[at(i) + 1]]]])

recipient_index(e, key) == {i \in DOMAIN e.recipients : e.recipients[i].key = key}

max_private_prompt_len(n) ==
    LET room == MaxRequest - HEADER_LEN
        used == ENV_LEN + n * ENTRY_LEN
    IN IF room > used THEN room - used ELSE 0

(* seal_payload; size is what the sealed prompt takes of the payload. *)
seal_payload(secret, ephemeral, nonce, request, prompt, size, recipients) ==
    LET keys == SetToSortSeq(Range(recipients), <)
        e == public_key(ephemeral)
        header == header_bytes(request)
        wrap(k) == aead_encrypt(hkdf(salt(secret.schedule), ECDH(lift_x(k), ephemeral), <<"kek", e, k>>), nonce, root_key(secret), header)
        envelope == [ephemeral |-> e, nonce |-> nonce, ciphertext |-> << >>,
                     recipients |-> [i \in DOMAIN keys |-> [key |-> keys[i], wrapped |-> wrap(keys[i])]]]
        sealed == aead_encrypt(hkdf(salt(secret.schedule), root_key(secret), <<"prompt">>), nonce, prompt,
                               header \o envelope_serialize(envelope))
    IN IF keys = << >> \/ Len(keys) > MaxRecipients \/ size > max_private_prompt_len(Len(keys)) THEN None
       ELSE Some([request EXCEPT !.prompt = envelope_serialize([envelope EXCEPT !.ciphertext = <<sealed>>])])

seal_request(seed, nonce, request, prompt, size, recipients) ==
    seal_payload([schedule |-> 2, bytes |-> seed], ephemeral_secret_v2(seed), nonce, request, prompt, size, recipients)
seal_request_v1(root, ephemeral, nonce, request, prompt, size, recipients) ==
    seal_payload([schedule |-> 1, bytes |-> root], ephemeral, nonce, request, prompt, size, recipients)

(* The requester lifted the x-only key to its even point; match it. *)
matching(sk) == IF sk.parity = Odd THEN negate(sk) ELSE sk

open_request(payload, escrow_secret) ==
    LET parsed == envelope_parse(payload.prompt)
        e == parsed.v
        mine == x_only(escrow_secret)
        at == recipient_index(e, mine)
        shared == ECDH(e.ephemeral, matching(escrow_secret))
        header == header_bytes(payload)
        kek(s) == hkdf(salt(s), shared, <<"kek", e.ephemeral, mine>>)
        unwrap(s) == aead_decrypt(kek(s), e.nonce, e.recipients[Min(at)].wrapped, header)
        schedule == IF unwrap(2).ok THEN 2 ELSE 1
        root == unwrap(schedule)
        prompt == aead_decrypt(hkdf(salt(schedule), root.v, <<"prompt">>), e.nonce, e.ciphertext[1],
                               header \o SubSeq(payload.prompt, 1, header_len(e)))
        key == IF schedule = 1 THEN response_key_v1(root.v, mine) ELSE response_key_v2(shared, root.v, mine)
    IN IF ~parsed.ok THEN None
       ELSE IF at = {} THEN None
       ELSE IF ~root.ok THEN None
       ELSE IF ~prompt.ok THEN None
       ELSE Some([prompt |-> prompt.v, key |-> key, responder |-> mine, shared |-> shared, root |-> root.v])

response_aad(request_hash, responder) == <<request_hash, responder>>
seal_response(o, nonce, request_hash, answer) ==
    <<MAGIC, VERSION, nonce, aead_encrypt(o.key, nonce, answer, response_aad(request_hash, o.responder))>>
open_response(secret, request_hash, responder, body) ==
    IF Len(body) < 4 THEN None
    ELSE IF body[1] # MAGIC \/ body[2] # VERSION THEN None
    ELSE aead_decrypt(response_key(secret, responder), body[3], body[4], response_aad(request_hash, responder))

-----------------------------------------------------------------------------
(* What the payloads promise. *)

Digits(s, base) == FoldLeft(LAMBDA a, b : a * base + b, 0, s)

(* A request and a response survive their encoding, and no other bytes     *)
(* decode to the same response: what was signed is what is read back       *)
(* (serialize and deserialize of ai_payload.rs).                           *)
PayloadsAreCanonical(req, resp, damaged) ==
    /\ Len(request_serialize(req)) <= MaxRequest => request_deserialize(request_serialize(req)) = Some(req)
    /\ response_deserialize(response_serialize(resp)) = Some(resp)
    /\ \A data \in damaged : LET back == response_deserialize(data) IN
         back.ok => response_serialize(back.v) = data

(* The base-58 digits of a multihash have its value and no leading zero.   *)
CidKeepsItsValue(input) ==
    LET c == base58btc_encode(input) IN
    input[1] # 0 => Digits(c, Base) = Digits(input, Byte) /\ c[1] # 0

(* Sealed to a cohort in any order and with repetitions, under either key  *)
(* schedule, a prompt is read by each member whatever the parity of its    *)
(* key and by nobody else; each member's answer is read by the requester,  *)
(* from the secret it kept on paper, as that member's answer to that       *)
(* request only.                                                           *)
CohortReads(secret, payload, prompt, members, outsider, hash) ==
    /\ secret_from_hex(secret_to_hex(secret)) = Some(secret)
    /\ ~open_request(payload, outsider).ok
    /\ \A sk \in members :
         LET o == open_request(payload, sk)
             body == seal_response(o.v, 7, hash, "answer")
         IN /\ o.ok /\ o.v.prompt = prompt
            /\ open_response(secret, hash, x_only(sk), body) = Some("answer")
            /\ ~open_response(secret, hash + 1, x_only(sk), body).ok
            /\ \A other \in members \ {sk} : ~open_response(secret, hash, x_only(other), body).ok

(* Under schedule 2 no member can compute another member's answer key from *)
(* what it has: the root key and its own shared secret; under schedule 1   *)
(* every member can (the module documentation of private.rs).              *)
AnswersArePrivate(secret, payload, members) ==
    \A a \in members, b \in members : a # b =>
        LET own == open_request(payload, a).v
            theirs == open_request(payload, b).v.key
            reach == {response_key_v1(own.root, x_only(b)), response_key_v2(own.shared, own.root, x_only(b))}
        IN (theirs \in reach) = (secret.schedule = 1)

(* A request whose header, recipient list or ciphertext was replaced opens *)
(* for nobody.                                                             *)
TamperedOpensForNobody(payload, other, members) ==
    LET n == Len(payload.prompt)
        forged == {[payload EXCEPT !.max_tokens = @ + 1], [payload EXCEPT !.prompt[n] = other.prompt[Len(other.prompt)]],
                   [payload EXCEPT !.prompt[4] = other.prompt[4]]}
    IN \A f \in forged, sk \in members : ~open_request(f, sk).ok
=============================================================================
