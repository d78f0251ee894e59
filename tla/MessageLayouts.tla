---------------------------- MODULE MessageLayouts ----------------------------
(***************************************************************************)
(* The fields of every message and exported state, as they are reserved    *)
(* and written (names with _fields) and as they are read (read_...).  How  *)
(* many fields there are depends on numbers that are read before them.     *)
(***************************************************************************)
EXTENDS Serialization

CONSTANT Contents   \* by kind, the messages that are written and read

VARIABLE message    \* the kind of a message, and then what is in it

EncryptedKeyShare == Uint64s(ShareWords)
RsaTypes ==
  <<Uint64s(1), Uint64s(RsaWords), Uint64s(2 * RsaWords), Uint64s(RsaWords), Uint64s(2 * RsaWords)>>

Value(r, k) == r.values[k]
LastValue(r) == r.values[Len(r.values)]

(* Keys ********************************************************************)
private_key_fields(key) ==
  <<Field(Uint32, Len(key.coefficients))>> \o Each(Uint4096, key.coefficients)
read_private_key(r) ==
  LET t == More(r, Uint32) IN MoreOf(t, Times(LastValue(t), Uint4096))

schnorr_proof_fields(proof) ==
  <<Field(Uint32, Len(proof.commitments))>> \o Each(Uint4096, proof.commitments)
    \o <<Field(Hash, proof.challenge)>> \o Each(Uint256, proof.challenge_responses)
read_schnorr_proof(r) ==
  LET t == More(r, Uint32)
      threshold == LastValue(t)
      commitments == MoreOf(t, Times(threshold, Uint4096))
  IN  MoreOf(More(commitments, Hash), Times(threshold, Uint256))

public_key_fields(key) ==
  <<Field(Uint32, Len(key.coef_commitments))>> \o Each(Uint4096, key.coef_commitments)
    \o schnorr_proof_fields(key.proof)
read_public_key(r) ==
  LET t == More(r, Uint32)
  IN  read_schnorr_proof(MoreOf(t, Times(LastValue(t), Uint4096)))

rsa_public_key_fields(key) == <<Field(Uint64s(2 * RsaWords), key.n), Field(Uint64s(1), key.e)>>
read_rsa_public_key(r) == MoreOf(r, <<Uint64s(2 * RsaWords), Uint64s(1)>>)

rsa_private_key_fields(key) ==
  [i \in 1 .. 5 |-> Field(RsaTypes[i], <<key.e, key.q, key.d, key.p, key.n>>[i])]
read_rsa_private_key(r) == MoreOf(r, RsaTypes)

joint_public_key_fields(key) ==
  <<Field(Uint32, key.num_trustees), Field(Uint4096, key.public_key)>>
read_joint_public_key(r) == MoreOf(r, <<Uint32, Uint4096>>)

(* The key ceremony ********************************************************)
key_generated_fields(m) ==
  <<Field(Uint32, m.trustee_index)>> \o public_key_fields(m.public_key)
    \o rsa_public_key_fields(m.rsa_public_key)
read_key_generated(r) == read_rsa_public_key(read_public_key(More(r, Uint32)))

all_keys_received_fields(m) ==
  <<Field(Uint32, Len(m.public_keys))>>
    \o FlattenSeq([i \in 1 .. Len(m.public_keys) |->
         public_key_fields(m.public_keys[i]) \o rsa_public_key_fields(m.rsa_public_keys[i])])
read_all_keys_received(r) ==
  LET n == More(r, Uint32)
      keys[k \in 0 .. LastValue(n)] ==
        IF k = 0 THEN n ELSE read_rsa_public_key(read_public_key(keys[k - 1]))
  IN  keys[LastValue(n)]

shares_generated_fields(m) ==
  <<Field(Uint32, Len(m.shares)), Field(Uint32, m.trustee_index)>>
    \o Each(EncryptedKeyShare, m.shares)
\* A bug: the two numbers before the shares are read in the wrong order.
read_shares_swapped(r) ==
  LET s == MoreOf(r, <<Uint32, Uint32>>)
  IN  MoreOf(s, Times(Value(s, 2), EncryptedKeyShare))
read_shares_generated(r) ==
  LET s == MoreOf(r, <<Uint32, Uint32>>)
  IN  MoreOf(s, Times(Value(s, 1), EncryptedKeyShare))

all_shares_received_fields(m) ==
  <<Field(Uint32, Len(m.shares))>>
    \o FlattenSeq([i \in 1 .. Len(m.shares) |-> Each(EncryptedKeyShare, m.shares[i])])
read_all_shares_received(r) ==
  LET n == More(r, Uint32)
  IN  Repeated(n, LastValue(n), Times(LastValue(n), EncryptedKeyShare))

shares_verified_fields(m) ==
  <<Field(Uint32, m.trustee_index), Field(Bool, m.verified)>>
read_shares_verified(r) == MoreOf(r, <<Uint32, Bool>>)

\* How many shares there are is told by the caller.
trustee_state_fields(m) ==
  <<Field(Uint32, m.index)>> \o private_key_fields(m.private_key)
    \o rsa_private_key_fields(m.rsa_private_key) \o Each(EncryptedKeyShare, m.my_key_shares)
read_trustee_state(r, num_trustees) ==
  MoreOf(read_rsa_private_key(read_private_key(More(r, Uint32))),
         Times(num_trustees, EncryptedKeyShare))

(* Ballots *****************************************************************)
encryption_fields(e) == Each(Uint4096, <<e.nonce_encoding, e.message_encoding>>)
encryptions_fields(es) == FlattenSeq([i \in 1 .. Len(es) |-> encryption_fields(es[i])])
EncryptionTypes == <<Uint4096, Uint4096>>

ballot_identifier_fields(id) == <<Field(Uint64, id)>>
read_ballot_identifier(r) == More(r, Uint64)

encrypted_ballot_fields(b) ==
  <<Field(Uint64, b.id), Field(Uint32, Len(b.selections))>>
    \o encryptions_fields(b.selections)
read_encrypted_ballot(r) ==
  LET s == MoreOf(r, <<Uint64, Uint32>>)
  IN  Repeated(s, LastValue(s), EncryptionTypes)

(* Decryption **************************************************************)
decryption_share_fields(m) ==
  <<Field(Uint32, m.trustee_index), Field(Uint64, Len(m.tally_share))>>
    \o encryptions_fields(m.tally_share)
read_decryption_share(r) ==
  LET s == MoreOf(r, <<Uint32, Uint64>>)
  IN  Repeated(s, LastValue(s), EncryptionTypes)

decryption_fragments_request_fields(m) ==
  <<Field(Uint32, Len(m.requested))>> \o Each(Bool, m.requested)
read_decryption_fragments_request(r) ==
  LET n == More(r, Uint32) IN MoreOf(n, Times(LastValue(n), Bool))

\* M: by trustee the partial decryptions of the selections, if they were asked.
fragment_fields(m, i) ==
  <<Field(Bool, m.requested[i])>>
    \o (IF m.requested[i] = 1 THEN Each(Uint4096, m.partial_decryption_M[i]) ELSE <<>>)
decryption_fragments_fields(m) ==
  Each(Uint32, <<m.trustee_index, Len(m.requested), m.num_selections>>)
    \o FlattenSeq([i \in 1 .. Len(m.requested) |-> fragment_fields(m, i)])
    \o <<Field(Uint256Pad, m.lagrange_coefficient)>>
read_fragment(r, num_selections) ==
  LET asked == More(r, Bool)
  IN  IF LastValue(asked) = 1 THEN MoreOf(asked, Times(num_selections, Uint4096)) ELSE asked
read_decryption_fragments(r) ==
  LET s == MoreOf(r, <<Uint32, Uint32, Uint32>>)
      fragments[k \in 0 .. Value(s, 2)] ==
        IF k = 0 THEN s ELSE read_fragment(fragments[k - 1], Value(s, 3))
  IN  More(fragments[Value(s, 2)], Uint256)

(* The messages there are ***************************************************)
\* The numbers that are not longer than their field: the code exports a number to a buffer
\* of that size before it counts the words, and reduces all it computes.
Unsigned(type) == 0 .. IntegerPower(ByteBase, type.size) - 1
\* As many as a uint32_t can count.
Lists(S) == {s \in Seq(S) : Len(s) \in Unsigned(Uint32)}

SchnorrProofs ==
  {proof \in [commitments : Lists(Unsigned(Uint4096)), challenge : 0 .. QValue - 1,
             challenge_responses : Lists(Unsigned(Uint256))] :
     Len(proof.challenge_responses) = Len(proof.commitments)}
PublicKeys == [coef_commitments : Lists(Unsigned(Uint4096)), proof : SchnorrProofs]
PrivateKeys == [coefficients : Lists(Unsigned(Uint4096))]
RsaPublicKeys == [n : Unsigned(Uint64s(2 * RsaWords)), e : Unsigned(Uint64s(1))]
RsaPrivateKeys ==
  [e : Unsigned(Uint64s(1)), q : Unsigned(Uint64s(RsaWords)), d : Unsigned(Uint64s(2 * RsaWords)),
   p : Unsigned(Uint64s(RsaWords)), n : Unsigned(Uint64s(2 * RsaWords))]
Encryptions == [nonce_encoding : Unsigned(Uint4096), message_encoding : Unsigned(Uint4096)]
\* There are partial decryptions for those that were asked for.
Fragments ==
  {m \in [trustee_index : Unsigned(Uint32), requested : Lists({0, 1}),
          num_selections : Unsigned(Uint32), partial_decryption_M : Seq(Seq(Unsigned(Uint4096))),
          lagrange_coefficient : Unsigned(Uint256Pad)] :
     /\ Len(m.partial_decryption_M) = Len(m.requested)
     /\ \A i \in 1 .. Len(m.requested) :
          m.requested[i] = 1 => Len(m.partial_decryption_M[i]) = m.num_selections}

MessagesOf(kind) ==
  CASE kind = "key_generated" ->
         [trustee_index : Unsigned(Uint32), public_key : PublicKeys, rsa_public_key : RsaPublicKeys]
    [] kind = "all_keys_received" ->
         {m \in [public_keys : Lists(PublicKeys), rsa_public_keys : Seq(RsaPublicKeys)] :
            Len(m.rsa_public_keys) = Len(m.public_keys)}
    [] kind = "shares_generated" -> [trustee_index : Unsigned(Uint32), shares : Lists(Unsigned(EncryptedKeyShare))]
    [] kind = "all_shares_received" ->
         {m \in [shares : Lists(Seq(Unsigned(EncryptedKeyShare)))] :
            \A i \in 1 .. Len(m.shares) : Len(m.shares[i]) = Len(m.shares)}
    [] kind = "shares_verified" -> [trustee_index : Unsigned(Uint32), verified : {0, 1}]
    [] kind = "trustee_state" ->
         [index : Unsigned(Uint32), private_key : PrivateKeys,
          rsa_private_key : RsaPrivateKeys, my_key_shares : Seq(Unsigned(EncryptedKeyShare))]
    [] kind = "joint_public_key" -> [num_trustees : Unsigned(Uint32), public_key : Unsigned(Uint4096)]
    [] kind = "ballot_identifier" -> Unsigned(Uint64)
    [] kind = "encrypted_ballot" -> [id : Unsigned(Uint64), selections : Lists(Encryptions)]
    [] kind = "decryption_share" ->
         {m \in [trustee_index : Unsigned(Uint32), tally_share : Seq(Encryptions)] :
            Len(m.tally_share) \in Unsigned(Uint64)}
    [] kind = "decryption_fragments_request" -> [requested : Lists({0, 1})]
    [] kind = "decryption_fragments" -> Fragments

Kinds == {"key_generated", "all_keys_received", "shares_generated", "all_shares_received",
          "shares_verified", "trustee_state", "joint_public_key", "ballot_identifier",
          "encrypted_ballot", "decryption_share", "decryption_fragments_request",
          "decryption_fragments"}

ASSUME MessagesAssumption == \A kind \in Kinds : Contents[kind] \subseteq MessagesOf(kind)

Fields(kind, m) ==
  CASE kind = "key_generated" -> key_generated_fields(m)
    [] kind = "all_keys_received" -> all_keys_received_fields(m)
    [] kind = "shares_generated" -> shares_generated_fields(m)
    [] kind = "all_shares_received" -> all_shares_received_fields(m)
    [] kind = "shares_verified" -> shares_verified_fields(m)
    [] kind = "trustee_state" -> trustee_state_fields(m)
    [] kind = "joint_public_key" -> joint_public_key_fields(m)
    [] kind = "ballot_identifier" -> ballot_identifier_fields(m)
    [] kind = "encrypted_ballot" -> encrypted_ballot_fields(m)
    [] kind = "decryption_share" -> decryption_share_fields(m)
    [] kind = "decryption_fragments_request" -> decryption_fragments_request_fields(m)
    [] kind = "decryption_fragments" -> decryption_fragments_fields(m)

\* m: what was written, of which the caller knows how many shares there are.
ReadBack(kind, m, r) ==
  CASE kind = "key_generated" -> read_key_generated(r)
    [] kind = "all_keys_received" -> read_all_keys_received(r)
    [] kind = "shares_generated" -> read_shares_generated(r)
    [] kind = "all_shares_received" -> read_all_shares_received(r)
    [] kind = "shares_verified" -> read_shares_verified(r)
    [] kind = "trustee_state" -> read_trustee_state(r, Len(m.my_key_shares))
    [] kind = "joint_public_key" -> read_joint_public_key(r)
    [] kind = "ballot_identifier" -> read_ballot_identifier(r)
    [] kind = "encrypted_ballot" -> read_encrypted_ballot(r)
    [] kind = "decryption_share" -> read_decryption_share(r)
    [] kind = "decryption_fragments_request" -> read_decryption_fragments_request(r)
    [] kind = "decryption_fragments" -> read_decryption_fragments(r)

(* Behaviours **************************************************************)
MessagesInit == message \in [stage : {"kind"}, kind : Kinds]
ChooseMessage ==
  /\ message.stage = "kind"
  /\ \E m \in Contents[message.kind] :
       message' = [stage |-> "message", kind |-> message.kind, content |-> m]

MessagesSpec == MessagesInit /\ [][ChooseMessage]_message

(* Properties **************************************************************)
\* src/electionguard/serialize: what is written is read back field by field, all
\* of it and nothing more, and fills the length that was reserved; a message is
\* refused exactly when one of its numbers does not fit its words.
MessagesReadBack ==
  message.stage = "message" =>
    LET fields == Fields(message.kind, message.content)
        state == Written(fields)
        back == ReadBack(message.kind, message.content, Start(state.buf))
    IN  IF \A i \in DOMAIN fields : Fits(fields[i])
        THEN /\ state.status = "WRITING"
             /\ state.offset = state.len
             /\ back.values = [i \in DOMAIN fields |-> fields[i].value]
             /\ back.state.offset = state.len
        ELSE state.status = "IO_ERROR"

=============================================================================
