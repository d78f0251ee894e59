--------------------------- MODULE VotingEncrypter ---------------------------
(***************************************************************************)
(* Voting_Encrypter_encrypt_ballot of src/electionguard/voting/encrypter.c *)
(* selection by selection: each is encrypted, added to the tally of the    *)
(* ballot and proved, and the sum of the nonces proves the whole ballot.   *)
(* Of the proofs only the verdict of the encrypter's own check is kept.    *)
(***************************************************************************)
EXTENDS Encryption

CONSTANTS
  NumSelections,   \* num_selections
  JointKeySecrets, \* the exponents of the joint keys tried
  BaseHashes       \* the base hashes tried, reduced modulo Q

ASSUME EncrypterAssumption ==
  /\ NumSelections \in Nat \ {0} /\ NumSelections < Q
  /\ JointKeySecrets \subseteq Exponent /\ BaseHashes \subseteq Exponent

VARIABLES
  ballot,           \* the arguments of the call: selections, expected_num_selected
  joint_key,        \* encrypter->joint_key.public_key
  base_hash,        \* encrypter->base_hash
  encrypted,        \* encrypted_ballot.selections, as far as they are made
  tally,            \* their homomorphic sum
  aggregate_nonce,  \* the sum of their nonces
  status,           \* ballot_result.status
  stage,            \* called, encrypting, returned, or crashed
  unfilled          \* a number of the last transcript was too short (history)

encrypterVars == <<ballot, joint_key, base_hash, encrypted, tally, aggregate_nonce,
                   status, stage, unfilled>>

Selection == 1 .. NumSelections

EncrypterInit ==
  /\ ballot \in [selections : [Selection -> BOOLEAN],
                 expected_num_selected : 0 .. NumSelections]
  /\ joint_key \in {pow_mod_p(Generator, x) : x \in JointKeySecrets}
  /\ base_hash \in BaseHashes
  /\ encrypted = <<>>
  /\ tally = Crypto_encryption_homomorphic_zero
  /\ aggregate_nonce = 0
  /\ status = "SUCCESS"
  /\ stage = "called"
  /\ unfilled = FALSE

NumSelected == Cardinality({i \in Selection : ballot.selections[i]})

Validate_selections == NumSelected = ballot.expected_num_selected

\* A ballot that is not valid is refused; then Crypto_encrypted_ballot_free is
\* called on a ballot that was never made, and what that does is undefined.
RefuseBallot ==
  /\ stage = "called" /\ ~Validate_selections
  /\ status' = "SELECTION_ERROR"
  /\ stage' \in {"returned", "crashed"}
  /\ UNCHANGED <<ballot, joint_key, base_hash, encrypted, tally, aggregate_nonce,
                 unfilled>>

AcceptBallot ==
  /\ stage = "called" /\ Validate_selections
  /\ stage' = "encrypting"
  /\ UNCHANGED <<ballot, joint_key, base_hash, encrypted, tally, aggregate_nonce,
                 status, unfilled>>

\* The first nonce is copied as it was drawn, the others are added modulo Q.
\* A bug: the nonce of the last selection replaces the sum.
LastNonce(sum, nonce, i) == nonce
AddNonce(sum, nonce, i) == IF i = 1 THEN nonce ELSE AddModQ(sum, nonce)

\* One turn of the loop over the selections.  A proof that does not verify is an
\* error that later turns do not take back.
EncryptSelection ==
  /\ stage = "encrypting" /\ Len(encrypted) < NumSelections
  /\ \E nonce \in uniform_bignum_o, d \in Draws :
       LET i == Len(encrypted) + 1
           selected == ballot.selections[i]
           encryption == Crypto_encrypt(joint_key, nonce, IF selected THEN Generator ELSE 1)
       IN  \E challenge \in
                Challenges(base_hash, dis_transcript(encryption, selected, joint_key, d)) :
             /\ encrypted' = Append(encrypted, encryption)
             /\ tally' = Crypto_encryption_homomorphic_add(tally, encryption)
             /\ aggregate_nonce' = AddNonce(aggregate_nonce, nonce, i)
             /\ status' =
                  IF Crypto_check_dis_proof(
                       dis_proof(encryption, selected, joint_key, nonce, d, challenge),
                       encryption, joint_key)
                  THEN status ELSE "UNKNOWN_ERROR"
  /\ UNCHANGED <<ballot, joint_key, base_hash, stage, unfilled>>

Writable == \A i \in DOMAIN encrypted :
              /\ encrypted[i].nonce_encoding \notin Short
              /\ encrypted[i].message_encoding \notin Short

\* The proof of the whole ballot, its check and the message.  A message that
\* cannot be written replaces the error of the check.
FinishBallot ==
  /\ stage = "encrypting" /\ Len(encrypted) = NumSelections
  /\ \E proof \in Crypto_generate_aggregate_cp_proof(aggregate_nonce, tally,
                                                     base_hash, joint_key) :
       LET transcript == ProofTranscript(tally, proof.commitment) IN
       /\ unfilled' = (\E k \in DOMAIN transcript : transcript[k] \in Short)
       /\ \E my_C \in Challenges(base_hash, transcript) :
         status' = CASE ~Writable -> "SERIALIZE_ERROR"
                     [] Writable /\ ~Crypto_check_aggregate_cp_proof(
                          proof, tally, my_C, joint_key, ballot.expected_num_selected) ->
                            "UNKNOWN_ERROR"
                     [] OTHER -> status
  /\ stage' = "returned"
  /\ UNCHANGED <<ballot, joint_key, base_hash, encrypted, tally, aggregate_nonce>>

EncrypterNext == RefuseBallot \/ AcceptBallot \/ EncryptSelection \/ FinishBallot
EncrypterSpec == EncrypterInit /\ [][EncrypterNext]_encrypterVars

(* Properties **************************************************************)
\* encrypter.c:248-346.  A ballot with the expected number of selections passes
\* every check the encrypter makes of its own proofs and is returned, whatever
\* was drawn (0, Q itself and numbers above Q among it), unless a number came
\* out too short to be written or to be hashed the same way twice.
HonestBallotVerifies ==
  stage = "returned" /\ Validate_selections /\ Writable /\ ~unfilled => status = "SUCCESS"

\* Crypto_check_dis_proof (crypto.c:810): the proof made for a selection passes
\* only if the encryption holds what the proof says was selected, and never when
\* it holds neither 0 nor 1, unless what is left of the challenge for the true
\* half is 0.
SelectionProofBindsMessage ==
  Len(encrypted) = 1 =>
    \A selected \in BOOLEAN, more, challenge \in Exponent, d \in Draws :
      LET holds == (more + IF ballot.selections[1] THEN 1 ELSE 0) % Q
          encryption == Crypto_encryption_homomorphic_add(
                          encrypted[1], Encryption(1, pow_mod_p(Generator, more)))
      IN  Crypto_check_dis_proof(
              dis_proof(encryption, selected, joint_key, aggregate_nonce, d, challenge),
              encryption, joint_key)
            <=> \/ holds = (IF selected THEN 1 ELSE 0)
                \/ SubModQ(challenge, d.fake_challenge) = 0

\* Crypto_check_aggregate_cp_proof (crypto.c:594): the sums the encrypter keeps
\* over the selections prove the number of selections, and no other number.
BallotProofBindsCount ==
  stage = "returned" /\ Len(encrypted) = NumSelections =>
    \A u \in uniform_bignum_o_q, challenge, l \in Exponent :
      Crypto_check_aggregate_cp_proof(
          aggregate_cp_proof(aggregate_nonce, joint_key, u, challenge),
          tally, challenge, joint_key, l)
        <=> l = NumSelected \/ challenge = 0

\* Crypto_check_decryption_cp_proof (crypto.c:558): a trustee's proof passes for
\* what its key makes of the tally and for nothing else.
DecryptionProofBindsShare ==
  stage = "returned" =>
    \A u \in uniform_bignum_o_q, challenge, secret, x \in Exponent :
      LET partial == pow_mod_p(Generator, x)
      IN  Crypto_check_decryption_cp_proof(
              decryption_cp_proof(secret, tally, u, challenge),
              pow_mod_p(Generator, secret), partial, tally)
            <=> partial = PartialDecryption(secret, tally) \/ challenge = 0

\* README.rst of include/electionguard: the trustees decrypt the tally of all the
\* ballots.  Whatever polynomial shares out the secret of the joint key, any
\* quorum's partial decryptions of the encrypter's sum, each raised to its
\* weight, leave the number of selections.
AnyQuorumCountsSelections ==
  stage = "returned" /\ Len(encrypted) = NumSelections =>
    \A others \in [Degree \ {0} -> Exponent],
       quorum \in {A \in SUBSET Trustee : Cardinality(A) >= Threshold} :
      LET coefs == [e \in Degree |-> IF e = 0 THEN log_generator_mod_p(joint_key)
                                              ELSE others[e]]
          decryption ==
            ProductModP([l \in quorum |->
              pow_mod_p(PartialDecryption(computeTrusteePolynomial(coefs, l), tally),
                        LagrangeCoefficient(l, quorum))])
      IN  log_generator_mod_p(div_mod_p(tally.message_encoding, decryption)) = NumSelected

=============================================================================
