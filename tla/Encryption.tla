----------------------------- MODULE Encryption -----------------------------
(***************************************************************************)
(* The arithmetic of src/electionguard/bignum.c, random_source.c, rsa.c    *)
(* and crypto.c: exponential ElGamal with its zero-knowledge proofs, over  *)
(* the subgroup of order Q of the integers modulo P.  The real P has 4096  *)
(* bits and Q 256; here they are small enough to try every challenge.      *)
(***************************************************************************)
EXTENDS ThresholdShares, Powers, SequencesExt

CONSTANTS
  P,           \* stands for p
  Generator,   \* generator, of order Q modulo P
  Drawn,       \* the numbers the random source is tried with
  RsaSeeds,    \* the numbers the search for RSA primes starts from
  Short        \* the numbers that do not fill their fixed number of words

ASSUME GroupAssumption ==
  /\ P \in Nat /\ P > Q /\ P % Q = 1
  /\ \A d \in 2 .. P - 1 : P % d # 0
  /\ Generator \in 2 .. P - 1
  /\ Drawn \subseteq Nat
  /\ RsaSeeds \subseteq Nat \ {0}

ASSUME ShortAssumption == 1 \in Short /\ Short \subseteq 0 .. P - 1

\* Powers, tabulated: the largest exponent used is a draw or a power of an index.
LargestExponent == P * P + IntegerPower(NumTrustees, Threshold)
PowerModP ==
  [b \in 0 .. P - 1 |->
     LET power[e \in 0 .. LargestExponent] ==
           IF e = 0 THEN 1 ELSE (power[e - 1] * b) % P
     IN  [e \in 0 .. LargestExponent |-> power[e]]]

pow_mod_p(base, e) == PowerModP[base][e]
mul_mod_p(a, b) == (a * b) % P
\* The product of a function's values.
ProductModP(f) == FoldFunction(mul_mod_p, 1, f)
div_mod_p(num, den) == mul_mod_p(num, CHOOSE x \in 1 .. P - 1 : mul_mod_p(x, den) = 1)

ASSUME GeneratorAssumption == pow_mod_p(Generator, Q) = 1

\* The exponent of a power of the generator, counted up from 0.
log_generator_mod_p(a) ==
  CHOOSE e \in Exponent : pow_mod_p(Generator, e) = a

\* RandomSource_uniform_bignum_o draws until the number is neither 0 nor P or
\* more; _o_q keeps Q itself, so that what it draws is not always reduced.
uniform_bignum_o == Drawn \intersect (1 .. P - 1)
uniform_bignum_o_q == Drawn \intersect (0 .. Q)

(* Hashes ******************************************************************)
\* SHA-256 of the base hash and of a list of numbers, reduced modulo Q: some
\* function of all of them and of their order.
Digest(base_hash, numbers) ==
  AddModQ(base_hash, SumModQ([k \in DOMAIN numbers |-> MulModQ(k, numbers[k])]))

\* What the challenge can come out as.  Serialize_reserve_write_bignum hands out
\* its buffer although nothing was written to it when the number is too short:
\* what is hashed is then whatever the memory held.
Challenges(base_hash, numbers) ==
  IF \E k \in DOMAIN numbers : numbers[k] \in Short
  THEN Exponent
  ELSE {Digest(base_hash, numbers)}

(* Key generation **********************************************************)
\* Crypto_gen_keypair: the commitments to the coefficients, and a proof with one
\* challenge for all of them.  u: the responses before the challenge is known.
coef_commitments(coefs) == [e \in Degree |-> pow_mod_p(Generator, coefs[e])]

schnorr_proof(coefs, u, challenge) ==
  [commitments |-> [e \in Degree |-> pow_mod_p(Generator, u[e])],
   challenge |-> challenge,
   challenge_responses |->
     [e \in Degree |-> AddModQ(u[e], MulModQ(challenge, coefs[e]))]]

\* A bug: the commitment is not multiplied in.
keypair_proof_uncommitted(commitments, proof) ==
  \A e \in Degree :
    pow_mod_p(Generator, proof.challenge_responses[e])
      = pow_mod_p(commitments[e], proof.challenge)
\* It does not compute the challenge again.
Crypto_check_keypair_proof(commitments, proof) ==
  \A e \in Degree :
    pow_mod_p(Generator, proof.challenge_responses[e])
      = mul_mod_p(proof.commitments[e], pow_mod_p(commitments[e], proof.challenge))

(* RSA *********************************************************************)
IsPrime(n) == n > 1 /\ \A d \in 2 .. n - 1 : n % d # 0
Lcm(a, b) == CHOOSE n \in 1 .. a * b :
               /\ n % a = 0 /\ n % b = 0
               /\ \A k \in 1 .. n - 1 : ~(k % a = 0 /\ k % b = 0)

\* mpz_nextprime, repeated while the prime is 1 modulo the exponent 3.
rsa_prime(seed) ==
  CHOOSE n \in seed + 1 .. 4 * seed + 4 :
    /\ IsPrime(n) /\ n % 3 # 1
    /\ \A k \in seed + 1 .. n - 1 : ~(IsPrime(k) /\ k % 3 # 1)

generate_keys ==
  LET primes == {rsa_prime(s) : s \in RsaSeeds}
      pairs == {pq \in primes \X primes : pq[1] # pq[2]}
      lambda(pq) == Lcm(pq[1] - 1, pq[2] - 1)
  IN  {[n |-> pq[1] * pq[2],
        d |-> CHOOSE d \in 1 .. lambda(pq) : (3 * d) % lambda(pq) = 1] : pq \in pairs}

RSA_Encrypt(message, key) == (message * message * message) % key.n
RSA_Decrypt(encrypted, key) ==
  FoldLeft(LAMBDA x, i : (x * encrypted) % key.n, 1, [i \in 1 .. key.d |-> i])

\* That RSA gives back what was encrypted.
ASSUME RsaAssumption ==
  \A rsa \in generate_keys, share \in Exponent :
    RSA_Decrypt(RSA_Encrypt(share, rsa), rsa) = share

Crypto_create_encrypted_key_share(coefs, l, rsa) ==
  RSA_Encrypt(computeTrusteePolynomial(coefs, l), rsa)

\* A bug: the polynomial is taken at the index, not at the index + 1.
validity_at_index(encrypted, commitments, rsa, my_index) ==
  pow_mod_p(Generator, RSA_Decrypt(encrypted, rsa))
    = ProductModP([e \in Degree |->
                     IF e = 0 THEN commitments[0]
                     ELSE pow_mod_p(commitments[e], IntegerPower(my_index, e))])
Crypto_check_validity_share_against_public_keys(encrypted, commitments, rsa, my_index) ==
  pow_mod_p(Generator, RSA_Decrypt(encrypted, rsa))
    = ProductModP([e \in Degree |->
                     pow_mod_p(commitments[e], IntegerPower(my_index + 1, e))])

(* Encryptions *************************************************************)
Encryption(nonce_encoding, message_encoding) ==
  [nonce_encoding |-> nonce_encoding, message_encoding |-> message_encoding]

Crypto_encrypt(public_key, nonce, message) ==
  Encryption(pow_mod_p(Generator, nonce),
             mul_mod_p(pow_mod_p(public_key, nonce), message))

Crypto_encryption_homomorphic_zero == Encryption(1, 1)
Crypto_encryption_homomorphic_add(a, b) ==
  Encryption(mul_mod_p(a.nonce_encoding, b.nonce_encoding),
             mul_mod_p(a.message_encoding, b.message_encoding))

Numbers(encryption) == <<encryption.nonce_encoding, encryption.message_encoding>>

\* What a trustee computes from a tally with a key or with a share of a key.
PartialDecryption(secret, tally) == pow_mod_p(tally.nonce_encoding, secret)

(* Chaum-Pedersen proofs ***************************************************)
\* That the partial decryption was made with the key: Crypto_generate_
\* decryption_cp_proof, u and the challenge given.
decryption_cp_proof(secret, tally, u, challenge) ==
  [commitment |-> Encryption(pow_mod_p(Generator, u), pow_mod_p(tally.nonce_encoding, u)),
   challenge |-> challenge,
   response |-> AddModQ(u, MulModQ(challenge, secret))]

\* A bug: only the key is checked, not what was decrypted.
decryption_proof_of_key(proof, public_key, partial_decryption, tally) ==
  pow_mod_p(Generator, proof.response)
    = mul_mod_p(proof.commitment.nonce_encoding, pow_mod_p(public_key, proof.challenge))
Crypto_check_decryption_cp_proof(proof, public_key, partial_decryption, tally) ==
  /\ pow_mod_p(Generator, proof.response)
       = mul_mod_p(proof.commitment.nonce_encoding, pow_mod_p(public_key, proof.challenge))
  /\ pow_mod_p(tally.nonce_encoding, proof.response)
       = mul_mod_p(proof.commitment.message_encoding,
                   pow_mod_p(partial_decryption, proof.challenge))

\* That the encryption holds so many selections.
ProofTranscript(encryption, commitment) == Numbers(encryption) \o Numbers(commitment)

aggregate_cp_proof(nonce, public_key, u, challenge) ==
  [commitment |-> Encryption(pow_mod_p(Generator, u), pow_mod_p(public_key, u)),
   challenge |-> challenge,
   response |-> AddModQ(u, MulModQ(challenge, nonce))]

\* The proofs Crypto_generate_aggregate_cp_proof can come to.
Crypto_generate_aggregate_cp_proof(nonce, encryption, base_hash, public_key) ==
  UNION {{aggregate_cp_proof(nonce, public_key, u, c) :
            c \in Challenges(base_hash,
                    ProofTranscript(encryption,
                      aggregate_cp_proof(nonce, public_key, u, 0).commitment))}
         : u \in uniform_bignum_o_q}

\* my_C: the challenge as it comes out when the proof is checked.
\* A bug: the number of selections is left out of the equation.
aggregate_uncounted(proof, encryption, my_C, public_key, l_int) ==
  /\ my_C = proof.challenge
  /\ pow_mod_p(Generator, proof.response)
       = mul_mod_p(proof.commitment.nonce_encoding,
                   pow_mod_p(encryption.nonce_encoding, my_C))
Crypto_check_aggregate_cp_proof(proof, encryption, my_C, public_key, l_int) ==
  /\ my_C = proof.challenge
  /\ pow_mod_p(Generator, proof.response)
       = mul_mod_p(proof.commitment.nonce_encoding,
                   pow_mod_p(encryption.nonce_encoding, my_C))
  /\ mul_mod_p(pow_mod_p(Generator, MulModQ(l_int, my_C)),
               pow_mod_p(public_key, proof.response))
       = mul_mod_p(proof.commitment.message_encoding,
                   pow_mod_p(encryption.message_encoding, my_C))

(* The proof that a selection is 0 or 1 ************************************)
\* Crypto_generate_dis_proof: the value that was not selected gets a proof made
\* up from a challenge drawn beforehand, the other what is left of the challenge.
fake_commitment(encryption, selected, public_key, fake_challenge, fake_response) ==
  LET fake_message == IF selected THEN 1 ELSE pow_mod_p(Generator, fake_challenge)
  IN  Encryption(
        div_mod_p(pow_mod_p(Generator, fake_response),
                  pow_mod_p(encryption.nonce_encoding, fake_challenge)),
        div_mod_p(mul_mod_p(pow_mod_p(public_key, fake_response), fake_message),
                  pow_mod_p(encryption.message_encoding, fake_challenge)))

\* d: what was drawn, d.u, d.fake_challenge and d.fake_response.
dis_commitments(encryption, selected, public_key, d) ==
  LET fake == fake_commitment(encryption, selected, public_key,
                              d.fake_challenge, d.fake_response)
      real == Encryption(pow_mod_p(Generator, d.u), pow_mod_p(public_key, d.u))
  IN  IF selected THEN <<fake, real>> ELSE <<real, fake>>

dis_transcript(encryption, selected, public_key, d) ==
  LET commitments == dis_commitments(encryption, selected, public_key, d)
  IN  Numbers(encryption) \o Numbers(commitments[1]) \o Numbers(commitments[2])

dis_proof(encryption, selected, public_key, nonce, d, challenge) ==
  LET commitments == dis_commitments(encryption, selected, public_key, d)
      real_challenge == SubModQ(challenge, d.fake_challenge)
      real_response == AddModQ(d.u, MulModQ(real_challenge, nonce))
      fake == [challenge |-> d.fake_challenge, response |-> d.fake_response]
      real == [challenge |-> real_challenge, response |-> real_response]
  IN  [commitments |-> commitments,
       challenge |-> challenge,
       parts |-> IF selected THEN <<fake, real>> ELSE <<real, fake>>]

Draws == [u : uniform_bignum_o_q,
          fake_challenge : uniform_bignum_o, fake_response : uniform_bignum_o]

\* A bug: of each half only the equation of the nonce is checked.
dis_proof_of_nonce(proof, encryption, public_key) ==
  LET holds(v) ==
        LET commitment == proof.commitments[v + 1]
            part == proof.parts[v + 1]
        IN  pow_mod_p(Generator, part.response)
              = mul_mod_p(commitment.nonce_encoding,
                          pow_mod_p(encryption.nonce_encoding, part.challenge))
  IN  /\ proof.challenge = AddModQ(proof.parts[1].challenge, proof.parts[2].challenge)
      /\ holds(0) /\ holds(1)

\* It does not compute the challenge again, only that its parts add up to it.
Crypto_check_dis_proof(proof, encryption, public_key) ==
  LET holds(v) ==
        LET commitment == proof.commitments[v + 1]
            part == proof.parts[v + 1]
        IN  /\ pow_mod_p(Generator, part.response)
                 = mul_mod_p(commitment.nonce_encoding,
                             pow_mod_p(encryption.nonce_encoding, part.challenge))
            /\ mul_mod_p(pow_mod_p(Generator, v * part.challenge),
                         pow_mod_p(public_key, part.response))
                 = mul_mod_p(commitment.message_encoding,
                             pow_mod_p(encryption.message_encoding, part.challenge))
  IN  /\ proof.challenge = AddModQ(proof.parts[1].challenge, proof.parts[2].challenge)
      /\ holds(0) /\ holds(1)

=============================================================================
