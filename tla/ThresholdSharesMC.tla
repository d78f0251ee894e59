-------------------------- MODULE ThresholdSharesMC --------------------------
(* Every polynomial of the instance against every set of trustees that is   *)
(* large enough to decrypt.                                                 *)
EXTENDS Encryption

VARIABLES
  coefficients,   \* of one trustee's private key
  available       \* the trustees whose shares are put together

Init ==
  /\ coefficients \in [Degree -> Exponent]
  /\ available \in {A \in SUBSET Trustee : Cardinality(A) = Threshold}

\* The product over the available trustees of their shares, each raised to its
\* weight, as an exponent.
Recombined ==
  SumModQ([l \in available |->
             MulModQ(LagrangeCoefficient(l, available),
                     computeTrusteePolynomial(coefficients, l))])

\* One more trustee turns up: its share joins the others.
Join ==
  \E l \in Trustee \ available :
    available' = available \union {l} /\ UNCHANGED coefficients

\* One share is lost, and enough of them are left.
Leave ==
  \E l \in available :
    /\ Cardinality(available) > Threshold
    /\ available' = available \ {l}
    /\ UNCHANGED coefficients

Next == Join \/ Leave
Spec == Init /\ [][Next]_<<coefficients, available>>

\* README.rst of include/electionguard: any k of the trustees can decrypt.  What
\* the shares of any k or more trustees add up to, with the weights the code
\* computes, is the private key (coefficient 0).
SharesRecoverKey == Recombined = coefficients[0]

\* Each polynomial once.
APolynomial == available = 0 .. Threshold - 1

\* Crypto_check_keypair_proof (crypto.c:96): the proof a trustee sends with its
\* key passes for that key and no other, unless the challenge happens to be 0:
\* another commitment in any one place is found out.
KeyProofBindsKey ==
  APolynomial =>
    \A u \in uniform_bignum_o_q, challenge, x \in Exponent, e \in Degree :
      LET claimed == [coefficients EXCEPT ![e] = x]
      IN  Crypto_check_keypair_proof(coef_commitments(claimed),
                                     schnorr_proof(coefficients, [k \in Degree |-> u], challenge))
            <=> claimed = coefficients \/ challenge = 0

\* Crypto_check_validity_share_against_public_keys (crypto.c:377): what comes
\* out of RSA passes at a trustee exactly when it is the point of the sender's
\* polynomial that is this trustee's, whichever exponent was encrypted.
OnlyOwnSharePasses ==
  APolynomial =>
    \A l \in Trustee, rsa \in generate_keys, share \in Exponent :
      Crypto_check_validity_share_against_public_keys(
          RSA_Encrypt(share, rsa), coef_commitments(coefficients), rsa, l)
        <=> share = computeTrusteePolynomial(coefficients, l)

==============================================================================
