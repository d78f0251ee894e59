-------------------------- MODULE DecryptionMessages --------------------------
(***************************************************************************)
(* The values of decryption: tallies, and what is multiplied into them     *)
(* (src/electionguard/decryption/message_reps.h, crypto.c).                *)
(*                                                                         *)
(* An encrypted tally is the product of the ballots accumulated into it:   *)
(* the model keeps how often each cast ballot was.  Two tallies have the   *)
(* same message encoding only if they accumulate the same ballots, for     *)
(* every encryption has a nonce of its own; and since a ballot is read as  *)
(* a whole, a tally of one selection accumulates what the others do.       *)
(***************************************************************************)
EXTENDS ThresholdShares, Sequences, Bags

CONSTANTS
  Record,         \* the voting record: for each ballot, is it cast (or spoiled)?
  NumSelections,  \* num_selections of the record and of every trustee
  MaxTally        \* bound: how often a ballot may be accumulated by one trustee

ASSUME RecordAssumption ==
  /\ Record \in Seq(BOOLEAN)
  /\ NumSelections \in Nat \ {0}
  /\ MaxTally \in Nat \ {0}

Cast == {b \in DOMAIN Record : Record[b]}
Selection == 0 .. NumSelections - 1
Tally == [Cast -> 0 .. MaxTally]

\* Crypto_encryption_homomorphic_zero: nothing accumulated.
ZeroTally == [b \in Cast |-> 0]

\* What the tally of the voting record is: every cast ballot once.
RecordTally == [b \in Cast |-> 1]

\* The product of an encrypted zero is 1, which is too short for export_to_64_t:
\* a share or a fragment of it is a SERIALIZE_ERROR.
TallyWritable(tally) == tally # ZeroTally

\* What a trustee sends is its tally's nonce encoding raised to a key of trustee
\* of: to the coefficient 0 of its own, or to its share of another's, weighted
\* for the trustees in available.
ShareFactor(l, tally) ==
  [kind |-> "share", of |-> l, by |-> l, available |-> {}, tally |-> tally]
FragmentFactor(l, d, available, tally) ==
  [kind |-> "fragment", of |-> d, by |-> l, available |-> available, tally |-> tally]

\* What a factor counts for in the exponent of coefficient e of trustee i's key.
FactorWeight(f, i, e) ==
  CASE f.of # i -> 0
    [] f.of = i /\ f.kind = "share" -> IF e = 0 THEN 1 ELSE 0
    [] f.of = i /\ f.kind = "fragment" ->
         MulModQ(LagrangeCoefficient(f.by, f.available), ShareWeight(f.by, e))

\* The exponent, in the product of a bag of factors, of ballot b's nonce encoding
\* raised to coefficient e of trustee i's key.
ProductExponent(factors, i, e, b) ==
  SumModQ([f \in BagToSet(factors) |->
             MulModQ(FactorWeight(f, i, e), f.tally[b] * factors[f])])

\* Dividing the message encoding of a tally by the product leaves g^votes: the
\* product is the nonce encoding of that tally raised to every trustee's key.
Opens(factors, tally) ==
  \A i \in Trustee, e \in Degree, b \in Cast :
    ProductExponent(factors, i, e, b) = (IF e = 0 THEN tally[b] ELSE 0) % Q

==============================================================================
