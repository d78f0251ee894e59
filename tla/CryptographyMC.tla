---------------------------- MODULE CryptographyMC ----------------------------
(* What the election rests on and computes in one go: key shares, encrypted  *)
(* ballots with their proofs, long numbers, messages in bytes, trackers.     *)
(* A behaviour does one of these things, and the rest of the state is idle.  *)
EXTENDS ThresholdSharesMC, VotingEncrypter, UintArithmetic, MessageLayouts, Tracker

VARIABLE input    \* what is computed with

SharesIdle == coefficients = [e \in Degree |-> 0] /\ available = {}
EncrypterIdle ==
  /\ ballot = [of |-> "nothing"] /\ joint_key = 1 /\ base_hash = 0 /\ encrypted = <<>>
  /\ tally = Crypto_encryption_homomorphic_zero /\ aggregate_nonce = 0
  /\ status = "SUCCESS" /\ stage = "idle" /\ unfilled = FALSE

TrackerIdle == tracker = <<>>
NumbersIdle == operands = [a |-> 0, m |-> 0]
MessagesIdle == message = [stage |-> "none"]

(* Messages ****************************************************************)
\* Numbers modulo p that fill their words and one that does not; exponents and
\* hashes likewise, and shares and the numbers of RSA keys.
Filling(ct) == IntegerPower(WordBase, ct - 1)   \* the smallest number of that many words
LargeNumbers == {Filling(PWords), Filling(PWords + 1) - 1, Filling(PWords) - 1}
SmallNumbers == {Filling(QWords), QValue - 1, Filling(QWords) - 1}
Shares == {Filling(ShareWords), Filling(ShareWords) - 1}
Factors == {Filling(RsaWords), Filling(RsaWords) - 1}
RsaNumbers == {Filling(2 * RsaWords), Filling(2 * RsaWords + 1) - 1, Filling(2 * RsaWords) - 1}
TheKeys ==
  {[coef_commitments |-> <<a, b>>,
    proof |-> [commitments |-> <<b, a>>, challenge |-> c, challenge_responses |-> <<r, c>>]]
   : a, b \in LargeNumbers, c, r \in SmallNumbers}
TheRsaKeys == {[n |-> n, e |-> 3] : n \in RsaNumbers}
TheEncryptions == {[nonce_encoding |-> a, message_encoding |-> b] : a, b \in LargeNumbers}

Messages(kind) ==
  CASE kind = "key_generated" ->
         [trustee_index : {0, 2}, public_key : TheKeys, rsa_public_key : TheRsaKeys]
    [] kind = "all_keys_received" ->
         {[public_keys |-> <<k, k>>, rsa_public_keys |-> <<a, b>>]
          : k \in TheKeys, a, b \in TheRsaKeys}
    [] kind = "shares_generated" ->
         [trustee_index : {0, 1, 3}, shares : UNION {[1 .. n -> Shares] : n \in 1 .. 3}]
    [] kind = "all_shares_received" ->
         [shares : UNION {[1 .. n -> [1 .. n -> Shares]] : n \in 1 .. 2}]
    [] kind = "shares_verified" -> [trustee_index : 0 .. 3, verified : {0, 1}]
    [] kind = "trustee_state" ->
         {[index |-> i, private_key |-> [coefficients |-> <<a, b>>],
           rsa_private_key |-> [e |-> 3, q |-> q, d |-> d, p |-> q, n |-> d],
           my_key_shares |-> <<s, s>>]
          : i \in {0, 3}, a, b \in LargeNumbers, d \in RsaNumbers, q \in Factors, s \in Shares}
    [] kind = "joint_public_key" -> [num_trustees : {1, 3}, public_key : LargeNumbers]
    [] kind = "ballot_identifier" -> 0 .. WordBase - 1
    [] kind = "encrypted_ballot" ->
         [id : {0, WordBase - 1}, selections : UNION {[1 .. n -> TheEncryptions] : n \in 1 .. 2}]
    [] kind = "decryption_share" ->
         [trustee_index : {0, 3}, tally_share : UNION {[1 .. n -> TheEncryptions] : n \in 1 .. 2}]
    [] kind = "decryption_fragments_request" ->
         [requested : UNION {[1 .. n -> {0, 1}] : n \in 1 .. 3}]
    [] kind = "decryption_fragments" ->
         {[trustee_index |-> i, requested |-> asked, num_selections |-> 1,
           partial_decryption_M |-> [k \in 1 .. 3 |-> <<a>>], lagrange_coefficient |-> w]
          : i \in {0, 3}, asked \in [1 .. 3 -> {0, 1}], a \in LargeNumbers, w \in SmallNumbers}
SmallContents == [kind \in Kinds |-> Messages(kind)]

(* Trackers ****************************************************************)
\* One group of bytes, some or all of it there, and a byte of a second.
ShortHashes ==
  UNION {[1 .. n -> Byte] : n \in 1 .. 4} \union [1 .. 5 -> {0, HalfByte + 1}]

(* Behaviours **************************************************************)
CryptographyInit ==
  \/ /\ Init
     /\ EncrypterIdle /\ NumbersIdle /\ MessagesIdle /\ TrackerIdle /\ input = "nothing"
  \/ /\ EncrypterInit
     /\ SharesIdle /\ NumbersIdle /\ MessagesIdle /\ TrackerIdle /\ input = "nothing"
  \/ /\ NumbersInit
     /\ SharesIdle /\ EncrypterIdle /\ MessagesIdle /\ TrackerIdle /\ input = "numbers"
  \/ /\ MessagesInit
     /\ SharesIdle /\ EncrypterIdle /\ NumbersIdle /\ TrackerIdle /\ input = "messages"
  \/ /\ TrackerInit
     /\ SharesIdle /\ EncrypterIdle /\ NumbersIdle /\ MessagesIdle /\ input = "ballots"

SharesNext ==
  /\ available # {}
  /\ Next
  /\ UNCHANGED <<encrypterVars, operands, message, tracker, input>>
BallotNext ==
  EncrypterNext /\ UNCHANGED <<coefficients, available, operands, message, tracker, input>>
NumbersNext ==
  /\ input = "numbers"
  /\ ChooseModulus
  /\ UNCHANGED <<coefficients, available, encrypterVars, message, tracker, input>>
MessagesNext ==
  /\ input = "messages"
  /\ ChooseMessage
  /\ UNCHANGED <<coefficients, available, encrypterVars, operands, tracker, input>>
TrackerNext ==
  /\ input = "ballots"
  /\ ReconstructTracker
  /\ UNCHANGED <<coefficients, available, encrypterVars, operands, message, input>>

CryptographyNext ==
  SharesNext \/ BallotNext \/ NumbersNext \/ MessagesNext \/ TrackerNext

CryptographySpec ==
  CryptographyInit
  /\ [][CryptographyNext]_<<coefficients, available, encrypterVars, operands, message, tracker, input>>

==============================================================================
