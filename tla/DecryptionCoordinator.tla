------------------------ MODULE DecryptionCoordinator ------------------------
(***************************************************************************)
(* struct Decryption_Coordinator_s and its operations                      *)
(* (src/electionguard/decryption/coordinator.c).  A message that is        *)
(* rejected (duplicate or unknown trustee) changes nothing and has no      *)
(* action; CONFUSED_DECRYPTION_TRUSTEE does change the state and has one.  *)
(***************************************************************************)
EXTENDS DecryptionMessages

VARIABLES
  anounced,                \* trustees whose share was received
  tallies_initialized,
  message_encoding,        \* the tally of the first share received
  nonce_encoding,          \* per selection, the bag of factors multiplied so far
  responded,               \* trustees whose fragments were received
  num_decryption_fragments \* for each trustee, the fragments that stand in for it

coordinatorVars == <<anounced, tallies_initialized, message_encoding,
                     nonce_encoding, responded, num_decryption_fragments>>

CoordinatorInit ==
  /\ anounced = [i \in Trustee |-> FALSE]
  /\ tallies_initialized = FALSE
  /\ message_encoding = ZeroTally
  /\ nonce_encoding = [s \in Selection |-> EmptyBag]
  /\ responded = [i \in Trustee |-> FALSE]
  /\ num_decryption_fragments = [i \in Trustee |-> 0]

Anounced == {i \in Trustee : anounced[i]}
Missing == Trustee \ Anounced

MarkAnounced(i) == anounced' = [anounced EXCEPT ![i] = TRUE]

\* The first share is copied.
ReceiveFirstShare(m) ==
  /\ ~anounced[m.from]
  /\ ~tallies_initialized
  /\ MarkAnounced(m.from)
  /\ tallies_initialized' = TRUE
  /\ message_encoding' = m.tally
  /\ nonce_encoding' = [s \in Selection |-> SetToBag({ShareFactor(m.from, m.tally)})]
  /\ UNCHANGED <<responded, num_decryption_fragments>>

ReceiveShare(m) ==
  /\ ~anounced[m.from]
  /\ tallies_initialized
  /\ m.tally = message_encoding
  /\ MarkAnounced(m.from)
  /\ nonce_encoding' = [s \in Selection |->
       nonce_encoding[s] (+) SetToBag({ShareFactor(m.from, m.tally)})]
  /\ UNCHANGED <<tallies_initialized, message_encoding, responded,
                 num_decryption_fragments>>

\* CONFUSED_DECRYPTION_TRUSTEE: the share of another tally.  The trustee is marked
\* first, and the nonce encoding of the selection is multiplied before its message
\* encoding is compared, so selection 0 has the factor and the others do not.
ReceiveConfusedShare(m) ==
  /\ ~anounced[m.from]
  /\ tallies_initialized
  /\ m.tally # message_encoding
  /\ MarkAnounced(m.from)
  /\ nonce_encoding' = [nonce_encoding EXCEPT
       ![0] = @ (+) SetToBag({ShareFactor(m.from, m.tally)})]
  /\ UNCHANGED <<tallies_initialized, message_encoding, responded,
                 num_decryption_fragments>>

\* fill_requests: what trustee i, which has announced, is asked for: the missing
\* trustees if i is among the first Threshold that announced, nothing otherwise.
\* A bug Requested could have: one trustee too few is asked.
RequestedOneShort(i) ==
  IF Cardinality({j \in Anounced : j < i}) + 1 < Threshold THEN Missing ELSE {}
Requested(i) ==
  IF Cardinality({j \in Anounced : j < i}) < Threshold THEN Missing ELSE {}

ResetFragments ==
  /\ responded' = [i \in Trustee |-> FALSE]
  /\ num_decryption_fragments' = [i \in Trustee |-> 0]

AllSharesReceived ==
  /\ Cardinality(Anounced) >= Threshold
  /\ ResetFragments
  /\ UNCHANGED <<anounced, tallies_initialized, message_encoding, nonce_encoding>>

\* A bug NotYetResponded could have: the check is forgotten.
NotYetRespondedAssumed(i) == anounced[i]
NotYetResponded(i) == anounced[i] /\ ~responded[i]

\* The fragments are taken as they are: what m.from was asked for is not looked up.
ReceiveFragments(m) ==
  /\ NotYetResponded(m.from)
  /\ responded' = [responded EXCEPT ![m.from] = TRUE]
  /\ num_decryption_fragments' = [d \in Trustee |->
       num_decryption_fragments[d] + (IF d \in m.requested THEN 1 ELSE 0)]
  /\ nonce_encoding' = [s \in Selection |->
       nonce_encoding[s]
         (+) SetToBag({FragmentFactor(m.from, d, Trustee \ m.requested, m.tally) :
                         d \in m.requested})]
  /\ UNCHANGED <<anounced, tallies_initialized, message_encoding>>

\* A bug all_trustees_seen_or_compensated could have: a trustee that announced need
\* not have responded, and any fragment compensates for one that did not announce.
anounced_or_compensated ==
  \A i \in Trustee : anounced[i] \/ num_decryption_fragments[i] > 0
all_trustees_seen_or_compensated ==
  \A i \in Trustee : IF anounced[i] THEN responded[i]
                     ELSE num_decryption_fragments[i] = Threshold

\* log_generator_mod_p finds the votes of a tally that opens; of one that does not
\* it searches every power of g: its limit is never compared with the result.
Decrypted == \A s \in Selection : Opens(nonce_encoding[s], message_encoding)

AllFragmentsReceived ==
  /\ all_trustees_seen_or_compensated
  /\ UNCHANGED coordinatorVars

==============================================================================
