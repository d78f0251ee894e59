--------------------------- MODULE DecryptionProofs ---------------------------
(***************************************************************************)
(* The safety of the decryption of a tally, for every number of trustees,  *)
(* every threshold and every record.                                       *)
(***************************************************************************)
EXTENDS Decryption, Lagrange, FiniteSetTheorems, TLAPS

(* Facts about bags and sets.                                              *)

LEMMA AddFactors ==
  ASSUME NEW B, IsABag(B), NEW S
  PROVE  /\ IsABag(B (+) SetToBag(S))
         /\ BagToSet(B (+) SetToBag(S)) = BagToSet(B) \cup S
         /\ \A e \in BagToSet(B) \ S : (B (+) SetToBag(S))[e] = B[e]
         /\ \A e \in S \ BagToSet(B) : (B (+) SetToBag(S))[e] = 1
BY DEF IsABag, BagToSet, (+), SetToBag

LEMMA TrusteesFinite == IsFiniteSet(Trustee) /\ Cardinality(Trustee) = NumTrustees
BY ThresholdAssumption, FS_Interval DEF Trustee

LEMMA CountTypes ==
  ASSUME NEW S \in SUBSET Trustee
  PROVE  IsFiniteSet(S) /\ Cardinality(S) \in 0 .. NumTrustees
BY TrusteesFinite, FS_Subset, FS_CardinalityType, ThresholdAssumption

LEMMA TallyTypes ==
  /\ ZeroTally \in Tally /\ RecordTally \in Tally
  /\ 0 \in Selection
  /\ Threshold \in Nat \ {0} /\ NumTrustees \in Nat \ {0}
  /\ \A l, tally : IsABag(SetToBag({ShareFactor(l, tally)}))
  /\ IsABag(EmptyBag)
BY RecordAssumption, ThresholdAssumption
   DEF ZeroTally, RecordTally, Tally, Selection, IsABag, SetToBag, EmptyBag

------------------------------------------------------------------------------
(* Types.  That a fragment count stays within the number of trustees holds *)
(* because every response is counted once: responses bound the fragments.  *)

Responded == {i \in Trustee : responded[i]}

TypeInv ==
  /\ TypeOK
  /\ DOMAIN nonce_encoding = Selection
  /\ \A d \in Trustee : num_decryption_fragments[d] <= Cardinality(Responded)
  /\ Anounced \subseteq participants
  /\ \A r \in requests : r.to \in participants

LEMMA InitTypeInv == Init => TypeInv
<1> SUFFICES ASSUME Init PROVE TypeInv
  OBVIOUS
<1>1. /\ anounced \in [Trustee -> BOOLEAN] /\ responded \in [Trustee -> BOOLEAN]
      /\ tallies_initialized \in BOOLEAN
      /\ message_encoding \in Tally
  BY TallyTypes DEF Init, CoordinatorInit
<1>2. /\ DOMAIN nonce_encoding = Selection
      /\ \A s \in Selection : IsABag(nonce_encoding[s])
  BY TallyTypes DEF Init, CoordinatorInit
<1>3. /\ num_decryption_fragments \in [Trustee -> 0 .. NumTrustees]
      /\ \A d \in Trustee : num_decryption_fragments[d] <= Cardinality(Responded)
  <2>1. Responded = {}
    BY DEF Init, CoordinatorInit, Responded
  <2>2. Cardinality(Responded) = 0
    BY <2>1, FS_EmptySet
  <2> QED
    BY <2>2, TallyTypes DEF Init, CoordinatorInit
<1>4. /\ tallies \in [Trustee -> Tally] /\ participants \subseteq Trustee
      /\ fed \in [Trustee -> {"fresh", "failed", "fed"}]
  BY TallyTypes DEF Init, TrusteesInit
<1>5. faults \in 0 .. MaxFaults
  BY ClientAssumption DEF Init
<1>6. Anounced = {}
  BY DEF Init, CoordinatorInit, Anounced
<1> QED
  BY <1>1, <1>2, <1>3, <1>4, <1>5, <1>6 DEF Init, TypeOK, TypeInv

\* The variables of the coordinator.
CoordinatorTypes ==
  /\ anounced \in [Trustee -> BOOLEAN]
  /\ tallies_initialized \in BOOLEAN
  /\ message_encoding \in Tally
  /\ DOMAIN nonce_encoding = Selection
  /\ \A s \in Selection : IsABag(nonce_encoding[s])
  /\ responded \in [Trustee -> BOOLEAN]
  /\ num_decryption_fragments \in [Trustee -> 0 .. NumTrustees]
  /\ \A d \in Trustee : num_decryption_fragments[d] <= Cardinality(Responded)

\* Those of the trustees and of the client.
ClientTypes ==
  /\ tallies \in [Trustee -> Tally]
  /\ participants \subseteq Trustee
  /\ fed \in [Trustee -> {"fresh", "failed", "fed"}]
  /\ faults \in 0 .. MaxFaults
  /\ retried \subseteq participants
  /\ share_msgs \subseteq [from : participants, tally : Tally]
  /\ requests \subseteq Request
  /\ fragments_msgs \subseteq [from : participants, requested : SUBSET Trustee, tally : Tally]
  /\ published \subseteq Tally
  /\ undecryptable \in BOOLEAN
  /\ Anounced \subseteq participants
  /\ \A r \in requests : r.to \in participants

LEMMA TypeInvParts == TypeInv <=> CoordinatorTypes /\ ClientTypes
BY DEF TypeInv, TypeOK, CoordinatorTypes, ClientTypes

LEMMA CoordinatorUnchanged ==
  ASSUME CoordinatorTypes, UNCHANGED coordinatorVars PROVE CoordinatorTypes'
BY DEF CoordinatorTypes, coordinatorVars, Responded

LEMMA ReceiveShareTypes ==
  ASSUME CoordinatorTypes, NEW m \in [from : Trustee, tally : Tally],
         ReceiveFirstShare(m) \/ ReceiveShare(m) \/ ReceiveConfusedShare(m)
  PROVE  CoordinatorTypes'
<1>1. /\ anounced' \in [Trustee -> BOOLEAN] /\ tallies_initialized' \in BOOLEAN
      /\ message_encoding' \in Tally
      /\ UNCHANGED <<responded, num_decryption_fragments>>
  BY DEF CoordinatorTypes, ReceiveFirstShare, ReceiveShare, ReceiveConfusedShare,
         MarkAnounced
<1>2. /\ DOMAIN nonce_encoding' = Selection
      /\ \A s \in Selection : IsABag(nonce_encoding'[s])
  <2> DEFINE one == SetToBag({ShareFactor(m.from, m.tally)})
  <2>1. IsABag(one) /\ \A s \in Selection : IsABag(nonce_encoding[s] (+) one)
    BY TallyTypes, AddFactors DEF CoordinatorTypes
  <2>2. CASE ReceiveFirstShare(m)
    BY <2>1, <2>2 DEF ReceiveFirstShare
  <2>3. CASE ReceiveShare(m)
    BY <2>1, <2>3 DEF ReceiveShare
  <2>4. CASE ReceiveConfusedShare(m)
    <3>1. nonce_encoding' = [nonce_encoding EXCEPT ![0] = nonce_encoding[0] (+) one]
      BY <2>4 DEF ReceiveConfusedShare
    <3> HIDE DEF one
    <3> QED
      BY <2>1, <3>1, TallyTypes DEF CoordinatorTypes
  <2> QED
    BY <2>2, <2>3, <2>4
<1> QED
  BY <1>1, <1>2 DEF CoordinatorTypes, Responded

LEMMA ResetTypes ==
  ASSUME CoordinatorTypes, AllSharesReceived
  PROVE  CoordinatorTypes'
<1>1. Responded' = {}
  BY DEF AllSharesReceived, ResetFragments, Responded
<1>2. Cardinality(Responded') = 0
  BY <1>1, FS_EmptySet
<1>3. /\ responded' \in [Trustee -> BOOLEAN]
      /\ num_decryption_fragments' \in [Trustee -> 0 .. NumTrustees]
      /\ \A d \in Trustee : num_decryption_fragments'[d] <= Cardinality(Responded')
  BY <1>2, TallyTypes DEF AllSharesReceived, ResetFragments
<1> QED
  BY <1>3 DEF CoordinatorTypes, AllSharesReceived

\* One more response raises a count by one at most.
LEMMA OneMoreResponded ==
  ASSUME CoordinatorTypes, NEW m, m.from \in Trustee, ReceiveFragments(m)
  PROVE  /\ Responded' = Responded \cup {m.from} /\ m.from \notin Responded
         /\ Cardinality(Responded') = Cardinality(Responded) + 1
         /\ Cardinality(Responded') \in 0 .. NumTrustees
<1>1. Responded' = Responded \cup {m.from} /\ m.from \notin Responded
  BY DEF CoordinatorTypes, ReceiveFragments, NotYetResponded, Responded
<1>2. IsFiniteSet(Responded) /\ Cardinality(Responded') \in 0 .. NumTrustees
  BY CountTypes DEF Responded
<1> QED
  BY <1>1, <1>2, FS_AddElement

LEMMA ReceiveFragmentsTypes ==
  ASSUME CoordinatorTypes, NEW m, m.from \in Trustee, ReceiveFragments(m)
  PROVE  CoordinatorTypes'
<1>1. \A d \in Trustee :
        /\ num_decryption_fragments'[d] \in 0 .. NumTrustees
        /\ num_decryption_fragments'[d] <= Cardinality(Responded')
  <2> SUFFICES ASSUME NEW d \in Trustee
               PROVE  /\ num_decryption_fragments'[d] \in 0 .. NumTrustees
                      /\ num_decryption_fragments'[d] <= Cardinality(Responded')
    OBVIOUS
  <2>1. /\ num_decryption_fragments[d] \in Nat
        /\ num_decryption_fragments[d] <= Cardinality(Responded)
    BY TallyTypes DEF CoordinatorTypes
  <2>2. num_decryption_fragments'[d] = num_decryption_fragments[d]
                                         + (IF d \in m.requested THEN 1 ELSE 0)
    BY DEF ReceiveFragments
  <2>3. /\ Cardinality(Responded') = Cardinality(Responded) + 1
        /\ Cardinality(Responded') \in 0 .. NumTrustees
        /\ Cardinality(Responded) \in 0 .. NumTrustees
    BY OneMoreResponded, CountTypes DEF Responded
  <2> QED
    BY <2>1, <2>2, <2>3, TallyTypes
<1>2. num_decryption_fragments' \in [Trustee -> 0 .. NumTrustees]
  BY <1>1 DEF ReceiveFragments
<1>3. /\ DOMAIN nonce_encoding' = Selection
      /\ \A s \in Selection : IsABag(nonce_encoding'[s])
  BY AddFactors DEF ReceiveFragments, CoordinatorTypes
<1>4. responded' \in [Trustee -> BOOLEAN]
  BY DEF ReceiveFragments, CoordinatorTypes
<1> QED
  BY <1>1, <1>2, <1>3, <1>4 DEF CoordinatorTypes, ReceiveFragments

LEMMA NextTypes ==
  ASSUME CoordinatorTypes, ClientTypes, [Next]_vars
  PROVE  CoordinatorTypes' /\ ClientTypes'
<1>1. ASSUME NEW t \in Trustee, TrusteeTally(t)
      PROVE  CoordinatorTypes' /\ ClientTypes'
  <2>1. CoordinatorTypes'
    BY <1>1, CoordinatorUnchanged DEF TrusteeTally
  <2>2. tallies' \in [Trustee -> Tally]
    BY <1>1 DEF TrusteeTally, TallyVotingRecord, ClientTypes
  <2> QED
    BY <1>1, <2>1, <2>2 DEF TrusteeTally,
       ClientTypes, coordinatorVars, Anounced
<1>2. ASSUME NEW t \in Trustee, TrusteeTallyFails(t)
      PROVE  CoordinatorTypes' /\ ClientTypes'
  <2>1. CoordinatorTypes'
    BY <1>2, CoordinatorUnchanged DEF TrusteeTallyFails
  <2>2. tallies' \in [Trustee -> Tally]
    BY <1>2 DEF TrusteeTallyFails, TallyVotingRecordFails, ClientTypes
  <2>3. faults' \in 0 .. MaxFaults
    BY <1>2, ClientAssumption DEF TrusteeTallyFails, ClientTypes
  <2> QED
    BY <1>2, <2>1, <2>2, <2>3 DEF TrusteeTallyFails,
       ClientTypes, coordinatorVars, Anounced
<1>3. ASSUME NEW t \in Trustee, TrusteeRestart(t)
      PROVE  CoordinatorTypes' /\ ClientTypes'
  <2>1. CoordinatorTypes'
    BY <1>3, CoordinatorUnchanged DEF TrusteeRestart
  <2>2. tallies' \in [Trustee -> Tally]
    BY <1>3, TallyTypes DEF TrusteeRestart, DecryptionTrusteeNew, ClientTypes
  <2>3. faults' \in 0 .. MaxFaults
    BY <1>3, ClientAssumption DEF TrusteeRestart, ClientTypes
  <2> QED
    BY <1>3, <2>1, <2>2, <2>3 DEF TrusteeRestart,
       ClientTypes, coordinatorVars, Anounced
<1>4. ASSUME NEW t \in Trustee, TrusteeComputeShare(t)
      PROVE  CoordinatorTypes' /\ ClientTypes'
  <2>1. CoordinatorTypes'
    BY <1>4, CoordinatorUnchanged DEF TrusteeComputeShare
  <2>2. ShareMessage(t) \in [from : participants, tally : Tally]
    BY <1>4 DEF TrusteeComputeShare, ShareMessage, ClientTypes
  <2> QED
    BY <1>4, <2>1, <2>2 DEF TrusteeComputeShare,
       ComputeShare, ClientTypes, coordinatorVars, Anounced
<1>5. ASSUME NEW t \in Trustee, TrusteeComputeFragments(t)
      PROVE  CoordinatorTypes' /\ ClientTypes'
  <2>1. CoordinatorTypes'
    BY <1>5, CoordinatorUnchanged DEF TrusteeComputeFragments
  <2>2. PICK r \in requests :
          /\ r.to = t
          /\ fragments_msgs' = fragments_msgs \union {FragmentsMessage(t, r.requested)}
          /\ ComputeFragments(t, r.requested)
          /\ UNCHANGED <<coordinatorVars, participants, fed, faults, retried,
                         share_msgs, requests, published, undecryptable>>
    BY <1>5 DEF TrusteeComputeFragments
  <2>3. FragmentsMessage(t, r.requested)
          \in [from : participants, requested : SUBSET Trustee, tally : Tally]
    BY <1>5, <2>2 DEF FragmentsMessage, ClientTypes, Request
  <2> QED
    BY <2>1, <2>2, <2>3 DEF ComputeFragments, ClientTypes,
       coordinatorVars, Anounced
<1>6. CASE CoordinatorReceiveShare
  <2>1. PICK m \in share_msgs :
          /\ ReceiveFirstShare(m) \/ ReceiveShare(m) \/ ReceiveConfusedShare(m)
          /\ UNCHANGED <<tallies, clientVars>>
    BY <1>6 DEF CoordinatorReceiveShare
  <2>2. m \in [from : Trustee, tally : Tally] /\ m.from \in participants
    BY DEF ClientTypes
  <2>3. Anounced' \subseteq participants
    BY <2>1, <2>2
       DEF ReceiveFirstShare, ReceiveShare, ReceiveConfusedShare, MarkAnounced,
           Anounced, ClientTypes, CoordinatorTypes
  <2> QED
    BY <2>1, <2>2, <2>3, ReceiveShareTypes DEF ClientTypes, clientVars
<1>7. CASE CoordinatorAllSharesReceived
  <2>1. CoordinatorTypes'
    BY <1>7, ResetTypes DEF CoordinatorAllSharesReceived
  <2>2. ASSUME NEW r \in requests'
        PROVE  r \in Request /\ r.to \in participants
    <3>1. PICK i \in Anounced : r = [to |-> i, requested |-> Requested(i)]
      BY <1>7 DEF CoordinatorAllSharesReceived
    <3>2. i \in Trustee /\ i \in participants /\ Requested(i) \in SUBSET Trustee
      BY DEF Requested, Missing, Anounced, ClientTypes
    <3> QED
      BY <3>1, <3>2 DEF Request
  <2>3. Anounced' = Anounced
    BY <1>7 DEF CoordinatorAllSharesReceived, AllSharesReceived, Anounced
  <2> QED
    BY <1>7, <2>1, <2>2, <2>3 DEF CoordinatorAllSharesReceived, ClientTypes
<1>8. CASE CoordinatorReceiveFragments
  <2>1. PICK m \in fragments_msgs :
          ReceiveFragments(m) /\ UNCHANGED <<tallies, clientVars>>
    BY <1>8 DEF CoordinatorReceiveFragments
  <2>2. m.from \in Trustee
    BY DEF ClientTypes
  <2> QED
    BY <2>1, <2>2, ReceiveFragmentsTypes
       DEF ClientTypes, clientVars, ReceiveFragments, Anounced
<1>9. CASE CoordinatorAllFragmentsReceived
  <2>1. CoordinatorTypes'
    BY <1>9, CoordinatorUnchanged
       DEF CoordinatorAllFragmentsReceived, AllFragmentsReceived
  <2>2. published' \subseteq Tally
    BY <1>9 DEF CoordinatorAllFragmentsReceived, ClientTypes, CoordinatorTypes
  <2>3. undecryptable' \in BOOLEAN
    BY <1>9 DEF CoordinatorAllFragmentsReceived
  <2> QED
    BY <1>9, <2>1, <2>2, <2>3 DEF CoordinatorAllFragmentsReceived, ClientTypes,
       AllFragmentsReceived, coordinatorVars, Anounced
<1>10. CASE UNCHANGED vars
  BY <1>10, CoordinatorUnchanged
     DEF vars, clientVars, ClientTypes, coordinatorVars, Anounced
<1> QED
  BY <1>1, <1>2, <1>3, <1>4, <1>5, <1>6, <1>7, <1>8, <1>9, <1>10
     DEF Next, CoordinatorStep, TrusteeStep

LEMMA NextTypeInv == TypeInv /\ [Next]_vars => TypeInv'
<1>1. ASSUME TypeInv, [Next]_vars PROVE TypeInv'
  <2>1. CoordinatorTypes' /\ ClientTypes'
    BY <1>1, NextTypes, TypeInvParts
  <2> QED
    BY <2>1 DEF TypeInv, TypeOK, CoordinatorTypes, ClientTypes
<1> QED
  BY <1>1

\* The coordinator's and the trustees' state is well formed; in particular the
\* fragments that stand in for a trustee are at most one from each trustee.
THEOREM DecryptionTypeCorrect == Spec => []TypeOK
<1>1. Init => TypeInv
  BY InitTypeInv
<1>2. TypeInv /\ [Next]_vars => TypeInv'
  BY NextTypeInv
<1>3. TypeInv => TypeOK
  BY DEF TypeInv
<1> QED
  BY <1>1, <1>2, <1>3, PTL DEF Spec

------------------------------------------------------------------------------
(* The fragments.  With shares in their phase the trustees that announced  *)
(* are the participants from the first request on, so every request, every *)
(* answer and every fragment is about the same missing trustees.           *)

\* The fragments in the product of selection s.
FragmentFactors(s) == {f \in BagToSet(nonce_encoding[s]) : f.kind = "fragment"}

\* The trustees whose answer holds a fragment for d.
Answered(d) == {i \in Responded : d \in Requested(i)}

AskedOnce ==
  /\ requests = {} => fragments_msgs = {} /\ Responded = {}
  /\ requests # {} =>
       /\ participants \subseteq Anounced
       /\ requests = {[to |-> i, requested |-> Requested(i)] : i \in Anounced}
  /\ \A m \in fragments_msgs : m.from \in Anounced /\ m.requested = Requested(m.from)

CountsAnswers == \A d \in Trustee : num_decryption_fragments[d] = Cardinality(Answered(d))

\* One fragment for each answer and missing trustee, and no other.
FactorsAreAnswers ==
  \A s \in Selection :
    /\ \A f \in FragmentFactors(s) :
         /\ f.of \in Trustee /\ f.by \in Answered(f.of)
         /\ f.available = Anounced /\ nonce_encoding[s][f] = 1
    /\ \A d \in Trustee : \A i \in Answered(d) :
         \E f \in FragmentFactors(s) : f.of = d /\ f.by = i
    /\ \A f, g \in FragmentFactors(s) : f.of = g.of /\ f.by = g.by => f = g

FragmentsInv == TypeInv /\ AskedOnce /\ CountsAnswers /\ FactorsAreAnswers

LEMMA InitFragmentsInv == Init => FragmentsInv
<1> SUFFICES ASSUME Init PROVE AskedOnce /\ CountsAnswers /\ FactorsAreAnswers
  BY InitTypeInv DEF FragmentsInv
<1>1. Responded = {} /\ \A d : Answered(d) = {}
  BY DEF Init, CoordinatorInit, Responded, Answered
<1>2. AskedOnce
  BY <1>1 DEF Init, AskedOnce
<1>3. CountsAnswers
  BY <1>1, FS_EmptySet DEF Init, CoordinatorInit, CountsAnswers
<1>4. \A s \in Selection : FragmentFactors(s) = {}
  BY DEF Init, CoordinatorInit, FragmentFactors, BagToSet, EmptyBag, SetToBag
<1>5. FactorsAreAnswers
  BY <1>1, <1>4 DEF FactorsAreAnswers
<1> QED
  BY <1>2, <1>3, <1>5

\* A step of the trustees, or one that only looks.
LEMMA FragmentsUntouched ==
  ASSUME AskedOnce, CountsAnswers, FactorsAreAnswers,
         UNCHANGED <<coordinatorVars, participants, requests, fragments_msgs>>
  PROVE  AskedOnce' /\ CountsAnswers' /\ FactorsAreAnswers'
<1>1. UNCHANGED <<anounced, responded, num_decryption_fragments, nonce_encoding>>
  BY DEF coordinatorVars
<1>2. UNCHANGED <<Anounced, Responded>>
  BY <1>1 DEF Anounced, Responded
<1>3. \A i : Requested(i)' = Requested(i)
  BY <1>2 DEF Requested, Missing
<1>4. \A d : Answered(d)' = Answered(d)
  BY <1>2, <1>3 DEF Answered
<1>5. \A s : FragmentFactors(s)' = FragmentFactors(s)
  BY <1>1 DEF FragmentFactors
<1>6. AskedOnce'
  BY <1>2, <1>3 DEF AskedOnce
<1>7. CountsAnswers'
  BY <1>1, <1>4 DEF CountsAnswers
<1>8. FactorsAreAnswers'
  BY <1>1, <1>2, <1>4, <1>5 DEF FactorsAreAnswers
<1> QED
  BY <1>6, <1>7, <1>8

\* As long as nothing was requested there is no fragment, and a share adds none.
LEMMA SharesAddNoFragment ==
  ASSUME CoordinatorTypes, AskedOnce, CountsAnswers, FactorsAreAnswers,
         requests = {}, UNCHANGED <<requests, fragments_msgs>>,
         NEW m,
         ReceiveFirstShare(m) \/ ReceiveShare(m) \/ ReceiveConfusedShare(m)
  PROVE  AskedOnce' /\ CountsAnswers' /\ FactorsAreAnswers'
<1>1. Responded = {} /\ UNCHANGED <<responded, num_decryption_fragments>>
  BY DEF AskedOnce, ReceiveFirstShare, ReceiveShare, ReceiveConfusedShare
<1>2. Responded' = {}
  BY <1>1 DEF Responded
<1>3. \A d : Answered(d) = {} /\ Answered(d)' = {}
  BY <1>1, <1>2 DEF Answered
<1>4. AskedOnce'
  BY <1>2 DEF AskedOnce
<1>5. CountsAnswers'
  BY <1>1, <1>3 DEF CountsAnswers
<1>6. \A s \in Selection : FragmentFactors(s)' = {}
  <2> SUFFICES ASSUME NEW s \in Selection PROVE FragmentFactors(s)' = {}
    OBVIOUS
  <2> DEFINE one == ShareFactor(m.from, m.tally)
  <2>1. FragmentFactors(s) = {} /\ one.kind # "fragment"
    BY <1>3 DEF FactorsAreAnswers, ShareFactor
  <2>2. BagToSet(nonce_encoding[s])' \subseteq BagToSet(nonce_encoding[s]) \cup {one}
    <3>1. BagToSet(SetToBag({one})) = {one}
      BY DEF BagToSet, SetToBag
    <3>2. BagToSet(nonce_encoding[s] (+) SetToBag({one}))
            = BagToSet(nonce_encoding[s]) \cup {one}
      BY AddFactors DEF CoordinatorTypes
    <3>3. CASE ReceiveFirstShare(m)
      BY <3>1, <3>3 DEF ReceiveFirstShare
    <3>4. CASE ReceiveShare(m)
      BY <3>2, <3>4 DEF ReceiveShare
    <3>5. CASE ReceiveConfusedShare(m)
      <4>1. nonce_encoding' = [nonce_encoding EXCEPT
                                 ![0] = nonce_encoding[0] (+) SetToBag({one})]
        BY <3>5 DEF ReceiveConfusedShare
      <4>2. nonce_encoding'[s] = nonce_encoding[s]
              \/ nonce_encoding'[s] = nonce_encoding[s] (+) SetToBag({one})
        BY <4>1 DEF CoordinatorTypes
      <4> QED
        BY <3>2, <4>2
    <3> QED
      BY <3>3, <3>4, <3>5
  <2> QED
    BY <2>1, <2>2 DEF FragmentFactors
<1>7. FactorsAreAnswers'
  BY <1>3, <1>6 DEF FactorsAreAnswers
<1> QED
  BY <1>4, <1>5, <1>7

\* What trustee t is asked for is what its answer is about.
LEMMA AnswersAreAsked ==
  ASSUME AskedOnce, CountsAnswers, FactorsAreAnswers,
         NEW t, NEW r \in requests, r.to = t,
         fragments_msgs' = fragments_msgs \union {FragmentsMessage(t, r.requested)},
         UNCHANGED <<coordinatorVars, participants, requests>>
  PROVE  AskedOnce' /\ CountsAnswers' /\ FactorsAreAnswers'
<1>1. UNCHANGED <<anounced, responded, num_decryption_fragments, nonce_encoding>>
  BY DEF coordinatorVars
<1>2. UNCHANGED <<Anounced, Responded>>
  BY <1>1 DEF Anounced, Responded
<1>3. \A i : Requested(i)' = Requested(i)
  BY <1>2 DEF Requested, Missing
<1>4. \A d : Answered(d)' = Answered(d)
  BY <1>2, <1>3 DEF Answered
<1>5. \A s : FragmentFactors(s)' = FragmentFactors(s)
  BY <1>1 DEF FragmentFactors
<1>6. t \in Anounced /\ r.requested = Requested(t)
  BY DEF AskedOnce
<1>7. AskedOnce'
  BY <1>2, <1>3, <1>6 DEF AskedOnce, FragmentsMessage
<1>8. CountsAnswers'
  BY <1>1, <1>4 DEF CountsAnswers
<1>9. FactorsAreAnswers'
  BY <1>1, <1>2, <1>4, <1>5 DEF FactorsAreAnswers
<1> QED
  BY <1>7, <1>8, <1>9

\* Asking again, before the first answer, changes nothing.
LEMMA AskingAgain ==
  ASSUME CoordinatorTypes, AskedOnce, CountsAnswers, FactorsAreAnswers,
         participants \subseteq Anounced, Responded = {},
         AllSharesReceived, UNCHANGED <<participants, fragments_msgs>>,
         requests' = {[to |-> i, requested |-> Requested(i)] : i \in Anounced}
  PROVE  AskedOnce' /\ CountsAnswers' /\ FactorsAreAnswers'
<1>1. UNCHANGED <<anounced, nonce_encoding>>
  BY DEF AllSharesReceived
<1>2. Responded' = {} /\ Anounced' = Anounced
  BY <1>1 DEF AllSharesReceived, ResetFragments, Responded, Anounced
<1>3. \A i : Requested(i)' = Requested(i)
  BY <1>2 DEF Requested, Missing
<1>4. \A d : Answered(d) = {} /\ Answered(d)' = {}
  BY <1>2 DEF Answered
<1>5. \A s : FragmentFactors(s)' = FragmentFactors(s)
  BY <1>1 DEF FragmentFactors
<1>6. requests' # {}
  <2>1. Cardinality(Anounced) >= Threshold /\ Threshold \in Nat \ {0}
    BY TallyTypes DEF AllSharesReceived
  <2>2. Cardinality({}) = 0
    BY FS_EmptySet
  <2>3. Anounced # {}
    BY <2>1, <2>2
  <2> QED
    BY <2>3
<1>7. requests' = {[to |-> i, requested |-> Requested(i)'] : i \in Anounced'}
  BY <1>2, <1>3
<1>8. AskedOnce'
  BY <1>2, <1>3, <1>6, <1>7 DEF AskedOnce
<1>9. CountsAnswers'
  BY <1>4, FS_EmptySet DEF CountsAnswers, AllSharesReceived, ResetFragments
<1>10. FactorsAreAnswers'
  BY <1>1, <1>2, <1>4, <1>5 DEF FactorsAreAnswers
<1> QED
  BY <1>8, <1>9, <1>10

\* An answer adds its trustee's fragments, which the product did not hold.
LEMMA AnswersAreCounted ==
  ASSUME CoordinatorTypes, AskedOnce, CountsAnswers, FactorsAreAnswers,
         UNCHANGED <<participants, requests, fragments_msgs>>,
         NEW m \in fragments_msgs, ReceiveFragments(m)
  PROVE  AskedOnce' /\ CountsAnswers' /\ FactorsAreAnswers'
<1>1. /\ m.from \in Anounced /\ m.from \in Trustee
      /\ m.requested = Requested(m.from) /\ requests # {}
  BY DEF AskedOnce, Anounced
<1>2. Anounced' = Anounced
  BY DEF ReceiveFragments, Anounced
<1>3. Responded' = Responded \cup {m.from} /\ m.from \notin Responded
  BY <1>1, OneMoreResponded
<1>4. \A i : Requested(i)' = Requested(i)
  BY <1>2 DEF Requested, Missing
<1>5. \A d : /\ m.from \notin Answered(d)
             /\ d \in m.requested => Answered(d)' = Answered(d) \cup {m.from}
             /\ d \notin m.requested => Answered(d)' = Answered(d)
  BY <1>1, <1>3, <1>4 DEF Answered
<1>6. AskedOnce'
  BY <1>1, <1>2, <1>4 DEF AskedOnce
<1>7. CountsAnswers'
  <2> SUFFICES ASSUME NEW d \in Trustee
               PROVE  num_decryption_fragments'[d] = Cardinality(Answered(d)')
    BY DEF CountsAnswers
  <2>1. num_decryption_fragments[d] = Cardinality(Answered(d))
    BY DEF CountsAnswers
  <2>2. num_decryption_fragments'[d] = num_decryption_fragments[d]
                                         + (IF d \in m.requested THEN 1 ELSE 0)
    BY DEF ReceiveFragments
  <2>3. IsFiniteSet(Answered(d)) /\ Cardinality(Answered(d)) \in Nat
    BY CountTypes, TallyTypes DEF Answered, Responded
  <2>4. Cardinality(Answered(d) \cup {m.from}) = Cardinality(Answered(d)) + 1
    BY <1>5, <2>3, FS_AddElement
  <2>5. CASE d \in m.requested
    BY <2>1, <2>2, <2>4, <2>5, <1>5
  <2>6. CASE d \notin m.requested
    BY <2>1, <2>2, <2>3, <2>6, <1>5
  <2> QED
    BY <2>5, <2>6
<1> DEFINE new == {FragmentFactor(m.from, d, Trustee \ m.requested, m.tally) :
                     d \in m.requested}
<1>8. \A f \in new : /\ f.kind = "fragment" /\ f.by = m.from
                     /\ f.of \in m.requested /\ f.of \in Trustee
                     /\ f.available = Anounced
                     /\ f = FragmentFactor(m.from, f.of, Trustee \ m.requested, m.tally)
  BY <1>1 DEF FragmentFactor, Requested, Missing, Anounced
<1>9. ASSUME NEW d \in m.requested
      PROVE  \E f \in new : f.of = d /\ f.by = m.from
  <2> DEFINE f == FragmentFactor(m.from, d, Trustee \ m.requested, m.tally)
  <2>1. f \in new
    OBVIOUS
  <2>2. f.of = d /\ f.by = m.from
    BY DEF FragmentFactor
  <2> QED
    BY <2>1, <2>2
<1>10. \A s \in Selection :
         /\ FragmentFactors(s)' = FragmentFactors(s) \cup new
         /\ \A f \in FragmentFactors(s) : /\ nonce_encoding'[s][f] = nonce_encoding[s][f]
                                          /\ f.by # m.from
         /\ \A f \in new : nonce_encoding'[s][f] = 1
  <2> SUFFICES ASSUME NEW s \in Selection
               PROVE  /\ FragmentFactors(s)' = FragmentFactors(s) \cup new
                      /\ \A f \in FragmentFactors(s) :
                           nonce_encoding'[s][f] = nonce_encoding[s][f] /\ f.by # m.from
                      /\ \A f \in new : nonce_encoding'[s][f] = 1
    OBVIOUS
  <2>1. nonce_encoding'[s] = nonce_encoding[s] (+) SetToBag(new)
    BY DEF ReceiveFragments
  <2>2. IsABag(nonce_encoding[s])
    BY DEF CoordinatorTypes
  <2>3. \A f \in FragmentFactors(s) : f.by # m.from
    BY <1>5 DEF FactorsAreAnswers
  <2>4. \A f \in new : f \notin BagToSet(nonce_encoding[s])
    BY <1>8, <2>3 DEF FragmentFactors
  <2> HIDE DEF new
  <2>5. /\ BagToSet(nonce_encoding'[s]) = BagToSet(nonce_encoding[s]) \cup new
        /\ \A f \in BagToSet(nonce_encoding[s]) \ new :
             nonce_encoding'[s][f] = nonce_encoding[s][f]
        /\ \A f \in new \ BagToSet(nonce_encoding[s]) : nonce_encoding'[s][f] = 1
    BY <2>1, <2>2, AddFactors
  <2>6. FragmentFactors(s)' = FragmentFactors(s) \cup new
    BY <2>5, <1>8 DEF FragmentFactors
  <2> QED
    BY <2>3, <2>4, <2>5, <2>6 DEF FragmentFactors
<1> HIDE DEF new
<1>11. FactorsAreAnswers'
  <2> SUFFICES ASSUME NEW s \in Selection
      PROVE  /\ \A f \in FragmentFactors(s)' :
                  /\ f.of \in Trustee /\ f.by \in Answered(f.of)'
                  /\ f.available = Anounced' /\ nonce_encoding'[s][f] = 1
             /\ \A d \in Trustee : \A i \in Answered(d)' :
                  \E f \in FragmentFactors(s)' : f.of = d /\ f.by = i
             /\ \A f, g \in FragmentFactors(s)' : f.of = g.of /\ f.by = g.by => f = g
    BY DEF FactorsAreAnswers
  <2>1. /\ \A f \in FragmentFactors(s) :
             /\ f.of \in Trustee /\ f.by \in Answered(f.of)
             /\ f.available = Anounced /\ nonce_encoding[s][f] = 1
        /\ \A d \in Trustee : \A i \in Answered(d) :
             \E f \in FragmentFactors(s) : f.of = d /\ f.by = i
        /\ \A f, g \in FragmentFactors(s) : f.of = g.of /\ f.by = g.by => f = g
    BY DEF FactorsAreAnswers
  <2>2. ASSUME NEW f \in FragmentFactors(s)'
        PROVE  /\ f.of \in Trustee /\ f.by \in Answered(f.of)'
               /\ f.available = Anounced' /\ nonce_encoding'[s][f] = 1
    <3>1. CASE f \in FragmentFactors(s)
      BY <3>1, <2>1, <1>2, <1>5, <1>10
    <3>2. CASE f \in new
      BY <3>2, <1>2, <1>5, <1>8, <1>10
    <3> QED
      BY <3>1, <3>2, <1>10
  <2>3. ASSUME NEW d \in Trustee, NEW i \in Answered(d)'
        PROVE  \E f \in FragmentFactors(s)' : f.of = d /\ f.by = i
    <3>1. CASE i \in Answered(d)
      BY <3>1, <2>1, <1>10
    <3>2. CASE i \notin Answered(d)
      <4>1. d \in m.requested /\ i = m.from
        BY <3>2, <1>5
      <4> QED
        BY <4>1, <1>9, <1>10
    <3> QED
      BY <3>1, <3>2
  <2>4. ASSUME NEW f \in FragmentFactors(s)', NEW g \in FragmentFactors(s)',
               f.of = g.of, f.by = g.by
        PROVE  f = g
    <3>1. CASE f \in FragmentFactors(s) /\ g \in FragmentFactors(s)
      BY <3>1, <2>4, <2>1
    <3>2. CASE f \in new /\ g \in new
      BY <3>2, <2>4, <1>8
    <3> QED
      BY <3>1, <3>2, <2>4, <1>8, <1>10
  <2> QED
    BY <2>2, <2>3, <2>4
<1> QED
  BY <1>6, <1>7, <1>11

LEMMA NextFragmentsInv ==
  ASSUME ~LateShares
  PROVE  FragmentsInv /\ [Next]_vars => FragmentsInv'
<1> SUFFICES ASSUME FragmentsInv, [Next]_vars
             PROVE  AskedOnce' /\ CountsAnswers' /\ FactorsAreAnswers'
  BY NextTypeInv DEF FragmentsInv
<1>1. CoordinatorTypes /\ ClientTypes /\ AskedOnce /\ CountsAnswers /\ FactorsAreAnswers
  BY TypeInvParts DEF FragmentsInv
<1>2. ASSUME NEW t \in Trustee, TrusteeStep(t), ~TrusteeComputeFragments(t)
      PROVE  AskedOnce' /\ CountsAnswers' /\ FactorsAreAnswers'
  <2>1. UNCHANGED <<coordinatorVars, participants, requests, fragments_msgs>>
    BY <1>2 DEF TrusteeStep, TrusteeTally, TrusteeTallyFails, TrusteeRestart,
                TrusteeComputeShare
  <2> QED
    BY <1>1, <2>1, FragmentsUntouched
<1>3. ASSUME NEW t \in Trustee, TrusteeComputeFragments(t)
      PROVE  AskedOnce' /\ CountsAnswers' /\ FactorsAreAnswers'
  <2>1. PICK r \in requests :
          /\ r.to = t
          /\ fragments_msgs' = fragments_msgs \union {FragmentsMessage(t, r.requested)}
          /\ UNCHANGED <<coordinatorVars, participants, requests>>
    BY <1>3 DEF TrusteeComputeFragments
  <2> QED
    BY <1>1, <2>1, AnswersAreAsked
<1>4. CASE CoordinatorReceiveShare
  <2>1. PICK m \in share_msgs :
          /\ requests = {}
          /\ ReceiveFirstShare(m) \/ ReceiveShare(m) \/ ReceiveConfusedShare(m)
          /\ UNCHANGED <<requests, fragments_msgs>>
    BY <1>4 DEF CoordinatorReceiveShare, clientVars
  <2> QED
    BY <1>1, <2>1, SharesAddNoFragment
<1>5. CASE CoordinatorAllSharesReceived
  <2>1. /\ participants \subseteq Anounced /\ Responded = {}
        /\ AllSharesReceived /\ UNCHANGED <<participants, fragments_msgs>>
        /\ requests' = {[to |-> i, requested |-> Requested(i)] : i \in Anounced}
    BY <1>5 DEF CoordinatorAllSharesReceived, Responded
  <2> QED
    BY <1>1, <2>1, AskingAgain
<1>6. CASE CoordinatorReceiveFragments
  <2>1. PICK m \in fragments_msgs :
          ReceiveFragments(m) /\ UNCHANGED <<participants, requests, fragments_msgs>>
    BY <1>6 DEF CoordinatorReceiveFragments, clientVars
  <2> QED
    BY <1>1, <2>1, AnswersAreCounted
<1>7. CASE CoordinatorAllFragmentsReceived \/ UNCHANGED vars
  <2>1. UNCHANGED <<coordinatorVars, participants, requests, fragments_msgs>>
    BY <1>7 DEF CoordinatorAllFragmentsReceived, AllFragmentsReceived, vars, clientVars
  <2> QED
    BY <1>1, <2>1, FragmentsUntouched
<1> QED
  BY <1>2, <1>3, <1>4, <1>5, <1>6, <1>7 DEF Next, CoordinatorStep

\* The fragments for a missing trustee are as many as the trustees that answered.
LEMMA FragmentsMatchAnswers ==
  ASSUME FragmentsInv, NEW s \in Selection, NEW d \in Trustee
  PROVE  /\ {f.by : f \in FragmentsFor(d, s)} = Answered(d)
         /\ Cardinality(FragmentsFor(d, s)) = Cardinality(Answered(d))
<1>1. FragmentsFor(d, s) = {f \in FragmentFactors(s) : f.of = d}
  BY DEF FragmentsFor, FragmentFactors
<1>2. /\ \A f \in FragmentsFor(d, s) : f.by \in Answered(d)
      /\ \A i \in Answered(d) : \E f \in FragmentsFor(d, s) : f.by = i
      /\ \A f, g \in FragmentsFor(d, s) : f.by = g.by => f = g
  BY <1>1 DEF FragmentsInv, FactorsAreAnswers
<1>3. {f.by : f \in FragmentsFor(d, s)} = Answered(d)
  BY <1>2
<1>4. IsFiniteSet(Answered(d))
  BY CountTypes DEF Answered, Responded
<1> DEFINE made == [i \in Answered(d) |-> CHOOSE f \in FragmentsFor(d, s) : f.by = i]
<1>5. \A i \in Answered(d) : made[i] \in FragmentsFor(d, s) /\ made[i].by = i
  BY <1>2
<1>6. \A f \in FragmentsFor(d, s) : made[f.by] = f
  BY <1>2, <1>5
<1>7. made \in Bijection(Answered(d), FragmentsFor(d, s))
  <2>0. made \in [Answered(d) -> FragmentsFor(d, s)]
    BY <1>5
  <2> HIDE DEF made
  <2>1. \A i, j \in Answered(d) : made[i] = made[j] => i = j
    BY <1>5
  <2>2. \A f \in FragmentsFor(d, s) : \E i \in Answered(d) : made[i] = f
    BY <1>2, <1>6
  <2> QED
    BY <2>0, <2>1, <2>2 DEF Bijection, Injection, Surjection, IsInjective
<1>8. Cardinality(FragmentsFor(d, s)) = Cardinality(Answered(d))
  <2>1. ExistsBijection(Answered(d), FragmentsFor(d, s))
    BY <1>7 DEF ExistsBijection
  <2> QED
    BY ONLY <1>4, <2>1, FS_Bijection
<1> QED
  BY <1>3, <1>8

LEMMA FragmentsInvCompensates == FragmentsInv => EachMissingCompensatedOnce
<1> SUFFICES ASSUME FragmentsInv, all_trustees_seen_or_compensated,
                    NEW s \in Selection, NEW d \in Missing
             PROVE  /\ Cardinality({f.by : f \in FragmentsFor(d, s)}) = Threshold
                    /\ Cardinality(FragmentsFor(d, s)) = Threshold
                    /\ \A f \in FragmentsFor(d, s) :
                         f.available = Anounced /\ nonce_encoding[s][f] = 1
  BY DEF EachMissingCompensatedOnce
<1>1. d \in Trustee /\ ~anounced[d]
  BY DEF Missing, Anounced
<1>2. Cardinality(Answered(d)) = Threshold
  BY <1>1 DEF FragmentsInv, CountsAnswers, all_trustees_seen_or_compensated
<1>3. \A f \in FragmentsFor(d, s) : f.available = Anounced /\ nonce_encoding[s][f] = 1
  BY DEF FragmentsFor, FragmentFactors, FragmentsInv, FactorsAreAnswers
<1> QED
  BY <1>1, <1>2, <1>3, FragmentsMatchAnswers

\* With shares in their phase: when the coordinator finds the tally complete, every
\* missing trustee is stood in for by exactly Threshold others, once each, weighted
\* for the trustees that announced; for every record, number of trustees and faults.
THEOREM MissingAlwaysCompensatedOnce ==
  ASSUME ~LateShares
  PROVE  Spec => []EachMissingCompensatedOnce
<1>1. Init => FragmentsInv
  BY InitFragmentsInv
<1>2. FragmentsInv /\ [Next]_vars => FragmentsInv'
  BY NextFragmentsInv
<1>3. FragmentsInv => EachMissingCompensatedOnce
  BY FragmentsInvCompensates
<1> QED
  BY <1>1, <1>2, <1>3, PTL DEF Spec

------------------------------------------------------------------------------
(* What is published.  A trustee has accumulated nothing or the whole      *)
(* record whenever it may compute a share, unless it was fed a second time *)
(* on top of a failed reading.  Late shares and other quorums are no       *)
(* exception: they make the product wrong, not the tally.                  *)

FedOnce ==
  \A t \in Trustee :
    /\ fed[t] = "fresh" => tallies[t] = ZeroTally
    /\ fed[t] = "fed" => tallies[t] = RecordTally

SharesOfRecord ==
  /\ \A m \in share_msgs : m.tally = RecordTally
  /\ tallies_initialized => message_encoding = RecordTally

RespondedAnounced ==
  /\ Responded \subseteq Anounced
  /\ Anounced # {} => tallies_initialized

RecordTallyInv ==
  /\ TypeInv
  /\ RespondedAnounced
  /\ retried = {} => FedOnce /\ SharesOfRecord /\ published \subseteq {RecordTally}

LEMMA InitRecordTallyInv == Init => RecordTallyInv
<1> SUFFICES ASSUME Init PROVE RecordTallyInv
  OBVIOUS
<1>1. TypeInv
  BY InitTypeInv
<1>2. RespondedAnounced
  BY DEF Init, CoordinatorInit, RespondedAnounced, Responded, Anounced
<1>3. FedOnce
  BY DEF Init, TrusteesInit, FedOnce
<1>4. SharesOfRecord /\ published \subseteq {RecordTally}
  BY DEF Init, CoordinatorInit, SharesOfRecord
<1> QED
  BY <1>1, <1>2, <1>3, <1>4 DEF RecordTallyInv

\* A tally is complete only when some trustee has announced: the fragments that
\* stand in for the others are at most as many as the answers.
LEMMA CompleteIsInitialized ==
  ASSUME TypeInv, RespondedAnounced, all_trustees_seen_or_compensated
  PROVE  tallies_initialized
<1>1. SUFFICES ASSUME Anounced = {} PROVE FALSE
  BY DEF RespondedAnounced
<1>2. Responded = {}
  BY <1>1 DEF RespondedAnounced
<1>3. Cardinality(Responded) = 0
  BY <1>2, FS_EmptySet
<1>4. 0 \in Trustee /\ ~anounced[0]
  BY <1>1, TallyTypes DEF Trustee, Anounced
<1>5. num_decryption_fragments[0] = Threshold
  BY <1>4 DEF all_trustees_seen_or_compensated
<1>6. num_decryption_fragments[0] <= 0
  BY <1>3, <1>4 DEF TypeInv
<1> QED
  BY <1>5, <1>6, TallyTypes

LEMMA RespondedAnouncedStep ==
  ASSUME TypeInv, RespondedAnounced, [Next]_vars
  PROVE  RespondedAnounced'
<1>1. CASE CoordinatorReceiveShare
  BY <1>1 DEF CoordinatorReceiveShare, ReceiveFirstShare, ReceiveShare,
     ReceiveConfusedShare, MarkAnounced, RespondedAnounced, Responded, Anounced, TypeInv,
     TypeOK
<1>2. CASE CoordinatorAllSharesReceived
  BY <1>2 DEF CoordinatorAllSharesReceived, AllSharesReceived, ResetFragments,
     RespondedAnounced, Responded, Anounced
<1>3. CASE CoordinatorReceiveFragments
  BY <1>3 DEF CoordinatorReceiveFragments, ReceiveFragments, NotYetResponded,
     RespondedAnounced, Responded, Anounced, TypeInv, TypeOK
<1>4. CASE UNCHANGED coordinatorVars
  BY <1>4 DEF coordinatorVars, RespondedAnounced, Responded, Anounced
<1> QED
  BY <1>1, <1>2, <1>3, <1>4
  DEF Next, CoordinatorStep, TrusteeStep, TrusteeTally, TrusteeTallyFails,
      TrusteeRestart, TrusteeComputeShare, TrusteeComputeFragments,
      CoordinatorAllFragmentsReceived, AllFragmentsReceived, vars

\* A reading on top of nothing accumulates the record.
LEMMA FedOnceStep ==
  ASSUME TypeInv, FedOnce, [Next]_vars, retried' = {}
  PROVE  FedOnce'
<1>0. /\ tallies \in [Trustee -> Tally]
      /\ fed \in [Trustee -> {"fresh", "failed", "fed"}]
  BY DEF TypeInv, TypeOK
<1>1. ASSUME NEW t \in Trustee, TrusteeTally(t)
      PROVE  FedOnce'
  <2>1. fed[t] = "fresh" /\ tallies[t] = ZeroTally
    BY <1>1 DEF TrusteeTally, FedOnce
  <2>2. Accumulated(t, Cast) = RecordTally
    BY <2>1 DEF Accumulated, ZeroTally, RecordTally
  <2> QED
    BY <1>0, <1>1, <2>2 DEF TrusteeTally, TallyVotingRecord, FedOnce
<1>2. ASSUME NEW t \in Trustee, TrusteeTallyFails(t)
      PROVE  FedOnce'
  BY <1>0, <1>2 DEF TrusteeTallyFails, TallyVotingRecordFails, FedOnce
<1>3. ASSUME NEW t \in Trustee, TrusteeRestart(t)
      PROVE  FedOnce'
  BY <1>0, <1>3 DEF TrusteeRestart, DecryptionTrusteeNew, FedOnce
<1>4. CASE UNCHANGED <<tallies, fed>>
  BY <1>4 DEF FedOnce
<1> QED
  BY <1>1, <1>2, <1>3, <1>4
  DEF Next, CoordinatorStep, TrusteeStep, TrusteeComputeShare, ComputeShare,
      TrusteeComputeFragments, ComputeFragments, CoordinatorReceiveShare,
      CoordinatorAllSharesReceived, CoordinatorReceiveFragments,
      CoordinatorAllFragmentsReceived, vars, clientVars

\* A trustee with nothing accumulated cannot write a share.
LEMMA SharesOfRecordStep ==
  ASSUME TypeInv, FedOnce, SharesOfRecord, [Next]_vars
  PROVE  SharesOfRecord'
<1>1. ASSUME NEW t \in Trustee, TrusteeComputeShare(t)
      PROVE  SharesOfRecord'
  <2>1. fed[t] \in {"fresh", "fed"} /\ tallies[t] # ZeroTally
    BY <1>1 DEF TrusteeComputeShare, ComputeShare, TallyWritable, TypeInv, TypeOK
  <2>2. ShareMessage(t).tally = RecordTally
    BY <2>1 DEF FedOnce, ShareMessage
  <2> QED
    BY <1>1, <2>2 DEF TrusteeComputeShare, SharesOfRecord, coordinatorVars
<1>2. CASE CoordinatorReceiveShare
  BY <1>2 DEF CoordinatorReceiveShare, ReceiveFirstShare, ReceiveShare,
     ReceiveConfusedShare, SharesOfRecord, clientVars
<1>3. CASE UNCHANGED <<tallies_initialized, message_encoding, share_msgs>>
  BY <1>3 DEF SharesOfRecord
<1> QED
  BY <1>1, <1>2, <1>3
  DEF Next, CoordinatorStep, TrusteeStep, TrusteeTally, TrusteeTallyFails,
      TrusteeRestart, TrusteeComputeFragments, CoordinatorAllSharesReceived,
      AllSharesReceived, CoordinatorReceiveFragments, ReceiveFragments,
      CoordinatorAllFragmentsReceived, AllFragmentsReceived, vars, clientVars,
      coordinatorVars

LEMMA NextRecordTallyInv == RecordTallyInv /\ [Next]_vars => RecordTallyInv'
<1> SUFFICES ASSUME RecordTallyInv, [Next]_vars PROVE RecordTallyInv'
  OBVIOUS
<1>1. TypeInv /\ TypeInv' /\ RespondedAnounced
  BY NextTypeInv DEF RecordTallyInv
<1>2. RespondedAnounced'
  BY <1>1, RespondedAnouncedStep
<1>3. ASSUME retried' = {}
      PROVE  FedOnce' /\ SharesOfRecord' /\ (published \subseteq {RecordTally})'
  <2>1. retried = {}
    BY <1>3 DEF Next, CoordinatorStep, TrusteeStep, TrusteeTally, TrusteeTallyFails,
       TrusteeRestart, TrusteeComputeShare, TrusteeComputeFragments,
       CoordinatorReceiveShare, CoordinatorAllSharesReceived,
       CoordinatorReceiveFragments, CoordinatorAllFragmentsReceived, vars, clientVars
  <2>2. FedOnce /\ SharesOfRecord /\ published \subseteq {RecordTally}
    BY <2>1 DEF RecordTallyInv
  <2>3. published' \subseteq {RecordTally}
    <3>1. CASE CoordinatorAllFragmentsReceived
      <4>1. tallies_initialized
        BY <1>1, <3>1, CompleteIsInitialized
           DEF CoordinatorAllFragmentsReceived, AllFragmentsReceived
      <4> QED
        BY <2>2, <3>1, <4>1 DEF CoordinatorAllFragmentsReceived, SharesOfRecord
    <3>2. CASE UNCHANGED published
      BY <2>2, <3>2
    <3> QED
      BY <3>1, <3>2
      DEF Next, CoordinatorStep, TrusteeStep, TrusteeTally, TrusteeTallyFails,
          TrusteeRestart, TrusteeComputeShare, TrusteeComputeFragments,
          CoordinatorReceiveShare, CoordinatorAllSharesReceived,
          CoordinatorReceiveFragments, vars, clientVars
  <2> QED
    BY <1>1, <1>3, <2>2, <2>3, FedOnceStep, SharesOfRecordStep
<1> QED
  BY <1>1, <1>2, <1>3 DEF RecordTallyInv

\* Unless a trustee was fed the record on top of a failed reading, what is published
\* is the tally of the record, whoever takes part, with late shares and restarts.
THEOREM PublishedTallyAlwaysRecord == Spec => []PublishedTallyIsRecord
<1>1. Init => RecordTallyInv
  BY InitRecordTallyInv
<1>2. RecordTallyInv /\ [Next]_vars => RecordTallyInv'
  BY NextRecordTallyInv
<1>3. RecordTallyInv => PublishedTallyIsRecord
  BY DEF RecordTallyInv, PublishedTallyIsRecord
<1> QED
  BY <1>1, <1>2, <1>3, PTL DEF Spec

------------------------------------------------------------------------------
(* A tally that the coordinator takes for complete opens: the shares and   *)
(* the weighted fragments in its product add up to every trustee's key,    *)
(* for every number of trustees, threshold, prime q and record.            *)

(* The product.  Unless a trustee was fed the record on top of a failed    *)
(* reading, it holds one share of every trustee that announced, and every  *)
(* factor is of the record's tally.                                        *)

FragmentsOfRecord ==
  \A m \in fragments_msgs : m.requested # {} => m.tally = RecordTally

FactorsOfRecord(s) ==
  /\ \A f \in BagToSet(nonce_encoding[s]) :
       \/ f.kind = "fragment" /\ f.tally = RecordTally
       \/ /\ f.kind = "share" /\ f.of \in Anounced /\ f = ShareFactor(f.of, RecordTally)
          /\ nonce_encoding[s][f] = 1
  /\ \A i \in Anounced : ShareFactor(i, RecordTally) \in BagToSet(nonce_encoding[s])

ProductOfRecord == FragmentsOfRecord /\ \A s \in Selection : FactorsOfRecord(s)

LEMMA InitProductOfRecord == Init => ProductOfRecord
<1> SUFFICES ASSUME Init PROVE ProductOfRecord
  OBVIOUS
<1>1. Anounced = {} /\ fragments_msgs = {}
  BY DEF Init, CoordinatorInit, Anounced
<1>2. \A s \in Selection : BagToSet(nonce_encoding[s]) = {}
  BY DEF Init, CoordinatorInit, BagToSet, EmptyBag, SetToBag
<1> QED
  BY <1>1, <1>2 DEF ProductOfRecord, FragmentsOfRecord, FactorsOfRecord

\* A fragment for somebody is made of a tally with a ballot in it.
LEMMA FragmentsOfRecordStep ==
  ASSUME TypeInv, FedOnce, FragmentsOfRecord, [Next]_vars
  PROVE  FragmentsOfRecord'
<1>1. ASSUME NEW t \in Trustee, TrusteeComputeFragments(t)
      PROVE  FragmentsOfRecord'
  <2>1. PICK r \in requests :
          /\ fed[t] # "failed"
          /\ ComputeFragments(t, r.requested)
          /\ fragments_msgs' = fragments_msgs \union {FragmentsMessage(t, r.requested)}
    BY <1>1 DEF TrusteeComputeFragments
  <2>2. r.requested # {} => tallies[t] = RecordTally
    BY <2>1 DEF ComputeFragments, TallyWritable, FedOnce, TypeInv, TypeOK
  <2> QED
    BY <2>1, <2>2 DEF FragmentsOfRecord, FragmentsMessage
<1>2. CASE UNCHANGED fragments_msgs
  BY <1>2 DEF FragmentsOfRecord
<1> QED
  BY <1>1, <1>2
  DEF Next, CoordinatorStep, TrusteeStep, TrusteeTally, TrusteeTallyFails,
      TrusteeRestart, TrusteeComputeShare, CoordinatorReceiveShare,
      CoordinatorAllSharesReceived, CoordinatorReceiveFragments,
      CoordinatorAllFragmentsReceived, vars, clientVars

\* A trustee's share is multiplied into every selection, and once.
LEMMA ShareMultiplied ==
  ASSUME CoordinatorTypes, RespondedAnounced, SharesOfRecord, NEW s \in Selection,
         FactorsOfRecord(s), NEW m \in share_msgs, m.from \in Trustee,
         ReceiveFirstShare(m) \/ ReceiveShare(m) \/ ReceiveConfusedShare(m)
  PROVE  FactorsOfRecord(s)'
<1> DEFINE one == ShareFactor(m.from, RecordTally)
<1>1. m.tally = RecordTally /\ ~anounced[m.from]
  BY DEF SharesOfRecord, ReceiveFirstShare, ReceiveShare, ReceiveConfusedShare
<1>2. Anounced' = Anounced \cup {m.from} /\ m.from \notin Anounced
  BY <1>1 DEF ReceiveFirstShare, ReceiveShare, ReceiveConfusedShare, MarkAnounced,
              Anounced, CoordinatorTypes
<1>3. one.kind = "share" /\ one.of = m.from
  BY DEF ShareFactor
<1>4. CASE ReceiveFirstShare(m)
  <2>1. Anounced = {}
    BY <1>4 DEF ReceiveFirstShare, RespondedAnounced
  <2>2. nonce_encoding'[s] = SetToBag({one})
    BY <1>1, <1>4 DEF ReceiveFirstShare
  <2>3. BagToSet(SetToBag({one})) = {one} /\ SetToBag({one})[one] = 1
    BY DEF BagToSet, SetToBag
  <2> HIDE DEF one
  <2>4. /\ \A f \in BagToSet(nonce_encoding'[s]) : f = one /\ nonce_encoding'[s][f] = 1
        /\ one \in BagToSet(nonce_encoding'[s])
    BY <2>2, <2>3
  <2> QED
    BY <1>2, <1>3, <2>1, <2>4 DEF FactorsOfRecord, one
<1>5. CASE ReceiveShare(m)
  <2>1. nonce_encoding'[s] = nonce_encoding[s] (+) SetToBag({one})
    BY <1>1, <1>5 DEF ReceiveShare
  <2>2. IsABag(nonce_encoding[s])
    BY DEF CoordinatorTypes
  <2>3. one \notin BagToSet(nonce_encoding[s])
    BY <1>2, <1>3 DEF FactorsOfRecord
  <2> HIDE DEF one
  <2>4. /\ BagToSet(nonce_encoding'[s]) = BagToSet(nonce_encoding[s]) \cup {one}
        /\ \A f \in BagToSet(nonce_encoding[s]) :
             nonce_encoding'[s][f] = nonce_encoding[s][f]
        /\ nonce_encoding'[s][one] = 1
    BY <2>1, <2>2, <2>3, AddFactors
  <2>5. ASSUME NEW f \in BagToSet(nonce_encoding'[s])
        PROVE  \/ f.kind = "fragment" /\ f.tally = RecordTally
               \/ /\ f.kind = "share" /\ f.of \in Anounced'
                  /\ f = ShareFactor(f.of, RecordTally) /\ nonce_encoding'[s][f] = 1
    <3>1. CASE f = one
      BY <3>1, <1>2, <1>3, <2>4 DEF one
    <3>2. CASE f \in BagToSet(nonce_encoding[s])
      BY <3>2, <1>2, <2>4 DEF FactorsOfRecord
    <3> QED
      BY <3>1, <3>2, <2>4
  <2>6. \A i \in Anounced' : ShareFactor(i, RecordTally) \in BagToSet(nonce_encoding'[s])
    BY <1>2, <2>4 DEF FactorsOfRecord, one
  <2> QED
    BY <2>5, <2>6 DEF FactorsOfRecord
<1>6. ~ReceiveConfusedShare(m)
  BY <1>1 DEF ReceiveConfusedShare, SharesOfRecord
<1> QED
  BY <1>4, <1>5, <1>6

\* The fragments leave the shares as they are.
LEMMA FragmentsMultiplied ==
  ASSUME CoordinatorTypes, FragmentsOfRecord, NEW s \in Selection, FactorsOfRecord(s),
         NEW m \in fragments_msgs, ReceiveFragments(m)
  PROVE  FactorsOfRecord(s)'
<1> DEFINE new == {FragmentFactor(m.from, d, Trustee \ m.requested, m.tally) :
                     d \in m.requested}
<1>1. Anounced' = Anounced
  BY DEF ReceiveFragments, Anounced
<1>2. \A f \in new : f.kind = "fragment" /\ f.tally = RecordTally
  BY DEF FragmentsOfRecord, FragmentFactor
<1>3. nonce_encoding'[s] = nonce_encoding[s] (+) SetToBag(new) /\ IsABag(nonce_encoding[s])
  BY DEF ReceiveFragments, CoordinatorTypes
<1> HIDE DEF new
<1>4. /\ BagToSet(nonce_encoding'[s]) = BagToSet(nonce_encoding[s]) \cup new
      /\ \A f \in BagToSet(nonce_encoding[s]) \ new :
           nonce_encoding'[s][f] = nonce_encoding[s][f]
  BY <1>3, AddFactors
<1>5. ASSUME NEW f \in BagToSet(nonce_encoding'[s])
      PROVE  \/ f.kind = "fragment" /\ f.tally = RecordTally
             \/ /\ f.kind = "share" /\ f.of \in Anounced'
                /\ f = ShareFactor(f.of, RecordTally) /\ nonce_encoding'[s][f] = 1
  <2>1. CASE f \in new
    BY <2>1, <1>2
  <2>2. CASE f \in BagToSet(nonce_encoding[s]) \ new
    BY <2>2, <1>1, <1>4 DEF FactorsOfRecord
  <2> QED
    BY <2>1, <2>2, <1>4
<1>6. \A i \in Anounced' : ShareFactor(i, RecordTally) \in BagToSet(nonce_encoding'[s])
  BY <1>1, <1>4 DEF FactorsOfRecord
<1> QED
  BY <1>5, <1>6 DEF FactorsOfRecord

LEMMA ProductOfRecordStep ==
  ASSUME TypeInv, RespondedAnounced, FedOnce, SharesOfRecord, ProductOfRecord,
         [Next]_vars
  PROVE  ProductOfRecord'
<1> SUFFICES ASSUME NEW s \in Selection PROVE FactorsOfRecord(s)'
  BY FragmentsOfRecordStep DEF ProductOfRecord
<1>1. CoordinatorTypes /\ ClientTypes /\ FragmentsOfRecord /\ FactorsOfRecord(s)
  BY TypeInvParts DEF ProductOfRecord
<1>2. CASE CoordinatorReceiveShare
  <2>1. PICK m \in share_msgs :
          ReceiveFirstShare(m) \/ ReceiveShare(m) \/ ReceiveConfusedShare(m)
    BY <1>2 DEF CoordinatorReceiveShare
  <2>2. m.from \in Trustee
    BY <1>1 DEF ClientTypes
  <2> QED
    BY <1>1, <2>1, <2>2, ShareMultiplied
<1>3. CASE CoordinatorReceiveFragments
  BY <1>1, <1>3, FragmentsMultiplied DEF CoordinatorReceiveFragments
<1>4. CASE UNCHANGED <<anounced, nonce_encoding>>
  <2>1. UNCHANGED <<Anounced, nonce_encoding>>
    BY <1>4 DEF Anounced
  <2> QED
    BY <1>1, <2>1 DEF FactorsOfRecord
<1> QED
  BY <1>2, <1>3, <1>4
  DEF Next, CoordinatorStep, TrusteeStep, TrusteeTally, TrusteeTallyFails,
      TrusteeRestart, TrusteeComputeShare, TrusteeComputeFragments,
      CoordinatorAllSharesReceived, AllSharesReceived, CoordinatorAllFragmentsReceived,
      AllFragmentsReceived, vars, coordinatorVars

------------------------------------------------------------------------------
(* Who stands in.  With Threshold trustees or all of them taking part, the *)
(* trustees that answered for a missing one are those that announced.      *)

\* The trustees that take part are a quorum, and do not change.
QuorumInv == FragmentsInv /\ Quorum(participants)

LEMMA QuorumInvHolds ==
  ASSUME ~LateShares
  PROVE  /\ Init => QuorumInv
         /\ QuorumInv /\ [Next]_vars => QuorumInv'
<1>1. Init => QuorumInv
  BY InitFragmentsInv DEF Init, QuorumInv
<1>2. ASSUME QuorumInv, [Next]_vars PROVE QuorumInv'
  <2>1. UNCHANGED participants
    BY <1>2 DEF Next, CoordinatorStep, TrusteeStep, TrusteeTally, TrusteeTallyFails,
       TrusteeRestart, TrusteeComputeShare, TrusteeComputeFragments,
       CoordinatorReceiveShare, CoordinatorAllSharesReceived,
       CoordinatorReceiveFragments, CoordinatorAllFragmentsReceived, vars, clientVars
  <2>2. FragmentsInv'
    BY <1>2, NextFragmentsInv DEF QuorumInv
  <2> QED
    BY <1>2, <2>1, <2>2 DEF QuorumInv, Quorum
<1> QED
  BY <1>1, <1>2

LEMMA EveryoneAnswered ==
  ASSUME ~AnyQuorum, QuorumInv, RespondedAnounced,
         all_trustees_seen_or_compensated, NEW d \in Missing
  PROVE  /\ Answered(d) = Anounced
         /\ Cardinality(Anounced) = Threshold
<1>1. CoordinatorTypes /\ ClientTypes /\ AskedOnce /\ CountsAnswers
  BY TypeInvParts DEF QuorumInv, FragmentsInv
<1>2. d \in Trustee /\ ~anounced[d] /\ d \notin Anounced
  BY DEF Missing, Anounced
<1>3. Cardinality(Answered(d)) = Threshold
  BY <1>1, <1>2 DEF CountsAnswers, all_trustees_seen_or_compensated
<1>4. PICK i \in Answered(d) : TRUE
  BY <1>3, TallyTypes, FS_EmptySet
<1>5. Responded # {}
  BY <1>4 DEF Answered
<1>6. Anounced = participants
  BY <1>1, <1>5 DEF AskedOnce, ClientTypes
<1>7. Answered(d) \subseteq Anounced
  BY DEF Answered, RespondedAnounced
<1>8. Anounced \in SUBSET Trustee /\ Anounced # Trustee
  BY <1>2 DEF Anounced
<1>9. Cardinality(Anounced) = Threshold
  <2>1. Cardinality(Anounced) \in {Threshold, NumTrustees}
    BY <1>6 DEF QuorumInv, Quorum
  <2>2. Cardinality(Anounced) # NumTrustees
    BY <1>8, TrusteesFinite, FS_Subset
  <2> QED
    BY <2>1, <2>2
<1>10. Answered(d) = Anounced
  BY <1>3, <1>7, <1>8, <1>9, CountTypes, FS_Subset
<1> QED
  BY <1>9, <1>10

------------------------------------------------------------------------------
(* What the product adds up to.                                            *)

\* What is added up for coefficient e of trustee i's key and ballot b.
Exponents(B, i, e, b) ==
  [f \in BagToSet(B) |-> MulModQ(FactorWeight(f, i, e), f.tally[b] * B[f])]

LEMMA RecordTallyCountsOnce ==
  \A b \in Cast : RecordTally[b] = 1 /\ RecordTally[b] * 1 = 1
BY DEF RecordTally

\* There are finitely many factors: a fragment for every trustee and answer.
LEMMA FactorsFinite ==
  ASSUME FragmentsInv, NEW s \in Selection, FactorsOfRecord(s)
  PROVE  IsFiniteSet(BagToSet(nonce_encoding[s]))
<1> DEFINE F == BagToSet(nonce_encoding[s])
           T == {"share", "fragment"} \X (Trustee \X Trustee)
           name == [f \in F |-> <<f.kind, <<f.of, f.by>>>>]
<1>1. IsFiniteSet(T)
  <2>1. IsFiniteSet(Trustee \X Trustee)
    BY TrusteesFinite, FS_Product
  <2>2. IsFiniteSet({"share"} \cup {"fragment"})
    BY FS_Singleton, FS_Union
  <2>3. {"share"} \cup {"fragment"} = {"share", "fragment"}
    OBVIOUS
  <2> QED
    BY <2>1, <2>2, <2>3, FS_Product
<1>2. ASSUME NEW f \in F
      PROVE  /\ f.kind \in {"share", "fragment"} /\ f.of \in Trustee /\ f.by \in Trustee
             /\ f.kind = "fragment" => f \in FragmentFactors(s)
             /\ f.kind = "share" => f = ShareFactor(f.of, RecordTally)
  <2>1. CASE f.kind = "fragment"
    <3>1. f \in FragmentFactors(s)
      BY <2>1 DEF FragmentFactors
    <3>2. f.of \in Trustee /\ f.by \in Answered(f.of)
      BY <3>1 DEF FragmentsInv, FactorsAreAnswers
    <3> QED
      BY <2>1, <3>1, <3>2 DEF Answered, Responded
  <2>2. CASE f.kind # "fragment"
    <3>1. f.kind = "share" /\ f.of \in Anounced /\ f = ShareFactor(f.of, RecordTally)
      BY <2>2 DEF FactorsOfRecord
    <3>2. f.by = f.of
      BY <3>1 DEF ShareFactor
    <3> QED
      BY <3>1, <3>2 DEF Anounced
  <2> QED
    BY <2>1, <2>2
<1>3. ASSUME NEW f \in F, NEW g \in F, name[f] = name[g]
      PROVE  f = g
  <2>1. f.kind = g.kind /\ f.of = g.of /\ f.by = g.by
    BY <1>3
  <2>2. CASE f.kind = "share"
    BY <1>2, <2>1, <2>2
  <2>3. CASE f.kind = "fragment"
    BY <1>2, <2>1, <2>3 DEF FragmentsInv, FactorsAreAnswers
  <2> QED
    BY <1>2, <2>2, <2>3
<1>4. name \in [F -> T]
  BY <1>2
<1>5. name \in Injection(F, T)
  BY <1>3, <1>4 DEF Injection, IsInjective
<1> QED
  BY <1>1, <1>5, FS_Injection

\* Only the factors for trustee i count for its key, each for its weight.
LEMMA OthersDoNotCount ==
  ASSUME FragmentsInv, RespondedAnounced, NEW s \in Selection, FactorsOfRecord(s),
         NEW i \in Trustee, NEW e \in Degree, NEW b \in Cast,
         NEW f \in BagToSet(nonce_encoding[s])
  PROVE  LET x == Exponents(nonce_encoding[s], i, e, b)
         IN  /\ x[f] \in Exponent
             /\ f.of # i => x[f] = 0
             /\ f.of = i /\ f.kind = "share" => x[f] = (IF e = 0 THEN 1 ELSE 0)
             /\ f.of = i /\ f.kind = "fragment" =>
                  f.by \in Anounced /\ x[f] = Term(Anounced, e)[f.by]
<1> DEFINE x == Exponents(nonce_encoding[s], i, e, b)
           w == FactorWeight(f, i, e)
<1>1. f.tally = RecordTally /\ nonce_encoding[s][f] = 1
  <2>1. CASE f.kind = "fragment"
    BY <2>1 DEF FactorsOfRecord, FragmentsInv, FactorsAreAnswers, FragmentFactors
  <2>2. CASE f.kind # "fragment"
    BY <2>2 DEF FactorsOfRecord, ShareFactor
  <2> QED
    BY <2>1, <2>2
<1>2. x[f] = MulModQ(w, 1)
  BY <1>1, RecordTallyCountsOnce DEF Exponents
<1>3. \A a \in Exponent : MulModQ(a, 1) = a
  BY MultiplicationLaws
<1>4. CASE f.of # i
  <2>1. w = 0
    BY <1>4, Zenon DEF FactorWeight
  <2> QED
    BY <1>2, <1>3, <1>4, <2>1, SmallExponents
<1>5. CASE f.of = i /\ f.kind = "share"
  <2>1. w = (IF e = 0 THEN 1 ELSE 0)
    BY <1>5, Zenon DEF FactorWeight
  <2> QED
    BY <1>2, <1>3, <1>5, <2>1, SmallExponents
<1>6. CASE f.of = i /\ f.kind = "fragment"
  <2>1. f \in FragmentFactors(s)
    BY <1>6 DEF FragmentFactors
  <2>2. f.by \in Answered(f.of) /\ f.available = Anounced
    BY <2>1 DEF FragmentsInv, FactorsAreAnswers
  <2>3. f.by \in Anounced /\ f.by \in Trustee /\ Anounced \in SUBSET Trustee
    BY <2>2 DEF Answered, Responded, RespondedAnounced, Anounced
  <2>4. w = MulModQ(LagrangeCoefficient(f.by, Anounced), ShareWeight(f.by, e))
    BY <1>6, <2>2, Zenon DEF FactorWeight
  <2>5. w = Term(Anounced, e)[f.by]
    BY <2>3, <2>4 DEF Term
  <2>6. w \in Exponent
    <3>1. e \in Nat
      BY DEF Degree
    <3> QED
      BY <2>3, <2>5, <3>1, TermsAreExponents
  <2> QED
    BY <1>2, <1>3, <1>6, <2>3, <2>5, <2>6
<1>7. f.kind \in {"share", "fragment"}
  BY DEF FactorsOfRecord
<1> QED
  BY <1>4, <1>5, <1>6, <1>7

\* The key of a trustee that announced: its own share, and nothing else, counts.
LEMMA AnouncedAddUp ==
  ASSUME FragmentsInv, RespondedAnounced, NEW s \in Selection, FactorsOfRecord(s),
         NEW i \in Anounced, NEW e \in Degree, NEW b \in Cast
  PROVE  ProductExponent(nonce_encoding[s], i, e, b) = (IF e = 0 THEN 1 ELSE 0)
<1> DEFINE F == BagToSet(nonce_encoding[s])
           x == Exponents(nonce_encoding[s], i, e, b)
           own == ShareFactor(i, RecordTally)
<1>1. i \in Trustee /\ i \notin Missing
  BY DEF Anounced, Missing
<1>2. own \in F /\ own.of = i /\ own.kind = "share"
  BY DEF FactorsOfRecord, ShareFactor
<1>3. IsFiniteSet(F)
  BY FactorsFinite
<1>4. \A f \in F : x[f] \in Exponent
  BY <1>1, OthersDoNotCount
<1>5. \A f \in F \ {own} : x[f] = 0
  <2> SUFFICES ASSUME NEW f \in F \ {own} PROVE x[f] = 0
    OBVIOUS
  <2>1. CASE f.kind = "share"
    <3>1. f.of # i
      BY <2>1 DEF FactorsOfRecord, ShareFactor
    <3> QED
      BY <1>1, <3>1, OthersDoNotCount
  <2>2. CASE f.kind # "share"
    <3>1. f \in FragmentFactors(s)
      BY <2>2 DEF FactorsOfRecord, FragmentFactors
    <3>2. f.of \in Trustee /\ f.by \in Answered(f.of)
      BY <3>1 DEF FragmentsInv, FactorsAreAnswers
    <3>3. f.of \in Missing
      BY <3>2 DEF Answered, Requested
    <3> QED
      BY <1>1, <3>3, OthersDoNotCount
  <2> QED
    BY <2>1, <2>2
<1>6. x[own] = (IF e = 0 THEN 1 ELSE 0)
  BY <1>1, <1>2, OthersDoNotCount
<1>7. ProductExponent(nonce_encoding[s], i, e, b) = Sums!Fold(x, F)
  BY SumIsFold DEF ProductExponent, Exponents
<1> HIDE DEF x, own, F
<1>8. Sums!Fold(x, F) = Sums!Fold(x, {own})
  BY <1>2, <1>3, <1>4, <1>5, SumsLawful, SameFinite, Sums!FoldSubset
<1>9. Sums!Fold(x, {own}) = x[own]
  BY <1>2, <1>4, SumsLawful, Sums!FoldSingle
<1> QED
  BY <1>6, <1>7, <1>8, <1>9

\* The key of a missing trustee: the fragments for it count, with their weights.
LEMMA MissingAddUp ==
  ASSUME ~AnyQuorum, QuorumInv, RespondedAnounced, all_trustees_seen_or_compensated,
         NEW s \in Selection, FactorsOfRecord(s),
         NEW i \in Missing, NEW e \in Degree, NEW b \in Cast
  PROVE  ProductExponent(nonce_encoding[s], i, e, b) = (IF e = 0 THEN 1 ELSE 0)
<1> DEFINE F == BagToSet(nonce_encoding[s])
           x == Exponents(nonce_encoding[s], i, e, b)
           R == FragmentsFor(i, s)
           by == [f \in R |-> f.by]
<1>0. FragmentsInv
  BY DEF QuorumInv
<1>1. i \in Trustee /\ i \notin Anounced
  BY DEF Missing
<1>2. Answered(i) = Anounced /\ Cardinality(Anounced) = Threshold
  BY EveryoneAnswered
<1>3. IsFiniteSet(F) /\ IsFiniteSet(R) /\ R \in SUBSET F
  BY <1>0, FactorsFinite, FS_Subset DEF FragmentsFor
<1>4. \A f \in F : x[f] \in Exponent
  BY <1>0, <1>1, OthersDoNotCount
<1>5. \A f \in F \ R : x[f] = 0
  <2> SUFFICES ASSUME NEW f \in F \ R PROVE x[f] = 0
    OBVIOUS
  <2>1. f.of # i
    BY <1>1 DEF FragmentsFor, FactorsOfRecord
  <2> QED
    BY <1>0, <1>1, <2>1, OthersDoNotCount
<1>6. \A f \in R : x[f] = Term(Anounced, e)[f.by] /\ x[f] \in Exponent
  BY <1>0, <1>1, <1>3, OthersDoNotCount DEF FragmentsFor
<1>7. /\ \A f \in R : f.by \in Anounced
      /\ \A f, g \in R : f.by = g.by => f = g
      /\ \A l \in Anounced : \E f \in R : f.by = l
  <2>1. R = {f \in FragmentFactors(s) : f.of = i}
    BY DEF FragmentsFor, FragmentFactors
  <2> HIDE DEF R
  <2> QED
    BY <1>0, <1>1, <1>2, <2>1 DEF FragmentsInv, FactorsAreAnswers
<1>8. ProductExponent(nonce_encoding[s], i, e, b) = Sums!Fold(x, F)
  BY SumIsFold DEF ProductExponent, Exponents
<1>9. /\ by \in [R -> Anounced]
      /\ \A f, g \in R : by[f] = by[g] => f = g
      /\ \A l \in Anounced : \E f \in R : by[f] = l
      /\ \A f \in R : x[f] = Term(Anounced, e)[by[f]] /\ x[f] \in Exponent
  <2> HIDE DEF R, x
  <2> QED
    BY <1>6, <1>7
<1> HIDE DEF F, x, R, by
<1>10. Sums!Fold(x, F) = Sums!Fold(x, R)
  BY <1>3, <1>4, <1>5, SumsLawful, SameFinite, Sums!FoldSubset
<1>11. Sums!Fold(x, R) = Moment(Anounced, e)
  BY <1>3, <1>9, SumsLawful, SameFinite, Sums!FoldMatch DEF Moment
<1>12. Moment(Anounced, e) = (IF e = 0 THEN 1 ELSE 0)
  <2>1. Anounced \in SUBSET Trustee /\ Threshold \in Nat \ {0}
    BY ThresholdAssumption DEF Anounced
  <2>2. Anounced # {}
    BY <1>2, <2>1, FS_EmptySet
  <2>3. e # 0 => e \in 1 .. Cardinality(Anounced) - 1
    BY <1>2, <2>1 DEF Degree
  <2> QED
    BY <2>1, <2>2, <2>3, MomentsAreThoseOfZero
<1> QED
  BY <1>8, <1>10, <1>11, <1>12

LEMMA CompleteOpens ==
  ASSUME ~AnyQuorum, QuorumInv, RespondedAnounced, SharesOfRecord, ProductOfRecord,
         all_trustees_seen_or_compensated
  PROVE  Decrypted
<1>1. message_encoding = RecordTally
  BY CompleteIsInitialized DEF SharesOfRecord, QuorumInv, FragmentsInv
<1> SUFFICES ASSUME NEW s \in Selection, NEW i \in Trustee, NEW e \in Degree, NEW b \in Cast
             PROVE  ProductExponent(nonce_encoding[s], i, e, b)
                      = (IF e = 0 THEN RecordTally[b] ELSE 0) % Q
  BY <1>1 DEF Decrypted, Opens
<1>2. (IF e = 0 THEN RecordTally[b] ELSE 0) % Q = (IF e = 0 THEN 1 ELSE 0)
  BY RecordTallyCountsOnce, SmallExponents, Reduced
<1>3. FragmentsInv /\ FactorsOfRecord(s)
  BY DEF QuorumInv, ProductOfRecord
<1>4. CASE i \in Anounced
  BY <1>2, <1>3, <1>4, AnouncedAddUp
<1>5. CASE i \notin Anounced
  <2>1. i \in Missing
    BY <1>5 DEF Missing
  <2> QED
    BY <1>2, <1>3, <2>1, MissingAddUp
<1> QED
  BY <1>4, <1>5

\* Nothing complete was found that does not open.
OpensInv ==
  /\ RecordTallyInv
  /\ QuorumInv
  /\ retried = {} => ProductOfRecord /\ ~undecryptable

LEMMA NextOpensInv ==
  ASSUME ~LateShares, ~AnyQuorum
  PROVE  OpensInv /\ [Next]_vars => OpensInv'
<1> SUFFICES ASSUME OpensInv, [Next]_vars, retried' = {}
             PROVE  ProductOfRecord' /\ ~undecryptable'
  BY NextRecordTallyInv, QuorumInvHolds DEF OpensInv
<1>1. retried = {}
  BY DEF Next, CoordinatorStep, TrusteeStep, TrusteeTally, TrusteeTallyFails,
     TrusteeRestart, TrusteeComputeShare, TrusteeComputeFragments,
     CoordinatorReceiveShare, CoordinatorAllSharesReceived,
     CoordinatorReceiveFragments, CoordinatorAllFragmentsReceived, vars, clientVars
<1>2. /\ TypeInv /\ RespondedAnounced /\ FedOnce /\ SharesOfRecord /\ QuorumInv
      /\ ProductOfRecord /\ ~undecryptable
  BY <1>1 DEF OpensInv, RecordTallyInv
<1>3. ProductOfRecord'
  BY <1>2, ProductOfRecordStep
<1>4. ~undecryptable'
  <2>1. CASE CoordinatorAllFragmentsReceived
    BY <1>2, <2>1, CompleteOpens DEF CoordinatorAllFragmentsReceived, AllFragmentsReceived
  <2>2. CASE UNCHANGED undecryptable
    BY <1>2, <2>2
  <2> QED
    BY <2>1, <2>2
    DEF Next, CoordinatorStep, TrusteeStep, TrusteeTally, TrusteeTallyFails,
        TrusteeRestart, TrusteeComputeShare, TrusteeComputeFragments,
        CoordinatorReceiveShare, CoordinatorAllSharesReceived,
        CoordinatorReceiveFragments, vars, clientVars
<1> QED
  BY <1>3, <1>4

\* With shares in their phase, and Threshold trustees or all of them taking part, as
\* API_TallyVotes has it: what all_fragments_received takes for complete opens, with
\* the weights of src/electionguard/decryption/trustee.c, whichever trustees are
\* missing, whatever is repeated, reordered or computed again after a restart.
THEOREM CompleteTallyAlwaysOpens ==
  ASSUME ~LateShares, ~AnyQuorum
  PROVE  Spec => []CompleteTallyOpens
<1>1. Init => OpensInv
  BY InitRecordTallyInv, QuorumInvHolds, InitProductOfRecord DEF Init, OpensInv
<1>2. OpensInv /\ [Next]_vars => OpensInv'
  BY NextOpensInv
<1>3. OpensInv => CompleteTallyOpens
  BY DEF OpensInv, CompleteTallyOpens
<1> QED
  BY <1>1, <1>2, <1>3, PTL DEF Spec

==============================================================================
