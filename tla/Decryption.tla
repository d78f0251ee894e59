------------------------------ MODULE Decryption ------------------------------
(***************************************************************************)
(* Decryption of a tally: the trustees that take part, the coordinator,    *)
(* and the client that calls them and carries their messages (as           *)
(* API_TallyVotes does for trustees in one process).                       *)
(*                                                                         *)
(* The client decides who takes part.  It feeds each of them the voting    *)
(* record; it hands over every share, asks for fragments when every        *)
(* participant has announced, and hands over every response.  The network  *)
(* keeps every message: it may be lost, reordered or delivered again.      *)
(* A trustee may be lost at any time and made again from its state.        *)
(***************************************************************************)
EXTENDS DecryptionCoordinator, DecryptionTrustees

CONSTANTS
  AnyQuorum,      \* FALSE: exactly Threshold trustees take part, or all of them
  LateShares,     \* TRUE: a share may be delivered after fragments were requested
  RetryInPlace,   \* TRUE: a trustee whose reading failed is fed the record again
  MaxFaults       \* bound: readings that fail and trustees that are lost, together

ASSUME ClientAssumption ==
  {AnyQuorum, LateShares, RetryInPlace} \subseteq BOOLEAN /\ MaxFaults \in Nat

VARIABLES
  participants,   \* the trustees that take part
  fed,            \* fed[t]: "fresh", "failed" or "fed" with the voting record
  faults,         \* readings that failed and trustees that were lost so far
  retried,        \* trustees that were fed again after a failure
  share_msgs,     \* shares computed so far
  requests,       \* the requests made last: what each trustee is asked for
  fragments_msgs, \* fragments computed so far
  published,      \* the tallies published
  undecryptable   \* all_fragments_received was given a tally that does not open

clientVars == <<participants, fed, faults, retried, share_msgs, requests, fragments_msgs,
                published, undecryptable>>
vars == <<coordinatorVars, tallies, clientVars>>

Request == [to : Trustee, requested : SUBSET Trustee]

TypeOK ==
  /\ anounced \in [Trustee -> BOOLEAN]
  /\ tallies_initialized \in BOOLEAN
  /\ message_encoding \in Tally
  /\ \A s \in Selection : IsABag(nonce_encoding[s])
  /\ responded \in [Trustee -> BOOLEAN]
  /\ num_decryption_fragments \in [Trustee -> 0 .. NumTrustees]
  /\ tallies \in [Trustee -> Tally]
  /\ participants \subseteq Trustee
  /\ fed \in [Trustee -> {"fresh", "failed", "fed"}]
  /\ faults \in 0 .. MaxFaults
  /\ retried \subseteq participants
  /\ share_msgs \subseteq [from : participants, tally : Tally]
  /\ requests \subseteq Request
  /\ fragments_msgs \subseteq [from : participants, requested : SUBSET Trustee, tally : Tally]
  /\ published \subseteq Tally
  /\ undecryptable \in BOOLEAN

Quorum(S) ==
  IF AnyQuorum THEN Cardinality(S) >= Threshold
               ELSE Cardinality(S) \in {Threshold, NumTrustees}

Init ==
  /\ CoordinatorInit
  /\ TrusteesInit
  /\ participants \in {S \in SUBSET Trustee : Quorum(S)}
  /\ fed = [t \in Trustee |-> "fresh"]
  /\ faults = 0
  /\ retried = {}
  /\ share_msgs = {}
  /\ requests = {}
  /\ fragments_msgs = {}
  /\ published = {}
  /\ undecryptable = FALSE

------------------------------------------------------------------------------
(* The trustees.                                                           *)

TrusteeTally(t) ==
  /\ t \in participants
  /\ fed[t] = "fresh" \/ (fed[t] = "failed" /\ RetryInPlace)
  /\ TallyVotingRecord(t)
  /\ fed' = [fed EXCEPT ![t] = "fed"]
  /\ retried' = IF fed[t] = "failed" THEN retried \union {t} ELSE retried
  /\ UNCHANGED <<coordinatorVars, participants, faults, share_msgs, requests,
                 fragments_msgs, published, undecryptable>>

TrusteeTallyFails(t) ==
  \E n \in DOMAIN Record :
    /\ t \in participants
    /\ fed[t] = "fresh" \/ (fed[t] = "failed" /\ RetryInPlace)
    /\ TallyVotingRecordFails(t, n)
    /\ faults < MaxFaults
    /\ faults' = faults + 1
    /\ fed' = [fed EXCEPT ![t] = "failed"]
    /\ retried' = IF fed[t] = "failed" THEN retried \union {t} ELSE retried
    /\ UNCHANGED <<coordinatorVars, participants, share_msgs, requests,
                   fragments_msgs, published, undecryptable>>

\* The trustee is lost, or freed after a failure, and made again from its state.
TrusteeRestart(t) ==
  /\ \/ fed[t] = "failed" /\ UNCHANGED faults
     \/ fed[t] = "fed" /\ faults < MaxFaults /\ faults' = faults + 1
  /\ DecryptionTrusteeNew(t)
  /\ fed' = [fed EXCEPT ![t] = "fresh"]
  /\ UNCHANGED <<coordinatorVars, participants, retried, share_msgs, requests,
                 fragments_msgs, published, undecryptable>>

TrusteeComputeShare(t) ==
  /\ t \in participants
  /\ fed[t] # "failed"
  /\ ComputeShare(t)
  /\ share_msgs' = share_msgs \union {ShareMessage(t)}
  /\ UNCHANGED <<coordinatorVars, participants, fed, faults, retried, requests,
                 fragments_msgs, published, undecryptable>>

TrusteeComputeFragments(t) ==
  \E r \in requests :
    /\ r.to = t
    /\ fed[t] # "failed"
    /\ ComputeFragments(t, r.requested)
    /\ fragments_msgs' = fragments_msgs \union {FragmentsMessage(t, r.requested)}
    /\ UNCHANGED <<coordinatorVars, participants, fed, faults, retried, share_msgs,
                   requests, published, undecryptable>>

------------------------------------------------------------------------------
(* The coordinator.                                                        *)

CoordinatorReceiveShare ==
  \E m \in share_msgs :
    /\ LateShares \/ requests = {}
    /\ ReceiveFirstShare(m) \/ ReceiveShare(m) \/ ReceiveConfusedShare(m)
    /\ UNCHANGED <<tallies, clientVars>>

\* API_TallyVotes calls it num_trustees times in a row and keeps the last answer.
\* A client that does not wait for every share asks again when one more arrives.
CoordinatorAllSharesReceived ==
  /\ ~LateShares => participants \subseteq Anounced /\ ~\E i \in Trustee : responded[i]
  /\ LateShares => {r.to : r \in requests} # Anounced
  /\ AllSharesReceived
  /\ requests' = {[to |-> i, requested |-> Requested(i)] : i \in Anounced}
  /\ UNCHANGED <<tallies, participants, fed, faults, retried, share_msgs,
                 fragments_msgs, published, undecryptable>>

CoordinatorReceiveFragments ==
  \E m \in fragments_msgs :
    /\ ReceiveFragments(m)
    /\ UNCHANGED <<tallies, clientVars>>

CoordinatorAllFragmentsReceived ==
  /\ AllFragmentsReceived
  /\ published' = IF Decrypted THEN published \union {message_encoding} ELSE published
  /\ undecryptable' = (undecryptable \/ ~Decrypted)
  /\ UNCHANGED <<tallies, participants, fed, faults, retried, share_msgs, requests,
                 fragments_msgs>>

TrusteeStep(t) ==
  \/ TrusteeTally(t)
  \/ TrusteeTallyFails(t)
  \/ TrusteeRestart(t)
  \/ TrusteeComputeShare(t)
  \/ TrusteeComputeFragments(t)

CoordinatorStep ==
  \/ CoordinatorReceiveShare
  \/ CoordinatorAllSharesReceived
  \/ CoordinatorReceiveFragments
  \/ CoordinatorAllFragmentsReceived

Next == CoordinatorStep \/ \E t \in Trustee : TrusteeStep(t)

Spec == Init /\ [][Next]_vars

------------------------------------------------------------------------------
(* Properties.                                                             *)

\* When no trustee was fed the record again on top of a failed reading, what is
\* published is the tally of the record: no ballot counted twice or left out,
\* whoever takes part, whatever arrives late and whatever is restarted.
PublishedTallyIsRecord == retried = {} => published \subseteq {RecordTally}

\* What all_fragments_received accepts as complete can be opened: shares and weighted
\* fragments add up to every trustee's key, whichever trustees are missing.
CompleteTallyOpens == retried = {} => ~undecryptable

\* README.rst:36-39 of include/electionguard: a group of at least k of the trustees
\* jointly decrypt the tally.  Whoever takes part, what all_fragments_received
\* accepts as complete can be decrypted.
AnyQuorumDecrypts ==
  retried = {} /\ all_trustees_seen_or_compensated => Decrypted

\* README.rst:14-17 of include/electionguard: the messages enforce an ordering on
\* operations.  A share that arrives after the fragments that replace it were asked
\* for is refused, or at least does not spoil the tally.
LateSharesAreHarmless == CompleteTallyOpens

\* The fragments multiplied into the tally for trustee d.
FragmentsFor(d, s) ==
  {f \in BagToSet(nonce_encoding[s]) : f.kind = "fragment" /\ f.of = d}

\* When all_fragments_received gets past its check, the product holds, for every
\* missing trustee, one fragment each of Threshold trustees, made for the very set
\* of trustees that announced: however responses were repeated, reordered or
\* computed again after a restart.
EachMissingCompensatedOnce ==
  all_trustees_seen_or_compensated =>
    \A s \in Selection, d \in Missing :
      /\ Cardinality({f.by : f \in FragmentsFor(d, s)}) = Threshold
      /\ Cardinality(FragmentsFor(d, s)) = Threshold
      /\ \A f \in FragmentsFor(d, s) :
           f.available = Anounced /\ nonce_encoding[s][f] = 1

------------------------------------------------------------------------------
(* Progress.  API_TallyVotes makes every call for every trustee; a trustee *)
(* that failed is made again, a call that was lost is repeated.            *)

Fairness ==
  /\ \A t \in Trustee :
       /\ WF_vars(TrusteeTally(t))
       /\ WF_vars(fed[t] = "failed" /\ TrusteeRestart(t))
       /\ WF_vars(TrusteeComputeShare(t))
       /\ WF_vars(TrusteeComputeFragments(t))
  /\ WF_vars(CoordinatorReceiveShare)
  /\ WF_vars(CoordinatorAllSharesReceived)
  /\ WF_vars(CoordinatorReceiveFragments)
  /\ WF_vars(CoordinatorAllFragmentsReceived)

FairSpec == Spec /\ Fairness

\* A record with a cast ballot is decrypted and its tally published, even if some
\* readings fail and some trustees are lost on the way.
TallyIsPublished == <>(RecordTally \in published)

==============================================================================
