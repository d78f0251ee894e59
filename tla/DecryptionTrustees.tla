-------------------------- MODULE DecryptionTrustees --------------------------
(***************************************************************************)
(* struct Decryption_Trustee_s and its operations                          *)
(* (src/electionguard/decryption/trustee.c), for every trustee of the      *)
(* election.  A trustee is made from the trustee_state it exported at the  *)
(* end of the key ceremony, as often as the client wants: its private key  *)
(* and its shares of the others' keys are the same each time, its tally    *)
(* starts from zero.                                                       *)
(***************************************************************************)
EXTENDS DecryptionMessages

VARIABLES tallies   \* tallies[t]: what trustee t has accumulated

TrusteesInit == tallies = [t \in Trustee |-> ZeroTally]

\* A bug DecryptionTrusteeNew could have: the tally is not set to zero.
TrusteeNewKeepsTally(t) == UNCHANGED tallies
DecryptionTrusteeNew(t) == tallies' = [tallies EXCEPT ![t] = ZeroTally]

Accumulated(t, ballots) ==
  [b \in Cast |-> tallies[t][b] + (IF b \in ballots THEN 1 ELSE 0)]

TallyVotingRecord(t) ==
  /\ Accumulated(t, Cast) \in Tally
  /\ tallies' = [tallies EXCEPT ![t] = Accumulated(t, Cast)]

\* IO_ERROR at ballot n: the ballots before it stay accumulated.
TallyVotingRecordFails(t, n) ==
  LET before == {b \in Cast : b < n} IN
  /\ Accumulated(t, before) \in Tally
  /\ tallies' = [tallies EXCEPT ![t] = Accumulated(t, before)]

ComputeShare(t) == TallyWritable(tallies[t]) /\ UNCHANGED tallies

ShareMessage(t) == [from |-> t, tally |-> tallies[t]]

\* A fragment that can be written: nothing was requested, or there is a tally.
ComputeFragments(t, requested) ==
  /\ requested = {} \/ TallyWritable(tallies[t])
  /\ UNCHANGED tallies

FragmentsMessage(t, requested) ==
  [from |-> t, requested |-> requested, tally |-> tallies[t]]

==============================================================================
