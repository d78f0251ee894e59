------------------------ MODULE KeyCeremonyCoordinator ------------------------
(***************************************************************************)
(* struct KeyCeremony_Coordinator_s and its operations                     *)
(* (src/electionguard/keyceremony/coordinator.c).                          *)
(*                                                                         *)
(* An operation that is rejected (a duplicate trustee index, trustees      *)
(* missing, a bad proof) returns before any assignment: it is a stuttering *)
(* step and has no action.                                                 *)
(***************************************************************************)
EXTENDS KeyCeremonyMessages

VARIABLES
  seen,          \* seen[i]: a message of trustee i was accepted "this phase"
  public_keys,   \* public_keys[i] and rsa_public_keys[i]
  shares         \* shares[i][j]: trustee i's share for trustee j

coordinatorVars == <<seen, public_keys, shares>>

NoneSeen == [i \in Trustee |-> FALSE]

CoordinatorTypeOK ==
  /\ seen \in [Trustee -> BOOLEAN]
  /\ public_keys \in [Trustee -> KeyOrNone]
  /\ shares \in [Trustee -> [Trustee -> Share]]

CoordinatorInit ==
  /\ seen = NoneSeen
  /\ public_keys = [i \in Trustee |-> NoKey]
  /\ shares = [i \in Trustee |-> [j \in Trustee |-> NoShare]]

AssertIndexUnseen(i) == ~seen[i]

\* A bug AssertAllSeen could have: the loop stops at the first trustee seen.
AssertAllSeenAny == \E i \in Trustee : seen[i]
AssertAllSeen == \A i \in Trustee : seen[i]

ClearSeen == seen' = NoneSeen

ReceiveKeyGenerated(m) ==
  /\ AssertIndexUnseen(m.from)
  /\ seen' = [seen EXCEPT ![m.from] = TRUE]
  /\ public_keys' = [public_keys EXCEPT ![m.from] = m.key]
  /\ UNCHANGED shares

AllKeysReceived ==
  /\ AssertAllSeen
  /\ ClearSeen
  /\ UNCHANGED <<public_keys, shares>>

\* A bug StoreShares could have: the row is marked seen and never stored.
StoreSharesSkipped(i, row) == UNCHANGED shares
StoreShares(i, row) == shares' = [shares EXCEPT ![i] = row]

ReceiveSharesGenerated(m) ==
  /\ AssertIndexUnseen(m.from)
  /\ seen' = [seen EXCEPT ![m.from] = TRUE]
  /\ StoreShares(m.from, m.shares)
  /\ UNCHANGED public_keys

\* The allocation for share j fails while the message is read: the error
\* status is overwritten by assert_index_unseen, so the row is stored with what
\* the failed reads left from j on, and the call returns SUCCESS.
ReceiveSharesGeneratedNoMemory(m, j, rest) ==
  /\ AssertIndexUnseen(m.from)
  /\ seen' = [seen EXCEPT ![m.from] = TRUE]
  /\ StoreShares(m.from, [i \in Trustee |-> IF i < j THEN m.shares[i] ELSE rest])
  /\ UNCHANGED public_keys

AllSharesReceived ==
  /\ AssertAllSeen
  /\ ClearSeen
  /\ UNCHANGED <<public_keys, shares>>

ReceiveSharesVerified(i) ==
  /\ AssertIndexUnseen(i)
  /\ seen' = [seen EXCEPT ![i] = TRUE]
  /\ UNCHANGED <<public_keys, shares>>

\* The joint key is the product of public_keys[i].coef_commitments[0]: the
\* version of the key of every trustee that went into it.
JointKey == public_keys

PublishJointKey ==
  /\ AssertAllSeen
  /\ KeysWritable(JointKey)
  /\ UNCHANGED coordinatorVars

==============================================================================
