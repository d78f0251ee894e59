----------------------------- MODULE KeyCeremony -----------------------------
(***************************************************************************)
(* The key ceremony: one coordinator, its trustees, and the client that    *)
(* calls them and carries their messages.  The library sends nothing       *)
(* itself ("communication agnostic"), so every order of calls and every    *)
(* delivery is the client's.                                               *)
(*                                                                         *)
(* The client modelled here makes the coordinator's calls in the order of  *)
(* the README (and of API_CreateElection): all_keys_received once, then    *)
(* all_shares_received until it succeeds, then publish_joint_key.  Its     *)
(* network keeps every message, so a message may be lost, delayed,         *)
(* reordered or delivered again.  LateDelivery tells whether a message may *)
(* still reach the coordinator after the phase it was made for.            *)
(***************************************************************************)
EXTENDS KeyCeremonyCoordinator, KeyCeremonyTrustees

CONSTANTS
  LateDelivery,   \* TRUE: a message may be delivered in a later phase
  MallocMayFail   \* TRUE: reading a shares_generated message may run out of memory

ASSUME ClientAssumption == LateDelivery \in BOOLEAN /\ MallocMayFail \in BOOLEAN

VARIABLES
  phase,          \* the coordinator call the client works towards
  key_msgs,       \* key_generated messages made so far
  all_keys_msgs,  \* all_keys_received messages made so far
  shares_msgs,    \* shares_generated messages made so far
  all_shares_msgs,\* all_shares_received messages made so far
  verified_msgs,  \* trustees that made a shares_verified message
  joint_key,      \* the joint key published last, NoJointKey before
  exported        \* exported[t]: the trustee_state t exported last

clientVars == <<phase, key_msgs, all_keys_msgs, shares_msgs, all_shares_msgs,
                verified_msgs, joint_key, exported>>
vars == <<coordinatorVars, trusteeVars, clientVars>>

NoJointKey == [i \in Trustee |-> NoKey]
NoState == [private_key |-> NoKey, shares |-> [i \in Trustee |-> NoShare]]

Keys == [Trustee -> Key]
Row == [Trustee -> Share]

TypeOK ==
  /\ CoordinatorTypeOK
  /\ TrusteesTypeOK
  /\ phase \in {"keys", "shares", "verify"}
  /\ key_msgs \subseteq [from : Trustee, key : Key]
  /\ all_keys_msgs \subseteq Keys
  /\ shares_msgs \subseteq [from : Trustee, shares : Row]
  /\ all_shares_msgs \subseteq [Trustee -> Row]
  /\ verified_msgs \subseteq Trustee
  /\ joint_key \in Keys \union {NoJointKey}
  /\ exported \in [Trustee -> [private_key : KeyOrNone, shares : Row]]

Init ==
  /\ CoordinatorInit
  /\ TrusteesInit
  /\ phase = "keys"
  /\ key_msgs = {}
  /\ all_keys_msgs = {}
  /\ shares_msgs = {}
  /\ all_shares_msgs = {}
  /\ verified_msgs = {}
  /\ joint_key = NoJointKey
  /\ exported = [t \in Trustee |-> NoState]

\* May the client hand the coordinator a message of phase p now?
Deliverable(p) == LateDelivery \/ phase = p

------------------------------------------------------------------------------
(* The trustees.  A client that asks for a new key does so before the      *)
(* trustee has told it that it verified its shares.                        *)

TrusteeGenerateKey(t) ==
  /\ t \notin verified_msgs
  /\ GenerateKey(t)
  /\ key_msgs' = key_msgs \union {KeyGeneratedMessage(t)}
  /\ UNCHANGED <<coordinatorVars, phase, all_keys_msgs, shares_msgs,
                 all_shares_msgs, verified_msgs, joint_key, exported>>

TrusteeGenerateShares(t) ==
  \E keys \in all_keys_msgs :
    /\ GenerateShares(t, keys)
    /\ shares_msgs' = shares_msgs \union {SharesGeneratedMessage(t, keys)}
    /\ UNCHANGED <<coordinatorVars, phase, key_msgs, all_keys_msgs,
                   all_shares_msgs, verified_msgs, joint_key, exported>>

TrusteeVerifyShares(t) ==
  \E all \in all_shares_msgs :
    /\ VerifyShares(t, all)
    /\ verified_msgs' = verified_msgs \union {t}
    /\ UNCHANGED <<coordinatorVars, phase, key_msgs, all_keys_msgs,
                   shares_msgs, all_shares_msgs, joint_key, exported>>

TrusteeExportState(t) ==
  /\ CanExport(t)
  /\ exported' = [exported EXCEPT ![t] = ExportedState(t)]
  /\ UNCHANGED <<coordinatorVars, trusteeVars, phase, key_msgs, all_keys_msgs,
                 shares_msgs, all_shares_msgs, verified_msgs, joint_key>>

------------------------------------------------------------------------------
(* The coordinator.                                                        *)

CoordinatorReceiveKeyGenerated ==
  \E m \in key_msgs :
    /\ Deliverable("keys")
    /\ ReceiveKeyGenerated(m)
    /\ UNCHANGED <<trusteeVars, clientVars>>

CoordinatorAllKeysReceived ==
  /\ phase = "keys"
  /\ AllKeysReceived
  /\ KeysWritable(public_keys)
  /\ all_keys_msgs' = all_keys_msgs \union {public_keys}
  /\ phase' = "shares"
  /\ UNCHANGED <<trusteeVars, key_msgs, shares_msgs, all_shares_msgs,
                 verified_msgs, joint_key, exported>>

CoordinatorReceiveSharesGenerated ==
  \E m \in shares_msgs :
    /\ Deliverable("shares")
    /\ ReceiveSharesGenerated(m)
    /\ UNCHANGED <<trusteeVars, clientVars>>

CoordinatorReceiveSharesNoMemory ==
  \E m \in shares_msgs, j \in Trustee, rest \in {NoShare, GarbageShare} :
    /\ MallocMayFail
    /\ Deliverable("shares")
    /\ ReceiveSharesGeneratedNoMemory(m, j, rest)
    /\ UNCHANGED <<trusteeVars, clientVars>>

CoordinatorAllSharesReceived ==
  /\ phase = "shares"
  /\ AllSharesReceived
  /\ \A i \in Trustee : SharesWritable(shares[i])
  /\ all_shares_msgs' = all_shares_msgs \union {shares}
  /\ phase' = "verify"
  /\ UNCHANGED <<trusteeVars, key_msgs, all_keys_msgs, shares_msgs,
                 verified_msgs, joint_key, exported>>

\* SERIALIZE_ERROR is found after seen was cleared: the coordinator waits for
\* every shares_generated message again.
CoordinatorAllSharesUnwritable ==
  /\ phase = "shares"
  /\ AllSharesReceived
  /\ \E i \in Trustee : ~SharesWritable(shares[i])
  /\ UNCHANGED <<trusteeVars, clientVars>>

CoordinatorReceiveSharesVerified ==
  \E t \in verified_msgs :
    /\ Deliverable("verify")
    /\ ReceiveSharesVerified(t)
    /\ UNCHANGED <<trusteeVars, clientVars>>

CoordinatorPublishJointKey ==
  /\ phase = "verify"
  /\ PublishJointKey
  /\ joint_key' = JointKey
  /\ UNCHANGED <<trusteeVars, phase, key_msgs, all_keys_msgs, shares_msgs,
                 all_shares_msgs, verified_msgs, exported>>

TrusteeStep(t) ==
  \/ TrusteeGenerateKey(t)
  \/ TrusteeGenerateShares(t)
  \/ TrusteeVerifyShares(t)
  \/ TrusteeExportState(t)

CoordinatorStep ==
  \/ CoordinatorReceiveKeyGenerated
  \/ CoordinatorAllKeysReceived
  \/ CoordinatorReceiveSharesGenerated
  \/ CoordinatorReceiveSharesNoMemory
  \/ CoordinatorAllSharesReceived
  \/ CoordinatorAllSharesUnwritable
  \/ CoordinatorReceiveSharesVerified
  \/ CoordinatorPublishJointKey

Next == CoordinatorStep \/ \E t \in Trustee : TrusteeStep(t)

Spec == Init /\ [][Next]_vars

------------------------------------------------------------------------------
(* Properties.                                                             *)

\* Trustee t has accepted its shares (verify_shares succeeded at least once).
Accepted(t) == SharesWritable(my_key_shares[t])

Published == joint_key # NoJointKey

\* The state a trustee needs at decryption when the joint key is made of keys.
BackingState(t, keys) ==
  [private_key |-> keys[t], shares |-> [i \in Trustee |-> ShareOf(keys[i], keys[t])]]

\* What keyceremony/README.rst gives as the ceremony's purpose: once a joint key
\* is published, every trustee holds the private key behind its factor of the
\* joint key and a share, which it can decrypt, of every other factor.
JointKeyBacked ==
  Published => \A t \in Trustee : ExportedState(t) = BackingState(t, joint_key)

\* A trustee_state that was exported, at whatever moment, is the state that the
\* joint key published before or after it needs at decryption.
ExportsBackJointKey ==
  Published => \A t \in Trustee :
                 exported[t] # NoState => exported[t] = BackingState(t, joint_key)

\* What a trustee accepted stays what it verified: every share opens under the
\* trustee's present RSA key to a point of the polynomial behind its present
\* copy of the maker's public key.
AcceptedSharesOpen ==
  \A t \in Trustee : Accepted(t) =>
    \A i \in Trustee :
      ValidShare(my_key_shares[t][i], trustee_public_keys[t][i], private_key[t])

\* Trustees that accepted their shares did so for one and the same key list.
TrusteesAgree ==
  \A t, u \in Trustee :
    Accepted(t) /\ Accepted(u) => trustee_public_keys[t] = trustee_public_keys[u]

\* coordinator.h:117 of publish_joint_key: it asserts that exactly one
\* shares_verified message from each trustee has been received.
PublishedAfterVerification == Published => verified_msgs = Trustee

\* The list of keys a trustee stands for.
Endorsed(t) == IF Accepted(t) THEN trustee_public_keys[t] ELSE NoJointKey

\* The ceremony implements the agreement it is for: accepting the shares
\* endorses the key list, publishing agrees on it.
Agreement ==
  INSTANCE KeyAgreement WITH
    Member <- Trustee, List <- Keys, NoList <- NoJointKey,
    endorsed <- [t \in Trustee |-> Endorsed(t)],
    agreed <- joint_key
ImplementsAgreement == Agreement!Spec

------------------------------------------------------------------------------
(* The inductive invariant behind these properties.                        *)

\* A trustee's copy of its own public key is the key it holds.
OwnKeyHeld == \A t \in Trustee : trustee_public_keys[t][t] = private_key[t]

\* One list of keys is broadcast, when the client leaves the first phase.
OneKeyList ==
  /\ phase = "keys" <=> all_keys_msgs = {}
  /\ \A k, l \in all_keys_msgs : k = l

\* A share made from trustee i's present polynomial was made after i received
\* the list; a share of an older polynomial bears a smaller version.
MadeByKey(i, s) ==
  /\ s.poly <= private_key[i]
  /\ s.poly = private_key[i] /\ s.poly # NoKey => trustee_public_keys[i] \in all_keys_msgs

SharesMadeAfterList ==
  /\ \A m \in shares_msgs : \A j \in Trustee : MadeByKey(m.from, m.shares[j])
  /\ \A i, j \in Trustee : MadeByKey(i, shares[i][j])
  /\ \A all \in all_shares_msgs : \A i, j \in Trustee : MadeByKey(i, all[i][j])

\* A trustee that verified its shares did so for the broadcast list, holds
\* exactly what the list asks for, and may have exported that; one that did not
\* holds no share and exported nothing.
HoldsList(t) ==
  \/ /\ t \in verified_msgs
     /\ trustee_public_keys[t] \in all_keys_msgs
     /\ ExportedState(t) = BackingState(t, trustee_public_keys[t])
     /\ exported[t] \in {NoState, ExportedState(t)}
  \/ /\ t \notin verified_msgs
     /\ my_key_shares[t] = [i \in Trustee |-> NoShare]
     /\ exported[t] = NoState

VerifiedHoldsList == \A t \in Trustee : HoldsList(t)

CeremonyInv ==
  TypeOK /\ OwnKeyHeld /\ OneKeyList /\ SharesMadeAfterList /\ VerifiedHoldsList

\* When no message is late, seen means "verified" in the last phase, and what
\* is published is the list that was broadcast.
InPhaseInv ==
  /\ phase # "keys" => public_keys \in all_keys_msgs
  /\ phase # "verify" => all_shares_msgs = {} /\ verified_msgs = {} /\ ~Published
  /\ phase = "verify" => \A i \in Trustee : seen[i] => i \in verified_msgs
  /\ Published => joint_key = public_keys /\ verified_msgs = Trustee

------------------------------------------------------------------------------
(* Progress.  The loops of API_CreateElection make every call for every    *)
(* trustee; a distributed client repeats a call until it succeeds.         *)

Fairness ==
  /\ \A t \in Trustee :
       /\ WF_vars(TrusteeGenerateKey(t))
       /\ WF_vars(TrusteeGenerateShares(t))
       /\ WF_vars(TrusteeVerifyShares(t))
       /\ WF_vars(TrusteeExportState(t))
  /\ WF_vars(CoordinatorReceiveKeyGenerated)
  /\ WF_vars(CoordinatorAllKeysReceived)
  /\ WF_vars(CoordinatorReceiveSharesGenerated)
  /\ WF_vars(CoordinatorAllSharesReceived)
  /\ WF_vars(CoordinatorReceiveSharesVerified)
  /\ WF_vars(CoordinatorPublishJointKey)

FairSpec == Spec /\ Fairness

\* With one key per trustee and enough memory the ceremony ends: a joint key is
\* published and every trustee has exported the state behind it.
CeremonyCompletes ==
  <>(Published /\ \A t \in Trustee : exported[t] = BackingState(t, joint_key))

==============================================================================
