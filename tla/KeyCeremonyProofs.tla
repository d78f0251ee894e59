-------------------------- MODULE KeyCeremonyProofs --------------------------
(***************************************************************************)
(* The safety of the key ceremony, for every number of trustees, every     *)
(* bound on the keys they generate and every delivery the client makes.    *)
(***************************************************************************)
EXTENDS KeyCeremony, TLAPS

\* Facts about the values used throughout.
LEMMA ValueTypes ==
  /\ 0 \in Trustee
  /\ NoKey \in KeyOrNone
  /\ NoShare \in Share /\ GarbageShare \in Share
  /\ \A p, r \in KeyOrNone : ShareOf(p, r) \in Share
  /\ NoJointKey \notin Keys
BY KeyCeremonyAssumption
   DEF Trustee, NoKey, KeyOrNone, Key, Share, NoShare, GarbageShare, ShareOf,
       NoJointKey, Keys

LEMMA InitTypeOK == Init => TypeOK
BY ValueTypes
   DEF Init, CoordinatorInit, TrusteesInit, TypeOK, CoordinatorTypeOK,
       TrusteesTypeOK, NoneSeen, Keys, Row, NoState

LEMMA NextTypeOK == TypeOK /\ [Next]_vars => TypeOK'
<1> SUFFICES ASSUME TypeOK, [Next]_vars PROVE TypeOK'
  OBVIOUS
<1> USE DEF TypeOK, CoordinatorTypeOK, TrusteesTypeOK, Keys, Row
<1>1. ASSUME NEW t \in Trustee, TrusteeGenerateKey(t) PROVE TypeOK'
  <2>1. private_key[t] + 1 \in Key
    <3>1. private_key[t] \in KeyOrNone
      OBVIOUS
    <3>2. private_key[t] < MaxKeys
      BY <1>1 DEF TrusteeGenerateKey, GenerateKey
    <3> QED
      BY ONLY <3>1, <3>2, KeyCeremonyAssumption DEF Key, KeyOrNone, NoKey
  <2>2. KeyGeneratedMessage(t) \in [from : Trustee, key : Key]
    BY <2>1 DEF KeyGeneratedMessage
  <2> QED
    BY <1>1, <2>1, <2>2 DEF TrusteeGenerateKey, GenerateKey, coordinatorVars, KeyOrNone
<1>2. ASSUME NEW t \in Trustee, TrusteeGenerateShares(t) PROVE TypeOK'
  <2>1. PICK keys \in all_keys_msgs :
          /\ GenerateShares(t, keys)
          /\ shares_msgs' = shares_msgs \union {SharesGeneratedMessage(t, keys)}
          /\ UNCHANGED <<coordinatorVars, phase, key_msgs, all_keys_msgs,
                         all_shares_msgs, verified_msgs, joint_key, exported>>
    BY <1>2 DEF TrusteeGenerateShares
  <2>2. SharesGeneratedMessage(t, keys) \in [from : Trustee, shares : Row]
    <3>1. \A i \in Trustee : private_key[t] \in KeyOrNone /\ keys[i] \in KeyOrNone
      BY DEF KeyOrNone
    <3>2. [i \in Trustee |-> ShareOf(private_key[t], keys[i])] \in Row
      BY <3>1, ValueTypes
    <3> QED
      BY <3>2 DEF SharesGeneratedMessage
  <2> QED
    BY <2>1, <2>2 DEF GenerateShares, coordinatorVars, KeyOrNone
<1>3. ASSUME NEW t \in Trustee, TrusteeVerifyShares(t) PROVE TypeOK'
  BY <1>3 DEF TrusteeVerifyShares, VerifyShares, coordinatorVars
<1>4. ASSUME NEW t \in Trustee, TrusteeExportState(t) PROVE TypeOK'
  BY <1>4 DEF TrusteeExportState, ExportedState, coordinatorVars, trusteeVars
<1>5. CASE CoordinatorReceiveKeyGenerated
  BY <1>5 DEF CoordinatorReceiveKeyGenerated, ReceiveKeyGenerated, KeyOrNone,
              trusteeVars, clientVars
<1>6. CASE CoordinatorAllKeysReceived
  BY <1>6 DEF CoordinatorAllKeysReceived, AllKeysReceived, ClearSeen, NoneSeen,
              KeysWritable, KeyOrNone, trusteeVars
<1>7. CASE CoordinatorReceiveSharesGenerated
  BY <1>7 DEF CoordinatorReceiveSharesGenerated, ReceiveSharesGenerated,
              StoreShares, trusteeVars, clientVars
<1>8. CASE CoordinatorReceiveSharesNoMemory
  <2>1. PICK m \in shares_msgs, j \in Trustee, rest \in {NoShare, GarbageShare} :
          /\ ReceiveSharesGeneratedNoMemory(m, j, rest)
          /\ UNCHANGED <<trusteeVars, clientVars>>
    BY <1>8 DEF CoordinatorReceiveSharesNoMemory
  <2>2. [i \in Trustee |-> IF i < j THEN m.shares[i] ELSE rest] \in Row
    BY ValueTypes
  <2> QED
    BY <2>1, <2>2 DEF ReceiveSharesGeneratedNoMemory, StoreShares, trusteeVars, clientVars
<1>9. CASE CoordinatorAllSharesReceived
  BY <1>9 DEF CoordinatorAllSharesReceived, AllSharesReceived, ClearSeen, NoneSeen,
              trusteeVars
<1>10. CASE CoordinatorAllSharesUnwritable
  BY <1>10 DEF CoordinatorAllSharesUnwritable, AllSharesReceived, ClearSeen, NoneSeen,
               trusteeVars, clientVars
<1>11. CASE CoordinatorReceiveSharesVerified
  BY <1>11 DEF CoordinatorReceiveSharesVerified, ReceiveSharesVerified,
               trusteeVars, clientVars
<1>12. CASE CoordinatorPublishJointKey
  BY <1>12 DEF CoordinatorPublishJointKey, PublishJointKey, JointKey, KeysWritable,
               KeyOrNone, trusteeVars, coordinatorVars
<1>13. CASE UNCHANGED vars
  BY <1>13 DEF vars, coordinatorVars, trusteeVars, clientVars
<1> QED
  BY <1>1, <1>2, <1>3, <1>4, <1>5, <1>6, <1>7, <1>8, <1>9, <1>10, <1>11, <1>12, <1>13
     DEF Next, CoordinatorStep, TrusteeStep

\* Every variable of the coordinator, the trustees and the client stays in the
\* set of values the code's types and the ceremony's messages allow.
THEOREM CeremonyTypeCorrect == Spec => []TypeOK
<1>1. Init => TypeOK
  BY InitTypeOK
<1>2. TypeOK /\ [Next]_vars => TypeOK'
  BY NextTypeOK
<1> QED
  BY <1>1, <1>2, PTL DEF Spec

------------------------------------------------------------------------------
(* CeremonyInv, whatever the delivery.                                     *)

LEMMA InitCeremonyInv == Init => CeremonyInv
<1> SUFFICES ASSUME Init PROVE CeremonyInv
  OBVIOUS
<1>1. TypeOK
  BY InitTypeOK
<1>2. OwnKeyHeld /\ OneKeyList
  BY DEF Init, TrusteesInit, OwnKeyHeld, OneKeyList
<1>3. SharesMadeAfterList
  BY DEF Init, TrusteesInit, CoordinatorInit, SharesMadeAfterList, MadeByKey, NoShare, NoKey
<1>4. VerifiedHoldsList
  BY DEF Init, TrusteesInit, VerifiedHoldsList, HoldsList
<1> QED
  BY <1>1, <1>2, <1>3, <1>4 DEF CeremonyInv

\* A point of MadeByKey that no version bump and no list changes is kept.
LEMMA MadeByKeyKept ==
  ASSUME TypeOK, NEW i \in Trustee, NEW s \in Share, MadeByKey(i, s),
         private_key'[i] = private_key[i],
         trustee_public_keys[i] \in all_keys_msgs =>
           trustee_public_keys'[i] \in all_keys_msgs'
  PROVE  MadeByKey(i, s)'
BY DEF MadeByKey

LEMMA MadeByKeyRenewed ==
  ASSUME TypeOK, NEW i \in Trustee, NEW s \in Share, MadeByKey(i, s),
         private_key'[i] = private_key[i] + 1
  PROVE  MadeByKey(i, s)'
BY DEF MadeByKey, TypeOK, TrusteesTypeOK, Share, KeyOrNone, Key, NoKey

\* Every share in a message or at the coordinator, where nothing new is stored.
LEMMA SharesMadeKept ==
  ASSUME TypeOK, SharesMadeAfterList,
         UNCHANGED <<shares, shares_msgs, all_shares_msgs>>,
         \A i \in Trustee, s \in Share : MadeByKey(i, s) => MadeByKey(i, s)'
  PROVE  SharesMadeAfterList'
BY DEF SharesMadeAfterList, TypeOK, CoordinatorTypeOK, Row

LEMMA HoldsListKept ==
  ASSUME NEW t \in Trustee, HoldsList(t),
         private_key'[t] = private_key[t],
         trustee_public_keys'[t] = trustee_public_keys[t],
         my_key_shares'[t] = my_key_shares[t],
         exported'[t] = exported[t],
         t \in verified_msgs' <=> t \in verified_msgs,
         all_keys_msgs \subseteq all_keys_msgs'
  PROVE  HoldsList(t)'
BY DEF HoldsList, ExportedState, BackingState

LEMMA GenerateKeyInv ==
  ASSUME CeremonyInv, TypeOK', NEW t \in Trustee, TrusteeGenerateKey(t)
  PROVE  CeremonyInv'
<1> USE DEF CeremonyInv, TrusteeGenerateKey, GenerateKey, coordinatorVars
<1>0. /\ private_key'[t] = private_key[t] + 1
      /\ trustee_public_keys'[t][t] = private_key[t] + 1
      /\ \A i \in Trustee \ {t} : /\ private_key'[i] = private_key[i]
                                  /\ trustee_public_keys'[i] = trustee_public_keys[i]
  BY DEF TypeOK, TrusteesTypeOK
<1>1. OwnKeyHeld'
  BY <1>0 DEF OwnKeyHeld
<1>2. OneKeyList'
  BY DEF OneKeyList
<1>3. SharesMadeAfterList'
  <2>1. ASSUME NEW i \in Trustee, NEW s \in Share, MadeByKey(i, s)
        PROVE  MadeByKey(i, s)'
    <3>1. CASE i = t
      BY <2>1, <3>1, <1>0, MadeByKeyRenewed
    <3>2. CASE i # t
      BY <2>1, <3>2, <1>0, MadeByKeyKept
    <3> QED
      BY <3>1, <3>2
  <2> QED
    BY <2>1, SharesMadeKept
<1>4. VerifiedHoldsList'
  <2>1. HoldsList(t)'
    BY DEF VerifiedHoldsList, HoldsList
  <2>2. ASSUME NEW u \in Trustee \ {t} PROVE HoldsList(u)'
    BY <1>0, HoldsListKept DEF VerifiedHoldsList
  <2> QED
    BY <2>1, <2>2 DEF VerifiedHoldsList
<1> QED
  BY <1>1, <1>2, <1>3, <1>4

LEMMA GenerateSharesInv ==
  ASSUME CeremonyInv, TypeOK', NEW t \in Trustee, TrusteeGenerateShares(t)
  PROVE  CeremonyInv'
<1> USE DEF CeremonyInv
<1> PICK keys \in all_keys_msgs :
          /\ GenerateShares(t, keys)
          /\ shares_msgs' = shares_msgs \union {SharesGeneratedMessage(t, keys)}
          /\ UNCHANGED <<coordinatorVars, phase, key_msgs, all_keys_msgs,
                         all_shares_msgs, verified_msgs, joint_key, exported>>
  BY DEF TrusteeGenerateShares
<1> USE DEF GenerateShares, coordinatorVars
<1>0. /\ trustee_public_keys'[t] = keys
      /\ keys[t] = trustee_public_keys[t][t]
      /\ \A i \in Trustee \ {t} : trustee_public_keys'[i] = trustee_public_keys[i]
  BY DEF TypeOK, TrusteesTypeOK, OwnKeyPresent
<1>1. OwnKeyHeld'
  BY <1>0 DEF OwnKeyHeld
<1>2. OneKeyList'
  BY DEF OneKeyList
<1>3. SharesMadeAfterList'
  <2>1. ASSUME NEW i \in Trustee, NEW s \in Share, MadeByKey(i, s)
        PROVE  MadeByKey(i, s)'
    BY <2>1, <1>0, MadeByKeyKept
  <2>2. ASSUME NEW s \in Share, s.poly = private_key[t]
        PROVE  MadeByKey(t, s)'
    <3>1. /\ private_key'[t] = private_key[t]
          /\ private_key[t] \in Nat
      BY DEF TypeOK, TrusteesTypeOK, KeyOrNone, Key, NoKey
    <3>2. trustee_public_keys'[t] \in all_keys_msgs'
      BY <1>0
    <3> QED
      BY ONLY <2>2, <3>1, <3>2 DEF MadeByKey
  <2>3. ASSUME NEW m, m = SharesGeneratedMessage(t, keys)
        PROVE  m.from = t /\ \A j \in Trustee : m.shares[j].poly = private_key[t]
    BY <2>3 DEF SharesGeneratedMessage, ShareOf
  <2>4. ASSUME NEW m \in shares_msgs', NEW j \in Trustee
        PROVE  MadeByKey(m.from, m.shares[j])'
    <3>1. m.from \in Trustee /\ m.shares[j] \in Share
      BY DEF TypeOK, Row
    <3>2. CASE m \in shares_msgs
      BY <2>1, <3>1, <3>2 DEF SharesMadeAfterList
    <3>3. CASE m = SharesGeneratedMessage(t, keys)
      BY <2>2, <2>3, <3>1, <3>3
    <3> QED
      BY <3>2, <3>3
  <2>5. /\ \A i, j \in Trustee : MadeByKey(i, shares[i][j])'
        /\ \A all \in all_shares_msgs' : \A i, j \in Trustee : MadeByKey(i, all[i][j])'
    BY <2>1 DEF SharesMadeAfterList, TypeOK, CoordinatorTypeOK, Row
  <2> QED
    BY <2>4, <2>5 DEF SharesMadeAfterList
<1>4. VerifiedHoldsList'
  <2>1. t \in verified_msgs => keys = trustee_public_keys[t]
    BY DEF VerifiedHoldsList, HoldsList, OneKeyList
  <2>2. HoldsList(t)'
    <3>1. CASE t \in verified_msgs
      <4>1. UNCHANGED trustee_public_keys
        BY <2>1, <3>1, <1>0 DEF TypeOK, TrusteesTypeOK
      <4> QED
        BY <4>1, HoldsListKept DEF VerifiedHoldsList
    <3>2. CASE t \notin verified_msgs
      BY <3>2 DEF VerifiedHoldsList, HoldsList
    <3> QED
      BY <3>1, <3>2
  <2>3. ASSUME NEW u \in Trustee \ {t} PROVE HoldsList(u)'
    BY <1>0, HoldsListKept DEF VerifiedHoldsList
  <2> QED
    BY <2>2, <2>3 DEF VerifiedHoldsList
<1> QED
  BY <1>1, <1>2, <1>3, <1>4

\* A share that verify_shares lets through is the share the list asks for.
LEMMA ValidShareIsMade ==
  ASSUME NEW s \in Share, NEW k, NEW r, ValidShare(s, k, r)
  PROVE  s = ShareOf(k, r) /\ k # NoKey
BY DEF ValidShare, Share, ShareOf

LEMMA VerifySharesInv ==
  ASSUME CeremonyInv, TypeOK', NEW t \in Trustee, TrusteeVerifyShares(t)
  PROVE  CeremonyInv'
<1> USE DEF CeremonyInv
<1> PICK all \in all_shares_msgs :
          /\ VerifyShares(t, all)
          /\ verified_msgs' = verified_msgs \union {t}
          /\ UNCHANGED <<coordinatorVars, phase, key_msgs, all_keys_msgs,
                         shares_msgs, all_shares_msgs, joint_key, exported>>
  BY DEF TrusteeVerifyShares
<1> USE DEF VerifyShares, coordinatorVars
<1>0. \A i \in Trustee : all[i][t] \in Share
  BY DEF TypeOK, Row
<1>1. OwnKeyHeld' /\ OneKeyList'
  BY DEF OwnKeyHeld, OneKeyList
<1>2. SharesMadeAfterList'
  BY DEF SharesMadeAfterList, MadeByKey
<1>3. /\ my_key_shares'[t] = [i \in Trustee |-> all[i][t]]
      /\ \A i \in Trustee \ {t} : my_key_shares'[i] = my_key_shares[i]
  BY DEF TypeOK, TrusteesTypeOK
<1>4. \A i \in Trustee :
        all[i][t] = ShareOf(trustee_public_keys[t][i], private_key[t])
  BY <1>0, ValidShareIsMade DEF SharesMatch
<1>5. trustee_public_keys[t] \in all_keys_msgs
  <2>1. MadeByKey(t, all[t][t])
    BY DEF SharesMadeAfterList
  <2>2. all[t][t].poly = private_key[t] /\ all[t][t].poly # NoKey
    BY DEF SharesMatch, ValidShare, OwnKeyHeld
  <2> QED
    BY <2>1, <2>2 DEF MadeByKey
<1>6. ExportedState(t)' = BackingState(t, trustee_public_keys[t])'
  BY <1>3, <1>4 DEF ExportedState, BackingState, OwnKeyHeld
<1>7. HoldsList(t)'
  <2>1. t \in verified_msgs' /\ trustee_public_keys'[t] \in all_keys_msgs'
    BY <1>5
  <2>2. exported'[t] \in {NoState, ExportedState(t)'}
    <3>1. CASE t \in verified_msgs
      <4>1. /\ ExportedState(t) = BackingState(t, trustee_public_keys[t])
            /\ exported[t] \in {NoState, ExportedState(t)}
        BY <3>1 DEF VerifiedHoldsList, HoldsList
      <4>2. BackingState(t, trustee_public_keys[t])' = BackingState(t, trustee_public_keys[t])
        BY DEF BackingState
      <4> QED
        BY <4>1, <4>2, <1>6
    <3>2. CASE t \notin verified_msgs
      BY <3>2 DEF VerifiedHoldsList, HoldsList
    <3> QED
      BY <3>1, <3>2
  <2> QED
    BY <2>1, <2>2, <1>6 DEF HoldsList
<1>8. VerifiedHoldsList'
  <2>1. ASSUME NEW u \in Trustee \ {t} PROVE HoldsList(u)'
    BY <1>3, HoldsListKept DEF VerifiedHoldsList
  <2> QED
    BY <1>7, <2>1 DEF VerifiedHoldsList
<1> QED
  BY <1>1, <1>2, <1>8

LEMMA ExportStateInv ==
  ASSUME CeremonyInv, TypeOK', NEW t \in Trustee, TrusteeExportState(t)
  PROVE  CeremonyInv'
<1> USE DEF CeremonyInv, TrusteeExportState, coordinatorVars, trusteeVars
<1>1. OwnKeyHeld' /\ OneKeyList' /\ SharesMadeAfterList'
  BY DEF OwnKeyHeld, OneKeyList, SharesMadeAfterList, MadeByKey
<1>2. t \in verified_msgs
  <2>1. my_key_shares[t] # [i \in Trustee |-> NoShare]
    BY DEF CanExport, SharesWritable
  <2> QED
    BY <2>1 DEF VerifiedHoldsList, HoldsList
<1>3. HoldsList(t)'
  <2>1. exported'[t] = ExportedState(t)
    BY DEF TypeOK
  <2> QED
    BY <1>2, <2>1 DEF VerifiedHoldsList, HoldsList, ExportedState, BackingState
<1>4. ASSUME NEW u \in Trustee \ {t} PROVE HoldsList(u)'
  <2>1. exported'[u] = exported[u]
    BY DEF TypeOK
  <2> QED
    BY <2>1, HoldsListKept DEF VerifiedHoldsList
<1> QED
  BY <1>1, <1>3, <1>4 DEF VerifiedHoldsList

\* What the coordinator does leaves the trustees alone: the shares it stores and
\* the key list are all that CeremonyInv has to follow.
LEMMA CoordinatorFrame ==
  ASSUME CeremonyInv, TypeOK',
         UNCHANGED <<trusteeVars, verified_msgs, exported, shares_msgs>>,
         all_keys_msgs \subseteq all_keys_msgs',
         OneKeyList',
         \A i, j \in Trustee : MadeByKey(i, shares'[i][j]),
         all_shares_msgs' \subseteq all_shares_msgs \union {shares}
  PROVE  CeremonyInv'
<1> USE DEF CeremonyInv, trusteeVars
<1>1. OwnKeyHeld'
  BY DEF OwnKeyHeld
<1>2. ASSUME NEW i \in Trustee, NEW s, MadeByKey(i, s)
      PROVE  MadeByKey(i, s)'
  BY <1>2 DEF MadeByKey
<1>3. SharesMadeAfterList'
  <2>1. \A m \in shares_msgs' : \A j \in Trustee : MadeByKey(m.from, m.shares[j])'
    BY <1>2 DEF SharesMadeAfterList, TypeOK
  <2>2. \A i, j \in Trustee : MadeByKey(i, shares[i][j])'
    BY <1>2
  <2>3. \A all \in all_shares_msgs' : \A i, j \in Trustee : MadeByKey(i, all[i][j])'
    BY <1>2 DEF SharesMadeAfterList
  <2> QED
    BY <2>1, <2>2, <2>3 DEF SharesMadeAfterList
<1>4. VerifiedHoldsList'
  BY HoldsListKept DEF VerifiedHoldsList
<1> QED
  BY <1>1, <1>3, <1>4

LEMMA CoordinatorStepInv ==
  ASSUME CeremonyInv, TypeOK', CoordinatorStep
  PROVE  CeremonyInv'
<1> USE DEF CeremonyInv
<1>0. \A i, j \in Trustee : MadeByKey(i, shares[i][j])
  BY DEF SharesMadeAfterList
<1>1. CASE CoordinatorReceiveKeyGenerated
  BY <1>1, <1>0, CoordinatorFrame
     DEF CoordinatorReceiveKeyGenerated, ReceiveKeyGenerated, clientVars, OneKeyList
<1>2. CASE CoordinatorAllKeysReceived
  <2>1. OneKeyList'
    BY <1>2 DEF CoordinatorAllKeysReceived, OneKeyList
  <2> QED
    BY <1>2, <1>0, <2>1, CoordinatorFrame
       DEF CoordinatorAllKeysReceived, AllKeysReceived
<1>3. CASE CoordinatorReceiveSharesGenerated
  <2>1. PICK m \in shares_msgs :
          ReceiveSharesGenerated(m) /\ UNCHANGED <<trusteeVars, clientVars>>
    BY <1>3 DEF CoordinatorReceiveSharesGenerated
  <2>2. shares' = [shares EXCEPT ![m.from] = m.shares]
    BY <2>1 DEF ReceiveSharesGenerated, StoreShares
  <2>3. \A i, j \in Trustee : MadeByKey(i, shares'[i][j])
    BY <1>0, <2>2 DEF SharesMadeAfterList, TypeOK, CoordinatorTypeOK
  <2> QED
    BY <2>1, <2>3, CoordinatorFrame DEF OneKeyList, clientVars
<1>4. CASE CoordinatorReceiveSharesNoMemory
  <2>1. PICK m \in shares_msgs, k \in Trustee, rest \in {NoShare, GarbageShare} :
          ReceiveSharesGeneratedNoMemory(m, k, rest) /\ UNCHANGED <<trusteeVars, clientVars>>
    BY <1>4 DEF CoordinatorReceiveSharesNoMemory
  <2> DEFINE row == [j \in Trustee |-> IF j < k THEN m.shares[j] ELSE rest]
  <2>2. shares' = [shares EXCEPT ![m.from] = row]
    BY <2>1 DEF ReceiveSharesGeneratedNoMemory, StoreShares
  <2>3. ASSUME NEW i \in Trustee PROVE MadeByKey(i, rest)
    <3>1. rest.poly = NoKey
      BY DEF NoShare, GarbageShare
    <3>2. private_key[i] \in KeyOrNone
      BY DEF TypeOK, TrusteesTypeOK
    <3>3. NoKey <= private_key[i]
      BY <3>2, KeyCeremonyAssumption DEF KeyOrNone, Key, NoKey
    <3> QED
      BY <3>1, <3>3 DEF MadeByKey
  <2>4. \A j \in Trustee : MadeByKey(m.from, row[j])
    BY <2>3 DEF SharesMadeAfterList, TypeOK
  <2> HIDE DEF row
  <2>5. \A i, j \in Trustee : MadeByKey(i, shares'[i][j])
    BY <1>0, <2>2, <2>4 DEF TypeOK, CoordinatorTypeOK
  <2> QED
    BY <2>1, <2>5, CoordinatorFrame DEF OneKeyList, clientVars, ReceiveSharesGeneratedNoMemory
<1>5. CASE CoordinatorAllSharesReceived
  BY <1>5, <1>0, CoordinatorFrame
     DEF CoordinatorAllSharesReceived, AllSharesReceived, OneKeyList
<1>6. CASE CoordinatorAllSharesUnwritable
  BY <1>6, <1>0, CoordinatorFrame
     DEF CoordinatorAllSharesUnwritable, AllSharesReceived, OneKeyList, clientVars
<1>7. CASE CoordinatorReceiveSharesVerified
  BY <1>7, <1>0, CoordinatorFrame
     DEF CoordinatorReceiveSharesVerified, ReceiveSharesVerified, OneKeyList, clientVars
<1>8. CASE CoordinatorPublishJointKey
  BY <1>8, <1>0, CoordinatorFrame
     DEF CoordinatorPublishJointKey, PublishJointKey, OneKeyList, coordinatorVars
<1> QED
  BY <1>1, <1>2, <1>3, <1>4, <1>5, <1>6, <1>7, <1>8 DEF CoordinatorStep

LEMMA NextCeremonyInv == CeremonyInv /\ [Next]_vars => CeremonyInv'
<1> SUFFICES ASSUME CeremonyInv, [Next]_vars PROVE CeremonyInv'
  OBVIOUS
<1>0. TypeOK'
  BY NextTypeOK DEF CeremonyInv
<1>1. CASE CoordinatorStep
  BY <1>0, <1>1, CoordinatorStepInv
<1>2. ASSUME NEW t \in Trustee, TrusteeStep(t) PROVE CeremonyInv'
  BY <1>0, <1>2, GenerateKeyInv, GenerateSharesInv, VerifySharesInv, ExportStateInv
     DEF TrusteeStep
<1>3. CASE UNCHANGED vars
  <2> USE <1>3 DEF vars, coordinatorVars, trusteeVars, clientVars
  <2>1. OwnKeyHeld' /\ OneKeyList' /\ SharesMadeAfterList'
    BY DEF CeremonyInv, OwnKeyHeld, OneKeyList, SharesMadeAfterList, MadeByKey
  <2>2. VerifiedHoldsList'
    BY HoldsListKept DEF CeremonyInv, VerifiedHoldsList
  <2> QED
    BY <1>0, <2>1, <2>2 DEF CeremonyInv
<1> QED
  BY <1>1, <1>2, <1>3 DEF Next

\* The inductive invariant holds however messages are delivered, late ones and
\* reads that run out of memory included.
THEOREM CeremonyInvariant == Spec => []CeremonyInv
<1>1. Init => CeremonyInv
  BY InitCeremonyInv
<1>2. CeremonyInv /\ [Next]_vars => CeremonyInv'
  BY NextCeremonyInv
<1> QED
  BY <1>1, <1>2, PTL DEF Spec

------------------------------------------------------------------------------
(* What the invariant gives, however messages are delivered.               *)

LEMMA AcceptedIsVerified ==
  ASSUME CeremonyInv, NEW t \in Trustee, Accepted(t)
  PROVE  /\ trustee_public_keys[t] \in all_keys_msgs
         /\ trustee_public_keys[t] \in Keys
         /\ ExportedState(t) = BackingState(t, trustee_public_keys[t])
<1>1. my_key_shares[t] # [i \in Trustee |-> NoShare]
  BY ValueTypes DEF Accepted, SharesWritable
<1>2. HoldsList(t)
  BY DEF CeremonyInv, VerifiedHoldsList
<1> QED
  BY <1>1, <1>2 DEF HoldsList, CeremonyInv, TypeOK

LEMMA SharesOpen == CeremonyInv => AcceptedSharesOpen
<1> SUFFICES ASSUME CeremonyInv, NEW t \in Trustee, Accepted(t), NEW i \in Trustee
             PROVE  ValidShare(my_key_shares[t][i], trustee_public_keys[t][i], private_key[t])
  BY DEF AcceptedSharesOpen
<1> DEFINE keys == trustee_public_keys[t]
<1>1. private_key[t] = keys[t] /\ my_key_shares[t][i] = ShareOf(keys[i], keys[t])
  BY AcceptedIsVerified DEF ExportedState, BackingState
<1>2. keys[i] # NoKey
  BY AcceptedIsVerified, KeyCeremonyAssumption DEF Keys, Key, NoKey
<1> QED
  BY <1>1, <1>2 DEF ValidShare, ShareOf

LEMMA OneListEndorsed == CeremonyInv => TrusteesAgree
BY AcceptedIsVerified DEF TrusteesAgree, CeremonyInv, OneKeyList

\* trustee.c: my_key_shares, once stored by verify_shares, always open under the
\* trustee's RSA key to points of the polynomials behind the keys it holds, even
\* when messages of one phase arrive in another or are read without memory.
THEOREM AcceptedSharesAlwaysOpen == Spec => []AcceptedSharesOpen
BY CeremonyInvariant, SharesOpen, PTL

\* Any two trustees whose verify_shares succeeded did so for one list of keys.
THEOREM TrusteesAlwaysAgree == Spec => []TrusteesAgree
BY CeremonyInvariant, OneListEndorsed, PTL

------------------------------------------------------------------------------
(* What it gives a client that delivers each message in its own phase.     *)

SafeInv == CeremonyInv /\ InPhaseInv

\* A trustee's step leaves the coordinator alone; it may verify its shares once
\* the shares were broadcast.
LEMMA TrusteeStepInPhase ==
  ASSUME InPhaseInv, TypeOK',
         UNCHANGED <<coordinatorVars, phase, all_keys_msgs, all_shares_msgs, joint_key>>,
         verified_msgs \subseteq verified_msgs',
         verified_msgs' # verified_msgs => all_shares_msgs # {}
  PROVE  InPhaseInv'
BY DEF InPhaseInv, coordinatorVars, Published, TypeOK, NoJointKey

LEMMA CoordinatorStepInPhase ==
  ASSUME SafeInv, ~LateDelivery, CoordinatorStep
  PROVE  InPhaseInv'
<1> USE DEF SafeInv, InPhaseInv, Published, Deliverable, NoJointKey
<1>0. phase \in {"keys", "shares", "verify"} /\ verified_msgs \subseteq Trustee
  BY DEF CeremonyInv, TypeOK
<1>1. CASE CoordinatorReceiveKeyGenerated
  BY <1>1 DEF CoordinatorReceiveKeyGenerated, clientVars
<1>2. CASE CoordinatorAllKeysReceived
  BY <1>2 DEF CoordinatorAllKeysReceived, AllKeysReceived
<1>3. CASE CoordinatorReceiveSharesGenerated
  BY <1>3 DEF CoordinatorReceiveSharesGenerated, ReceiveSharesGenerated, clientVars
<1>4. CASE CoordinatorReceiveSharesNoMemory
  BY <1>4 DEF CoordinatorReceiveSharesNoMemory, ReceiveSharesGeneratedNoMemory, clientVars
<1>5. CASE CoordinatorAllSharesReceived
  BY <1>5 DEF CoordinatorAllSharesReceived, AllSharesReceived, ClearSeen, NoneSeen
<1>6. CASE CoordinatorAllSharesUnwritable
  BY <1>6 DEF CoordinatorAllSharesUnwritable, AllSharesReceived, clientVars
<1>7. CASE CoordinatorReceiveSharesVerified
  BY <1>7 DEF CoordinatorReceiveSharesVerified, ReceiveSharesVerified, clientVars,
              CeremonyInv, TypeOK, CoordinatorTypeOK
<1>8. CASE CoordinatorPublishJointKey
  <2>1. \A i \in Trustee : i \in verified_msgs
    BY <1>8 DEF CoordinatorPublishJointKey, PublishJointKey, AssertAllSeen
  <2> QED
    BY <1>0, <1>8, <2>1
       DEF CoordinatorPublishJointKey, PublishJointKey, JointKey, coordinatorVars
<1> QED
  BY <1>1, <1>2, <1>3, <1>4, <1>5, <1>6, <1>7, <1>8 DEF CoordinatorStep

LEMMA NextSafeInv == ~LateDelivery /\ SafeInv /\ [Next]_vars => SafeInv'
<1> SUFFICES ASSUME ~LateDelivery, SafeInv, [Next]_vars PROVE SafeInv'
  OBVIOUS
<1>1. CeremonyInv'
  BY NextCeremonyInv DEF SafeInv
<1>2. TypeOK' /\ InPhaseInv
  BY <1>1 DEF CeremonyInv, SafeInv
<1>3. CASE CoordinatorStep
  BY <1>1, <1>3, CoordinatorStepInPhase DEF SafeInv
<1>4. ASSUME NEW t \in Trustee, TrusteeStep(t) PROVE InPhaseInv'
  <2>1. CASE TrusteeGenerateKey(t)
    BY <1>2, <2>1, TrusteeStepInPhase DEF TrusteeGenerateKey
  <2>2. CASE TrusteeGenerateShares(t)
    BY <1>2, <2>2, TrusteeStepInPhase DEF TrusteeGenerateShares
  <2>3. CASE TrusteeVerifyShares(t)
    BY <1>2, <2>3, TrusteeStepInPhase DEF TrusteeVerifyShares
  <2>4. CASE TrusteeExportState(t)
    BY <1>2, <2>4, TrusteeStepInPhase DEF TrusteeExportState
  <2> QED
    BY <1>4, <2>1, <2>2, <2>3, <2>4 DEF TrusteeStep
<1>5. ASSUME UNCHANGED vars PROVE InPhaseInv'
  BY <1>2, <1>5, TrusteeStepInPhase DEF vars, clientVars
<1> QED
  BY <1>1, <1>3, <1>4, <1>5 DEF Next, SafeInv

LEMMA InitSafeInv == Init => SafeInv
BY InitCeremonyInv DEF SafeInv, InPhaseInv, Init, Published

\* The invariant of a client that hands every message over in its own phase.
THEOREM InPhaseInvariant == ~LateDelivery /\ Spec => []SafeInv
<1>1. Init => SafeInv
  BY InitSafeInv
<1>2. ~LateDelivery /\ SafeInv /\ [Next]_vars => SafeInv'
  BY NextSafeInv
<1>3. ASSUME ~LateDelivery PROVE SafeInv /\ [Next]_vars => SafeInv'
  BY <1>2, <1>3
<1>4. ASSUME ~LateDelivery PROVE Spec => []SafeInv
  BY <1>1, <1>3, <1>4, PTL DEF Spec
<1> QED
  BY <1>4

LEMMA PublishedIsVerified ==
  ASSUME SafeInv, Published, NEW t \in Trustee
  PROVE  /\ t \in verified_msgs
         /\ trustee_public_keys[t] = joint_key
         /\ ExportedState(t) = BackingState(t, joint_key)
         /\ exported[t] \in {NoState, ExportedState(t)}
<1>1. phase = "verify" /\ verified_msgs = Trustee /\ joint_key = public_keys
  BY DEF SafeInv, InPhaseInv
<1>2. joint_key \in all_keys_msgs
  BY <1>1 DEF SafeInv, InPhaseInv
<1>3. HoldsList(t)
  BY DEF SafeInv, CeremonyInv, VerifiedHoldsList
<1> QED
  BY <1>1, <1>2, <1>3 DEF HoldsList, SafeInv, CeremonyInv, OneKeyList

\* coordinator.c and trustee.c together: once publish_joint_key has succeeded,
\* every trustee can export the private key behind its factor of the joint key
\* and an openable share of every other factor.
THEOREM JointKeyAlwaysBacked == ~LateDelivery /\ Spec => []JointKeyBacked
<1>1. SafeInv => JointKeyBacked
  BY PublishedIsVerified DEF JointKeyBacked
<1> QED
  BY <1>1, InPhaseInvariant, PTL

\* The same of the trustee_state that was really exported, before or after the
\* joint key was published.
THEOREM ExportsAlwaysBackJointKey == ~LateDelivery /\ Spec => []ExportsBackJointKey
<1>1. SafeInv => ExportsBackJointKey
  BY PublishedIsVerified DEF ExportsBackJointKey
<1> QED
  BY <1>1, InPhaseInvariant, PTL

------------------------------------------------------------------------------
(* The ceremony implements KeyAgreement.                                   *)

\* Which trustees stand for a list is known from the messages made.
EndorsedInv ==
  \A t \in Trustee :
    /\ t \in verified_msgs => Endorsed(t) \in all_keys_msgs
    /\ t \notin verified_msgs => Endorsed(t) = NoJointKey

LEMMA EndorsedIsVerified == CeremonyInv => EndorsedInv
<1> SUFFICES ASSUME CeremonyInv, NEW t \in Trustee
             PROVE  /\ t \in verified_msgs => Endorsed(t) \in all_keys_msgs
                    /\ t \notin verified_msgs => Endorsed(t) = NoJointKey
  BY DEF EndorsedInv
<1>1. HoldsList(t)
  BY DEF CeremonyInv, VerifiedHoldsList
<1>2. ASSUME t \in verified_msgs PROVE Endorsed(t) \in all_keys_msgs
  <2> DEFINE keys == trustee_public_keys[t]
  <2>1. keys \in all_keys_msgs /\ my_key_shares[t] = [i \in Trustee |-> ShareOf(keys[i], keys[t])]
    BY <1>1, <1>2 DEF HoldsList, ExportedState, BackingState
  <2>2. \A i \in Trustee : ShareOf(keys[i], keys[t]) # NoShare
    BY <2>1, KeyCeremonyAssumption DEF CeremonyInv, TypeOK, Keys, Key, NoKey, ShareOf, NoShare
  <2> QED
    BY <2>1, <2>2 DEF Endorsed, Accepted, SharesWritable
<1>3. ASSUME t \notin verified_msgs PROVE Endorsed(t) = NoJointKey
  BY <1>1, <1>3, ValueTypes DEF HoldsList, Endorsed, Accepted, SharesWritable
<1> QED
  BY <1>2, <1>3

LEMMA EndorsedIsVerifiedNext == CeremonyInv' => EndorsedInv'
BY EndorsedIsVerified, PTL

LEMMA EndorsedKept ==
  ASSUME CeremonyInv, CeremonyInv', all_keys_msgs \subseteq all_keys_msgs',
         NEW t \in Trustee, t \in verified_msgs <=> t \in verified_msgs'
  PROVE  Endorsed(t)' = Endorsed(t)
<1>1. \A k, l \in all_keys_msgs' : k = l
  BY DEF CeremonyInv, OneKeyList
<1>2. EndorsedInv /\ EndorsedInv'
  BY EndorsedIsVerified, EndorsedIsVerifiedNext
<1> QED
  BY <1>1, <1>2 DEF EndorsedInv, NoJointKey

LEMMA QuietStepAgrees ==
  ASSUME CeremonyInv, CeremonyInv', all_keys_msgs \subseteq all_keys_msgs',
         UNCHANGED <<verified_msgs, joint_key>>
  PROVE  UNCHANGED Agreement!vars
<1>1. \A t \in Trustee : Endorsed(t)' = Endorsed(t)
  BY EndorsedKept
<1> QED
  BY <1>1 DEF Agreement!vars

LEMMA VerifyStepAgrees ==
  ASSUME SafeInv, SafeInv', NEW t \in Trustee, TrusteeVerifyShares(t)
  PROVE  [Agreement!Next]_(Agreement!vars)
<1> USE DEF SafeInv
<1>0. all_keys_msgs' = all_keys_msgs /\ joint_key' = joint_key
  BY DEF TrusteeVerifyShares
<1>1. CASE t \in verified_msgs
  BY <1>0, <1>1, QuietStepAgrees DEF TrusteeVerifyShares
<1>2. CASE t \notin verified_msgs
  <2>1. \A u \in Trustee \ {t} : Endorsed(u)' = Endorsed(u)
    BY <1>0, EndorsedKept DEF TrusteeVerifyShares
  <2>2. Endorsed(t) = NoJointKey
    BY <1>2, EndorsedIsVerified DEF EndorsedInv
  <2>3. Endorsed(t)' \in Keys
    <3>1. t \in verified_msgs' => Endorsed(t)' \in all_keys_msgs'
      BY EndorsedIsVerifiedNext DEF EndorsedInv
    <3> QED
      BY <3>1 DEF TrusteeVerifyShares, CeremonyInv, TypeOK
  <2>4. Agreement!Endorse(t, Endorsed(t)')
    BY <1>0, <2>1, <2>2, <2>3 DEF Agreement!Endorse
  <2> QED
    BY <2>3, <2>4 DEF Agreement!Next
<1> QED
  BY <1>1, <1>2

LEMMA PublishStepAgrees ==
  ASSUME SafeInv, SafeInv', CoordinatorPublishJointKey
  PROVE  [Agreement!Next]_(Agreement!vars)
<1> USE DEF SafeInv
<1>0. joint_key' = public_keys
  BY DEF CoordinatorPublishJointKey, JointKey
<1>1. CASE Published
  BY <1>0, <1>1, QuietStepAgrees DEF CoordinatorPublishJointKey, InPhaseInv
<1>2. CASE ~Published
  <2>1. public_keys \in Keys /\ Published'
    BY <1>0, ValueTypes
       DEF CoordinatorPublishJointKey, InPhaseInv, CeremonyInv, TypeOK, Published, NoJointKey
  <2>2. ASSUME NEW t \in Trustee PROVE Endorsed(t)' = public_keys
    <3>1. t \in verified_msgs' /\ public_keys \in all_keys_msgs'
      BY <1>0, <2>1 DEF CoordinatorPublishJointKey, InPhaseInv
    <3>2. t \in verified_msgs' => Endorsed(t)' \in all_keys_msgs'
      BY EndorsedIsVerifiedNext DEF EndorsedInv
    <3> QED
      BY <3>1, <3>2 DEF CeremonyInv, OneKeyList
  <2>3. \A t \in Trustee : Endorsed(t)' = Endorsed(t)
    BY EndorsedKept DEF CoordinatorPublishJointKey
  <2>4. Agreement!Agree(public_keys)
    BY <1>0, <1>2, <2>2, <2>3 DEF Agreement!Agree, Published
  <2> QED
    BY <2>1, <2>4 DEF Agreement!Next
<1> QED
  BY <1>1, <1>2

LEMMA StepAgrees ==
  SafeInv /\ SafeInv' /\ [Next]_vars => [Agreement!Next]_(Agreement!vars)
<1> SUFFICES ASSUME SafeInv, SafeInv', [Next]_vars
             PROVE  [Agreement!Next]_(Agreement!vars)
  OBVIOUS
<1> USE DEF SafeInv
<1>1. ASSUME all_keys_msgs \subseteq all_keys_msgs', UNCHANGED <<verified_msgs, joint_key>>
      PROVE  [Agreement!Next]_(Agreement!vars)
  BY <1>1, QuietStepAgrees
<1>2. CASE CoordinatorPublishJointKey
  BY <1>2, PublishStepAgrees
<1>3. CASE CoordinatorStep /\ ~CoordinatorPublishJointKey
  BY <1>1, <1>3
     DEF CoordinatorStep, CoordinatorReceiveKeyGenerated, CoordinatorAllKeysReceived,
         CoordinatorReceiveSharesGenerated, CoordinatorReceiveSharesNoMemory,
         CoordinatorAllSharesReceived, CoordinatorAllSharesUnwritable,
         CoordinatorReceiveSharesVerified, clientVars
<1>4. ASSUME NEW t \in Trustee, TrusteeStep(t) PROVE [Agreement!Next]_(Agreement!vars)
  <2>1. CASE TrusteeVerifyShares(t)
    BY <2>1, VerifyStepAgrees
  <2>2. CASE TrusteeGenerateKey(t) \/ TrusteeGenerateShares(t) \/ TrusteeExportState(t)
    BY <1>1, <2>2 DEF TrusteeGenerateKey, TrusteeGenerateShares, TrusteeExportState
  <2> QED
    BY <1>4, <2>1, <2>2 DEF TrusteeStep
<1>5. CASE UNCHANGED vars
  BY <1>1, <1>5 DEF vars, clientVars
<1> QED
  BY <1>2, <1>3, <1>4, <1>5 DEF Next

LEMMA InitAgrees == Init => Agreement!Init
<1> SUFFICES ASSUME Init PROVE Agreement!Init
  OBVIOUS
<1>1. \A t \in Trustee : Endorsed(t) = NoJointKey
  BY EndorsedIsVerified, InitCeremonyInv DEF EndorsedInv, Init
<1> QED
  BY <1>1 DEF Agreement!Init, Init

\* Coordinator, trustees and messages together implement the agreement: the
\* key list is endorsed trustee by trustee and agreed once all of them did.
THEOREM CeremonyImplementsAgreement == ~LateDelivery /\ Spec => ImplementsAgreement
<1>1. ASSUME ~LateDelivery PROVE Spec => Agreement!Spec
  <2>1. Spec => []SafeInv
    BY <1>1, InPhaseInvariant
  <2> QED
    BY <2>1, InitAgrees, StepAgrees, PTL DEF Spec, Agreement!Spec
<1> QED
  BY <1>1 DEF ImplementsAgreement

==============================================================================
