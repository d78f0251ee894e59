------------------------- MODULE KeyCeremonyTrustees -------------------------
(***************************************************************************)
(* struct KeyCeremony_Trustee_s and its operations                         *)
(* (src/electionguard/keyceremony/trustee.c), for all the trustees of one  *)
(* ceremony: every variable is a function of the trustee's index.          *)
(***************************************************************************)
EXTENDS KeyCeremonyMessages

VARIABLES
  private_key,          \* version of private_key, rsa_private_key, rsa_public_key
  trustee_public_keys,  \* [t][i]: t's copy of the keys of trustee i
  my_key_shares         \* [t][i]: the share of trustee i that t has accepted

trusteeVars == <<private_key, trustee_public_keys, my_key_shares>>

TrusteesTypeOK ==
  /\ private_key \in [Trustee -> KeyOrNone]
  /\ trustee_public_keys \in [Trustee -> [Trustee -> KeyOrNone]]
  /\ my_key_shares \in [Trustee -> [Trustee -> Share]]

TrusteesInit ==
  /\ private_key = [t \in Trustee |-> NoKey]
  /\ trustee_public_keys = [t \in Trustee |-> [i \in Trustee |-> NoKey]]
  /\ my_key_shares = [t \in Trustee |-> [i \in Trustee |-> NoShare]]

\* A second call replaces the polynomial and the RSA pair of the first.
GenerateKey(t) ==
  /\ private_key[t] < MaxKeys
  /\ private_key' = [private_key EXCEPT ![t] = @ + 1]
  /\ trustee_public_keys' = [trustee_public_keys EXCEPT ![t][t] = private_key[t] + 1]
  /\ UNCHANGED my_key_shares

\* A bug KeyGeneratedMessage could have: it is built before the key is copied.
KeyGeneratedMessageEarly(t) == [from |-> t, key |-> private_key[t]]
KeyGeneratedMessage(t) == [from |-> t, key |-> private_key[t] + 1]

OwnKeyPresent(t, keys) == keys[t] = trustee_public_keys[t][t]

GenerateShares(t, keys) ==
  /\ OwnKeyPresent(t, keys)
  /\ trustee_public_keys' = [trustee_public_keys EXCEPT ![t] = keys]
  /\ UNCHANGED <<private_key, my_key_shares>>

SharesGeneratedMessage(t, keys) ==
  [from |-> t, shares |-> [i \in Trustee |-> ShareOf(private_key[t], keys[i])]]

\* A bug SharesMatch could have: the result of the check is ignored.
SharesMatchAssumed(t, all) == TRUE
SharesMatch(t, all) ==
  \A i \in Trustee : ValidShare(all[i][t], trustee_public_keys[t][i], private_key[t])

VerifyShares(t, all) ==
  /\ SharesMatch(t, all)
  /\ my_key_shares' = [my_key_shares EXCEPT ![t] = [i \in Trustee |-> all[i][t]]]
  /\ UNCHANGED <<private_key, trustee_public_keys>>

\* Nothing records that the shares were verified; only a share that was never
\* stored stops the export, because it cannot be written.
\* A bug CanExport could have: a share that was never stored is written as zero.
CanExportUnverified(t) == private_key[t] # NoKey
CanExport(t) == private_key[t] # NoKey /\ SharesWritable(my_key_shares[t])

ExportedState(t) == [private_key |-> private_key[t], shares |-> my_key_shares[t]]

==============================================================================
