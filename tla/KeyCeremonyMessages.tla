------------------------- MODULE KeyCeremonyMessages -------------------------
(***************************************************************************)
(* The values the key ceremony of ElectionGuard passes around              *)
(* (src/electionguard/keyceremony and src/electionguard/crypto.c), with    *)
(* the cryptography abstracted to what the ceremony tells apart.           *)
(*                                                                         *)
(* One call of KeyCeremony_Trustee_generate_key draws a new polynomial     *)
(* AND a new RSA pair, so the call's number is the version of both: a      *)
(* public key of trustee i is the number of the call that made it, NoKey   *)
(* is the zero value that *_new leaves behind.  A key share is the point   *)
(* of its maker's polynomial for its reader, encrypted to the reader: the  *)
(* pair of the version of the polynomial and the version of the RSA key.   *)
(***************************************************************************)
EXTENDS Integers

CONSTANTS
  NumTrustees,   \* num_trustees of the coordinator and of every trustee
  MaxKeys        \* bound: how often one trustee may call generate_key

ASSUME KeyCeremonyAssumption ==
  /\ NumTrustees \in Nat \ {0}
  /\ MaxKeys \in Nat \ {0}

\* Trustees are known by their index, as in the code.
Trustee == 0 .. NumTrustees - 1

NoKey == 0
Key == 1 .. MaxKeys
KeyOrNone == Key \union {NoKey}

Share == [poly : KeyOrNone, rsa : KeyOrNone]

\* mpz_init: the value of a share nobody has stored.
NoShare == [poly |-> NoKey, rsa |-> NoKey]

\* A share read after an allocation failed: bytes that decrypt to nothing.
GarbageShare == [poly |-> NoKey, rsa |-> 1]

\* The share made with polynomial version p, encrypted to RSA version r.
ShareOf(p, r) == [poly |-> p, rsa |-> r]

\* export_to_64_t fails on a zero number, so a message that holds a key or a
\* share that was never stored cannot be written: SERIALIZE_ERROR.
KeysWritable(keys) == \A i \in DOMAIN keys : keys[i] # NoKey
SharesWritable(row) == \A i \in DOMAIN row : row[i] # NoShare

\* The share decrypts under the reader's RSA version r to a point of the
\* polynomial that public key k commits to.
ValidShare(s, k, r) == s.poly # NoKey /\ s.poly = k /\ s.rsa = r

==============================================================================
