----------------------------- MODULE DecryptionMC -----------------------------
(* Instances of Decryption for TLC.                                         *)
EXTENDS Decryption

\* Two cast ballots and a spoiled one between them.
SmallRecord == <<TRUE, FALSE, TRUE>>

OneBallot == <<TRUE>>

==============================================================================
