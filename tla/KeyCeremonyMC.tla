---------------------------- MODULE KeyCeremonyMC ----------------------------
(* Instances of KeyCeremony for TLC: the .cfg files give the constants.     *)
EXTENDS KeyCeremony

==============================================================================
