------------------------------- MODULE VotingMC -------------------------------
(* Instances of Voting for TLC.                                             *)
EXTENDS Voting, TLC

Permuted == Permutations(Ballots)

==============================================================================
