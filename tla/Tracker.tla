------------------------------- MODULE Tracker -------------------------------
(***************************************************************************)
(* src/electionguard/voting/tracker.c: how a ballot's tracker, a hash, is  *)
(* shown to the voter, four bytes at a time as a noun and five digits.     *)
(* Half a byte has HalfByte values (16 in the code, which also has 4096    *)
(* different nouns, none with a space in it); a noun is its index here.    *)
(* The state is the tracker of the ballot registered last.                 *)
(***************************************************************************)
EXTENDS Integers, SequencesExt

CONSTANTS
  HalfByte,  \* the values of half a byte
  Hashes     \* the hashes of the ballots

Byte == 0 .. HalfByte * HalfByte - 1

ASSUME TrackerAssumption == HalfByte \in 2 .. 16 /\ Hashes \subseteq Seq(Byte)

VARIABLE tracker

upper(b) == b \div HalfByte
lower(b) == b % HalfByte

chars == <<"2", "3", "4", "6", "7", "8", "9", "B", "C", "D", "F", "G", "H", "J", "K", "M">>

\* A bug: the same half of the second byte names the noun and is shown.
display_noun_lower(a, b) == a * HalfByte + lower(b)
display_noun(a, b) == a * HalfByte + upper(b)

\* The noun, a space, five digits and a space.
display_chunk(c) ==
  <<display_noun(c[1], c[2]), " ",
    chars[lower(c[2]) + 1],
    chars[upper(c[3]) + 1], chars[lower(c[3]) + 1],
    chars[upper(c[4]) + 1], chars[lower(c[4]) + 1], " ">>

\* The bytes from i on; those that are missing from the last four are 0.
Chunk(bytes, i) == [k \in 1 .. 4 |-> IF i + k - 1 <= Len(bytes) THEN bytes[i + k - 1] ELSE 0]
Chunks(bytes) == [n \in 1 .. (Len(bytes) + 3) \div 4 |-> Chunk(bytes, 4 * n - 3)]

\* The final space makes room for the end of the string.
display_ballot_tracker(bytes) ==
  Front(FlattenSeq([n \in DOMAIN Chunks(bytes) |-> display_chunk(Chunks(bytes)[n])]))

TrackerInit == tracker = <<>>

\* Voting_Coordinator_register_ballot hashes the message of the ballot anew and
\* displays what comes out.
ReconstructTracker == tracker' \in Hashes

TrackerSpec == TrackerInit /\ [][ReconstructTracker]_tracker

(* Properties **************************************************************)
\* tracker.c:42.  What a voter is shown tells the ballot: no other hash of the same
\* length looks like it, although half of every second byte goes into the noun and
\* the last group may have fewer than four bytes.
TrackersLookDifferent ==
  \A other \in [DOMAIN tracker -> Byte] :
    display_ballot_tracker(other) = display_ballot_tracker(tracker) => other = tracker

==============================================================================
