------------------------------- MODULE Election -------------------------------
(***************************************************************************)
(* The course of an election as the client of the API goes through it      *)
(* (examples/api/main.c): encrypt ballots into a file, load them, record   *)
(* which are cast, tally; with processes that end in between, possibly on  *)
(* other devices, and calls that fail and are tried again.  RecordBallots  *)
(* is one step here; module Voting has its parts.                          *)
(***************************************************************************)
EXTENDS BallotFiles, TallyVotes

VARIABLES
  record,     \* the exported voting record
  cast,       \* the identifiers recorded as cast in it, and where the ballots were from
  registered  \* registered_num_ballots of this process

electionVars == <<fileVars, tallyVars, record, cast, registered>>

NoRecord == [announced |-> 1, lines |-> <<>>]
NothingCast == [identifiers |-> {}, torn |-> FALSE]

ElectionInit ==
  FilesInit /\ TallyInit /\ record = NoRecord /\ cast = NothingCast /\ registered = 0

\* Ballots are encrypted before any is recorded.
FilesStep ==
  /\ result.status # "RUNS"
  /\ \/ record = NoRecord /\ (API_EncryptBallot \/ EncryptBallot_soft_delete_file)
     \/ registered = 0 /\ LoadBallots
  /\ UNCHANGED <<tallyVars, record, cast, registered>>

\* The ballots of a call: those in memory, as in main.c, or those loaded.
InMemory ==
  [i \in DOMAIN receipts |->
     [identifier |-> WholeIdentifier(encryptions[receipts[i].ballot]),
      selections |-> NumbersOf(receipts[i].ballot)]]
Imported ==
  [i \in DOMAIN loaded.ballots |->
     [identifier |-> loaded.ballots[i].identifier,
      selections |-> loaded.ballots[i].selections]]

Distinct(ballots) ==
  \A i, j \in DOMAIN ballots :
    ballots[i].identifier = ballots[j].identifier => i = j

\* One batch in the life of a process, each identifier once in it: a ballot whose
\* identifier is registered again is module Voting's matter.  The lines after
\* one that could not be written are missing and the call succeeds.  The client
\* frees what it loaded.
API_RecordBallots ==
  /\ result.status # "RUNS"
  /\ registered = 0
  /\ \E ballots \in {b \in {InMemory} \union (IF loaded.status = "SUCCESS" THEN {Imported} ELSE {})
                     : b # <<>> /\ Distinct(b)} :
     \E castIds \in SUBSET {x \in Identifier :
                             \E i \in DOMAIN ballots : ballots[i].identifier = WholeIdentifier(x)},
        written \in {Len(ballots)}
                    \union (IF faults < MaxFaults THEN 0 .. Len(ballots) - 1 ELSE {}) :
       /\ registered' = Len(ballots)
       /\ record' =
            [announced |-> Len(ballots),
             lines |-> [i \in 1 .. written |->
                          [cast |-> \E x \in castIds :
                                      ballots[i].identifier = WholeIdentifier(x),
                           ballot |-> ballots[i].selections]]]
       /\ cast' = [identifiers |-> castIds,
                   torn |-> \E i \in DOMAIN ballots, j \in 1 .. 2 * NumSelections :
                              ~ballots[i].selections[j].whole]
       /\ faults' = IF written = Len(ballots) THEN faults ELSE faults + 1
  /\ result' = NoResult
  /\ loaded' = NotLoaded
  /\ UNCHANGED <<file, count, encryptions, receipts, since, decryption_trustees, prefixOnly>>

Tally ==
  /\ record # NoRecord
  /\ API_TallyVotes(record)
  /\ UNCHANGED <<fileVars, record, cast, registered>>

TallyFails ==
  /\ faults < MaxFaults
  /\ faults' = faults + 1
  /\ record # NoRecord
  /\ API_TallyVotes_not_initialized \/ API_TallyVotes_not_read(record)
  /\ UNCHANGED <<file, count, encryptions, receipts, loaded, since, record, cast, registered>>

Restart ==
  /\ FilesRestart
  /\ TallyRestart
  /\ registered' = 0
  /\ UNCHANGED <<record, cast>>

ElectionNext == FilesStep \/ API_RecordBallots \/ Tally \/ TallyFails \/ Restart
ElectionSpec == ElectionInit /\ [][ElectionNext]_electionVars

(* Properties **************************************************************)
\* examples/api/main.c:347 compares the result with the ballots it cast.  If API_TallyVotes
\* returns true, what it wrote counts for every identifier recorded as cast one
\* ballot encrypted for it, once, and nothing else: whatever was lost of the
\* files, whichever trustees an earlier call left behind, and whether the ballots
\* came from memory or from the file, unless a line was torn in its last word.
ResultIsOfTheCastBallots ==
  result.status = "TRUE" /\ ~cast.torn =>
    \E of \in [cast.identifiers -> DOMAIN encryptions] :
      /\ \A x \in cast.identifiers : encryptions[of[x]] = x
      /\ result.tally = SetToBag({NumbersOf(of[x]) : x \in cast.identifiers})

==============================================================================
