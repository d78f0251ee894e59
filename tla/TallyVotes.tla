------------------------------ MODULE TallyVotes ------------------------------
(***************************************************************************)
(* API_TallyVotes of src/electionguard/api/tally_votes.c, a whole call at  *)
(* a time, and the static array of trustees that outlives it.  What a call *)
(* does inside is in module Decryption; here it is what calls leave to the *)
(* calls after them.  A record is [announced, lines]; a line says whether  *)
(* the ballot was cast and holds its encryptions; a tally is the bag of    *)
(* the ballots multiplied into it.                                         *)
(***************************************************************************)
EXTENDS Integers, Sequences, FiniteSets, Bags

CONSTANTS
  NumTrustees, Threshold,  \* api_config.num_trustees, api_config.threshold
  MaxTally                 \* bound: how often a tally that is left counts a ballot

ASSUME TallyVotesAssumption ==
  NumTrustees \in Nat \ {0} /\ Threshold \in 1 .. NumTrustees /\ MaxTally \in Nat \ {0}

VARIABLES
  decryption_trustees,  \* by index: whether there is a trustee, and its tally
  result,               \* the last call: what it returned and the tally it wrote
  prefixOnly            \* all calls of this process were for the first trustees (history)

tallyVars == <<decryption_trustees, result, prefixOnly>>

Trustee == 0 .. NumTrustees - 1
Absent == [present |-> FALSE, tally |-> EmptyBag]
Fresh == [present |-> TRUE, tally |-> EmptyBag]
NoResult == [status |-> "NONE", tally |-> EmptyBag, proper |-> FALSE]

TallyInit ==
  /\ decryption_trustees = [t \in Trustee |-> Absent]
  /\ result = NoResult
  /\ prefixOnly = TRUE

\* The cast ballots among the first n lines.
Votes(record, n) ==
  LET cast == {i \in 1 .. n : record.lines[i].cast}
      ballots == {record.lines[i].ballot : i \in cast}
  IN  [b \in ballots |-> Cardinality({i \in cast : record.lines[i].ballot = b})]

\* A bug: what there is of the record is read, whatever its header says.
Readable_any(record) == TRUE
Readable(record) == record.announced <= Len(record.lines)
LinesRead(record) ==
  IF record.announced <= Len(record.lines) THEN record.announced ELSE Len(record.lines)

\* initialize_trustees: each trustee is stored at its own index.
Stored(made) == [t \in Trustee |-> IF t \in made THEN Fresh ELSE decryption_trustees[t]]

\* tally_ballots: every trustee in the array reads the record.
Tallied(trustees, bag) ==
  [t \in DOMAIN trustees |->
     IF trustees[t].present THEN [present |-> TRUE, tally |-> trustees[t].tally (+) bag]
                            ELSE trustees[t]]

\* The clean-up goes over the first indices, as many as there are states.
\* A bug: it goes over one index less.
Cleaned_short(trustees, num_decrypting_trustees) ==
  [t \in Trustee |-> IF t < num_decrypting_trustees - 1 THEN Absent ELSE trustees[t]]
Cleaned(trustees, num_decrypting_trustees) ==
  [t \in Trustee |-> IF t < num_decrypting_trustees THEN Absent ELSE trustees[t]]

Present(trustees) == {t \in Trustee : trustees[t].present}

\* decrypt_tally_shares: every share can be written and all are of one tally.
OneTally(trustees) ==
  /\ \A t \in Present(trustees) : trustees[t].tally # EmptyBag
  /\ \A t, u \in Present(trustees) : trustees[t].tally = trustees[u].tally

FirstTally(trustees) ==
  trustees[CHOOSE t \in Present(trustees) : \A u \in Present(trustees) : t <= u].tally

\* The trustees whose states are given; fewer than the threshold are refused.
Given == {D \in SUBSET Trustee : Cardinality(D) >= Threshold}
First(num) == 0 .. num - 1

Called(given) ==
  /\ result.status # "RUNS"
  /\ \A t \in Trustee \ given : \A b \in BagToSet(decryption_trustees[t].tally) :
       decryption_trustees[t].tally[b] < MaxTally
  /\ prefixOnly' = (prefixOnly /\ given = First(Cardinality(given)))

\* A call in which nothing fails that the record and the trustees do not make
\* fail.  With fragments weighted for others than were asked, the search for the
\* logarithm does not end.
API_TallyVotes(record) ==
  \E given \in Given :
    LET num == Cardinality(given)
        made == Stored(given)
        read == Tallied(made, Votes(record, LinesRead(record)))
        \* The first trustee finds that the record is too short.
        first == CHOOSE t \in Present(made) : \A u \in Present(made) : t <= u
        partly == [made EXCEPT ![first] = read[first]]
        ok == Readable(record) /\ OneTally(read)
        opens == Cardinality(Present(read)) \in {Threshold, NumTrustees}
        proper == /\ prefixOnly' /\ num \in {Threshold, NumTrustees}
                  /\ record.announced <= Len(record.lines)
                  /\ \E i \in 1 .. record.announced : record.lines[i].cast
    IN  /\ Called(given)
        /\ result' = [status |-> IF ~ok THEN "FALSE" ELSE IF opens THEN "TRUE" ELSE "RUNS",
                      tally |-> IF ok /\ opens THEN FirstTally(read) ELSE EmptyBag,
                      proper |-> proper]
        /\ decryption_trustees' =
             CASE ok /\ ~opens -> read
               [] ~Readable(record) -> Cleaned(partly, num)
               [] OTHER -> Cleaned(read, num)

\* A state is not valid: the trustees before it are stored.
API_TallyVotes_not_initialized ==
  \E given \in Given :
    /\ Called(given)
    /\ \E made \in SUBSET given \ {given} :
         decryption_trustees' = Cleaned(Stored(made), Cardinality(given))
    /\ result' = [NoResult EXCEPT !.status = "FALSE"]

\* Reading fails at one of the trustees, after some lines.
API_TallyVotes_not_read(record) ==
  \E given \in Given :
    /\ Called(given)
    /\ Readable(record)
    /\ LET made == Stored(given)
           all == Tallied(made, Votes(record, LinesRead(record)))
       IN  \E n \in 0 .. LinesRead(record) - 1 :
             LET part == Tallied(made, Votes(record, n)) IN
             \E failing \in Present(made) :
               decryption_trustees' =
                 Cleaned([t \in Trustee |-> IF t < failing THEN all[t]
                                            ELSE IF t = failing THEN part[t] ELSE made[t]],
                         Cardinality(given))
    /\ result' = [NoResult EXCEPT !.status = "FALSE"]

TallyRestart ==
  /\ decryption_trustees' = [t \in Trustee |-> Absent]
  /\ result' = NoResult
  /\ prefixOnly' = TRUE

(* Properties **************************************************************)
\* tally_votes.c:23, 86: trustees are left in the static array, some with votes
\* in their tally.  As long as a process only ever tallied with the first
\* trustees, the threshold of them or all, whatever failed before, a record with
\* a cast ballot that can be read is tallied.
FirstTrusteesAlwaysTally == result.proper => result.status = "TRUE"

==============================================================================
