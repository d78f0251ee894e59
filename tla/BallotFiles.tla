----------------------------- MODULE BallotFiles -----------------------------
(***************************************************************************)
(* The file of encrypted ballots that API_EncryptBallot appends to, line   *)
(* by line, and API_LoadBallots reads: an identifier, a tab, and for each  *)
(* selection two numbers and a closing parenthesis.  The other characters  *)
(* are literals of scanf formats whose absence the reader does not notice. *)
(* An identifier, and its beginning, is taken not to begin with a hex      *)
(* digit and to fit its buffer.                                            *)
(***************************************************************************)
EXTENDS Integers, Sequences

CONSTANTS
  NumSelections,  \* num_selections
  MaxBallots,     \* bound: encryptions altogether
  MaxFaults       \* bound: calls whose input or output fails

ASSUME BallotFilesAssumption ==
  /\ NumSelections \in Nat \ {0}
  /\ MaxBallots \in Nat \ {0} /\ MaxFaults \in Nat

VARIABLES
  file,         \* what the file holds
  count,        \* _encrypted_ballot_count of this process
  encryptions,  \* the identifiers of all ballots ever encrypted (history)
  receipts,     \* the ballots reported as exported to this file: ballot and id
  loaded,       \* what the last call of API_LoadBallots gave back
  since,        \* what happened since the file was begun (history)
  faults        \* how many calls failed

fileVars == <<file, count, encryptions, receipts, loaded, since, faults>>

Identifier == 1 .. MaxBallots
NotLoaded == [status |-> "NONE", ballots |-> <<>>, receipts |-> 0]
Begun(n) == [count |-> n, fault |-> FALSE, restarted |-> FALSE]

(* The text ****************************************************************)
\* whole is FALSE for an identifier of which only the beginning was written, and
\* for a number that lacks digits of its last word.
Token(kind, of, at) == [kind |-> kind, of |-> of, at |-> at, whole |-> TRUE]
Torn(token) == [token EXCEPT !.whole = FALSE]
NumbersOf(k) == [j \in 1 .. 2 * NumSelections |-> Token("number", k, j)]

\* The line of encryption k, whose identifier is x.
Line(k, x) ==
  <<Token("identifier", x, 0), Token("tab", 0, 0)>>
    \o [p \in 1 .. 3 * NumSelections |->
          IF p % 3 = 0 THEN Token("close", 0, 0) ELSE NumbersOf(k)[p - p \div 3]]
    \o <<Token("newline", 0, 0)>>

\* What reaches the file of a line that could not be written to the end.
Written(line) ==
  {SubSeq(line, 1, n) : n \in 0 .. Len(line) - 1}
    \union {Append(SubSeq(line, 1, n), Torn(line[n + 1]))
            : n \in {i \in 0 .. Len(line) - 1 : line[i + 1].kind \in {"identifier", "number"}}}

(* API_LoadBallots *********************************************************)
KindAt(pos) == IF pos > Len(file) THEN "end" ELSE file[pos].kind

\* A bug: whether the number could be read is not looked at.
Scan_unchecked(r, j) ==
  IF KindAt(r.pos) = "number"
  THEN [r EXCEPT !.selections = Append(@, file[r.pos]),
                 !.pos = IF KindAt(@ + 1) = "close" THEN @ + 2 ELSE @ + 1]
  ELSE [r EXCEPT !.selections = Append(@, Token("number", 0, j))]
\* fscanf of number j.  What is not a number and the end of the file are errors,
\* the end also where a separator would follow; another separator is not.
Scan(r, j) ==
  IF r.status # "SUCCESS" THEN r
  ELSE IF KindAt(r.pos) # "number" \/ KindAt(r.pos + 1) = "end"
       THEN [r EXCEPT !.status = "IO_ERROR"]
       ELSE [r EXCEPT !.selections = Append(@, file[r.pos]),
                      !.pos = IF j % 2 = 0 /\ KindAt(@ + 1) = "close" THEN @ + 2 ELSE @ + 1]

\* One newline is passed over; the identifier is all there is up to the tab, and
\* the character after it is passed over too.
LineStart(pos) == IF KindAt(pos) = "newline" THEN pos + 1 ELSE pos
IdentifierEnd(start) ==
  CHOOSE p \in start .. Len(file) + 1 :
    /\ KindAt(p) # "identifier"
    /\ \A q \in start .. p - 1 : KindAt(q) = "identifier"
Identified(start) ==
  LET end == IdentifierEnd(start)
  IN  [status |-> "SUCCESS",
       pos |-> IF KindAt(end) = "tab" THEN end + 1 ELSE end,
       identifier |-> SubSeq(file, start, end - 1),
       selections |-> <<>>]

Voting_Coordinator_read_ballot(pos) ==
  LET start == LineStart(pos)
      scanned[j \in 0 .. 2 * NumSelections] ==
        IF j = 0 THEN Identified(start) ELSE Scan(scanned[j - 1], j)
  IN  IF KindAt(start) = "end"
      THEN [status |-> "END_OF_FILE", pos |-> start, identifier |-> <<>>, selections |-> <<>>]
      ELSE scanned[2 * NumSelections]

\* The loop goes on as long as ballots are read; they are numbered as they come.
ImportNext(acc, i) ==
  IF acc.status # "SUCCESS" THEN acc
  ELSE LET r == Voting_Coordinator_read_ballot(acc.pos)
       IN  [status |-> r.status, pos |-> r.pos,
            ballots |-> IF r.status # "SUCCESS" THEN acc.ballots
                        ELSE Append(acc.ballots,
                               [identifier |-> r.identifier, id |-> i - 1,
                                selections |-> r.selections])]
Voting_Coordinator_import_encrypted_ballots(number) ==
  LET imported[i \in 0 .. number] ==
        IF i = 0 THEN [status |-> "SUCCESS", pos |-> 1, ballots |-> <<>>]
                 ELSE ImportNext(imported[i - 1], i)
  IN  imported[number]

\* The end of the file is a success.  The range begins at 0, as the client's does.
LoadBallots ==
  /\ file # <<>>
  /\ \E number \in 1 .. MaxBallots + 1 :
       LET read == Voting_Coordinator_import_encrypted_ballots(number)
       IN  loaded' = [status |-> IF read.status \in {"SUCCESS", "END_OF_FILE"}
                                 THEN "SUCCESS" ELSE "UNDEFINED_ERROR",
                      ballots |-> read.ballots,
                      receipts |-> IF Len(receipts) < number THEN Len(receipts) ELSE number]
  /\ UNCHANGED <<file, count, encryptions, receipts, since, faults>>

\* Of two register_ballot_messages the identifiers of voters are no part.
Messages_are_equal(left, right) ==
  /\ left.id = right.id
  /\ left.selections = right.selections

(* API_EncryptBallot *******************************************************)
FilesInit ==
  /\ file = <<>> /\ count = 0 /\ encryptions = <<>> /\ receipts = <<>>
  /\ loaded = NotLoaded /\ since = Begun(0) /\ faults = 0

\* A client gives an identifier again only if no ballot with it was reported.
Usable(x) ==
  /\ Len(encryptions) < MaxBallots
  /\ x <= Len(encryptions) + 1
  /\ \A i \in DOMAIN receipts : encryptions[receipts[i].ballot] # x
  /\ \A k \in DOMAIN encryptions : encryptions[k] = x => since.fault

Encrypt(x) ==
  /\ Usable(x)
  /\ encryptions' = Append(encryptions, x)
  /\ UNCHANGED loaded
NewReceipt == [ballot |-> Len(encryptions'), id |-> count]

Fault ==
  /\ faults < MaxFaults
  /\ faults' = faults + 1
  /\ since' = [since EXCEPT !.fault = TRUE]

\* A bug: the count of ballots is taken after it was raised.
Number_late(n) == n + 1
Number(n) == n

EncryptBallot ==
  \E x \in Identifier :
    /\ Encrypt(x)
    /\ count' = count + 1
    /\ file' = file \o Line(Len(encryptions'), x)
    /\ receipts' = Append(receipts, [NewReceipt EXCEPT !.id = Number(count)])
    /\ UNCHANGED <<since, faults>>

\* The file cannot be opened: the ballot was encrypted and counted.
EncryptBallot_not_opened ==
  /\ \E x \in Identifier : Encrypt(x)
  /\ count' = count + 1
  /\ Fault
  /\ UNCHANGED <<file, receipts>>

\* Part of the line is lost when the file is closed, which nobody checks.
EncryptBallot_lost_in_close ==
  \E x \in Identifier :
    /\ Encrypt(x)
    /\ count' = count + 1
    /\ Fault
    /\ file' \in {file \o part : part \in Written(Line(Len(encryptions'), x))}
    /\ receipts' = Append(receipts, NewReceipt)

\* Writing fails.  A pointer that is not heap memory is freed: either that does
\* no harm or the process ends.
EncryptBallot_not_written ==
  \E x \in Identifier :
    /\ Encrypt(x)
    /\ Fault
    /\ file' \in {file \o part : part \in Written(Line(Len(encryptions'), x))}
    /\ count' = count + 1
    /\ UNCHANGED receipts

\* The file is renamed.  When that fails the call succeeds all the same.
EncryptBallot_soft_delete_file ==
  /\ receipts # <<>>
  /\ \/ /\ file' = <<>>
        /\ since' = Begun(count)
        /\ UNCHANGED faults
     \/ Fault /\ UNCHANGED file
  /\ receipts' = <<>> /\ loaded' = NotLoaded
  /\ UNCHANGED <<count, encryptions>>

\* The process ends, and with it its count and what it loaded; a new one goes on
\* with the file.
FilesRestart ==
  /\ count' = 0
  /\ loaded' = NotLoaded
  /\ since' = [since EXCEPT !.restarted = TRUE]
  /\ UNCHANGED <<file, encryptions, receipts, faults>>

API_EncryptBallot ==
  \/ EncryptBallot
  \/ EncryptBallot_not_opened
  \/ EncryptBallot_lost_in_close
  \/ EncryptBallot_not_written

(* Properties **************************************************************)
WholeIdentifier(x) == <<Token("identifier", x, 0)>>

\* examples/api/main.c:184 asserts it: the ballots loaded from the file are the
\* ballots that were exported to it, all that were asked for, in their order, and
\* equal to the messages in memory with their numbers if the file was begun and
\* filled by one process that had encrypted nothing before.
FileLoadsBack ==
  loaded.status # "NONE" /\ ~since.fault =>
    /\ loaded.status = "SUCCESS"
    /\ Len(loaded.ballots) = loaded.receipts
    /\ \A i \in DOMAIN loaded.ballots :
         LET k == receipts[i].ballot IN
         /\ loaded.ballots[i].identifier = WholeIdentifier(encryptions[k])
         /\ Messages_are_equal(
              loaded.ballots[i],
              [id |-> IF ~since.restarted /\ since.count = 0
                      THEN receipts[i].id ELSE loaded.ballots[i].id,
               selections |-> NumbersOf(k)])

\* encrypt_ballot.c:216, coordinator.c:444.  The file is appended to whatever its
\* last line is like.  Even so a ballot is never loaded under the identifier of
\* another: it has selections encrypted for its identifier, all of one ballot;
\* except when writing stopped within the last word of a line.
IdentifiersKeepTheirBallots ==
  \A i \in DOMAIN loaded.ballots, x \in Identifier :
    LET b == loaded.ballots[i] IN
    b.identifier = WholeIdentifier(x) /\ (\A j \in DOMAIN b.selections : b.selections[j].whole)
      => \E k \in DOMAIN encryptions :
           encryptions[k] = x /\ b.selections = NumbersOf(k)

==============================================================================
