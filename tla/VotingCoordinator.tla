--------------------------- MODULE VotingCoordinator ---------------------------
(***************************************************************************)
(* struct Voting_Coordinator_s, the one instance a process has of it, and  *)
(* its operations (src/electionguard/voting/coordinator.c).                *)
(***************************************************************************)
EXTENDS BallotCollection

CONSTANT SelectionCounts  \* values num_selections is called with

ASSUME SelectionsAssumption == SelectionCounts \subseteq Nat \ {0}

VARIABLES
  coordinator,             \* num_selections of the singleton, NULL if there is none
  ref_count,               \* Voting_Coordinator_ref_count
  registered_num_ballots,
  buffered_external_id     \* the ballots buffered since the last export or clear

coordinatorVars == <<coordinator, ref_count, registered_num_ballots,
                     buffered_external_id>>

NULL == 0

CoordinatorInit ==
  /\ CollectionInit
  /\ coordinator = NULL
  /\ ref_count = 0
  /\ registered_num_ballots = 0
  /\ buffered_external_id = <<>>

\* A bug Voting_Coordinator_new could have: the second client is not counted.
New_uncounted(num_selections) ==
  /\ coordinator \in {NULL, num_selections}
  /\ coordinator' = num_selections
  /\ ref_count' = IF coordinator = NULL THEN ref_count + 1 ELSE ref_count
  /\ UNCHANGED <<registered_num_ballots, buffered_external_id, boxVars>>

\* The first call allocates the instance (empty: it was freed, or never used),
\* later calls share it.
Voting_Coordinator_new(num_selections) ==
  /\ coordinator \in {NULL, num_selections}
  /\ coordinator' = num_selections
  /\ ref_count' = ref_count + 1
  /\ UNCHANGED <<registered_num_ballots, buffered_external_id, boxVars>>

\* ERROR_ALREADY_EXISTS for another number of selections, or INSUFFICIENT_MEMORY;
\* nothing changes.
Voting_Coordinator_new_may_fail(num_selections) == coordinator # num_selections

\* A bug clear_buffer could have: the count of the buffered ballots is kept.
Buffer_kept == UNCHANGED buffered_external_id

Voting_Coordinator_clear_buffer == buffered_external_id' = <<>>

Voting_Coordinator_free ==
  LET remaining == IF ref_count > 0 THEN ref_count - 1 ELSE 0 IN
    /\ ref_count' = remaining
    /\ IF remaining > 0
       THEN UNCHANGED <<coordinator, registered_num_ballots, buffered_external_id, boxVars>>
       ELSE /\ Voting_Coordinator_clear_buffer
            /\ Ballot_Collection_free
            /\ registered_num_ballots' = 0
            /\ coordinator' = NULL

\* A bug RoomFor could have: the length of the buffer is not looked at.
RoomInBox(message) == Ballot_Collection_size < MAX_BALLOTS /\ message = coordinator

\* A message is the number of selections it holds, 0 if it cannot be deserialized.
RoomFor(message) ==
  /\ Ballot_Collection_size < MAX_BALLOTS
  /\ Len(buffered_external_id) < MAX_BALLOT_PAYLOAD
  /\ message # 0
  /\ message = coordinator

Voting_Coordinator_register_ballot(id, message) ==
  /\ RoomFor(message)
  /\ Ballot_Collection_register_ballot(id, registered_num_ballots)
  /\ buffered_external_id' = Append(buffered_external_id, id)
  /\ registered_num_ballots' = registered_num_ballots + 1
  /\ UNCHANGED <<coordinator, ref_count, dangling>>

\* DUPLICATE_BALLOT: the entry found is freed, and stays linked in the table.
Register_duplicate(id) ==
  /\ Ballot_Collection_get_ballot(id) # {}
  /\ FreeInPlace

\* Every other refusal; nothing changes.
Register_may_be_refused(id, message) == NotFound(id) /\ ~RoomFor(message)

Voting_Coordinator_cast_ballot(id) ==
  Ballot_Collection_mark_cast(id) /\ UNCHANGED coordinatorVars

Voting_Coordinator_spoil_ballot(id) ==
  Ballot_Collection_mark_spoiled(id) /\ UNCHANGED coordinatorVars

\* A bug Header could have: it counts the ballots of the buffer that is written.
Header_of_buffer == Len(buffered_external_id)

\* Voting_Coordinator_write_ballots_file_header: all ballots ever registered.
Header == registered_num_ballots

\* A bug CastFlags could have: the mark is the one the ballot was registered with.
CastFlags_at_registration(id) == {FALSE : state \in Ballot_Collection_get_ballot(id)}

CastFlags(id) == {state.cast : state \in Ballot_Collection_get_ballot(id)}

\* What export_buffered_ballots may leave in an empty file when it writes the
\* first n ballots of the buffer: a line per ballot, cast or not, spoiled or only
\* registered.  (API_RecordBallots always hands it an empty file.)
ExportedRecords(n) ==
  {[header |-> Header, ballots |-> [i \in 1 .. n |-> [id |-> buffered_external_id[i],
                                                      cast |-> cast[i]]]] :
   cast \in {c \in [1 .. n -> BOOLEAN] :
               \A i \in 1 .. n : c[i] \in CastFlags(buffered_external_id[i])}}

==============================================================================
