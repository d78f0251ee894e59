-------------------------------- MODULE Voting --------------------------------
(***************************************************************************)
(* The clients of the voting coordinator: API_RecordBallots and            *)
(* API_LoadBallots with their _free functions                              *)
(* (src/electionguard/api/record_ballots.c, load_ballots.c).  Both hold a  *)
(* handle of the one coordinator of the process.  Loading reads a file and *)
(* changes nothing of the coordinator, so only its handle is modelled.     *)
(*                                                                         *)
(* One call of API_RecordBallots registers its ballots, casts some, spoils *)
(* some and exports the record; it is a step per coordinator call, each    *)
(* with an argument picked as it goes, so a call may name any ballots.     *)
(***************************************************************************)
EXTENDS VotingCoordinator

CONSTANT WriteMayFail  \* TRUE: the file may be refused, or the disk fill up

ASSUME ClientAssumption == WriteMayFail \in BOOLEAN

VARIABLES
  record_handle,  \* is _record_coordinator set?
  load_handle,    \* is _load_coordinator set?
  stage,          \* what the running API_RecordBallots does, "idle" if none runs
  ok,             \* did the last API_RecordBallots return true?
  record,         \* the file this life of the coordinator exported last
  recorded        \* ballots its earlier exports wrote

clientVars == <<record_handle, load_handle, stage, ok, record, recorded>>
vars == <<boxVars, coordinatorVars, clientVars>>

NoRecord == [header |-> 0, ballots |-> <<>>]
Line == [id : Ballots, cast : BOOLEAN]
LinesOf(r) == {r.ballots[i].id : i \in DOMAIN r.ballots}

\* Types and bounds of the ballot box, the coordinator and its clients: the box
\* and the buffer stay within MAX_BALLOTS and MAX_BALLOT_PAYLOAD.
TypeOK ==
  /\ coordinator \in SelectionCounts \union {NULL}
  /\ DOMAIN ballot_box \subseteq Ballots /\ Range(ballot_box) \subseteq BallotState
  /\ dangling \in BOOLEAN
  /\ registered_num_ballots \in 0 .. MaxRegistered
  /\ Ballot_Collection_size <= MAX_BALLOTS
  /\ ref_count \in 0 .. 2
  /\ buffered_external_id \in Seq(Ballots)
  /\ Len(buffered_external_id) <= MAX_BALLOT_PAYLOAD
  /\ stage \in {"idle", "register", "cast", "spoil", "export"}
  /\ {record_handle, load_handle, ok} \subseteq BOOLEAN
  /\ record.header \in 0 .. MaxRegistered /\ Range(record.ballots) \subseteq Line

Init ==
  /\ CoordinatorInit
  /\ record_handle = FALSE
  /\ load_handle = FALSE
  /\ stage = "idle"
  /\ ok = FALSE
  /\ record = NoRecord
  /\ recorded = {}

------------------------------------------------------------------------------
(* API_RecordBallots                                                       *)

RecordBallots_first(num_selections) ==
  /\ stage = "idle" /\ ~record_handle
  /\ Voting_Coordinator_new(num_selections)
  /\ record_handle' = TRUE
  /\ stage' = "register"
  /\ UNCHANGED <<load_handle, ok, record, recorded>>

\* A later call keeps the handle; its num_selections is not looked at.
RecordBallots_again ==
  /\ stage = "idle" /\ record_handle
  /\ stage' = "register"
  /\ UNCHANGED <<boxVars, coordinatorVars, record_handle, load_handle, ok, record, recorded>>

\* The process dies and starts again.  Nothing of the coordinator is persistent,
\* and a record it left is the record of an earlier life.
Restart ==
  /\ ballot_box' = NoBallots /\ dangling' = FALSE
  /\ coordinator' = NULL /\ ref_count' = 0
  /\ registered_num_ballots' = 0 /\ buffered_external_id' = <<>>
  /\ record_handle' = FALSE /\ load_handle' = FALSE
  /\ stage' = "idle" /\ ok' = FALSE
  /\ record' = NoRecord /\ recorded' = {}

\* There is no coordinator to be had: API_RecordBallots goes on to clear the
\* buffer of the NULL handle it has.
RecordBallots_without_coordinator(num_selections) ==
  /\ stage = "idle" /\ ~record_handle
  /\ Voting_Coordinator_new_may_fail(num_selections)
  /\ Restart

RecordBallots_fails ==
  /\ Voting_Coordinator_clear_buffer
  /\ stage' = "idle"
  /\ ok' = FALSE
  /\ UNCHANGED <<coordinator, ref_count, registered_num_ballots,
                 record_handle, load_handle, record, recorded>>

RegisterBallot(id, message) ==
  /\ stage = "register"
  /\ registered_num_ballots < MaxRegistered
  /\ Voting_Coordinator_register_ballot(id, message)
  /\ UNCHANGED clientVars

RegisterDuplicate(id) ==
  /\ stage = "register"
  /\ Register_duplicate(id)
  /\ RecordBallots_fails

RegisterRefused(id, message) ==
  /\ stage = "register"
  /\ Register_may_be_refused(id, message)
  /\ RecordBallots_fails
  /\ UNCHANGED boxVars

CastBallot(id) ==
  /\ stage = "cast"
  /\ Voting_Coordinator_cast_ballot(id)
  /\ UNCHANGED clientVars

SpoilBallot(id) ==
  /\ stage = "spoil"
  /\ Voting_Coordinator_spoil_ballot(id)
  /\ UNCHANGED clientVars

CastOrSpoilRefused(id) ==
  /\ stage \in {"cast", "spoil"}
  /\ Ballot_Collection_update_may_fail(id)
  /\ RecordBallots_fails
  /\ UNCHANGED boxVars

\* The loops of API_RecordBallots, and its export at the end.
After == [register |-> "cast", cast |-> "spoil", spoil |-> "export"]

NextStage ==
  /\ stage \in DOMAIN After
  /\ stage' = After[stage]
  /\ UNCHANGED <<boxVars, coordinatorVars, record_handle, load_handle, ok, record, recorded>>

\* The file is opened with "w+", which empties it.  A write that fails ends the
\* export of the ballots, but its status is overwritten by clear_buffer's.
ExportBallots(n) ==
  /\ stage = "export"
  /\ n = Len(buffered_external_id) \/ WriteMayFail
  /\ record' \in ExportedRecords(n)
  /\ recorded' = recorded \union LinesOf(record')
  /\ Voting_Coordinator_clear_buffer
  /\ stage' = "idle"
  /\ ok' = TRUE
  /\ UNCHANGED <<boxVars, coordinator, ref_count, registered_num_ballots,
                 record_handle, load_handle>>

\* fopen fails.
ExportRefused ==
  /\ stage = "export" /\ WriteMayFail
  /\ RecordBallots_fails
  /\ UNCHANGED boxVars

\* The name or the directory is refused, the header cannot be written, or a
\* buffered ballot is not found: export_ballots frees its parameter, which points
\* into its caller's memory.
ExportDies ==
  /\ stage = "export"
  /\ \/ WriteMayFail
     \/ \E i \in DOMAIN buffered_external_id : NotFound(buffered_external_id[i])
  /\ Restart

------------------------------------------------------------------------------
(* The other calls                                                         *)

\* What is left of the records when the coordinator is freed with its last handle.
EndOfLife ==
  IF coordinator' = NULL
  THEN record' = NoRecord /\ recorded' = {}
  ELSE UNCHANGED <<record, recorded>>

RecordBallots_free ==
  /\ stage = "idle" /\ record_handle
  /\ Voting_Coordinator_free
  /\ record_handle' = FALSE
  /\ EndOfLife
  /\ UNCHANGED <<load_handle, stage, ok>>

LoadBallots_first(num_selections) ==
  /\ stage = "idle" /\ ~load_handle
  /\ Voting_Coordinator_new(num_selections)
  /\ load_handle' = TRUE
  /\ UNCHANGED <<record_handle, stage, ok, record, recorded>>

LoadBallots_free ==
  /\ stage = "idle" /\ load_handle
  /\ Voting_Coordinator_free
  /\ load_handle' = FALSE
  /\ EndOfLife
  /\ UNCHANGED <<record_handle, stage, ok>>

Next ==
  \/ \E n \in SelectionCounts :
       \/ RecordBallots_first(n)
       \/ RecordBallots_without_coordinator(n)
       \/ LoadBallots_first(n)
  \/ RecordBallots_again
  \/ RecordBallots_free
  \/ LoadBallots_free
  \/ \E id \in Ballots :
       \/ RegisterDuplicate(id)
       \/ CastBallot(id)
       \/ SpoilBallot(id)
       \/ CastOrSpoilRefused(id)
       \/ \E message \in SelectionCounts \union {0} :
            \/ RegisterBallot(id, message)
            \/ RegisterRefused(id, message)
  \/ NextStage
  \/ \E n \in 0 .. Len(buffered_external_id) : ExportBallots(n)
  \/ ExportRefused
  \/ ExportDies

Spec == Init /\ [][Next]_vars

------------------------------------------------------------------------------
(* Properties.  A ballot registered twice leaves freed memory in the table *)
(* and nothing is promised from then on (dangling).                        *)

\* Loading and recording share the instance and either may be freed first: the
\* references counted are the handles held, so the handle a client still holds is
\* never of a freed coordinator, and none is kept that nobody holds.
HandlesAreLive ==
  /\ ref_count = Cardinality({h \in {"record", "load"} :
                               IF h = "record" THEN record_handle ELSE load_handle})
  /\ coordinator # NULL <=> record_handle \/ load_handle

\* A ballot that was cast or spoiled stays so, whatever batches follow and however
\* their calls fail, until the coordinator is freed with its last handle.
BallotsAreFinal ==
  [][\A id \in DOMAIN ballot_box :
       /\ ~dangling' /\ coordinator' # NULL
       /\ ballot_box[id].cast \/ ballot_box[id].spoiled
       => id \in DOMAIN ballot_box' /\ ballot_box'[id] = ballot_box[id]]_vars

\* No ballot is written to two records of one coordinator's life, however calls
\* that failed are tried again: it would be tallied twice.
NeverRecordedTwice ==
  [][stage = "export" /\ ok' /\ ~dangling => LinesOf(record') \intersect recorded = {}]_vars

\* A record has the ballots its header announces, which is what the trustees need
\* to read it to its end.
Readable(r) == r.header = Len(r.ballots)

\* A record the trustees can read lacks nothing: it has every ballot that was
\* registered before it was exported, in this batch or an earlier one, on one line
\* each, and none as cast that is not cast.  The header counts the registered
\* ballots and the lines those of the buffer, so a record that misses the ballots
\* of an earlier batch, of a batch that failed or of a write that failed (and was
\* reported as a success) is one they reject.
ReadableRecordIsComplete ==
  ~dangling /\ Readable(record) =>
    /\ LinesOf(record) =
         {id \in DOMAIN ballot_box : ballot_box[id].registered_index < record.header}
    /\ Cardinality(LinesOf(record)) = record.header
    /\ \A i \in DOMAIN record.ballots :
         record.ballots[i].cast => ballot_box[record.ballots[i].id].cast

\* What a record shows its readers: its ballots and those it counts.
Shown(r) ==
  IF Readable(r)
  THEN {[ballots |-> LinesOf(r),
         cast |-> {r.ballots[i].id : i \in {j \in DOMAIN r.ballots : r.ballots[j].cast}}]}
  ELSE {}

\* The coordinator and its clients keep the box they stand for: through batches,
\* calls that fail and files that are cut, a ballot is decided once and for all,
\* and a record that can be read shows every ballot of the box and exactly the
\* cast ones as cast.
Box ==
  INSTANCE BallotBox WITH
    Ballot <- Ballots,
    registered <- DOMAIN ballot_box,
    cast <- {b \in DOMAIN ballot_box : ballot_box[b].cast},
    spoiled <- {b \in DOMAIN ballot_box : ballot_box[b].spoiled},
    void <- dangling,
    published <- Shown(record)
ImplementsBallotBox == Box!Spec

\* record_ballots.h of export_path: "path to export the ballots file for use when
\* decrypting".  When API_RecordBallots returns true, the file can be read by the
\* trustees.
ExportedRecordIsReadable == stage = "idle" /\ ok => Readable(record)

==============================================================================
