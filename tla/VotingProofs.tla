----------------------------- MODULE VotingProofs -----------------------------
(***************************************************************************)
(* The safety of the voting coordinator, for every set of ballots, every   *)
(* size of the box and of the buffer, and every sequence of calls.         *)
(***************************************************************************)
EXTENDS Voting, FiniteSetTheorems, TLAPS

------------------------------------------------------------------------------
(* Handles.                                                                *)

HandlesInv ==
  /\ record_handle \in BOOLEAN /\ load_handle \in BOOLEAN
  /\ HandlesAreLive

\* The handles held are counted one by one.
LEMMA HandlesCounted ==
  ASSUME NEW r \in BOOLEAN, NEW l \in BOOLEAN
  PROVE  Cardinality({h \in {"record", "load"} : IF h = "record" THEN r ELSE l})
           = (IF r THEN 1 ELSE 0) + (IF l THEN 1 ELSE 0)
<1> DEFINE S == {h \in {"record", "load"} : IF h = "record" THEN r ELSE l}
<1>1. /\ Cardinality({}) = 0
      /\ Cardinality({"record"}) = 1
      /\ Cardinality({"load"}) = 1
      /\ IsFiniteSet({"record"})
  BY FS_EmptySet, FS_Singleton
<1>2. Cardinality({"record"} \cup {"load"}) = 2
  BY <1>1, FS_AddElement
<1>3. S = (IF r THEN {"record"} ELSE {}) \cup (IF l THEN {"load"} ELSE {})
  OBVIOUS
<1> HIDE DEF S
<1>4. Cardinality(S) = (IF r THEN 1 ELSE 0) + (IF l THEN 1 ELSE 0)
  BY <1>1, <1>2, <1>3
<1> QED
  BY <1>4 DEF S

\* The same, without the set.
Held ==
  /\ record_handle \in BOOLEAN /\ load_handle \in BOOLEAN
  /\ ref_count = IF record_handle /\ load_handle THEN 2
                 ELSE IF record_handle \/ load_handle THEN 1 ELSE 0
  /\ (coordinator = NULL) <=> ~record_handle /\ ~load_handle

LEMMA HeldIsHandlesInv == HandlesInv <=> Held
BY HandlesCounted DEF HandlesInv, Held, HandlesAreLive

LEMMA InitHeld == Init => Held
BY DEF Init, CoordinatorInit, Held

LEMMA NextHeld == Held /\ [Next]_vars => Held'
<1> SUFFICES ASSUME Held, [Next]_vars PROVE Held'
  OBVIOUS
<1>0. \A n \in SelectionCounts : n # NULL
  BY SelectionsAssumption DEF NULL
<1> USE DEF Held
<1>1. CASE \E n \in SelectionCounts : RecordBallots_first(n)
  BY <1>0, <1>1 DEF RecordBallots_first, Voting_Coordinator_new
<1>2. CASE \E n \in SelectionCounts : RecordBallots_without_coordinator(n)
  BY <1>2 DEF RecordBallots_without_coordinator, Restart
<1>3. CASE \E n \in SelectionCounts : LoadBallots_first(n)
  BY <1>0, <1>3 DEF LoadBallots_first, Voting_Coordinator_new
<1>4. CASE RecordBallots_again
  BY <1>4 DEF RecordBallots_again, coordinatorVars
<1>5. CASE RecordBallots_free
  <2>1. record_handle /\ record_handle' = FALSE /\ load_handle' = load_handle /\ Voting_Coordinator_free
    BY <1>5 DEF RecordBallots_free
  <2>2. CASE load_handle
    <3>1. ref_count = 2
      BY <2>1, <2>2
    <3>2. ref_count' = 1 /\ coordinator' = coordinator
      BY <2>1, <3>1 DEF Voting_Coordinator_free
    <3> QED
      BY <2>1, <2>2, <3>2
  <2>3. CASE ~load_handle
    <3>1. ref_count = 1
      BY <2>1, <2>3
    <3>2. ref_count' = 0 /\ coordinator' = NULL
      BY <2>1, <3>1 DEF Voting_Coordinator_free
    <3> QED
      BY <2>1, <2>3, <3>2
  <2> QED
    BY <2>2, <2>3
<1>6. CASE LoadBallots_free
  <2>1. load_handle /\ load_handle' = FALSE /\ record_handle' = record_handle /\ Voting_Coordinator_free
    BY <1>6 DEF LoadBallots_free
  <2>2. CASE record_handle
    <3>1. ref_count = 2
      BY <2>1, <2>2
    <3>2. ref_count' = 1 /\ coordinator' = coordinator
      BY <2>1, <3>1 DEF Voting_Coordinator_free
    <3> QED
      BY <2>1, <2>2, <3>2
  <2>3. CASE ~record_handle
    <3>1. ref_count = 1
      BY <2>1, <2>3
    <3>2. ref_count' = 0 /\ coordinator' = NULL
      BY <2>1, <3>1 DEF Voting_Coordinator_free
    <3> QED
      BY <2>1, <2>3, <3>2
  <2> QED
    BY <2>2, <2>3
<1>7. CASE \E id \in Ballots : RegisterDuplicate(id)
  BY <1>7 DEF RegisterDuplicate, RecordBallots_fails
<1>8. CASE \E id \in Ballots : CastBallot(id) \/ SpoilBallot(id)
  BY <1>8 DEF CastBallot, SpoilBallot, Voting_Coordinator_cast_ballot,
              Voting_Coordinator_spoil_ballot, coordinatorVars, clientVars
<1>9. CASE \E id \in Ballots : CastOrSpoilRefused(id)
  BY <1>9 DEF CastOrSpoilRefused, RecordBallots_fails
<1>10. CASE \E id \in Ballots, message \in SelectionCounts \union {0} :
              RegisterBallot(id, message)
  BY <1>10 DEF RegisterBallot, Voting_Coordinator_register_ballot, clientVars
<1>11. CASE \E id \in Ballots, message \in SelectionCounts \union {0} :
              RegisterRefused(id, message)
  BY <1>11 DEF RegisterRefused, RecordBallots_fails
<1>12. CASE NextStage
  BY <1>12 DEF NextStage, coordinatorVars
<1>13. CASE \E n \in 0 .. Len(buffered_external_id) : ExportBallots(n)
  BY <1>13 DEF ExportBallots
<1>14. CASE ExportRefused
  BY <1>14 DEF ExportRefused, RecordBallots_fails
<1>15. CASE ExportDies
  BY <1>15 DEF ExportDies, Restart
<1>16. CASE UNCHANGED vars
  BY <1>16 DEF vars, coordinatorVars, clientVars
<1> QED
  BY <1>1, <1>2, <1>3, <1>4, <1>5, <1>6, <1>7, <1>8, <1>9, <1>10, <1>11, <1>12,
     <1>13, <1>14, <1>15, <1>16 DEF Next

\* Loading and recording share the one coordinator of the process: it is freed
\* with the last handle and never before, in whichever order the clients free.
THEOREM HandlesAlwaysLive == Spec => []HandlesAreLive
<1>1. Held => HandlesAreLive
  BY HeldIsHandlesInv DEF HandlesInv
<1> QED
  BY <1>1, InitHeld, NextHeld, PTL DEF Spec

------------------------------------------------------------------------------
(* The ballot box.                                                         *)

\* As long as no freed entry is in the table, a lookup finds what was put there.
LEMMA Lookups ==
  ASSUME ~dangling, NEW id
  PROVE  /\ Ballot_Collection_get_ballot(id) # {} <=> id \in DOMAIN ballot_box
         /\ NotFound(id) <=> id \notin DOMAIN ballot_box
         /\ \A state \in Ballot_Collection_get_ballot(id) : state = ballot_box[id]
BY DEF Ballot_Collection_get_ballot, NotFound

LEMMA PutOne ==
  ASSUME ~dangling, NEW id, NEW state, Put(id, state)
  PROVE  /\ DOMAIN ballot_box' = {id} \cup DOMAIN ballot_box
         /\ ballot_box'[id] = state
         /\ \A b \in DOMAIN ballot_box : b # id => ballot_box'[b] = ballot_box[b]
BY DEF Put


(* Types.                                                                  *)

LEMMA InitTypeOK == Init => TypeOK
<1> SUFFICES ASSUME Init PROVE TypeOK
  OBVIOUS
<1>1. DOMAIN ballot_box = {} /\ Ballot_Collection_size = 0
  BY FS_EmptySet DEF Init, CoordinatorInit, CollectionInit, NoBallots, Ballot_Collection_size
<1>2. /\ DOMAIN ballot_box \subseteq Ballots /\ Range(ballot_box) \subseteq BallotState
      /\ Ballot_Collection_size <= MAX_BALLOTS
  BY <1>1, BallotsAssumption DEF Range
<1>3. Range(record.ballots) \subseteq Line /\ record.header \in 0 .. MaxRegistered
  BY BallotsAssumption DEF Init, NoRecord, Range
<1>4. /\ buffered_external_id \in Seq(Ballots)
      /\ Len(buffered_external_id) <= MAX_BALLOT_PAYLOAD
  BY BallotsAssumption DEF Init, CoordinatorInit
<1>5. registered_num_ballots \in 0 .. MaxRegistered /\ ref_count \in 0 .. 2
  BY BallotsAssumption DEF Init, CoordinatorInit
<1>6. {record_handle, load_handle, ok} \subseteq BOOLEAN
  BY DEF Init
<1> QED
  BY <1>2, <1>3, <1>4, <1>5, <1>6 DEF Init, CoordinatorInit, CollectionInit, TypeOK

\* What Put leaves, of the right types.
LEMMA PutTypeOK ==
  ASSUME NEW id \in Ballots, NEW state \in BallotState, Put(id, state),
         DOMAIN ballot_box \subseteq Ballots, Range(ballot_box) \subseteq BallotState
  PROVE  DOMAIN ballot_box' \subseteq Ballots /\ Range(ballot_box') \subseteq BallotState
BY DEF Put, Range

\* Registering makes room for one more at most.
LEMMA PutSize ==
  ASSUME NEW id \in Ballots, NEW state, Put(id, state),
         DOMAIN ballot_box \subseteq Ballots
  PROVE  /\ Ballot_Collection_size \in Nat
         /\ Ballot_Collection_size' <= Ballot_Collection_size + 1
         /\ id \in DOMAIN ballot_box => Ballot_Collection_size' = Ballot_Collection_size
<1>1. IsFiniteSet(DOMAIN ballot_box)
  BY BallotsAssumption, FS_Subset
<1>2. Ballot_Collection_size \in Nat
  BY <1>1, FS_CardinalityType DEF Ballot_Collection_size
<1>3. CASE dangling
  BY <1>2, <1>3 DEF Put, Ballot_Collection_size
<1>4. CASE ~dangling
  <2>1. DOMAIN ballot_box' = DOMAIN ballot_box \cup {id}
    BY <1>4 DEF Put
  <2>2. Ballot_Collection_size' =
          IF id \in DOMAIN ballot_box THEN Ballot_Collection_size
          ELSE Ballot_Collection_size + 1
    BY <1>1, <2>1, FS_AddElement DEF Ballot_Collection_size
  <2> QED
    BY <1>2, <2>2
<1> QED
  BY <1>2, <1>3, <1>4

\* The state that is put back is one that was found, with its marks.
LEMMA UpdateTypeOK ==
  ASSUME TypeOK, NEW id \in Ballots, NEW cast \in BOOLEAN, NEW spoiled \in BOOLEAN,
         Ballot_Collection_update(id, cast, spoiled)
  PROVE  /\ DOMAIN ballot_box' \subseteq Ballots /\ Range(ballot_box') \subseteq BallotState
         /\ Ballot_Collection_size' = Ballot_Collection_size
         /\ dangling' = dangling
<1>1. PICK state \in Ballot_Collection_get_ballot(id) :
        /\ Put(id, [state EXCEPT !.cast = cast, !.spoiled = spoiled])
        /\ UNCHANGED dangling
  BY DEF Ballot_Collection_update
<1>2. state \in BallotState /\ (~dangling => id \in DOMAIN ballot_box)
  BY <1>1 DEF Ballot_Collection_get_ballot, TypeOK, Range
<1>3. [state EXCEPT !.cast = cast, !.spoiled = spoiled] \in BallotState
  BY <1>2 DEF BallotState
<1>4. Ballot_Collection_size' = Ballot_Collection_size
  <2>1. CASE dangling
    BY <1>1, <2>1 DEF Put, Ballot_Collection_size
  <2>2. CASE ~dangling
    BY <1>1, <1>2, <2>2, PutSize DEF TypeOK
  <2> QED
    BY <2>1, <2>2
<1> QED
  BY <1>1, <1>3, <1>4, PutTypeOK DEF TypeOK

LEMMA EmptyBox ==
  ASSUME ballot_box' = NoBallots
  PROVE  /\ DOMAIN ballot_box' = {} /\ Range(ballot_box') = {}
         /\ Ballot_Collection_size' = 0
<1>1. DOMAIN ballot_box' = {}
  BY DEF NoBallots
<1> QED
  BY <1>1, FS_EmptySet DEF Range, Ballot_Collection_size

\* The process starts again.
LEMMA RestartTypeOK == Restart => TypeOK'
<1> SUFFICES ASSUME Restart PROVE TypeOK'
  OBVIOUS
<1>1. /\ DOMAIN ballot_box' \subseteq Ballots /\ Range(ballot_box') \subseteq BallotState
      /\ Ballot_Collection_size' <= MAX_BALLOTS
  BY EmptyBox, BallotsAssumption DEF Restart
<1>2. Range(record'.ballots) \subseteq Line /\ record'.header \in 0 .. MaxRegistered
  BY BallotsAssumption DEF Restart, NoRecord, Range
<1>3. /\ buffered_external_id' \in Seq(Ballots)
      /\ Len(buffered_external_id') <= MAX_BALLOT_PAYLOAD
  BY BallotsAssumption DEF Restart
<1>4. registered_num_ballots' \in 0 .. MaxRegistered /\ ref_count' \in 0 .. 2
  BY BallotsAssumption DEF Restart
<1>5. {record_handle', load_handle', ok'} \subseteq BOOLEAN
  BY DEF Restart
<1> QED
  BY <1>1, <1>2, <1>3, <1>4, <1>5 DEF Restart, TypeOK

\* What a failing call, and the end of a coordinator, leave.
LEMMA FailsTypeOK ==
  ASSUME TypeOK, RecordBallots_fails,
         UNCHANGED boxVars \/ FreeInPlace
  PROVE  TypeOK'
<1>1. /\ DOMAIN ballot_box' \subseteq Ballots /\ Range(ballot_box') \subseteq BallotState
      /\ Ballot_Collection_size' <= MAX_BALLOTS
      /\ dangling' \in BOOLEAN
  <2>1. CASE UNCHANGED boxVars
    BY <2>1 DEF TypeOK, boxVars, Ballot_Collection_size
  <2>2. CASE FreeInPlace
    BY <2>2, EmptyBox, BallotsAssumption DEF FreeInPlace
  <2> QED
    BY <2>1, <2>2
<1>2. /\ buffered_external_id' \in Seq(Ballots)
      /\ Len(buffered_external_id') <= MAX_BALLOT_PAYLOAD
  BY BallotsAssumption DEF RecordBallots_fails, Voting_Coordinator_clear_buffer
<1>3. {record_handle', load_handle', ok'} \subseteq BOOLEAN
  BY DEF TypeOK, RecordBallots_fails
<1> QED
  BY <1>1, <1>2, <1>3 DEF TypeOK, RecordBallots_fails

LEMMA FreeTypeOK ==
  ASSUME TypeOK, Voting_Coordinator_free, EndOfLife, UNCHANGED <<stage, ok>>,
         {record_handle', load_handle'} \subseteq BOOLEAN
  PROVE  TypeOK'
<1>1. ref_count' \in 0 .. 2
  BY DEF TypeOK, Voting_Coordinator_free
<1>2. /\ Range(record'.ballots) \subseteq Line /\ record'.header \in 0 .. MaxRegistered
  <2>1. Range(NoRecord.ballots) \subseteq Line /\ NoRecord.header \in 0 .. MaxRegistered
    BY BallotsAssumption DEF NoRecord, Range
  <2> QED
    BY <2>1 DEF EndOfLife, TypeOK
<1>3. {record_handle', load_handle', ok'} \subseteq BOOLEAN
  BY DEF TypeOK
<1>4. CASE UNCHANGED <<coordinator, registered_num_ballots, buffered_external_id, boxVars>>
  BY <1>1, <1>2, <1>3, <1>4 DEF TypeOK, boxVars, Ballot_Collection_size
<1>5. CASE /\ Voting_Coordinator_clear_buffer /\ Ballot_Collection_free
           /\ registered_num_ballots' = 0 /\ coordinator' = NULL
  <2>1. ballot_box' = NoBallots /\ dangling' \in BOOLEAN
    BY <1>5 DEF Ballot_Collection_free
  <2>2. /\ buffered_external_id' \in Seq(Ballots)
        /\ Len(buffered_external_id') <= MAX_BALLOT_PAYLOAD
        /\ registered_num_ballots' \in 0 .. MaxRegistered
    BY <1>5, BallotsAssumption DEF Voting_Coordinator_clear_buffer
  <2>3. /\ DOMAIN ballot_box' \subseteq Ballots /\ Range(ballot_box') \subseteq BallotState
        /\ Ballot_Collection_size' <= MAX_BALLOTS
    BY <2>1, EmptyBox, BallotsAssumption
  <2> QED
    BY <1>1, <1>2, <1>3, <1>5, <2>1, <2>2, <2>3 DEF TypeOK
<1> QED
  BY <1>4, <1>5 DEF Voting_Coordinator_free

LEMMA RegisterTypeOK ==
  ASSUME TypeOK, NEW id \in Ballots, NEW message, RegisterBallot(id, message)
  PROVE  TypeOK'
<1> DEFINE state == [registered |-> TRUE, cast |-> FALSE, spoiled |-> FALSE,
                     registered_index |-> registered_num_ballots]
<1>1. /\ Put(id, state) /\ UNCHANGED <<coordinator, ref_count, dangling>>
      /\ registered_num_ballots' = registered_num_ballots + 1
      /\ buffered_external_id' = Append(buffered_external_id, id)
      /\ registered_num_ballots < MaxRegistered
      /\ Ballot_Collection_size < MAX_BALLOTS
      /\ Len(buffered_external_id) < MAX_BALLOT_PAYLOAD
      /\ UNCHANGED clientVars
  BY DEF RegisterBallot, Voting_Coordinator_register_ballot,
         Ballot_Collection_register_ballot, RoomFor
<1>2. registered_num_ballots \in 0 .. MaxRegistered - 1
  BY <1>1, BallotsAssumption DEF TypeOK
<1>3. state \in BallotState
  BY <1>2 DEF BallotState
<1>4. /\ DOMAIN ballot_box' \subseteq Ballots /\ Range(ballot_box') \subseteq BallotState
  BY <1>1, <1>3, PutTypeOK DEF TypeOK
<1>5. Ballot_Collection_size' <= MAX_BALLOTS
  <2>1. /\ Ballot_Collection_size \in Nat
        /\ Ballot_Collection_size' <= Ballot_Collection_size + 1
    BY <1>1, PutSize DEF TypeOK
  <2>2. Ballot_Collection_size' \in Nat
    <3>1. IsFiniteSet(DOMAIN ballot_box')
      BY <1>4, BallotsAssumption, FS_Subset
    <3> QED
      BY <3>1, FS_CardinalityType DEF Ballot_Collection_size
  <2> QED
    BY <1>1, <2>1, <2>2, BallotsAssumption
<1>6. /\ buffered_external_id' \in Seq(Ballots)
      /\ Len(buffered_external_id') <= MAX_BALLOT_PAYLOAD
  BY <1>1, BallotsAssumption DEF TypeOK
<1>7. registered_num_ballots' \in 0 .. MaxRegistered
  BY <1>1, <1>2, BallotsAssumption
<1> HIDE DEF state
<1> QED
  BY <1>1, <1>4, <1>5, <1>6, <1>7 DEF TypeOK, clientVars

LEMMA ExportTypeOK ==
  ASSUME TypeOK, NEW n \in 0 .. Len(buffered_external_id), ExportBallots(n)
  PROVE  TypeOK'
<1>1. PICK cast \in {c \in [1 .. n -> BOOLEAN] :
                       \A i \in 1 .. n : c[i] \in CastFlags(buffered_external_id[i])} :
        record' = [header |-> Header,
                   ballots |-> [i \in 1 .. n |-> [id |-> buffered_external_id[i],
                                                  cast |-> cast[i]]]]
  BY DEF ExportBallots, ExportedRecords
<1>2. \A i \in 1 .. n : buffered_external_id[i] \in Ballots
  BY DEF TypeOK
<1>3. Range(record'.ballots) \subseteq Line
  BY <1>1, <1>2 DEF Range, Line
<1>4. record'.header \in 0 .. MaxRegistered
  BY <1>1 DEF Header, TypeOK
<1>5. /\ buffered_external_id' \in Seq(Ballots)
      /\ Len(buffered_external_id') <= MAX_BALLOT_PAYLOAD
  BY BallotsAssumption DEF ExportBallots, Voting_Coordinator_clear_buffer
<1>6. {record_handle', load_handle', ok'} \subseteq BOOLEAN
  BY DEF ExportBallots, TypeOK
<1>7. /\ stage' = "idle"
      /\ UNCHANGED <<boxVars, coordinator, ref_count, registered_num_ballots>>
  BY DEF ExportBallots
<1> QED
  BY <1>3, <1>4, <1>5, <1>6, <1>7 DEF TypeOK, boxVars, Ballot_Collection_size

LEMMA MarkTypeOK ==
  ASSUME TypeOK, NEW id \in Ballots, CastBallot(id) \/ SpoilBallot(id)
  PROVE  TypeOK'
<1>1. /\ \E cast, spoiled \in BOOLEAN : Ballot_Collection_update(id, cast, spoiled)
      /\ UNCHANGED <<coordinatorVars, clientVars>>
  BY DEF CastBallot, SpoilBallot, Voting_Coordinator_cast_ballot,
         Voting_Coordinator_spoil_ballot, Ballot_Collection_mark_cast,
         Ballot_Collection_mark_spoiled
<1>2. /\ DOMAIN ballot_box' \subseteq Ballots /\ Range(ballot_box') \subseteq BallotState
      /\ Ballot_Collection_size' = Ballot_Collection_size
      /\ dangling' = dangling
  BY <1>1, UpdateTypeOK
<1> QED
  BY <1>1, <1>2 DEF TypeOK, coordinatorVars, clientVars

LEMMA NextTypeOK == TypeOK /\ Held /\ [Next]_vars => TypeOK'
<1> SUFFICES ASSUME TypeOK, Held, [Next]_vars PROVE TypeOK'
  OBVIOUS
<1>1. ASSUME NEW n \in SelectionCounts, RecordBallots_first(n) \/ LoadBallots_first(n)
      PROVE  TypeOK'
  <2>1. /\ Voting_Coordinator_new(n)
        /\ UNCHANGED <<ok, record, recorded>>
        /\ stage' \in {"register", stage}
        /\ ~record_handle \/ ~load_handle
    BY <1>1 DEF RecordBallots_first, LoadBallots_first
  <2>2. ref_count \in 0 .. 1
    BY <2>1 DEF Held
  <2>3. /\ ref_count' \in 0 .. 2 /\ coordinator' \in SelectionCounts
        /\ UNCHANGED <<registered_num_ballots, buffered_external_id, boxVars>>
    BY <2>1, <2>2 DEF Voting_Coordinator_new
  <2>4. {record_handle', load_handle', ok'} \subseteq BOOLEAN
    BY <1>1 DEF RecordBallots_first, LoadBallots_first, TypeOK
  <2> QED
    BY <2>1, <2>3, <2>4 DEF TypeOK, boxVars, Ballot_Collection_size
<1>2. CASE \E n \in SelectionCounts : RecordBallots_without_coordinator(n)
  BY <1>2, RestartTypeOK DEF RecordBallots_without_coordinator
<1>3. CASE RecordBallots_again
  BY <1>3 DEF RecordBallots_again, TypeOK, boxVars, coordinatorVars, Ballot_Collection_size
<1>4. CASE RecordBallots_free \/ LoadBallots_free
  <2>1. {record_handle', load_handle'} \subseteq BOOLEAN
    BY <1>4 DEF RecordBallots_free, LoadBallots_free, TypeOK
  <2> QED
    BY <1>4, <2>1, FreeTypeOK DEF RecordBallots_free, LoadBallots_free
<1>5. CASE \E id \in Ballots : RegisterDuplicate(id)
  BY <1>5, FailsTypeOK DEF RegisterDuplicate, Register_duplicate
<1>6. CASE \E id \in Ballots : CastBallot(id) \/ SpoilBallot(id)
  BY <1>6, MarkTypeOK
<1>7. CASE \E id \in Ballots : CastOrSpoilRefused(id)
  BY <1>7, FailsTypeOK DEF CastOrSpoilRefused
<1>8. CASE \E id \in Ballots, message \in SelectionCounts \union {0} :
             RegisterBallot(id, message)
  BY <1>8, RegisterTypeOK
<1>9. CASE \E id \in Ballots, message \in SelectionCounts \union {0} :
             RegisterRefused(id, message)
  BY <1>9, FailsTypeOK DEF RegisterRefused
<1>10. CASE NextStage
  BY <1>10 DEF NextStage, After, TypeOK, boxVars, coordinatorVars, Ballot_Collection_size
<1>11. CASE \E n \in 0 .. Len(buffered_external_id) : ExportBallots(n)
  BY <1>11, ExportTypeOK
<1>12. CASE ExportRefused
  BY <1>12, FailsTypeOK DEF ExportRefused
<1>13. CASE ExportDies
  BY <1>13, RestartTypeOK DEF ExportDies
<1>14. CASE UNCHANGED vars
  BY <1>14 DEF TypeOK, vars, boxVars, coordinatorVars, clientVars, Ballot_Collection_size
<1> QED
  BY <1>1, <1>2, <1>3, <1>4, <1>5, <1>6, <1>7, <1>8, <1>9, <1>10, <1>11, <1>12,
     <1>13, <1>14 DEF Next

\* The box never holds more than MAX_BALLOTS ballots nor the buffer more than
\* MAX_BALLOT_PAYLOAD, whatever calls fail and even with freed memory in the table.
THEOREM VotingTypeCorrect == Spec => []TypeOK
BY InitTypeOK, InitHeld, NextTypeOK, NextHeld, PTL DEF Spec

------------------------------------------------------------------------------
(* The record.                                                             *)

\* What a step does to a box that stays whole and to the record, as far as the
\* properties tell: one more ballot, a mark on one that had none, the buffer
\* emptied, a record written, everything freed, or nothing.
Registers(id) ==
  /\ id \notin DOMAIN ballot_box
  /\ DOMAIN ballot_box' = DOMAIN ballot_box \cup {id}
  /\ ballot_box'[id].registered_index = registered_num_ballots
  /\ ~ballot_box'[id].cast /\ ~ballot_box'[id].spoiled
  /\ \A b \in DOMAIN ballot_box : ballot_box'[b] = ballot_box[b]
  /\ registered_num_ballots' = registered_num_ballots + 1
  /\ buffered_external_id' = Append(buffered_external_id, id)
  /\ UNCHANGED <<record, recorded>>

Marks(id) ==
  /\ id \in DOMAIN ballot_box
  /\ ~ballot_box[id].cast /\ ~ballot_box[id].spoiled
  /\ DOMAIN ballot_box' = DOMAIN ballot_box
  /\ ballot_box'[id].registered_index = ballot_box[id].registered_index
  /\ ballot_box'[id].cast <=> ~ballot_box'[id].spoiled
  /\ \A b \in DOMAIN ballot_box : b # id => ballot_box'[b] = ballot_box[b]
  /\ UNCHANGED <<registered_num_ballots, buffered_external_id, record, recorded>>

Clears ==
  /\ buffered_external_id' = <<>>
  /\ UNCHANGED <<ballot_box, registered_num_ballots, record, recorded>>

Exports ==
  /\ \E n \in 0 .. Len(buffered_external_id) : record' \in ExportedRecords(n)
  /\ recorded' = recorded \union LinesOf(record')
  /\ buffered_external_id' = <<>>
  /\ UNCHANGED <<ballot_box, registered_num_ballots>>

Frees ==
  /\ coordinator' = NULL
  /\ ballot_box' = NoBallots /\ registered_num_ballots' = 0
  /\ buffered_external_id' = <<>>
  /\ record' = NoRecord /\ recorded' = {}

Leaves == UNCHANGED <<ballot_box, registered_num_ballots, buffered_external_id,
                      record, recorded>>

LEMMA RegisterRegisters ==
  ASSUME TypeOK, ~dangling, NEW id, NEW message, RegisterBallot(id, message)
  PROVE  Registers(id)
<1> DEFINE state == [registered |-> TRUE, cast |-> FALSE, spoiled |-> FALSE,
                     registered_index |-> registered_num_ballots]
<1>1. /\ NotFound(id) /\ Put(id, state)
      /\ registered_num_ballots' = registered_num_ballots + 1
      /\ buffered_external_id' = Append(buffered_external_id, id)
      /\ UNCHANGED <<record, recorded>>
  BY DEF RegisterBallot, Voting_Coordinator_register_ballot,
         Ballot_Collection_register_ballot, clientVars
<1>2. state.registered_index = registered_num_ballots /\ ~state.cast /\ ~state.spoiled
  OBVIOUS
<1> HIDE DEF state
<1>3. id \notin DOMAIN ballot_box
  BY <1>1, Lookups
<1>4. /\ DOMAIN ballot_box' = DOMAIN ballot_box \cup {id}
      /\ ballot_box'[id] = state
      /\ \A b \in DOMAIN ballot_box : b # id => ballot_box'[b] = ballot_box[b]
  BY <1>1, PutOne
<1> QED
  BY <1>1, <1>2, <1>3, <1>4 DEF Registers

LEMMA UpdateMarks ==
  ASSUME TypeOK, ~dangling, NEW id, NEW cast \in BOOLEAN,
         Ballot_Collection_update(id, cast, ~cast),
         UNCHANGED <<coordinatorVars, clientVars>>
  PROVE  Marks(id)
<1>1. PICK state \in Ballot_Collection_get_ballot(id) :
        /\ can_mutate_state(state)
        /\ Put(id, [state EXCEPT !.cast = cast, !.spoiled = ~cast])
  BY DEF Ballot_Collection_update
<1>2. id \in DOMAIN ballot_box /\ state = ballot_box[id]
  BY <1>1, Lookups
<1>3. state \in BallotState
  BY <1>2 DEF TypeOK, Range
<1> DEFINE marked == [state EXCEPT !.cast = cast, !.spoiled = ~cast]
<1>4. /\ marked.registered_index = state.registered_index
      /\ marked.cast <=> ~marked.spoiled
  BY <1>3 DEF BallotState
<1>5. /\ DOMAIN ballot_box' = DOMAIN ballot_box
      /\ ballot_box'[id] = marked
      /\ \A b \in DOMAIN ballot_box : b # id => ballot_box'[b] = ballot_box[b]
  BY <1>1, <1>2, PutOne
<1>6. ~ballot_box[id].cast /\ ~ballot_box[id].spoiled
  BY <1>1, <1>2 DEF can_mutate_state
<1>7. UNCHANGED <<registered_num_ballots, buffered_external_id, record, recorded>>
  BY DEF coordinatorVars, clientVars
<1> QED
  BY <1>2, <1>4, <1>5, <1>6, <1>7 DEF Marks

LEMMA FreeFrees ==
  ASSUME Voting_Coordinator_free, EndOfLife, coordinator # NULL
  PROVE  Frees \/ Leaves
BY DEF Voting_Coordinator_free, EndOfLife, Frees, Leaves, Voting_Coordinator_clear_buffer,
       Ballot_Collection_free, boxVars

\* Every step, as long as no freed entry is in the table before and after it.
LEMMA WholeSteps ==
  ASSUME TypeOK, Held, [Next]_vars, ~dangling, ~dangling'
  PROVE  \/ \E id \in Ballots : Registers(id) \/ Marks(id)
         \/ Clears
         \/ stage = "export" /\ Exports
         \/ Frees
         \/ Leaves
<1>1. CASE \E n \in SelectionCounts : RecordBallots_first(n) \/ LoadBallots_first(n)
  BY <1>1 DEF RecordBallots_first, LoadBallots_first, Voting_Coordinator_new, boxVars, Leaves
<1>2. CASE (\E n \in SelectionCounts : RecordBallots_without_coordinator(n)) \/ ExportDies
  BY <1>2 DEF RecordBallots_without_coordinator, ExportDies, Restart, Frees
<1>3. CASE RecordBallots_again \/ NextStage \/ UNCHANGED vars
  BY <1>3 DEF RecordBallots_again, NextStage, Leaves, boxVars, coordinatorVars,
              clientVars, vars
<1>4. CASE RecordBallots_free \/ LoadBallots_free
  <2>1. Voting_Coordinator_free /\ EndOfLife /\ coordinator # NULL
    BY <1>4 DEF RecordBallots_free, LoadBallots_free, Held
  <2> QED
    BY <2>1, FreeFrees
<1>5. CASE \E id \in Ballots : RegisterDuplicate(id)
  BY <1>5 DEF RegisterDuplicate, Register_duplicate, FreeInPlace
<1>6. CASE \E id \in Ballots : CastBallot(id) \/ SpoilBallot(id)
  <2>1. PICK id \in Ballots : CastBallot(id) \/ SpoilBallot(id)
    BY <1>6
  <2>2. /\ \E cast \in BOOLEAN : Ballot_Collection_update(id, cast, ~cast)
        /\ UNCHANGED <<coordinatorVars, clientVars>>
    <3>1. ~TRUE = FALSE /\ ~FALSE = TRUE
      OBVIOUS
    <3> QED
      BY <2>1, <3>1 DEF CastBallot, SpoilBallot, Voting_Coordinator_cast_ballot,
                  Voting_Coordinator_spoil_ballot, Ballot_Collection_mark_cast,
                  Ballot_Collection_mark_spoiled
  <2> QED
    BY <2>2, UpdateMarks
<1>7. CASE \E id \in Ballots : CastOrSpoilRefused(id)
  BY <1>7 DEF CastOrSpoilRefused, RecordBallots_fails, Voting_Coordinator_clear_buffer,
              boxVars, Clears
<1>8. CASE \E id \in Ballots, message \in SelectionCounts \union {0} :
             RegisterBallot(id, message)
  BY <1>8, RegisterRegisters
<1>9. CASE \E id \in Ballots, message \in SelectionCounts \union {0} :
             RegisterRefused(id, message)
  BY <1>9 DEF RegisterRefused, RecordBallots_fails, Voting_Coordinator_clear_buffer,
              boxVars, Clears
<1>10. CASE \E n \in 0 .. Len(buffered_external_id) : ExportBallots(n)
  BY <1>10 DEF ExportBallots, Voting_Coordinator_clear_buffer, boxVars, Exports
<1>11. CASE ExportRefused
  BY <1>11 DEF ExportRefused, RecordBallots_fails, Voting_Coordinator_clear_buffer,
               boxVars, Clears
<1> QED
  BY <1>1, <1>2, <1>3, <1>4, <1>5, <1>6, <1>7, <1>8, <1>9, <1>10, <1>11 DEF Next

\* Freed memory leaves the table only with the table.
LEMMA Recovers ==
  ASSUME Held, [Next]_vars, dangling, ~dangling'
  PROVE  Frees
<1>1. CASE (\E n \in SelectionCounts : RecordBallots_without_coordinator(n)) \/ ExportDies
  BY <1>1 DEF RecordBallots_without_coordinator, ExportDies, Restart, Frees
<1>2. CASE RecordBallots_free \/ LoadBallots_free
  <2>1. Voting_Coordinator_free /\ EndOfLife /\ coordinator # NULL
    BY <1>2 DEF RecordBallots_free, LoadBallots_free, Held
  <2>2. ~UNCHANGED boxVars
    BY DEF boxVars
  <2> QED
    BY <2>1, <2>2 DEF Voting_Coordinator_free, EndOfLife, Frees,
                      Voting_Coordinator_clear_buffer, Ballot_Collection_free
<1>3. ASSUME dangling' = dangling PROVE FALSE
  BY <1>3
<1>4. CASE \E n \in SelectionCounts : RecordBallots_first(n) \/ LoadBallots_first(n)
  BY <1>3, <1>4 DEF RecordBallots_first, LoadBallots_first, Voting_Coordinator_new, boxVars
<1>5. CASE RecordBallots_again \/ NextStage \/ UNCHANGED vars
  BY <1>3, <1>5 DEF RecordBallots_again, NextStage, boxVars, vars
<1>6. CASE \E id \in Ballots : RegisterDuplicate(id)
  BY <1>6 DEF RegisterDuplicate, Register_duplicate, FreeInPlace
<1>7. CASE \E id \in Ballots : CastBallot(id) \/ SpoilBallot(id)
  BY <1>3, <1>7 DEF CastBallot, SpoilBallot, Voting_Coordinator_cast_ballot,
                    Voting_Coordinator_spoil_ballot, Ballot_Collection_mark_cast,
                    Ballot_Collection_mark_spoiled, Ballot_Collection_update
<1>8. CASE \E id \in Ballots : CastOrSpoilRefused(id)
  BY <1>3, <1>8 DEF CastOrSpoilRefused, boxVars
<1>9. CASE \E id \in Ballots, message \in SelectionCounts \union {0} :
             RegisterBallot(id, message) \/ RegisterRefused(id, message)
  BY <1>3, <1>9 DEF RegisterBallot, Voting_Coordinator_register_ballot, RegisterRefused,
                    boxVars
<1>10. CASE ExportRefused \/ \E n \in 0 .. Len(buffered_external_id) : ExportBallots(n)
  BY <1>3, <1>10 DEF ExportBallots, ExportRefused, boxVars
<1> QED
  BY <1>1, <1>2, <1>4, <1>5, <1>6, <1>7, <1>8, <1>9, <1>10 DEF Next

\* A mark is final as long as the coordinator lives and its table is whole.
LEMMA FinalStep ==
  ASSUME TypeOK, Held, [Next]_vars, NEW id \in DOMAIN ballot_box,
         ~dangling', coordinator' # NULL,
         ballot_box[id].cast \/ ballot_box[id].spoiled
  PROVE  id \in DOMAIN ballot_box' /\ ballot_box'[id] = ballot_box[id]
<1>1. ~dangling
  BY Recovers DEF Frees
<1>2. CASE \E b \in Ballots : Registers(b) \/ Marks(b)
  BY <1>2 DEF Registers, Marks
<1>3. CASE Clears \/ Exports \/ Leaves
  BY <1>3 DEF Clears, Exports, Leaves
<1> QED
  BY <1>1, <1>2, <1>3, WholeSteps DEF Frees

\* A cast or spoiled ballot keeps its state through every batch and every call that
\* fails: the library offers no way to change a voter's decision.
THEOREM BallotsAlwaysFinal == Spec => BallotsAreFinal
<1>1. TypeOK /\ Held /\ [Next]_vars =>
        \A id \in DOMAIN ballot_box :
          /\ ~dangling' /\ coordinator' # NULL
          /\ ballot_box[id].cast \/ ballot_box[id].spoiled
          => id \in DOMAIN ballot_box' /\ ballot_box'[id] = ballot_box[id]
  BY FinalStep
<1>2. TypeOK /\ Held /\ [Next]_vars =>
        [\A id \in DOMAIN ballot_box :
          /\ ~dangling' /\ coordinator' # NULL
          /\ ballot_box[id].cast \/ ballot_box[id].spoiled
          => id \in DOMAIN ballot_box' /\ ballot_box'[id] = ballot_box[id]]_vars
  BY <1>1
<1> QED
  BY <1>2, InitTypeOK, InitHeld, NextTypeOK, NextHeld, PTL DEF Spec, BallotsAreFinal

\* What a whole table, the buffer and the record have to do with each other.
BoxCounted ==
  /\ registered_num_ballots = Cardinality(DOMAIN ballot_box)
  /\ \A b \in DOMAIN ballot_box :
       ballot_box[b].registered_index \in 0 .. registered_num_ballots - 1

BufferOnce ==
  /\ \A i \in DOMAIN buffered_external_id :
       /\ buffered_external_id[i] \in DOMAIN ballot_box
       /\ buffered_external_id[i] \notin recorded
  /\ \A i, j \in DOMAIN buffered_external_id :
       buffered_external_id[i] = buffered_external_id[j] => i = j
  /\ recorded \subseteq DOMAIN ballot_box

RecordComplete ==
  /\ record.header <= registered_num_ballots
  /\ Readable(record) =>
       /\ LinesOf(record) =
            {id \in DOMAIN ballot_box : ballot_box[id].registered_index < record.header}
       /\ Cardinality(LinesOf(record)) = record.header
       /\ \A i \in DOMAIN record.ballots :
            record.ballots[i].cast => ballot_box[record.ballots[i].id].cast

RecordInv == ~dangling => BoxCounted /\ BufferOnce /\ RecordComplete

LEMMA FreshInv ==
  /\ Init => RecordInv
  /\ Frees => RecordInv'
<1>1. /\ NoRecord.header = 0 /\ DOMAIN NoRecord.ballots = {} /\ LinesOf(NoRecord) = {}
      /\ DOMAIN NoBallots = {}
  BY DEF NoRecord, LinesOf, NoBallots
<1>2. Cardinality({}) = 0
  BY FS_EmptySet
<1>3. ASSUME Init PROVE RecordInv
  <2>1. /\ ballot_box = NoBallots /\ registered_num_ballots = 0
        /\ buffered_external_id = <<>> /\ record = NoRecord /\ recorded = {}
    BY <1>3 DEF Init, CoordinatorInit, CollectionInit
  <2>2. BoxCounted /\ BufferOnce
    BY <1>1, <1>2, <2>1 DEF BoxCounted, BufferOnce
  <2>3. RecordComplete
    BY <1>1, <1>2, <2>1 DEF RecordComplete
  <2> QED
    BY <2>2, <2>3 DEF RecordInv
<1>4. ASSUME Frees PROVE RecordInv'
  <2>1. BoxCounted' /\ BufferOnce'
    BY <1>1, <1>2, <1>4 DEF Frees, BoxCounted, BufferOnce
  <2>2. /\ record'.header = 0 /\ DOMAIN record'.ballots = {} /\ LinesOf(record') = {}
        /\ DOMAIN ballot_box' = {} /\ registered_num_ballots' = 0
    BY <1>1, <1>4 DEF Frees
  <2>3. RecordComplete'
    BY <1>2, <2>2 DEF RecordComplete
  <2> QED
    BY <2>1, <2>3 DEF RecordInv
<1> QED
  BY <1>3, <1>4

LEMMA BoxCountedStep ==
  ASSUME TypeOK, BoxCounted,
         \/ \E id \in Ballots : Registers(id) \/ Marks(id)
         \/ Clears \/ Exports \/ Leaves
  PROVE  BoxCounted'
<1>1. ASSUME NEW id \in Ballots, Registers(id) PROVE BoxCounted'
  <2>1. IsFiniteSet(DOMAIN ballot_box)
    BY BallotsAssumption, FS_Subset DEF TypeOK
  <2>2. /\ DOMAIN ballot_box' = DOMAIN ballot_box \cup {id}
        /\ id \notin DOMAIN ballot_box
        /\ registered_num_ballots' = registered_num_ballots + 1
    BY <1>1 DEF Registers
  <2>3. registered_num_ballots' = Cardinality(DOMAIN ballot_box')
    BY <2>1, <2>2, FS_AddElement DEF BoxCounted
  <2>4. registered_num_ballots \in Nat
    BY <2>1, FS_CardinalityType DEF BoxCounted
  <2>5. \A b \in DOMAIN ballot_box' :
          ballot_box'[b].registered_index \in 0 .. registered_num_ballots' - 1
    BY <1>1, <2>2, <2>4 DEF Registers, BoxCounted
  <2> QED
    BY <2>3, <2>5 DEF BoxCounted
<1>2. ASSUME NEW id \in Ballots, Marks(id) PROVE BoxCounted'
  BY <1>2 DEF Marks, BoxCounted
<1>3. CASE Clears \/ Exports \/ Leaves
  BY <1>3 DEF Clears, Exports, Leaves, BoxCounted
<1> QED
  BY <1>1, <1>2, <1>3

\* What an export writes: lines for the first ballots of the buffer.
LEMMA ExportWrites ==
  ASSUME TypeOK, ~dangling, BoxCounted, BufferOnce, Exports
  PROVE  \E n \in 0 .. Len(buffered_external_id) :
           /\ record'.header = registered_num_ballots
           /\ DOMAIN record'.ballots = 1 .. n
           /\ Len(record'.ballots) = n
           /\ \A i \in 1 .. n :
                /\ record'.ballots[i].id = buffered_external_id[i]
                /\ record'.ballots[i].cast = ballot_box[buffered_external_id[i]].cast
           /\ LinesOf(record') = {buffered_external_id[i] : i \in 1 .. n}
<1>0. PICK n \in 0 .. Len(buffered_external_id) : record' \in ExportedRecords(n)
  BY DEF Exports
<1>1. PICK cast \in {c \in [1 .. n -> BOOLEAN] :
                       \A i \in 1 .. n : c[i] \in CastFlags(buffered_external_id[i])} :
        record' = [header |-> Header,
                   ballots |-> [i \in 1 .. n |-> [id |-> buffered_external_id[i],
                                                  cast |-> cast[i]]]]
  BY <1>0 DEF ExportedRecords
<1>2. n \in Nat
  BY DEF TypeOK
<1>3. /\ record'.header = registered_num_ballots
      /\ DOMAIN record'.ballots = 1 .. n
      /\ \A i \in 1 .. n : /\ record'.ballots[i].id = buffered_external_id[i]
                           /\ record'.ballots[i].cast = cast[i]
  BY <1>1 DEF Header
<1>4. Len(record'.ballots) = n
  BY <1>1, <1>2
<1>5. ASSUME NEW i \in 1 .. n PROVE cast[i] = ballot_box[buffered_external_id[i]].cast
  <2>1. PICK state \in Ballot_Collection_get_ballot(buffered_external_id[i]) :
          cast[i] = state.cast
    BY <1>1 DEF CastFlags
  <2>2. state = ballot_box[buffered_external_id[i]]
    BY <2>1, Lookups
  <2> QED
    BY <2>1, <2>2
<1>6. LinesOf(record') = {buffered_external_id[i] : i \in 1 .. n}
  BY <1>3 DEF LinesOf
<1> QED
  BY <1>3, <1>4, <1>5, <1>6

LEMMA BufferOnceStep ==
  ASSUME TypeOK, ~dangling, BoxCounted, BufferOnce,
         \/ \E id \in Ballots : Registers(id) \/ Marks(id)
         \/ Clears \/ Exports \/ Leaves
  PROVE  BufferOnce'
<1>1. ASSUME NEW id \in Ballots, Registers(id) PROVE BufferOnce'
  <2>1. /\ buffered_external_id \in Seq(Ballots)
        /\ buffered_external_id' = Append(buffered_external_id, id)
        /\ DOMAIN ballot_box' = DOMAIN ballot_box \cup {id}
        /\ id \notin DOMAIN ballot_box
        /\ recorded' = recorded
    BY <1>1 DEF TypeOK, Registers
  <2>2. /\ DOMAIN buffered_external_id' = 1 .. Len(buffered_external_id) + 1
        /\ \A i \in DOMAIN buffered_external_id' :
             \/ i = Len(buffered_external_id) + 1 /\ buffered_external_id'[i] = id
             \/ /\ i \in DOMAIN buffered_external_id
                /\ buffered_external_id'[i] = buffered_external_id[i]
    BY <2>1
  <2> QED
    BY <2>1, <2>2 DEF BufferOnce
<1>2. ASSUME NEW id \in Ballots, Marks(id) PROVE BufferOnce'
  BY <1>2 DEF Marks, BufferOnce
<1>3. CASE Clears \/ Leaves
  BY <1>3 DEF Clears, Leaves, BufferOnce
<1>4. CASE Exports
  <2>1. LinesOf(record') \subseteq DOMAIN ballot_box
    BY <1>4, ExportWrites DEF BufferOnce, TypeOK
  <2>2. /\ buffered_external_id' = <<>> /\ recorded' = recorded \union LinesOf(record')
        /\ ballot_box' = ballot_box
    BY <1>4 DEF Exports
  <2> QED
    BY <2>1, <2>2 DEF BufferOnce
<1> QED
  BY <1>1, <1>2, <1>3, <1>4

\* An export whose lines are as many as its header says has a line for every ballot
\* of the box: the lines are of different ballots.
LEMMA ExportListsAll ==
  ASSUME TypeOK, BoxCounted, BufferOnce, NEW n \in 0 .. Len(buffered_external_id),
         n = registered_num_ballots
  PROVE  /\ {buffered_external_id[i] : i \in 1 .. n} = DOMAIN ballot_box
         /\ Cardinality(DOMAIN ballot_box) = n
<1> DEFINE f == [i \in 1 .. n |-> buffered_external_id[i]]
<1>1. n \in Nat /\ \A i \in 1 .. n : i \in DOMAIN buffered_external_id
  BY DEF TypeOK
<1>2. f \in Injection(1 .. n, DOMAIN ballot_box)
  BY <1>1 DEF BufferOnce, Injection, IsInjective
<1>3. IsFiniteSet(DOMAIN ballot_box) /\ Cardinality(DOMAIN ballot_box) = n
  BY BallotsAssumption, FS_Subset DEF TypeOK, BoxCounted
<1>4. Cardinality(1 .. n) = n
  BY <1>1, FS_Interval
<1>5. f \in Surjection(1 .. n, DOMAIN ballot_box)
  BY <1>2, <1>3, <1>4, FS_Injection
<1>6. \A i \in 1 .. n : f[i] = buffered_external_id[i]
  OBVIOUS
<1> HIDE DEF f
<1>7. {f[i] : i \in 1 .. n} = DOMAIN ballot_box
  BY ONLY <1>5 DEF Surjection
<1> QED
  BY <1>3, <1>6, <1>7

\* A record whose lines are as many as its header says, just written.
LEMMA ExportComplete ==
  ASSUME TypeOK, ~dangling, BoxCounted, BufferOnce, Exports
  PROVE  RecordComplete'
<1>1. PICK n \in 0 .. Len(buffered_external_id) :
        /\ record'.header = registered_num_ballots
        /\ DOMAIN record'.ballots = 1 .. n
        /\ Len(record'.ballots) = n
        /\ \A i \in 1 .. n :
             /\ record'.ballots[i].id = buffered_external_id[i]
             /\ record'.ballots[i].cast = ballot_box[buffered_external_id[i]].cast
        /\ LinesOf(record') = {buffered_external_id[i] : i \in 1 .. n}
  BY ExportWrites
<1>2. ballot_box' = ballot_box /\ registered_num_ballots' = registered_num_ballots
  BY DEF Exports
<1>3. record'.header <= registered_num_ballots'
  BY <1>1, <1>2 DEF TypeOK
<1>4. ASSUME Readable(record')
      PROVE  /\ LinesOf(record') = DOMAIN ballot_box
             /\ Cardinality(LinesOf(record')) = record'.header
  BY <1>1, <1>4, ExportListsAll DEF Readable
<1>5. DOMAIN ballot_box = {id \in DOMAIN ballot_box' :
                             ballot_box'[id].registered_index < record'.header}
  <2>1. /\ registered_num_ballots \in Int
        /\ record'.header = registered_num_ballots
        /\ ballot_box' = ballot_box
    BY <1>1, <1>2 DEF TypeOK
  <2>2. \A id \in DOMAIN ballot_box : ballot_box[id].registered_index < registered_num_ballots
    BY ONLY <2>1, BoxCounted DEF BoxCounted
  <2> QED
    BY ONLY <2>1, <2>2
<1>6. \A i \in DOMAIN record'.ballots :
        record'.ballots[i].cast => ballot_box'[record'.ballots[i].id].cast
  BY <1>1, <1>2
<1>7. Readable(record') =>
        /\ LinesOf(record') = {id \in DOMAIN ballot_box' :
                                 ballot_box'[id].registered_index < record'.header}
        /\ Cardinality(LinesOf(record')) = record'.header
        /\ \A i \in DOMAIN record'.ballots :
             record'.ballots[i].cast => ballot_box'[record'.ballots[i].id].cast
  BY ONLY <1>4, <1>5, <1>6
<1> QED
  BY ONLY <1>3, <1>7 DEF RecordComplete

\* Later registrations have higher indices, and a mark takes no cast mark away.
LEMMA RecordCompleteStep ==
  ASSUME TypeOK, ~dangling, BoxCounted, BufferOnce, RecordComplete,
         \/ \E id \in Ballots : Registers(id) \/ Marks(id)
         \/ Clears \/ Exports \/ Leaves
  PROVE  RecordComplete'
<1>1. ASSUME Readable(record), NEW i \in DOMAIN record.ballots
      PROVE  record.ballots[i].id \in DOMAIN ballot_box
  BY <1>1 DEF RecordComplete, LinesOf
<1>2. ASSUME NEW id \in Ballots, Registers(id) PROVE RecordComplete'
  <2>1. /\ record' = record
        /\ id \notin DOMAIN ballot_box
        /\ DOMAIN ballot_box' = DOMAIN ballot_box \cup {id}
        /\ ballot_box'[id].registered_index = registered_num_ballots
        /\ \A b \in DOMAIN ballot_box : ballot_box'[b] = ballot_box[b]
        /\ registered_num_ballots' = registered_num_ballots + 1
    BY <1>2 DEF Registers
  <2>2. record.header \in Nat /\ registered_num_ballots \in Nat
    BY DEF TypeOK
  <2>3. record.header <= registered_num_ballots
    BY DEF RecordComplete
  <2>4. record'.header <= registered_num_ballots'
    BY <2>1, <2>2, <2>3
  <2>5. {b \in DOMAIN ballot_box' : ballot_box'[b].registered_index < record'.header}
          = {b \in DOMAIN ballot_box : ballot_box[b].registered_index < record.header}
    BY <2>1, <2>2, <2>3
  <2>6. ASSUME Readable(record), NEW i \in DOMAIN record.ballots, record.ballots[i].cast
        PROVE  ballot_box'[record.ballots[i].id].cast
    BY <1>1, <2>1, <2>6 DEF RecordComplete
  <2> QED
    BY <2>1, <2>4, <2>5, <2>6 DEF RecordComplete
<1>3. ASSUME NEW id \in Ballots, Marks(id) PROVE RecordComplete'
  <2>1. /\ record' = record
        /\ ~ballot_box[id].cast
        /\ DOMAIN ballot_box' = DOMAIN ballot_box
        /\ ballot_box'[id].registered_index = ballot_box[id].registered_index
        /\ \A b \in DOMAIN ballot_box : b # id => ballot_box'[b] = ballot_box[b]
        /\ registered_num_ballots' = registered_num_ballots
    BY <1>3 DEF Marks
  <2>2. {b \in DOMAIN ballot_box' : ballot_box'[b].registered_index < record'.header}
          = {b \in DOMAIN ballot_box : ballot_box[b].registered_index < record.header}
    BY <2>1
  <2>3. ASSUME Readable(record), NEW i \in DOMAIN record.ballots, record.ballots[i].cast
        PROVE  ballot_box'[record.ballots[i].id].cast
    BY <1>1, <2>1, <2>3 DEF RecordComplete
  <2> QED
    BY <2>1, <2>2, <2>3 DEF RecordComplete
<1>4. CASE Clears \/ Leaves
  BY <1>4 DEF Clears, Leaves, RecordComplete
<1>5. CASE Exports
  BY <1>5, ExportComplete
<1> QED
  BY <1>2, <1>3, <1>4, <1>5

LEMMA NextRecordInv == TypeOK /\ Held /\ RecordInv /\ [Next]_vars => RecordInv'
<1> SUFFICES ASSUME TypeOK, Held, RecordInv, [Next]_vars, ~dangling' PROVE RecordInv'
  BY DEF RecordInv
<1>1. CASE dangling
  BY <1>1, Recovers, FreshInv
<1>2. CASE ~dangling
  <2>1. BoxCounted /\ BufferOnce /\ RecordComplete
    BY <1>2 DEF RecordInv
  <2>2. CASE Frees
    BY <2>2, FreshInv
  <2>3. CASE \/ \E id \in Ballots : Registers(id) \/ Marks(id)
             \/ Clears \/ Exports \/ Leaves
    BY <1>2, <2>1, <2>3, BoxCountedStep, BufferOnceStep, RecordCompleteStep DEF RecordInv
  <2> QED
    BY <1>2, <2>2, <2>3, WholeSteps
<1> QED
  BY <1>1, <1>2

\* A record that the trustees can read to its end has every ballot registered
\* before it was exported, on one line each, and casts none that is not cast:
\* whatever batches failed before it and whatever was cut off the file.
THEOREM ReadableRecordAlwaysComplete == Spec => []ReadableRecordIsComplete
<1>1. RecordInv => ReadableRecordIsComplete
  BY DEF RecordInv, RecordComplete, ReadableRecordIsComplete
<1> QED
  BY <1>1, FreshInv, InitTypeOK, InitHeld, NextTypeOK, NextHeld, NextRecordInv, PTL DEF Spec

\* Of the steps of an export only the one that writes the record reports success.
LEMMA ExportStep ==
  ASSUME [Next]_vars, stage = "export", ok'
  PROVE  Exports \/ UNCHANGED vars
<1>1. ASSUME NEW n \in 0 .. Len(buffered_external_id), ExportBallots(n) PROVE Exports
  BY <1>1 DEF ExportBallots, Voting_Coordinator_clear_buffer, boxVars, Exports
<1>2. ~ExportRefused /\ ~ExportDies
  BY DEF ExportRefused, RecordBallots_fails, ExportDies, Restart
<1>3. ~\E n \in SelectionCounts : \/ RecordBallots_first(n)
                                  \/ RecordBallots_without_coordinator(n)
                                  \/ LoadBallots_first(n)
  BY DEF RecordBallots_first, RecordBallots_without_coordinator, LoadBallots_first
<1>4. ~RecordBallots_again /\ ~RecordBallots_free /\ ~LoadBallots_free /\ ~NextStage
  BY DEF RecordBallots_again, RecordBallots_free, LoadBallots_free, NextStage, After
<1>5. \A id, message : /\ ~RegisterDuplicate(id) /\ ~CastBallot(id) /\ ~SpoilBallot(id)
                       /\ ~CastOrSpoilRefused(id)
                       /\ ~RegisterBallot(id, message) /\ ~RegisterRefused(id, message)
  BY DEF RegisterDuplicate, CastBallot, SpoilBallot, CastOrSpoilRefused,
         RegisterBallot, RegisterRefused
<1> QED
  BY <1>1, <1>2, <1>3, <1>4, <1>5 DEF Next

\* No two exports in the life of a coordinator write the same ballot.
THEOREM NeverRecordedTwiceHolds == Spec => NeverRecordedTwice
<1>1. ASSUME TypeOK, Held, RecordInv, [Next]_vars, stage = "export", ok', ~dangling
      PROVE  LinesOf(record') \intersect recorded = {} \/ UNCHANGED vars
  <2>1. BoxCounted /\ BufferOnce
    BY <1>1 DEF RecordInv
  <2>2. CASE Exports
    BY <1>1, <2>1, <2>2, ExportWrites DEF BufferOnce, TypeOK
  <2> QED
    BY <1>1, <2>2, ExportStep
<1> QED
  BY <1>1, FreshInv, InitTypeOK, InitHeld, NextTypeOK, NextHeld, NextRecordInv, PTL
     DEF Spec, NeverRecordedTwice

------------------------------------------------------------------------------
(* The coordinator implements BallotBox.                                   *)

\* Nothing is tracked of a table with freed memory in it.
VoidInv == dangling => ballot_box = NoBallots

LEMMA NextVoidInv == TypeOK /\ VoidInv /\ [Next]_vars => VoidInv'
<1> SUFFICES ASSUME TypeOK, VoidInv, [Next]_vars, dangling' PROVE ballot_box' = NoBallots
  BY DEF VoidInv
<1>1. ASSUME UNCHANGED boxVars PROVE ballot_box' = NoBallots
  BY <1>1 DEF VoidInv, boxVars
<1>2. ASSUME dangling' = dangling, NEW id, NEW state, Put(id, state)
      PROVE  ballot_box' = NoBallots
  BY <1>2 DEF VoidInv, Put
<1>3. CASE (\E n \in SelectionCounts : RecordBallots_without_coordinator(n)) \/ ExportDies
  BY <1>3 DEF RecordBallots_without_coordinator, ExportDies, Restart
<1>4. CASE RecordBallots_free \/ LoadBallots_free
  BY <1>1, <1>4 DEF RecordBallots_free, LoadBallots_free, Voting_Coordinator_free,
                    Ballot_Collection_free
<1>5. CASE \E n \in SelectionCounts : RecordBallots_first(n) \/ LoadBallots_first(n)
  BY <1>1, <1>5 DEF RecordBallots_first, LoadBallots_first, Voting_Coordinator_new, boxVars
<1>6. CASE RecordBallots_again \/ NextStage \/ UNCHANGED vars
  BY <1>1, <1>6 DEF RecordBallots_again, NextStage, boxVars, vars
<1>7. CASE \E id \in Ballots : RegisterDuplicate(id)
  BY <1>7 DEF RegisterDuplicate, Register_duplicate, FreeInPlace
<1>8. CASE \E id \in Ballots : CastBallot(id) \/ SpoilBallot(id)
  BY <1>2, <1>8 DEF CastBallot, SpoilBallot, Voting_Coordinator_cast_ballot,
                    Voting_Coordinator_spoil_ballot, Ballot_Collection_mark_cast,
                    Ballot_Collection_mark_spoiled, Ballot_Collection_update
<1>9. CASE \/ \E id \in Ballots : CastOrSpoilRefused(id)
           \/ \E id \in Ballots, message \in SelectionCounts \union {0} :
                RegisterRefused(id, message)
  BY <1>1, <1>9 DEF CastOrSpoilRefused, RegisterRefused
<1>10. CASE \E id \in Ballots, message \in SelectionCounts \union {0} :
              RegisterBallot(id, message)
  BY <1>2, <1>10 DEF RegisterBallot, Voting_Coordinator_register_ballot,
                     Ballot_Collection_register_ballot
<1>11. CASE ExportRefused \/ \E n \in 0 .. Len(buffered_external_id) : ExportBallots(n)
  BY <1>1, <1>11 DEF ExportBallots, ExportRefused
<1> QED
  BY <1>3, <1>4, <1>5, <1>6, <1>7, <1>8, <1>9, <1>10, <1>11 DEF Next

\* Only registering a ballot of the box again leaves freed memory in the table.
LEMMA Voids ==
  ASSUME [Next]_vars, ~dangling, dangling'
  PROVE  /\ Ballots \intersect DOMAIN ballot_box # {}
         /\ ballot_box' = NoBallots /\ record' = record
<1>1. ASSUME dangling' = dangling PROVE FALSE
  BY <1>1
<1>2. CASE \E id \in Ballots : RegisterDuplicate(id)
  <2>1. PICK id \in Ballots : RegisterDuplicate(id)
    BY <1>2
  <2>2. id \in DOMAIN ballot_box
    BY <2>1, Lookups DEF RegisterDuplicate, Register_duplicate
  <2> QED
    BY <2>1, <2>2 DEF RegisterDuplicate, Register_duplicate, FreeInPlace, RecordBallots_fails
<1>3. CASE (\E n \in SelectionCounts : RecordBallots_without_coordinator(n)) \/ ExportDies
  BY <1>3 DEF RecordBallots_without_coordinator, ExportDies, Restart
<1>4. CASE RecordBallots_free \/ LoadBallots_free
  BY <1>1, <1>4 DEF RecordBallots_free, LoadBallots_free, Voting_Coordinator_free,
                    Ballot_Collection_free, boxVars
<1>5. CASE \E n \in SelectionCounts : RecordBallots_first(n) \/ LoadBallots_first(n)
  BY <1>1, <1>5 DEF RecordBallots_first, LoadBallots_first, Voting_Coordinator_new, boxVars
<1>6. CASE RecordBallots_again \/ NextStage \/ UNCHANGED vars
  BY <1>1, <1>6 DEF RecordBallots_again, NextStage, boxVars, vars
<1>7. CASE \E id \in Ballots : CastBallot(id) \/ SpoilBallot(id)
  BY <1>1, <1>7 DEF CastBallot, SpoilBallot, Voting_Coordinator_cast_ballot,
                    Voting_Coordinator_spoil_ballot, Ballot_Collection_mark_cast,
                    Ballot_Collection_mark_spoiled, Ballot_Collection_update
<1>8. CASE \/ \E id \in Ballots : CastOrSpoilRefused(id)
           \/ \E id \in Ballots, message \in SelectionCounts \union {0} :
                RegisterBallot(id, message) \/ RegisterRefused(id, message)
  BY <1>1, <1>8 DEF CastOrSpoilRefused, RegisterRefused, RegisterBallot,
                    Voting_Coordinator_register_ballot, boxVars
<1>9. CASE ExportRefused \/ \E n \in 0 .. Len(buffered_external_id) : ExportBallots(n)
  BY <1>1, <1>9 DEF ExportBallots, ExportRefused, boxVars
<1> QED
  BY <1>2, <1>3, <1>4, <1>5, <1>6, <1>7, <1>8, <1>9 DEF Next

\* The marks of the box, as the abstract box has them.
CastIn(box) == {b \in DOMAIN box : box[b].cast}
SpoiledIn(box) == {b \in DOMAIN box : box[b].spoiled}

LEMMA EmptyBoxIsEmpty ==
  /\ DOMAIN NoBallots = {} /\ CastIn(NoBallots) = {} /\ SpoiledIn(NoBallots) = {}
  /\ Shown(NoRecord) = {Box!Empty}
<1>1. DOMAIN NoBallots = {} /\ CastIn(NoBallots) = {} /\ SpoiledIn(NoBallots) = {}
  BY DEF NoBallots, CastIn, SpoiledIn
<1>2. /\ Readable(NoRecord) /\ LinesOf(NoRecord) = {} /\ DOMAIN NoRecord.ballots = {}
  BY DEF NoRecord, Readable, LinesOf
<1> QED
  BY <1>1, <1>2 DEF Shown, Box!Empty

LEMMA InitBox == Init => Box!Init
BY EmptyBoxIsEmpty DEF Init, CoordinatorInit, CollectionInit, Box!Init, CastIn, SpoiledIn

LEMMA FreesSetsUp == Frees /\ ~dangling' /\ dangling' \in BOOLEAN => Box!SetUp
BY EmptyBoxIsEmpty DEF Frees, Box!SetUp, CastIn, SpoiledIn

\* What a record with the right lines shows.
LEMMA ExportPublishes ==
  ASSUME TypeOK, ~dangling, dangling' = dangling, BoxCounted, BufferOnce, Exports
  PROVE  Box!Publish
<1>1. PICK n \in 0 .. Len(buffered_external_id) :
        /\ record'.header = registered_num_ballots
        /\ DOMAIN record'.ballots = 1 .. n
        /\ Len(record'.ballots) = n
        /\ \A i \in 1 .. n :
             /\ record'.ballots[i].id = buffered_external_id[i]
             /\ record'.ballots[i].cast = ballot_box[buffered_external_id[i]].cast
        /\ LinesOf(record') = {buffered_external_id[i] : i \in 1 .. n}
  BY ExportWrites
<1>2. ballot_box' = ballot_box
  BY DEF Exports
<1> DEFINE marked == {record'.ballots[i].id :
                        i \in {j \in DOMAIN record'.ballots : record'.ballots[j].cast}}
<1>3. ASSUME Readable(record')
      PROVE  LinesOf(record') = DOMAIN ballot_box /\ marked = CastIn(ballot_box)
  <2>1. {buffered_external_id[i] : i \in 1 .. n} = DOMAIN ballot_box
    BY <1>1, <1>3, ExportListsAll DEF Readable
  <2>2. marked = {buffered_external_id[i] :
                    i \in {j \in 1 .. n : ballot_box[buffered_external_id[j]].cast}}
    BY <1>1
  <2> HIDE DEF marked
  <2>3. marked = CastIn(ballot_box)
    BY ONLY <2>1, <2>2 DEF CastIn
  <2> QED
    BY <1>1, <2>1, <2>3
<1>4. Shown(record') = IF Readable(record')
                       THEN {[ballots |-> LinesOf(record'), cast |-> marked]}
                       ELSE {}
  BY DEF Shown
<1> HIDE DEF marked
<1>5. Shown(record') \in {{[ballots |-> DOMAIN ballot_box, cast |-> CastIn(ballot_box)]}, {}}
  BY <1>3, <1>4
<1> QED
  BY <1>2, <1>5 DEF Box!Publish, CastIn

\* A record of lines of ballots, whatever its lines.
ShowsBallots == Shown(record) = {} \/ \E r \in Box!Record : Shown(record) = {r}

LEMMA ShownIsRecord == TypeOK => ShowsBallots
<1> SUFFICES ASSUME TypeOK PROVE ShowsBallots
  OBVIOUS
<1> DEFINE r == [ballots |-> LinesOf(record),
                 cast |-> {record.ballots[i].id :
                             i \in {j \in DOMAIN record.ballots : record.ballots[j].cast}}]
<1>1. \A i \in DOMAIN record.ballots : record.ballots[i].id \in Ballots
  BY DEF TypeOK, Range, Line
<1>2. r \in Box!Record
  BY <1>1 DEF Box!Record, LinesOf
<1> QED
  BY <1>2 DEF Shown, ShowsBallots

LEMMA MarkDecides ==
  ASSUME TypeOK, NEW id \in Ballots, Marks(id), dangling' = dangling
  PROVE  Box!Cast(id) \/ Box!Spoil(id)
<1>1. /\ id \in DOMAIN ballot_box \ (CastIn(ballot_box) \union SpoiledIn(ballot_box))
      /\ DOMAIN ballot_box' = DOMAIN ballot_box
      /\ Shown(record') = Shown(record)
  BY DEF Marks, CastIn, SpoiledIn
<1>2. CASE ballot_box'[id].cast
  <2>1. /\ CastIn(ballot_box') = CastIn(ballot_box) \union {id}
        /\ SpoiledIn(ballot_box') = SpoiledIn(ballot_box)
    BY <1>2 DEF Marks, CastIn, SpoiledIn
  <2> QED
    BY <1>1, <2>1 DEF Box!Cast, CastIn, SpoiledIn
<1>3. CASE ~ballot_box'[id].cast
  <2>1. /\ CastIn(ballot_box') = CastIn(ballot_box)
        /\ SpoiledIn(ballot_box') = SpoiledIn(ballot_box) \union {id}
    BY <1>3 DEF Marks, CastIn, SpoiledIn
  <2> QED
    BY <1>1, <2>1 DEF Box!Spoil, CastIn, SpoiledIn
<1> QED
  BY <1>2, <1>3

LEMMA RegisterAdds ==
  ASSUME NEW id \in Ballots, Registers(id), ~dangling, dangling' = dangling
  PROVE  Box!Register(id)
<1>1. /\ id \notin DOMAIN ballot_box
      /\ DOMAIN ballot_box' = DOMAIN ballot_box \union {id}
      /\ Shown(record') = Shown(record)
  BY DEF Registers
<1>2. /\ CastIn(ballot_box') = CastIn(ballot_box)
      /\ SpoiledIn(ballot_box') = SpoiledIn(ballot_box)
  BY DEF Registers, CastIn, SpoiledIn
<1> QED
  BY <1>1, <1>2 DEF Box!Register, CastIn, SpoiledIn

\* Every step is one of the abstract box, or none.
LEMMA StepOfBox ==
  ASSUME TypeOK, TypeOK', Held, RecordInv, VoidInv, VoidInv', [Next]_vars
  PROVE  [Box!Next]_(Box!vars)
<1>0. dangling \in BOOLEAN /\ dangling' \in BOOLEAN
  BY DEF TypeOK
<1>1. CASE ~dangling /\ ~dangling'
  <2>1. BoxCounted /\ BufferOnce
    BY <1>1 DEF RecordInv
  <2>2. dangling' = dangling
    BY <1>0, <1>1
  <2>3. ASSUME NEW id \in Ballots, Registers(id) \/ Marks(id) PROVE Box!Next
    BY <1>1, <2>2, <2>3, RegisterAdds, MarkDecides DEF Box!Next
  <2>4. CASE Exports
    BY <1>1, <2>1, <2>2, <2>4, ExportPublishes DEF Box!Next
  <2>5. CASE Clears \/ Leaves
    BY <2>2, <2>5 DEF Clears, Leaves, Box!vars
  <2>6. CASE Frees
    BY <1>0, <1>1, <2>6, FreesSetsUp DEF Box!Next
  <2> QED
    BY <1>1, <2>3, <2>4, <2>5, <2>6, WholeSteps
<1>2. CASE dangling /\ ~dangling'
  BY <1>0, <1>2, Recovers, FreesSetsUp DEF Box!Next
<1>3. CASE ~dangling /\ dangling'
  <2>1. PICK id \in Ballots : id \in DOMAIN ballot_box
    BY <1>3, Voids
  <2>2. ballot_box' = NoBallots /\ record' = record /\ dangling' = TRUE
    BY <1>0, <1>3, Voids
  <2>3. Box!RegisterAgain(id)
    BY <2>1, <2>2, EmptyBoxIsEmpty DEF Box!RegisterAgain, CastIn, SpoiledIn
  <2> QED
    BY <2>3 DEF Box!Next
<1>4. CASE dangling /\ dangling'
  <2>1. ballot_box = NoBallots /\ ballot_box' = NoBallots /\ dangling' = dangling
    BY <1>0, <1>4 DEF VoidInv
  <2>2. ShowsBallots'
    BY ShownIsRecord, PTL
  <2>3. Box!PublishAnything
    BY <1>4, <2>1, <2>2 DEF Box!PublishAnything, ShowsBallots
  <2> QED
    BY <2>3 DEF Box!Next
<1> QED
  BY <1>1, <1>2, <1>3, <1>4

\* Recording in batches with a buffer and a file, through calls that fail and files
\* that are cut, is recording in one box: each ballot is decided once, and a record
\* that can be read shows the whole box with exactly the cast ballots as cast.
THEOREM VotingImplementsBallotBox == Spec => ImplementsBallotBox
<1>1. Init => VoidInv
  BY DEF Init, CoordinatorInit, CollectionInit, VoidInv
<1>2. /\ TypeOK /\ TypeOK' /\ Held /\ RecordInv /\ VoidInv /\ VoidInv' /\ [Next]_vars
      => [Box!Next]_(Box!vars)
  BY StepOfBox
<1> QED
  BY <1>1, <1>2, InitBox, FreshInv, InitTypeOK, InitHeld, NextTypeOK, NextHeld,
     NextRecordInv, NextVoidInv, PTL DEF Spec, ImplementsBallotBox, Box!Spec

===============================================================================
