--------------------------- MODULE BallotCollection ---------------------------
(***************************************************************************)
(* The ballot box: the hash table of ballot states by external identifier  *)
(* (src/electionguard/voting/ballot_collection.c).  Identifiers are        *)
(* strings the caller owns; they are taken to outlive the table, as the    *)
(* arrays handed to API_RecordBallots do.  The tracker of a ballot is a    *)
(* function of its message and is left out.                                *)
(***************************************************************************)
EXTENDS FiniteSets, Sequences, Functions, Integers

CONSTANTS
  Ballots,            \* external identifiers
  MAX_BALLOTS,        \* entries the ballot box holds at most
  MAX_BALLOT_PAYLOAD, \* ballots the coordinator buffers at most
  MaxRegistered       \* bound: registrations in the life of a coordinator; only
                      \* a table with freed memory in it has room for so many

ASSUME BallotsAssumption ==
  /\ IsFiniteSet(Ballots)
  /\ MAX_BALLOTS \in Nat \ {0}
  /\ MAX_BALLOT_PAYLOAD \in Nat \ {0}
  /\ MaxRegistered \in Nat
  /\ MaxRegistered >= MAX_BALLOTS

VARIABLES
  ballot_box,  \* the entries, a function on the identifiers that have one
  dangling     \* has an entry been freed and left in the table?

boxVars == <<ballot_box, dangling>>

BallotState == [registered : BOOLEAN, cast : BOOLEAN, spoiled : BOOLEAN,
                registered_index : 0 .. MaxRegistered - 1]

NoBallots == [b \in {} |-> {}]

CollectionInit ==
  /\ ballot_box = NoBallots
  /\ dangling = FALSE

\* The states a lookup of id may find.  Once the table links freed memory a
\* lookup reads what that memory holds by then: any state, or none.
Ballot_Collection_get_ballot(id) ==
  IF dangling THEN BallotState ELSE {ballot_box[b] : b \in {id} \intersect DOMAIN ballot_box}

NotFound(id) == dangling \/ Ballot_Collection_get_ballot(id) = {}

Ballot_Collection_size == Cardinality(DOMAIN ballot_box)

\* HASH_ADD_KEYPTR; what a table with freed memory in it holds is not tracked.
Put(id, state) ==
  ballot_box' = IF dangling THEN ballot_box
                ELSE [b \in {id} \union DOMAIN ballot_box |->
                        IF b = id THEN state ELSE ballot_box[b]]

\* free(existing_ballot) of an entry that stays linked in the table.
FreeInPlace ==
  /\ dangling' = TRUE
  /\ ballot_box' = NoBallots

Ballot_Collection_register_ballot(id, index) ==
  /\ NotFound(id)
  /\ Put(id, [registered |-> TRUE, cast |-> FALSE, spoiled |-> FALSE,
              registered_index |-> index])

\* A bug can_mutate_state could have: a spoiled ballot may be cast.
can_mutate_unless_cast(state) == state.registered /\ ~state.cast

\* Ballot_Collection_assert_can_mutate_state
can_mutate_state(state) == state.registered /\ ~state.cast /\ ~state.spoiled

Ballot_Collection_update(id, cast, spoiled) ==
  \E state \in Ballot_Collection_get_ballot(id) :
    /\ can_mutate_state(state)
    /\ Put(id, [state EXCEPT !.cast = cast, !.spoiled = spoiled])
    /\ UNCHANGED dangling

Ballot_Collection_mark_cast(id) == Ballot_Collection_update(id, TRUE, FALSE)
Ballot_Collection_mark_spoiled(id) == Ballot_Collection_update(id, FALSE, TRUE)

Ballot_Collection_update_may_fail(id) ==
  \/ NotFound(id)
  \/ \E state \in Ballot_Collection_get_ballot(id) : ~can_mutate_state(state)

Ballot_Collection_free ==
  /\ ballot_box' = NoBallots
  /\ dangling' = FALSE

==============================================================================
