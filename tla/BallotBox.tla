------------------------------- MODULE BallotBox -------------------------------
(***************************************************************************)
(* What recording ballots promises, with no batches, buffers or files: a   *)
(* ballot is registered once and then cast or spoiled, for good, and what  *)
(* is published is the box as it is at that moment, or plainly not to be   *)
(* read.  Registering a ballot a second time voids the box: from then on   *)
(* it is empty for ever and anything may be published, until a new box is  *)
(* set up.                                                                 *)
(***************************************************************************)
CONSTANT Ballot

VARIABLES
  registered,  \* the ballots in the box
  cast,        \* those of them that were cast
  spoiled,     \* those of them that were spoiled
  void,        \* was a ballot registered twice?
  published    \* what the record published last shows, {} if it cannot be read

vars == <<registered, cast, spoiled, void, published>>

Record == [ballots : SUBSET Ballot, cast : SUBSET Ballot]

Empty == [ballots |-> {}, cast |-> {}]

Init ==
  /\ registered = {} /\ cast = {} /\ spoiled = {}
  /\ void = FALSE
  /\ published = {Empty}

Register(b) ==
  /\ ~void /\ b \notin registered
  /\ registered' = registered \union {b}
  /\ UNCHANGED <<cast, spoiled, void, published>>

Cast(b) ==
  /\ b \in registered \ (cast \union spoiled)
  /\ cast' = cast \union {b}
  /\ UNCHANGED <<registered, spoiled, void, published>>

Spoil(b) ==
  /\ b \in registered \ (cast \union spoiled)
  /\ spoiled' = spoiled \union {b}
  /\ UNCHANGED <<registered, cast, void, published>>

Publish ==
  /\ ~void
  /\ published' \in {{[ballots |-> registered, cast |-> cast]}, {}}
  /\ UNCHANGED <<registered, cast, spoiled, void>>

RegisterAgain(b) ==
  /\ b \in registered
  /\ void' = TRUE
  /\ registered' = {} /\ cast' = {} /\ spoiled' = {}
  /\ UNCHANGED published

PublishAnything ==
  /\ void
  /\ \/ published' = {}
     \/ \E r \in Record : published' = {r}
  /\ UNCHANGED <<registered, cast, spoiled, void>>

SetUp ==
  /\ registered' = {} /\ cast' = {} /\ spoiled' = {}
  /\ void' = FALSE
  /\ published' = {Empty}

Next ==
  \/ \E b \in Ballot : Register(b) \/ Cast(b) \/ Spoil(b) \/ RegisterAgain(b)
  \/ Publish
  \/ PublishAnything
  \/ SetUp

Spec == Init /\ [][Next]_vars

==============================================================================
