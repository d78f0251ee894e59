----------------------------- MODULE KeyAgreement -----------------------------
(***************************************************************************)
(* What the key ceremony promises, with no coordinator and no messages:    *)
(* every trustee endorses one list of keys, and a list is agreed only when *)
(* every trustee has endorsed it.  Agreement is final.                     *)
(***************************************************************************)
CONSTANTS
  Member,   \* the trustees
  List,     \* the lists of keys that may be endorsed
  NoList    \* nothing endorsed, nothing agreed: not a member of List

VARIABLES endorsed, agreed

vars == <<endorsed, agreed>>

Init ==
  /\ endorsed = [t \in Member |-> NoList]
  /\ agreed = NoList

Endorse(t, l) ==
  /\ endorsed[t] = NoList
  /\ endorsed' = [endorsed EXCEPT ![t] = l]
  /\ UNCHANGED agreed

Agree(l) ==
  /\ agreed = NoList
  /\ \A t \in Member : endorsed[t] = l
  /\ agreed' = l
  /\ UNCHANGED endorsed

Next == \E l \in List : Agree(l) \/ \E t \in Member : Endorse(t, l)

Spec == Init /\ [][Next]_vars

==============================================================================
