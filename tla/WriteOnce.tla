----------------------------- MODULE WriteOnce -----------------------------
(***************************************************************************)
(* What an Initializer of package util promises: a value that is set once, *)
(* by whoever comes first, and that every reader gets, unless it gives up. *)
(***************************************************************************)
CONSTANTS Readers, Values, Unset, GaveUp

VARIABLES
  value,        \* what was set first
  answer        \* answer[p]: what the call of p has returned

Init ==
  /\ value = Unset
  /\ answer = [p \in Readers |-> Unset]

Set(v) == value = Unset /\ value' = v /\ UNCHANGED answer

Begin(p) == answer' = [answer EXCEPT ![p] = Unset] /\ UNCHANGED value

Read(p) ==
  /\ value # Unset
  /\ answer' = [answer EXCEPT ![p] = value]
  /\ UNCHANGED value

GiveUp(p) == answer' = [answer EXCEPT ![p] = GaveUp] /\ UNCHANGED value

Next ==
  \/ \E v \in Values : Set(v)
  \/ \E p \in Readers : Begin(p) \/ Read(p) \/ GiveUp(p)

Spec == Init /\ [][Next]_<<value, answer>>
=============================================================================
