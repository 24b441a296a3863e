---------------------------- MODULE MCRecurrence ----------------------------
(* Two rules and small bounds for model-checking Recurrence. *)
EXTENDS Recurrence

CONSTANTS first, daily, other

OneDefinition == {first}
TwoRules == {daily, other}

\* Every day, for some hours, and closed; from the second day on until the next one,
\* and left open.
TheDue == [r \in Rules |-> IF r = daily THEN Days ELSE Days \ {1}]
TheStart == [r \in Rules |-> IF r = daily THEN 1 ELSE 2]
TheUntil == [r \in Rules |-> [d \in Days |-> IF r = daily THEN d ELSE d + 1]]
TheCloses == [r \in Rules |-> r = daily]
=============================================================================
