----------------------------- MODULE EditLedger -----------------------------
(***************************************************************************)
(* What the installation promises for each edit, whatever tabs, retries,   *)
(* rebases, reviews, pages and versions it takes: the edit is recorded, is *)
(* attempted, and is either applied by the server, once, and settled, or   *)
(* refused and offered to the user, who may have it attempted again.       *)
(***************************************************************************)
CONSTANT Edits

VARIABLES
  stage,    \* stage[i]: "none", "waiting", "attempted", "refused" or "settled"
  applied   \* the edits the server has applied

ledger == <<stage, applied>>

Move(i, from, to) == stage[i] = from /\ stage' = [stage EXCEPT ![i] = to]

Record(i)  == Move(i, "none", "waiting") /\ UNCHANGED applied
Attempt(i) == Move(i, "waiting", "attempted") /\ UNCHANGED applied

\* The server applies what is being attempted, at most once: never an edit that
\* waits, that was refused or that is settled.
ApplyEdit(i) ==
  /\ stage[i] = "attempted" /\ i \notin applied
  /\ applied' = applied \cup {i}
  /\ UNCHANGED stage

\* Only an applied edit leaves the ledger's care; only one that is not applied
\* is offered for review.
Settle(i) == i \in applied /\ Move(i, "attempted", "settled") /\ UNCHANGED applied
Refuse(i) == i \notin applied /\ Move(i, "attempted", "refused") /\ UNCHANGED applied
Retry(i)  == Move(i, "refused", "waiting") /\ UNCHANGED applied

Init == stage = [i \in Edits |-> "none"] /\ applied = {}

Next == \E i \in Edits :
  Record(i) \/ Attempt(i) \/ ApplyEdit(i) \/ Settle(i) \/ Refuse(i) \/ Retry(i)

Spec == Init /\ [][Next]_ledger
=============================================================================
