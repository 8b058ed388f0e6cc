----------------------------- MODULE RowLookup -----------------------------
(***************************************************************************)
(* What a scalar lookup_path promises: one answer for the whole column,    *)
(* each row by itself, or the error of some row that has one.  Nothing of  *)
(* records shared by rows, of chunks, tasks or workers is to be seen.      *)
(***************************************************************************)
EXTENDS Naturals, Sequences

CONSTANTS Values, Errors, Pending

VARIABLES
  outcomes,   (* What each row would be on its own: a value or an error.   *)
  answer      (* What the call returns.                                    *)

vars == <<outcomes, answer>>

Failures == {e \in Errors : \E i \in 1 .. Len(outcomes) : outcomes[i] = e}

Init ==
  /\ outcomes \in Seq(Values \cup Errors)
  /\ answer = Pending

Answer ==
  /\ answer = Pending
  /\ IF Failures = {} THEN answer' = outcomes ELSE answer' \in Failures
  /\ UNCHANGED outcomes

SafeSpec == Init /\ [][Answer]_vars

Spec == SafeSpec /\ WF_vars(Answer)

=============================================================================
