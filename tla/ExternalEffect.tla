--------------------------- MODULE ExternalEffect ---------------------------
(***************************************************************************)
(* What protected_actions/outcomes.py and the rules of                     *)
(* docs/architecture/email-execution.md promise of one external action,    *)
(* with no workers, stores, requests or answers: attempts are opened one   *)
(* at a time; an effect happens only in an open attempt, or once some      *)
(* attempt was declared ambiguous; an ambiguous attempt is examined before *)
(* the next one is opened; a confirmed effect did happen, and confirmation *)
(* and hand-over to an operator are final.                                 *)
(***************************************************************************)
EXTENDS Naturals

CONSTANT Intent

VARIABLES
  phase,   \* where the action stands
  maybe,   \* some attempt was declared ambiguous
  effect   \* the outside world has seen the action

vars == <<phase, maybe, effect>>

Move(i, from, to) == phase[i] = from /\ phase' = [phase EXCEPT ![i] = to]

Init ==
  /\ phase = [i \in Intent |-> "absent"]
  /\ maybe = [i \in Intent |-> FALSE]
  /\ effect = [i \in Intent |-> FALSE]

Authorize(i) == Move(i, "absent", "ready") /\ UNCHANGED <<maybe, effect>>

Open(i) == Move(i, "ready", "open") /\ UNCHANGED <<maybe, effect>>

TakeEffect(i) ==
  /\ phase[i] = "open" \/ maybe[i]
  /\ effect' = [effect EXCEPT ![i] = TRUE]
  /\ UNCHANGED <<phase, maybe>>

\* An attempt that had no effect can be repeated.
CloseWithoutEffect(i) ==
  /\ effect[i] => maybe[i]
  /\ Move(i, "open", "ready")
  /\ UNCHANGED <<maybe, effect>>

CloseAmbiguous(i) ==
  /\ Move(i, "open", "ambiguous")
  /\ maybe' = [maybe EXCEPT ![i] = TRUE]
  /\ UNCHANGED effect

Examine(i) == Move(i, "ambiguous", "examined") /\ UNCHANGED <<maybe, effect>>

Release(i) ==
  /\ Move(i, "examined", "ready") \/ Move(i, "examined", "operator")
  /\ UNCHANGED <<maybe, effect>>

Confirm(i) ==
  /\ effect[i]
  /\ Move(i, "open", "confirmed") \/ Move(i, "examined", "confirmed")
  /\ UNCHANGED <<maybe, effect>>

Next ==
  \E i \in Intent :
    \/ Authorize(i) \/ Open(i) \/ TakeEffect(i)
    \/ CloseWithoutEffect(i) \/ CloseAmbiguous(i)
    \/ Examine(i) \/ Release(i) \/ Confirm(i)

Spec == Init /\ [][Next]_vars

=============================================================================
