-------------------------- MODULE RevisionLineage --------------------------
(***************************************************************************)
(* What the redirects of a run amount to: the workflow takes one revision  *)
(* after the other, and the operator is shown each, as it was taken, before*)
(* the next one is taken.  RequestRevisions shows that the service and the *)
(* workflow, over the run's records, keep to this.                         *)
(***************************************************************************)
EXTENDS Naturals, Sequences

CONSTANT Text        \* what a redirect may ask for

VARIABLES
  taken,             \* the revisions the workflow accepted, in their order
  shown              \* the revisions promoted to the operator's view

lineage == <<taken, shown>>

Init == taken = <<>> /\ shown = <<>>

\* The original request is revision 1.
Take(text) ==
  /\ shown = taken
  /\ taken' = Append(taken, [number |-> Len(taken) + 2, text |-> text])
  /\ UNCHANGED shown

Show == shown' = taken /\ UNCHANGED taken

Next == Show \/ \E text \in Text : Take(text)

Spec == Init /\ [][Next]_lineage
=============================================================================
