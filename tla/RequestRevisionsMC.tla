------------------------- MODULE RequestRevisionsMC -------------------------
(* A small instance of RequestRevisions: two redirects that ask for        *)
(* different things, one of them perhaps submitted twice.                  *)
EXTENDS RequestRevisions

CONSTANTS c1, c2, a, b

MCCommand == {c1, c2}
MCText == {a, b}
MCSubmission == {<<c1, a>>, <<c2, b>>}

=============================================================================
