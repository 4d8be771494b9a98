--------------------------- MODULE ExecutorProofs ---------------------------
(***************************************************************************)
(* Of the executor's attempts, whatever their number and that of their     *)
(* tries: at most one try gets as far as a proposal, an execution record   *)
(* is the work of one try, a completed attempt has the one of the try the  *)
(* server waited for, and the journal agrees with what is kept.            *)
(*                                                                         *)
(* The properties are not inductive: they speak of what is stored, and     *)
(* what a try will store next depends on where it is.  The invariant ties  *)
(* the two together: a running try beyond a position owns what the         *)
(* position keeps.  Evidence is what tells tries apart, so that beyond it  *)
(* an attempt has a single one.                                            *)
(***************************************************************************)
EXTENDS Executor, TLAPS

USE DEF Research, Candidates, Evidence, Evaluation, Artifacts, Proposal, Reference,
        Execution, Answer, CandidatesOf, EvidenceOf, EvaluationOf

\* The operation at k lies behind try p.
Did(p, k) == pos[p] > k \/ (pos[p] = k /\ phase[p] = "finish")

\* Where a try can be: one that does not run has gone nowhere or left no trace.
Places ==
  \A p \in Try :
    /\ run[p] # "running" => pos[p] = Research /\ phase[p] = "start"
    /\ pos[p] \in {Execution, Answer} => phase[p] = "act"
    /\ pos[p] = Reference => autonomy = "ask"

\* What lies behind a running try is kept, and it is that try's own.
OwnsUpTo(p) ==
  /\ Did(p, Research) => found[p] \in Sources
  /\ Did(p, Candidates) => record[<<"candidates", p[1]>>] = found[p]
  /\ Did(p, Evidence) => record[<<"evidence", p[1]>>] = p
  /\ Did(p, Evaluation) => record[<<"evaluation", p[1]>>] = p
  /\ Did(p, Artifacts) => p \in artifacts
  /\ Did(p, Proposal) /\ autonomy = "ask" => p \in proposals
  /\ Did(p, Reference) /\ autonomy = "ask" => p \in references
  /\ Did(p, Execution) => record[<<"execution", p[1]>>] = p
Owns == \A p \in Try : OwnsUpTo(p)

\* A proposal belongs to the try whose evidence was kept, and is asked for.
ProposalsOwned ==
  \A p \in proposals : autonomy = "ask" /\ record[<<"evidence", p[1]>>] = p

\* A try that has written its execution record does nothing but answer.
WrittenLast ==
  \A a \in Attempt :
    LET p == record[<<"execution", a>>]
    IN p # None => /\ run[p] \in {"over", "conflict"} \/ pos[p] = Answer
                   /\ found[p] \in Sources

\* A completed attempt has been tried.
Answered == \A a \in Attempt : child[a] = "completed" => <<a, tries[a]>> \in Try

\* The journal has the steps a running try has behind it.
JournaledUpTo(p) ==
  \A k \in Step :
    /\ pos[p] > k /\ (k = Reference => autonomy = "ask") =>
         <<p[1], k, "started">> \in events /\ <<p[1], k, "completed">> \in events
    /\ pos[p] = k /\ phase[p] # "start" => <<p[1], k, "started">> \in events
Journaled == \A p \in Try : JournaledUpTo(p)

IInv ==
  /\ TypeOK /\ Places /\ Owns /\ ProposalsOwned
  /\ ExecutionIsWhole /\ WrittenLast /\ CompletedByLatestTry /\ Answered
  /\ Journaled /\ JournalAgrees

-----------------------------------------------------------------------------
(***************************************************************************)
(* Types                                                                   *)
(***************************************************************************)

\* A try is named by its attempt and its number.
LEMMA TryParts ==
  ASSUME NEW p \in Try
  PROVE  p[1] \in Attempt /\ p[2] \in 1..MaxTries /\ p = <<p[1], p[2]>>
BY DEF Try

\* What happens when a try fails keeps the types of the server's state.
LEMMA TryAgainTypes ==
  ASSUME TypeOK, NEW a \in Attempt, NEW verdict \in {"retryable", "failed"},
         TryAgain(a, verdict)
  PROVE  /\ tries' \in [Attempt -> 0..MaxTries]
         /\ child' \in [Attempt -> {"none", "running", "completed", "cancelled",
                                    "retryable", "failed"}]
<1>1. tries[a] \in 0..MaxTries
  BY DEF TypeOK
<1>2. tries[a] < MaxTries => tries[a] + 1 \in 0..MaxTries
  BY <1>1, ExecutorAssumption
<1> QED
  BY <1>2 DEF TypeOK, TryAgain

\* So does a try that raises, and its own place is cleared.
LEMMA RaisesTypes ==
  ASSUME TypeOK, NEW p \in Try, NEW how \in {"over", "conflict"},
         NEW verdict \in {"retryable", "failed"}, Raises(p, how, verdict)
  PROVE  /\ tries' \in [Attempt -> 0..MaxTries]
         /\ child' \in [Attempt -> {"none", "running", "completed", "cancelled",
                                    "retryable", "failed"}]
         /\ run' \in [Try -> {"waiting", "running", "over", "conflict"}]
         /\ pos' \in [Try -> Position]
         /\ phase' \in [Try -> {"start", "act", "finish"}]
<1>1. p[1] \in Attempt
  BY TryParts
<1>2. CASE Current(p)
  <2>1. TryAgain(p[1], verdict)
    BY <1>2 DEF Raises
  <2>2. /\ tries' \in [Attempt -> 0..MaxTries]
        /\ child' \in [Attempt -> {"none", "running", "completed", "cancelled",
                                   "retryable", "failed"}]
    BY <1>1, <2>1, TryAgainTypes
  <2> QED
    BY <2>2 DEF TypeOK, Raises, Ends, Position
<1>3. CASE ~Current(p)
  BY <1>3 DEF TypeOK, Raises, Ends, Position
<1> QED
  BY <1>2, <1>3

\* A put keeps the types: it stores what it is given, or raises.
LEMMA PutJsonTypes ==
  ASSUME TypeOK, NEW p \in Try, NEW kind \in Kind, NEW content \in Sources \cup Try \cup {None},
         PutJson(p, kind, content)
  PROVE  /\ tries' \in [Attempt -> 0..MaxTries]
         /\ child' \in [Attempt -> {"none", "running", "completed", "cancelled",
                                    "retryable", "failed"}]
         /\ run' \in [Try -> {"waiting", "running", "over", "conflict"}]
         /\ pos' \in [Try -> Position]
         /\ phase' \in [Try -> {"start", "act", "finish"}]
         /\ record' \in [Kind \X Attempt -> Sources \cup Try \cup {None}]
<1>1. CASE Reused(<<kind, p[1]>>, content)
  <2>1. Raises(p, "conflict", "failed") /\ record' = record
    BY <1>1 DEF PutJson
  <2> QED
    BY <2>1, RaisesTypes DEF TypeOK
<1>2. CASE ~Reused(<<kind, p[1]>>, content)
  <2>1. <<kind, p[1]>> \in Kind \X Attempt
    BY TryParts
  <2> QED
    BY <1>2, <2>1 DEF PutJson, Proceed, server, TypeOK
<1> QED
  BY <1>1, <1>2

\* Every step keeps the types.
LEMMA TypeStep == TypeOK /\ Places /\ [Next]_vars => TypeOK'
<1> SUFFICES ASSUME TypeOK, Places, [Next]_vars PROVE TypeOK'
  OBVIOUS
<1>1. ASSUME NEW a \in Attempt, StartAttempt(a) PROVE TypeOK'
  BY <1>1, ExecutorAssumption DEF StartAttempt, TypeOK, setting, stored
<1>2. ASSUME NEW a \in Attempt, Cancel(a) PROVE TypeOK'
  BY <1>2 DEF Cancel, TypeOK, setting, stored
<1>3. ASSUME NEW a \in Attempt, Timeout(a) PROVE TypeOK'
  <2>1. TryAgain(a, "failed")
    BY <1>3 DEF Timeout
  <2> QED
    BY <1>3, <2>1, TryAgainTypes DEF Timeout, TypeOK, setting, stored
<1>4. ASSUME NEW p \in Try, PickUp(p) PROVE TypeOK'
  BY <1>4 DEF PickUp, TypeOK, setting, stored
<1>5. ASSUME NEW p \in Try, Begin(p) PROVE TypeOK'
  <2>1. pos[p] \in Step
    BY <1>5 DEF Begin, Places, TypeOK, Step, Position
  <2>2. events' \subseteq Attempt \X Step \X {"started", "completed"}
    BY <1>5, <2>1, TryParts DEF Begin, Append, TypeOK
  <2>3. CASE pos[p] = failure /\ p[1] = 1
    <3>1. Raises(p, "over", "retryable")
      BY <1>5, <2>3 DEF Begin
    <3> QED
      BY <1>5, <2>2, <3>1, RaisesTypes DEF Begin, TypeOK, setting, stored
  <2>4. CASE ~(pos[p] = failure /\ p[1] = 1)
    BY <1>5, <2>2, <2>4 DEF Begin, TypeOK, setting, stored, server
  <2> QED
    BY <2>3, <2>4
<1>6. ASSUME NEW p \in Try, Finish(p) PROVE TypeOK'
  <2>1. pos[p] \in Step
    BY <1>6 DEF Finish, Places, TypeOK, Step, Position
  <2>2. events' \subseteq Attempt \X Step \X {"started", "completed"}
    BY <1>6, <2>1, TryParts DEF Finish, Append, TypeOK
  <2>3. Following(p) \in Position
    BY <2>1 DEF Following, Step, Position
  <2> QED
    BY <1>6, <2>2, <2>3 DEF Finish, TypeOK, setting, stored, server
<1>7. ASSUME NEW p \in Try, DoResearch(p) PROVE TypeOK'
  BY <1>7 DEF DoResearch, Proceed, TypeOK, setting, stored, server
<1>8. ASSUME NEW p \in Try, PersistCandidates(p) PROVE TypeOK'
  <2>1. PutJson(p, "candidates", found[p]) /\ found[p] \in Sources \cup {None}
    BY <1>8 DEF PersistCandidates, TypeOK
  <2>2. "candidates" \in Kind /\ found[p] \in Sources \cup Try \cup {None}
    BY <2>1 DEF Kind
  <2> QED
    BY <1>8, <2>1, <2>2, PutJsonTypes DEF PersistCandidates, TypeOK, setting
<1>9. ASSUME NEW p \in Try, PersistEvidence(p) PROVE TypeOK'
  <2>1. PutJson(p, "evidence", p) /\ "evidence" \in Kind
    BY <1>9 DEF PersistEvidence, Kind
  <2> QED
    BY <1>9, <2>1, PutJsonTypes DEF PersistEvidence, TypeOK, setting
<1>10. ASSUME NEW p \in Try, PersistEvaluation(p) PROVE TypeOK'
  <2>1. PutJson(p, "evaluation", p) /\ "evaluation" \in Kind
    BY <1>10 DEF PersistEvaluation, Kind
  <2> QED
    BY <1>10, <2>1, PutJsonTypes DEF PersistEvaluation, TypeOK, setting
<1>11. ASSUME NEW p \in Try, PersistArtifacts(p) PROVE TypeOK'
  BY <1>11 DEF PersistArtifacts, Proceed, TypeOK, setting, server
<1>12. ASSUME NEW p \in Try, PrepareProposal(p) PROVE TypeOK'
  BY <1>12 DEF PrepareProposal, Proceed, TypeOK, setting, server
<1>13. ASSUME NEW p \in Try, PersistReference(p) PROVE TypeOK'
  BY <1>13 DEF PersistReference, Proceed, TypeOK, setting, server
<1>14. ASSUME NEW p \in Try, PersistExecution(p) PROVE TypeOK'
  <2>1. <<"execution", p[1]>> \in Kind \X Attempt
    BY TryParts DEF Kind
  <2>2. CASE Reused(<<"execution", p[1]>>, p)
    <3>1. Raises(p, "conflict", "failed")
      BY <1>14, <2>2 DEF PersistExecution
    <3> QED
      BY <1>14, <2>2, <3>1, RaisesTypes DEF PersistExecution, TypeOK, setting
  <2>3. CASE ~Reused(<<"execution", p[1]>>, p)
    <3>1. record' = [record EXCEPT ![<<"execution", p[1]>>] = p]
      BY <1>14, <2>3 DEF PersistExecution
    <3>2. record' \in [Kind \X Attempt -> Sources \cup Try \cup {None}]
      BY <2>1, <3>1 DEF TypeOK
    <3>3. pos' \in [Try -> Position]
      BY <1>14, <2>3 DEF PersistExecution, TypeOK, Position
    <3> QED
      BY <1>14, <2>3, <3>2, <3>3 DEF PersistExecution, TypeOK, setting, server
  <2> QED
    BY <2>2, <2>3
<1>15. ASSUME NEW p \in Try, Return(p) PROVE TypeOK'
  BY <1>15, TryParts DEF Return, Ends, TypeOK, setting, stored, Position
<1>16. ASSUME NEW p \in Try, Fail(p) PROVE TypeOK'
  <2>1. Raises(p, "over", "failed")
    BY <1>16 DEF Fail
  <2> QED
    BY <1>16, <2>1, RaisesTypes DEF Fail, TypeOK, setting, stored
<1>17. ASSUME NEW p \in Try, Die(p) PROVE TypeOK'
  BY <1>17 DEF Die, Ends, TypeOK, setting, stored, Position
<1>18. CASE UNCHANGED vars
  BY <1>18 DEF vars, TypeOK
<1> QED
  BY <1>1, <1>2, <1>3, <1>4, <1>5, <1>6, <1>7, <1>8, <1>9, <1>10, <1>11, <1>12, <1>13,
     <1>14, <1>15, <1>16, <1>17, <1>18
  DEF Next, TryStep
-----------------------------------------------------------------------------
(***************************************************************************)
(* What a step leaves alone                                                *)
(***************************************************************************)

\* Nothing stored is ever changed or removed.
Grows ==
  /\ autonomy' = autonomy
  /\ \A key \in Kind \X Attempt : record[key] # None => record'[key] = record[key]
  /\ artifacts \subseteq artifacts' /\ proposals \subseteq proposals'
  /\ references \subseteq references' /\ events \subseteq events'

\* Try q is where it was.
Still(q) ==
  run'[q] = run[q] /\ pos'[q] = pos[q] /\ phase'[q] = phase[q] /\ found'[q] = found[q]

\* Attempt a is in the hands of the same child, waiting for the same try.
SameServer == child' = child /\ tries' = tries

SameStores == UNCHANGED <<autonomy, stored, events>>

\* Try p is over.
Over(p) == run'[p] \in {"over", "conflict"} /\ pos'[p] = Research /\ phase'[p] = "start"

\* A try that raises is over, and the others stand still.
LEMMA RaisesIsOver ==
  ASSUME TypeOK, NEW p \in Try, NEW how \in {"over", "conflict"}, NEW verdict,
         Raises(p, how, verdict), found' = found
  PROVE  Over(p) /\ \A q \in Try \ {p} : Still(q)
BY DEF Raises, Ends, Over, Still, TypeOK

\* A put changes the one record it names, and that one only when there is none.
LEMMA PutKeeps ==
  ASSUME TypeOK, NEW p \in Try, NEW kind \in Kind, NEW content, PutJson(p, kind, content),
         found' = found
  PROVE  /\ \A key \in Kind \X Attempt :
              record[key] # None \/ key # <<kind, p[1]>> => record'[key] = record[key]
         /\ \A q \in Try \ {p} : Still(q)
         /\ \/ Over(p) /\ record' = record
            \/ /\ run'[p] = run[p] /\ pos'[p] = pos[p] /\ phase'[p] = "finish"
               /\ found'[p] = found[p]
               /\ record'[<<kind, p[1]>>] = content
               /\ SameServer
<1>1. CASE Reused(<<kind, p[1]>>, content)
  <2>1. Raises(p, "conflict", "failed") /\ record' = record
    BY <1>1 DEF PutJson
  <2> QED
    BY <2>1, RaisesIsOver
<1>2. CASE ~Reused(<<kind, p[1]>>, content)
  <2>1. <<kind, p[1]>> \in Kind \X Attempt
    BY TryParts
  <2>2. record' = [record EXCEPT ![<<kind, p[1]>>] = content]
        /\ record[<<kind, p[1]>>] \in {None, content}
    BY <1>2 DEF PutJson, Reused
  <2>3. \A key \in Kind \X Attempt :
          record[key] # None \/ key # <<kind, p[1]>> => record'[key] = record[key]
    BY <2>1, <2>2 DEF TypeOK
  <2>4. record'[<<kind, p[1]>>] = content
    BY <2>1, <2>2 DEF TypeOK
  <2> QED
    BY <1>2, <2>3, <2>4 DEF PutJson, Proceed, Still, SameServer, server, TypeOK
<1> QED
  BY <1>1, <1>2

\* What a step of try p does to the others: nothing.
LEMMA OthersStill ==
  ASSUME TypeOK, NEW p \in Try, TryStep(p)
  PROVE  \A q \in Try \ {p} : Still(q)
<1>1. CASE PickUp(p)
  BY <1>1 DEF PickUp, Still, TypeOK
<1>2. CASE Begin(p)
  <2>1. CASE pos[p] = failure /\ p[1] = 1
    <3>1. Raises(p, "over", "retryable") /\ found' = found
      BY <1>2, <2>1 DEF Begin
    <3> QED
      BY <3>1, RaisesIsOver
  <2>2. CASE ~(pos[p] = failure /\ p[1] = 1)
    BY <1>2, <2>2 DEF Begin, Still, server, TypeOK
  <2> QED
    BY <2>1, <2>2
<1>3. CASE Finish(p)
  BY <1>3 DEF Finish, Still, server, TypeOK
<1>4. CASE Return(p)
  BY <1>4 DEF Return, Ends, Still, TypeOK
<1>5. CASE Fail(p)
  <2>1. Raises(p, "over", "failed") /\ found' = found
    BY <1>5 DEF Fail
  <2> QED
    BY <2>1, RaisesIsOver
<1>6. CASE Die(p)
  BY <1>6 DEF Die, Ends, Still, TypeOK
<1>7. CASE DoResearch(p)
  BY <1>7 DEF DoResearch, Proceed, Still, server, TypeOK
<1>8. CASE PersistCandidates(p)
  <2>1. PutJson(p, "candidates", found[p]) /\ found' = found /\ "candidates" \in Kind
    BY <1>8 DEF PersistCandidates, Kind
  <2> QED
    BY <2>1, PutKeeps
<1>9. CASE PersistEvidence(p)
  <2>1. PutJson(p, "evidence", p) /\ found' = found /\ "evidence" \in Kind
    BY <1>9 DEF PersistEvidence, Kind
  <2> QED
    BY <2>1, PutKeeps
<1>10. CASE PersistEvaluation(p)
  <2>1. PutJson(p, "evaluation", p) /\ found' = found /\ "evaluation" \in Kind
    BY <1>10 DEF PersistEvaluation, Kind
  <2> QED
    BY <2>1, PutKeeps
<1>11. CASE PersistArtifacts(p) \/ PrepareProposal(p) \/ PersistReference(p)
  BY <1>11 DEF PersistArtifacts, PrepareProposal, PersistReference, Proceed, Still, server, TypeOK
<1>12. CASE PersistExecution(p)
  <2>1. CASE Reused(<<"execution", p[1]>>, p)
    <3>1. Raises(p, "conflict", "failed") /\ found' = found
      BY <1>12, <2>1 DEF PersistExecution
    <3> QED
      BY <3>1, RaisesIsOver
  <2>2. CASE ~Reused(<<"execution", p[1]>>, p)
    BY <1>12, <2>2 DEF PersistExecution, Still, server, TypeOK
  <2> QED
    BY <2>1, <2>2
<1> QED
  BY <1>1, <1>2, <1>3, <1>4, <1>5, <1>6, <1>7, <1>8, <1>9, <1>10, <1>11, <1>12 DEF TryStep

\* No step takes back what is stored, or changes a record.
LEMMA StepGrows ==
  ASSUME TypeOK, [Next]_vars
  PROVE  Grows
<1>1. ASSUME NEW a \in Attempt, StartAttempt(a) \/ Cancel(a) \/ Timeout(a) PROVE Grows
  BY <1>1 DEF StartAttempt, Cancel, Timeout, Grows, setting, stored
<1>2. ASSUME NEW p \in Try, TryStep(p) PROVE Grows
  <2>1. CASE PickUp(p) \/ Begin(p) \/ Finish(p) \/ Return(p) \/ Fail(p) \/ Die(p) \/ DoResearch(p)
    BY <2>1 DEF PickUp, Begin, Finish, Return, Fail, Die, DoResearch, Append, Grows, setting, stored
  <2>2. CASE PersistCandidates(p)
    <3>1. PutJson(p, "candidates", found[p]) /\ found' = found /\ "candidates" \in Kind
      BY <2>2 DEF PersistCandidates, Kind
    <3> QED
      BY <2>2, <3>1, PutKeeps DEF PersistCandidates, Grows, setting
  <2>3. CASE PersistEvidence(p)
    <3>1. PutJson(p, "evidence", p) /\ found' = found /\ "evidence" \in Kind
      BY <2>3 DEF PersistEvidence, Kind
    <3> QED
      BY <2>3, <3>1, PutKeeps DEF PersistEvidence, Grows, setting
  <2>4. CASE PersistEvaluation(p)
    <3>1. PutJson(p, "evaluation", p) /\ found' = found /\ "evaluation" \in Kind
      BY <2>4 DEF PersistEvaluation, Kind
    <3> QED
      BY <2>4, <3>1, PutKeeps DEF PersistEvaluation, Grows, setting
  <2>5. CASE PersistArtifacts(p) \/ PrepareProposal(p) \/ PersistReference(p)
    BY <2>5 DEF PersistArtifacts, PrepareProposal, PersistReference, Grows, setting
  <2>6. CASE PersistExecution(p)
    <3>1. CASE Reused(<<"execution", p[1]>>, p)
      BY <2>6, <3>1 DEF PersistExecution, Grows, setting
    <3>2. CASE ~Reused(<<"execution", p[1]>>, p)
      <4>1. record' = [record EXCEPT ![<<"execution", p[1]>>] = p]
            /\ record[<<"execution", p[1]>>] \in {None, p}
        BY <2>6, <3>2 DEF PersistExecution, Reused
      <4>2. \A key \in Kind \X Attempt : record[key] # None => record'[key] = record[key]
        BY <4>1 DEF TypeOK
      <4> QED
        BY <2>6, <4>2 DEF PersistExecution, Grows, setting
    <3> QED
      BY <3>1, <3>2
  <2> QED
    BY <1>2, <2>1, <2>2, <2>3, <2>4, <2>5, <2>6 DEF TryStep
<1>3. CASE UNCHANGED vars
  BY <1>3 DEF vars, Grows
<1> QED
  BY <1>1, <1>2, <1>3 DEF Next
-----------------------------------------------------------------------------
(***************************************************************************)
(* The invariant                                                           *)
(***************************************************************************)

\* A try that has not moved still owns what it owned.
LEMMA OwnsStill ==
  ASSUME TypeOK, Grows, NEW q \in Try, OwnsUpTo(q),
         pos'[q] = pos[q], phase'[q] = phase[q], found'[q] = found[q]
  PROVE  OwnsUpTo(q)'
<1>1. /\ <<"candidates", q[1]>> \in Kind \X Attempt /\ <<"evidence", q[1]>> \in Kind \X Attempt
      /\ <<"evaluation", q[1]>> \in Kind \X Attempt /\ <<"execution", q[1]>> \in Kind \X Attempt
  BY TryParts DEF Kind
<1>2. \A k : Did(q, k)' <=> Did(q, k)
  BY DEF Did
<1>3. q # None /\ None \notin Sources
  BY ExecutorAssumption
<1>4. Did(q, Candidates) => Did(q, Research)
  BY DEF Did, TypeOK, Position
<1> QED
  BY <1>1, <1>2, <1>3, <1>4 DEF OwnsUpTo, Grows

\* Nothing lies behind a try that is over.
LEMMA OverOwns ==
  ASSUME NEW p \in Try, Over(p)
  PROVE  OwnsUpTo(p)' /\ JournaledUpTo(p)'
BY DEF Over, OwnsUpTo, JournaledUpTo, Did, Step

\* A try that has put a record owns it.
LEMMA PutOwns ==
  ASSUME TypeOK, Places, Owns, Grows, NEW p \in Try,
         PersistCandidates(p) \/ PersistEvidence(p) \/ PersistEvaluation(p)
  PROVE  OwnsUpTo(p)'
<1>1. OwnsUpTo(p) /\ p # None /\ None \notin Sources
  BY ExecutorAssumption DEF Owns
<1>2. /\ <<"candidates", p[1]>> \in Kind \X Attempt /\ <<"evidence", p[1]>> \in Kind \X Attempt
      /\ <<"evaluation", p[1]>> \in Kind \X Attempt
  BY TryParts DEF Kind
<1>3. CASE PersistCandidates(p)
  <2>1. PutJson(p, "candidates", found[p]) /\ found' = found /\ "candidates" \in Kind
    BY <1>3 DEF PersistCandidates, Kind
  <2>2. CASE Over(p)
    BY <2>2, OverOwns
  <2>3. CASE ~Over(p)
    <3>1. /\ pos'[p] = pos[p] /\ phase'[p] = "finish" /\ found'[p] = found[p]
          /\ record'[<<"candidates", p[1]>>] = found[p]
      BY <2>1, <2>3, PutKeeps
    <3>2. pos[p] = Candidates
      BY <1>3 DEF PersistCandidates, At
    <3> QED
      BY <1>1, <3>1, <3>2 DEF OwnsUpTo, Did
  <2> QED
    BY <2>2, <2>3
<1>4. CASE PersistEvidence(p)
  <2>1. PutJson(p, "evidence", p) /\ found' = found /\ "evidence" \in Kind
    BY <1>4 DEF PersistEvidence, Kind
  <2>2. CASE Over(p)
    BY <2>2, OverOwns
  <2>3. CASE ~Over(p)
    <3>1. /\ pos'[p] = pos[p] /\ phase'[p] = "finish" /\ found'[p] = found[p]
          /\ record'[<<"evidence", p[1]>>] = p
      BY <2>1, <2>3, PutKeeps
    <3>2. pos[p] = Evidence
      BY <1>4 DEF PersistEvidence, At
    <3> QED
      BY <1>1, <1>2, <3>1, <3>2 DEF OwnsUpTo, Did, Grows
  <2> QED
    BY <2>2, <2>3
<1>5. CASE PersistEvaluation(p)
  <2>1. PutJson(p, "evaluation", p) /\ found' = found /\ "evaluation" \in Kind
    BY <1>5 DEF PersistEvaluation, Kind
  <2>2. CASE Over(p)
    BY <2>2, OverOwns
  <2>3. CASE ~Over(p)
    <3>1. /\ pos'[p] = pos[p] /\ phase'[p] = "finish" /\ found'[p] = found[p]
          /\ record'[<<"evaluation", p[1]>>] = p
      BY <2>1, <2>3, PutKeeps
    <3>2. pos[p] = Evaluation
      BY <1>5 DEF PersistEvaluation, At
    <3> QED
      BY <1>1, <1>2, <3>1, <3>2 DEF OwnsUpTo, Did, Grows
  <2> QED
    BY <2>2, <2>3
<1> QED
  BY <1>3, <1>4, <1>5

\* The record of the execution is the last thing a try writes.
LEMMA ExecutionPut ==
  ASSUME TypeOK, NEW p \in Try, PersistExecution(p)
  PROVE  \/ Over(p) /\ record' = record
         \/ /\ run'[p] = run[p] /\ pos'[p] = Answer /\ phase'[p] = phase[p] /\ found' = found
            /\ record' = [record EXCEPT ![<<"execution", p[1]>>] = p]
            /\ record'[<<"execution", p[1]>>] = p
            /\ SameServer
<1>1. CASE Reused(<<"execution", p[1]>>, p)
  <2>1. Raises(p, "conflict", "failed") /\ record' = record /\ found' = found
    BY <1>1 DEF PersistExecution
  <2> QED
    BY <2>1, RaisesIsOver
<1>2. CASE ~Reused(<<"execution", p[1]>>, p)
  <2>1. <<"execution", p[1]>> \in Kind \X Attempt
    BY TryParts DEF Kind
  <2>2. record' = [record EXCEPT ![<<"execution", p[1]>>] = p]
    BY <1>2 DEF PersistExecution
  <2>3. record'[<<"execution", p[1]>>] = p
    BY <2>1, <2>2 DEF TypeOK
  <2> QED
    BY <1>2, <2>2, <2>3 DEF PersistExecution, SameServer, server, TypeOK
<1> QED
  BY <1>1, <1>2

\* Raising steps, seen from the try.
LEMMA Fallen ==
  ASSUME TypeOK, NEW p \in Try, Return(p) \/ Fail(p) \/ Die(p)
  PROVE  Over(p)
<1>1. CASE Fail(p)
  <2>1. Raises(p, "over", "failed") /\ found' = found
    BY <1>1 DEF Fail
  <2> QED
    BY <2>1, RaisesIsOver
<1>2. CASE Return(p) \/ Die(p)
  BY <1>2 DEF Return, Die, Ends, Over, TypeOK
<1> QED
  BY <1>1, <1>2

\* Beginning a step, a try fails by the demo's wish or stands before its operation.
LEMMA Begun ==
  ASSUME TypeOK, NEW p \in Try, Begin(p)
  PROVE  \/ Over(p)
         \/ /\ run'[p] = run[p] /\ pos'[p] = pos[p] /\ phase[p] = "start" /\ phase'[p] = "act"
            /\ found'[p] = found[p] /\ events' = events \cup {<<p[1], pos[p], "started">>}
            /\ SameServer
<1>1. CASE pos[p] = failure /\ p[1] = 1
  <2>1. Raises(p, "over", "retryable") /\ found' = found
    BY <1>1 DEF Begin
  <2> QED
    BY <2>1, RaisesIsOver
<1>2. CASE ~(pos[p] = failure /\ p[1] = 1)
  BY <1>2 DEF Begin, Append, SameServer, server, TypeOK
<1> QED
  BY <1>1, <1>2

\* Every step keeps a try's place and what it owns together.
LEMMA OwnsStep ==
  ASSUME TypeOK, Places, Owns, [Next]_vars
  PROVE  Owns'
<1>1. Grows
  BY StepGrows
<1>2. ASSUME NEW a \in Attempt, StartAttempt(a) \/ Cancel(a) \/ Timeout(a) PROVE Owns'
  <2>1. pos' = pos /\ phase' = phase /\ found' = found
    BY <1>2 DEF StartAttempt, Cancel, Timeout
  <2> QED
    BY <1>1, <2>1, OwnsStill DEF Owns
<1>3. ASSUME NEW p \in Try, TryStep(p) PROVE Owns'
  <2>1. \A q \in Try \ {p} : OwnsUpTo(q)'
    BY <1>1, <1>3, OthersStill, OwnsStill DEF Owns, Still
  <2>2. OwnsUpTo(p)
    BY DEF Owns
  <2>3. OwnsUpTo(p)'
    <3>1. CASE PickUp(p)
      BY <1>1, <2>2, <3>1, OwnsStill DEF PickUp
    <3>2. CASE Begin(p)
      <4>1. CASE Over(p)
        BY <4>1, OverOwns
      <4>2. CASE ~Over(p)
        <5>1. \A k : Did(p, k)' <=> Did(p, k)
          BY <3>2, <4>2, Begun DEF Did
        <5>2. UNCHANGED <<autonomy, found, record, artifacts, proposals, references>>
          BY <3>2 DEF Begin, setting, stored
        <5> QED
          BY <2>2, <5>1, <5>2 DEF OwnsUpTo
      <4> QED
        BY <4>1, <4>2
    <3>3. CASE Finish(p)
      <4>1. /\ phase[p] = "finish" /\ phase'[p] \in {"start", "act"} /\ pos'[p] = Following(p)
            /\ UNCHANGED <<autonomy, found, record, artifacts, proposals, references>>
        BY <3>3 DEF Finish, TypeOK, setting, stored
      <4>2. pos[p] \in Position
        BY DEF TypeOK
      <4>3. \A k \in Position : Did(p, k)' /\ (k = Reference => autonomy = "ask") => Did(p, k)
        BY <4>1, <4>2 DEF Did, Following, Position
      <4>4. \A k \in {Execution, Answer} : Did(p, k)' => Did(p, k)
        BY <4>3 DEF Position
      <4> QED
        BY <2>2, <4>1, <4>3, <4>4 DEF OwnsUpTo, Position
    <3>4. CASE Return(p) \/ Fail(p) \/ Die(p)
      BY <3>4, Fallen, OverOwns
    <3>5. CASE DoResearch(p)
      <4>1. /\ pos[p] = Research /\ pos'[p] = Research /\ phase'[p] = "finish"
            /\ found'[p] \in Sources
        BY <3>5 DEF DoResearch, At, Proceed, TypeOK
      <4> QED
        BY <4>1 DEF OwnsUpTo, Did
    <3>6. CASE PersistCandidates(p) \/ PersistEvidence(p) \/ PersistEvaluation(p)
      BY <1>1, <3>6, PutOwns
    <3>7. CASE PersistArtifacts(p)
      <4>1. /\ pos[p] = Artifacts /\ pos'[p] = pos[p] /\ phase'[p] = "finish"
            /\ p \in artifacts' /\ UNCHANGED <<found, record, autonomy>>
        BY <3>7 DEF PersistArtifacts, At, Proceed, setting, TypeOK
      <4> QED
        BY <2>2, <4>1 DEF OwnsUpTo, Did
    <3>8. CASE PrepareProposal(p)
      <4>1. /\ pos[p] = Proposal /\ pos'[p] = pos[p] /\ phase'[p] = "finish"
            /\ (autonomy = "ask" => p \in proposals')
            /\ UNCHANGED <<found, record, autonomy, artifacts>>
        BY <3>8 DEF PrepareProposal, At, Proceed, setting, TypeOK
      <4> QED
        BY <2>2, <4>1 DEF OwnsUpTo, Did
    <3>9. CASE PersistReference(p)
      <4>1. /\ pos[p] = Reference /\ pos'[p] = pos[p] /\ phase'[p] = "finish"
            /\ p \in references' /\ UNCHANGED <<found, record, autonomy, artifacts, proposals>>
        BY <3>9 DEF PersistReference, At, Proceed, setting, TypeOK
      <4> QED
        BY <2>2, <4>1 DEF OwnsUpTo, Did
    <3>10. CASE PersistExecution(p)
      <4>1. CASE Over(p)
        BY <4>1, OverOwns
      <4>2. CASE ~Over(p)
        <5>1. /\ pos[p] = Execution /\ pos'[p] = Answer /\ found' = found
              /\ record'[<<"execution", p[1]>>] = p
              /\ UNCHANGED <<autonomy, artifacts, proposals, references>>
          BY <3>10, <4>2, ExecutionPut DEF PersistExecution, At, setting
        <5>2. \A k \in Research..Reference : Did(p, k)
          BY <5>1 DEF Did
        <5>3. /\ <<"candidates", p[1]>> \in Kind \X Attempt
              /\ <<"evidence", p[1]>> \in Kind \X Attempt
              /\ <<"evaluation", p[1]>> \in Kind \X Attempt
          BY TryParts DEF Kind
        <5>4. p # None /\ None \notin Sources
          BY ExecutorAssumption
        <5>5. /\ record'[<<"candidates", p[1]>>] = found[p]
              /\ record'[<<"evidence", p[1]>>] = p
              /\ record'[<<"evaluation", p[1]>>] = p
          BY <1>1, <2>2, <5>2, <5>3, <5>4 DEF OwnsUpTo, Grows
        <5> QED
          BY <2>2, <5>1, <5>2, <5>5 DEF OwnsUpTo
      <4> QED
        BY <4>1, <4>2
    <3> QED
      BY <1>3, <3>1, <3>2, <3>3, <3>4, <3>5, <3>6, <3>7, <3>8, <3>9, <3>10 DEF TryStep
  <2> QED
    BY <2>1, <2>3 DEF Owns
<1>4. CASE UNCHANGED vars
  <2>1. pos' = pos /\ phase' = phase /\ found' = found
    BY <1>4 DEF vars
  <2> QED
    BY <1>1, <2>1, OwnsStill DEF Owns
<1> QED
  BY <1>2, <1>3, <1>4 DEF Next

\* A step moves its try from a place it can be in to another one, and no other try.
LEMMA PlacesStep ==
  ASSUME TypeOK, Places, [Next]_vars
  PROVE  Places'
<1>1. autonomy' = autonomy
  BY StepGrows DEF Grows
<1>2. ASSUME NEW a \in Attempt, StartAttempt(a) \/ Cancel(a) \/ Timeout(a) PROVE Places'
  BY <1>1, <1>2 DEF StartAttempt, Cancel, Timeout, Places
<1>3. ASSUME NEW p \in Try, TryStep(p) PROVE Places'
  <2> DEFINE Place(q) ==
        /\ run[q] # "running" => pos[q] = Research /\ phase[q] = "start"
        /\ pos[q] \in {Execution, Answer} => phase[q] = "act"
        /\ pos[q] = Reference => autonomy = "ask"
  <2>1. \A q \in Try \ {p} : Place(q)'
    BY <1>1, <1>3, OthersStill DEF Places, Still
  <2>2. Over(p) => Place(p)'
    BY DEF Over
  <2>3. Place(p)'
    <3>1. CASE PickUp(p)
      BY <1>1, <3>1 DEF PickUp, Places, TypeOK
    <3>2. CASE Begin(p)
      <4>1. CASE ~Over(p)
        <5>1. /\ run'[p] = run[p] /\ pos'[p] = pos[p] /\ phase[p] = "start" /\ phase'[p] = "act"
              /\ run[p] = "running"
          BY <3>2, <4>1, Begun DEF Begin
        <5> QED
          BY <1>1, <5>1 DEF Places
      <4> QED
        BY <2>2, <4>1
    <3>3. CASE Finish(p)
      <4>1. /\ run'[p] = "running" /\ pos'[p] = Following(p) /\ phase[p] = "finish"
            /\ phase'[p] = IF Following(p) \in Step THEN "start" ELSE "act"
        BY <3>3 DEF Finish, server, TypeOK
      <4>2. pos[p] \in Position /\ pos[p] \notin {Execution, Answer}
        BY <4>1 DEF TypeOK, Places
      <4>3. Following(p) = Reference => autonomy = "ask"
        BY <4>2 DEF Following, Position, TypeOK
      <4> QED
        BY <1>1, <4>1, <4>3 DEF Step
    <3>4. CASE Return(p) \/ Fail(p) \/ Die(p)
      BY <2>2, <3>4, Fallen
    <3>5. CASE DoResearch(p) \/ PersistArtifacts(p) \/ PrepareProposal(p) \/ PersistReference(p)
      <4>1. run'[p] = "running" /\ pos'[p] = pos[p] /\ pos[p] \notin {Execution, Answer}
        BY <3>5 DEF DoResearch, PersistArtifacts, PrepareProposal, PersistReference, At, server
      <4> QED
        BY <1>1, <4>1 DEF Places
    <3>6. CASE PersistCandidates(p)
      <4>1. PutJson(p, "candidates", found[p]) /\ found' = found /\ "candidates" \in Kind
        BY <3>6 DEF PersistCandidates, Kind
      <4>2. run[p] = "running" /\ pos[p] = Candidates
        BY <3>6 DEF PersistCandidates, At
      <4>3. Over(p) \/ (run'[p] = run[p] /\ pos'[p] = pos[p])
        BY <4>1, PutKeeps
      <4> QED
        BY <2>2, <4>2, <4>3
    <3>7. CASE PersistEvidence(p)
      <4>1. PutJson(p, "evidence", p) /\ found' = found /\ "evidence" \in Kind
        BY <3>7 DEF PersistEvidence, Kind
      <4>2. run[p] = "running" /\ pos[p] = Evidence
        BY <3>7 DEF PersistEvidence, At
      <4>3. Over(p) \/ (run'[p] = run[p] /\ pos'[p] = pos[p])
        BY <4>1, PutKeeps
      <4> QED
        BY <2>2, <4>2, <4>3
    <3>8. CASE PersistEvaluation(p)
      <4>1. PutJson(p, "evaluation", p) /\ found' = found /\ "evaluation" \in Kind
        BY <3>8 DEF PersistEvaluation, Kind
      <4>2. run[p] = "running" /\ pos[p] = Evaluation
        BY <3>8 DEF PersistEvaluation, At
      <4>3. Over(p) \/ (run'[p] = run[p] /\ pos'[p] = pos[p])
        BY <4>1, PutKeeps
      <4> QED
        BY <2>2, <4>2, <4>3
    <3>9. CASE PersistExecution(p)
      <4>1. run[p] = "running" /\ phase[p] = "act"
        BY <3>9 DEF PersistExecution, At
      <4>2. Over(p) \/ (run'[p] = run[p] /\ pos'[p] = Answer /\ phase'[p] = phase[p])
        BY <3>9, ExecutionPut
      <4> QED
        BY <2>2, <4>1, <4>2
    <3> QED
      BY <1>3, <3>1, <3>2, <3>3, <3>4, <3>5, <3>6, <3>7, <3>8, <3>9 DEF TryStep
  <2> QED
    BY <2>1, <2>3 DEF Places
<1>4. CASE UNCHANGED vars
  BY <1>4 DEF vars, Places
<1> QED
  BY <1>2, <1>3, <1>4 DEF Next

\* A new proposal is made by a try whose evidence was kept.
LEMMA ProposalsStep ==
  ASSUME TypeOK, Owns, ProposalsOwned, [Next]_vars
  PROVE  ProposalsOwned'
<1>1. Grows
  BY StepGrows
<1>2. ASSUME NEW p \in proposals' PROVE autonomy' = "ask" /\ record'[<<"evidence", p[1]>>] = p
  <2>1. CASE p \in proposals
    <3>1. p \in Try
      BY <2>1 DEF TypeOK
    <3>2. <<"evidence", p[1]>> \in Kind \X Attempt /\ p # None
      BY <3>1, TryParts, ExecutorAssumption DEF Kind
    <3> QED
      BY <1>1, <2>1, <3>2 DEF ProposalsOwned, Grows
  <2>2. CASE p \notin proposals
    <3>0. PICK q \in Try : PrepareProposal(q)
      BY <2>2 DEF Next, TryStep, StartAttempt, Cancel, Timeout, PickUp, Begin, Finish, Return,
           Fail, Die, DoResearch, PersistCandidates, PersistEvidence, PersistEvaluation,
           PersistArtifacts, PersistReference, PersistExecution, stored, vars
    <3>1. p \in Try /\ PrepareProposal(p) /\ autonomy = "ask"
      BY <2>2, <3>0 DEF PrepareProposal, TypeOK
    <3>2. pos[p] = Proposal /\ record' = record /\ autonomy' = autonomy
      BY <3>1 DEF PrepareProposal, At, setting
    <3>3. record[<<"evidence", p[1]>>] = p
      <4>1. OwnsUpTo(p)
        BY <3>1 DEF Owns
      <4>2. Did(p, Evidence)
        BY <3>2 DEF Did
      <4> QED
        BY <4>1, <4>2 DEF OwnsUpTo
    <3> QED
      BY <3>1, <3>2, <3>3
  <2> QED
    BY <2>1, <2>2
<1> QED
  BY <1>2 DEF ProposalsOwned

\* Only PersistExecution writes an execution record, and only where there is none.
LEMMA NewExecution ==
  ASSUME TypeOK, [Next]_vars, NEW a \in Attempt,
         record[<<"execution", a>>] = None, record'[<<"execution", a>>] # None
  PROVE  \E p \in Try : /\ PersistExecution(p) /\ p[1] = a /\ ~Over(p)
                        /\ record'[<<"execution", a>>] = p
<1>0. <<"execution", a>> \in Kind \X Attempt
  BY DEF Kind
<1>1. PICK p \in Try : \/ PersistCandidates(p) \/ PersistEvidence(p) \/ PersistEvaluation(p)
                       \/ PersistExecution(p)
  <2>1. record' # record
    OBVIOUS
  <2> QED
    BY <2>1 DEF Next, TryStep, StartAttempt, Cancel, Timeout, PickUp, Begin, Finish, Return,
         Fail, Die, DoResearch, PersistArtifacts, PrepareProposal, PersistReference, stored, vars
<1>2. CASE PersistCandidates(p)
  <2>1. PutJson(p, "candidates", found[p]) /\ found' = found /\ "candidates" \in Kind
    BY <1>2 DEF PersistCandidates, Kind
  <2>2. <<"execution", a>> # <<"candidates", p[1]>>
    OBVIOUS
  <2>3. \A key \in Kind \X Attempt :
          record[key] # None \/ key # <<"candidates", p[1]>> => record'[key] = record[key]
    BY <2>1, PutKeeps
  <2> QED
    BY <1>0, <2>2, <2>3
<1>3. CASE PersistEvidence(p)
  <2>1. PutJson(p, "evidence", p) /\ found' = found /\ "evidence" \in Kind
    BY <1>3 DEF PersistEvidence, Kind
  <2>2. <<"execution", a>> # <<"evidence", p[1]>>
    OBVIOUS
  <2>3. \A key \in Kind \X Attempt :
          record[key] # None \/ key # <<"evidence", p[1]>> => record'[key] = record[key]
    BY <2>1, PutKeeps
  <2> QED
    BY <1>0, <2>2, <2>3
<1>4. CASE PersistEvaluation(p)
  <2>1. PutJson(p, "evaluation", p) /\ found' = found /\ "evaluation" \in Kind
    BY <1>4 DEF PersistEvaluation, Kind
  <2>2. <<"execution", a>> # <<"evaluation", p[1]>>
    OBVIOUS
  <2>3. \A key \in Kind \X Attempt :
          record[key] # None \/ key # <<"evaluation", p[1]>> => record'[key] = record[key]
    BY <2>1, PutKeeps
  <2> QED
    BY <1>0, <2>2, <2>3
<1>5. CASE PersistExecution(p)
  <2>1. record' # record
    OBVIOUS
  <2>2. /\ record' = [record EXCEPT ![<<"execution", p[1]>>] = p]
        /\ record'[<<"execution", p[1]>>] = p /\ pos'[p] = Answer
    BY <1>5, <2>1, ExecutionPut
  <2>3. p[1] = a
    <3>1. CASE <<"execution", a>> # <<"execution", p[1]>>
      BY <1>0, <2>2, <3>1 DEF TypeOK
    <3> QED
      BY <3>1
  <2> QED
    BY <1>5, <2>2, <2>3 DEF Over
<1> QED
  BY <1>1, <1>2, <1>3, <1>4, <1>5

\* A try searches before it is at its answer, and never when it is over.
LEMMA FoundKept ==
  ASSUME TypeOK, [Next]_vars, NEW p \in Try, run[p] \in {"over", "conflict"} \/ pos[p] = Answer
  PROVE  found'[p] = found[p]
<1>1. CASE found' = found
  BY <1>1
<1>2. CASE found' # found
  <2>1. PICK q \in Try : DoResearch(q)
    BY <1>2 DEF Next, TryStep, StartAttempt, Cancel, Timeout, PickUp, Begin, Finish, Return,
         Fail, Die, PersistCandidates, PersistEvidence, PersistEvaluation,
         PersistArtifacts, PrepareProposal, PersistReference, PersistExecution, vars
  <2>2. run[q] = "running" /\ pos[q] = Research
    BY <2>1 DEF DoResearch, At
  <2>3. p # q
    BY <2>2
  <2> QED
    BY <2>1, <2>3 DEF DoResearch, TypeOK
<1> QED
  BY <1>1, <1>2

\* What a written execution record says stays true; what a new one says is what
\* its try owns.
LEMMA ExecutionStep ==
  ASSUME TypeOK, Places, Owns, ProposalsOwned, WrittenLast, ExecutionIsWhole, [Next]_vars
  PROVE  ExecutionIsWhole'
<1>1. Grows /\ ProposalsOwned'
  BY StepGrows, ProposalsStep
<1> SUFFICES ASSUME NEW a \in Attempt, NEW p, p = record'[<<"execution", a>>], p # None
             PROVE  /\ p \in Try /\ p[1] = a
                    /\ record'[<<"candidates", a>>] = found'[p]
                    /\ record'[<<"evidence", a>>] = p
                    /\ record'[<<"evaluation", a>>] = p
                    /\ p \in artifacts'
                    /\ autonomy' = "ask" => p \in proposals' /\ p \in references'
                    /\ autonomy' = "research_only" => \A q \in proposals' : q[1] # a
  BY DEF ExecutionIsWhole
<1>2. autonomy' = "research_only" => \A q \in proposals' : q[1] # a
  BY <1>1 DEF ProposalsOwned
<1>3. /\ <<"execution", a>> \in Kind \X Attempt /\ <<"candidates", a>> \in Kind \X Attempt
      /\ <<"evidence", a>> \in Kind \X Attempt /\ <<"evaluation", a>> \in Kind \X Attempt
  BY DEF Kind
<1>4. CASE record[<<"execution", a>>] # None
  <2>1. record[<<"execution", a>>] = p
    BY <1>1, <1>3, <1>4 DEF Grows
  <2>2. /\ p \in Try /\ p[1] = a
        /\ record[<<"candidates", a>>] = found[p]
        /\ record[<<"evidence", a>>] = p
        /\ record[<<"evaluation", a>>] = p
        /\ p \in artifacts
        /\ autonomy = "ask" => p \in proposals /\ p \in references
    BY <1>4, <2>1 DEF ExecutionIsWhole
  <2>3. found'[p] = found[p] /\ found[p] # None
    BY <1>4, <2>1, <2>2, FoundKept, ExecutorAssumption DEF WrittenLast
  <2> QED
    BY <1>1, <1>2, <1>3, <2>1, <2>2, <2>3 DEF Grows
<1>5. CASE record[<<"execution", a>>] = None
  <2>1. PICK q \in Try : PersistExecution(q) /\ q[1] = a /\ ~Over(q)
                         /\ record'[<<"execution", a>>] = q
    BY <1>5, NewExecution
  <2>2. Owns'
    BY OwnsStep
  <2>3. /\ pos'[q] = Answer /\ UNCHANGED <<autonomy, found>>
    BY <2>1, ExecutionPut DEF PersistExecution, setting
  <2>4. OwnsUpTo(q)'
    BY <2>1, <2>2 DEF Owns
  <2>5. \A k \in Research..Execution : Did(q, k)'
    BY <2>3 DEF Did
  <2>6. /\ record'[<<"candidates", a>>] = found'[q]
        /\ record'[<<"evidence", a>>] = q
        /\ record'[<<"evaluation", a>>] = q
        /\ q \in artifacts'
        /\ autonomy' = "ask" => q \in proposals' /\ q \in references'
    BY <2>1, <2>4, <2>5 DEF OwnsUpTo
  <2> QED
    BY <1>2, <2>1, <2>6
<1> QED
  BY <1>4, <1>5

\* A try that is over stays over, and one at its answer has nothing else to do.
LEMMA StaysLast ==
  ASSUME TypeOK, Places, [Next]_vars, NEW p \in Try,
         run[p] \in {"over", "conflict"} \/ pos[p] = Answer
  PROVE  run'[p] \in {"over", "conflict"} \/ pos'[p] = Answer
<1>1. ASSUME NEW a \in Attempt, StartAttempt(a) \/ Cancel(a) \/ Timeout(a)
      PROVE  run' = run /\ pos' = pos
  BY <1>1 DEF StartAttempt, Cancel, Timeout
<1>2. CASE TryStep(p)
  <2>1. run[p] \notin {"over", "conflict"} /\ pos[p] = Answer /\ phase[p] = "act"
    BY <1>2 DEF TryStep, PickUp, Begin, Finish, Return, Fail, Die, DoResearch, PersistCandidates,
         PersistEvidence, PersistEvaluation, PersistArtifacts, PrepareProposal,
         PersistReference, PersistExecution, At, Places
  <2>2. run[p] = "running"
    BY <2>1 DEF Places
  <2>3. Return(p) \/ Fail(p) \/ Die(p)
    BY <1>2, <2>1, <2>2 DEF TryStep, PickUp, Begin, Finish, DoResearch, PersistCandidates,
         PersistEvidence, PersistEvaluation, PersistArtifacts, PrepareProposal,
         PersistReference, PersistExecution, At
  <2> QED
    BY <2>3, Fallen DEF Over
<1>3. ASSUME NEW q \in Try, TryStep(q), q # p PROVE Still(p)
  BY <1>3, OthersStill
<1>4. CASE UNCHANGED vars
  BY <1>4 DEF vars
<1> QED
  BY <1>1, <1>2, <1>3, <1>4 DEF Next, Still

\* Whoever has written an execution record stays on its way out, with what it found.
LEMMA WrittenStep ==
  ASSUME TypeOK, Places, Owns, ExecutionIsWhole, WrittenLast, [Next]_vars
  PROVE  WrittenLast'
<1>1. Grows /\ Owns'
  BY StepGrows, OwnsStep
<1> SUFFICES ASSUME NEW a \in Attempt, NEW p, p = record'[<<"execution", a>>], p # None
             PROVE  /\ run'[p] \in {"over", "conflict"} \/ pos'[p] = Answer
                    /\ found'[p] \in Sources
  BY DEF WrittenLast
<1>2. <<"execution", a>> \in Kind \X Attempt
  BY DEF Kind
<1>3. CASE record[<<"execution", a>>] # None
  <2>1. record[<<"execution", a>>] = p
    BY <1>1, <1>2, <1>3 DEF Grows
  <2>2. p \in Try /\ found[p] \in Sources /\ (run[p] \in {"over", "conflict"} \/ pos[p] = Answer)
    BY <1>3, <2>1 DEF ExecutionIsWhole, WrittenLast
  <2> QED
    BY <2>2, StaysLast, FoundKept
<1>4. CASE record[<<"execution", a>>] = None
  <2>1. PICK q \in Try : PersistExecution(q) /\ q[1] = a /\ ~Over(q)
                         /\ record'[<<"execution", a>>] = q
    BY <1>4, NewExecution
  <2>2. pos'[q] = Answer
    BY <2>1, ExecutionPut
  <2>3. OwnsUpTo(q)' /\ Did(q, Research)'
    BY <1>1, <2>1, <2>2 DEF Owns, Did
  <2> QED
    BY <2>1, <2>2, <2>3 DEF OwnsUpTo
<1> QED
  BY <1>3, <1>4

\* An attempt that is settled stays as it is.
LEMMA SettledStays ==
  ASSUME TypeOK, [Next]_vars, NEW a \in Attempt, child[a] \notin {"none", "running"}
  PROVE  child'[a] = child[a] /\ tries'[a] = tries[a]
<1>1. ASSUME NEW b \in Attempt, NEW verdict, child[b] = "running", TryAgain(b, verdict)
      PROVE  child'[a] = child[a] /\ tries'[a] = tries[a]
  BY <1>1 DEF TryAgain, TypeOK
<1>2. ASSUME NEW p \in Try, NEW how, NEW verdict, Raises(p, how, verdict)
      PROVE  child'[a] = child[a] /\ tries'[a] = tries[a]
  <2>1. CASE Current(p)
    <3>1. p[1] \in Attempt /\ child[p[1]] = "running" /\ TryAgain(p[1], verdict)
      BY <1>2, <2>1, TryParts DEF Raises, Current
    <3> QED
      BY <1>1, <3>1
  <2>2. CASE ~Current(p)
    BY <1>2, <2>2 DEF Raises
  <2> QED
    BY <2>1, <2>2
<1>3. ASSUME NEW p \in Try, NEW kind, NEW content, PutJson(p, kind, content)
      PROVE  child'[a] = child[a] /\ tries'[a] = tries[a]
  BY <1>2, <1>3 DEF PutJson, server
<1>4. ASSUME NEW b \in Attempt, StartAttempt(b) \/ Cancel(b)
      PROVE  child'[a] = child[a] /\ tries'[a] = tries[a]
  BY <1>4 DEF StartAttempt, Cancel, TypeOK
<1>5. ASSUME NEW b \in Attempt, Timeout(b)
      PROVE  child'[a] = child[a] /\ tries'[a] = tries[a]
  BY <1>1, <1>5 DEF Timeout
<1>6. ASSUME NEW p \in Try, TryStep(p)
      PROVE  child'[a] = child[a] /\ tries'[a] = tries[a]
  <2>1. CASE PickUp(p) \/ Finish(p) \/ Die(p) \/ DoResearch(p) \/ PersistArtifacts(p)
             \/ PrepareProposal(p) \/ PersistReference(p)
    BY <2>1 DEF PickUp, Finish, Die, DoResearch, PersistArtifacts, PrepareProposal,
         PersistReference, server
  <2>2. CASE Begin(p)
    BY <1>2, <2>2 DEF Begin, server
  <2>3. CASE Fail(p)
    BY <1>2, <2>3 DEF Fail
  <2>4. CASE PersistCandidates(p) \/ PersistEvidence(p) \/ PersistEvaluation(p)
    BY <1>3, <2>4 DEF PersistCandidates, PersistEvidence, PersistEvaluation
  <2>5. CASE PersistExecution(p)
    BY <1>2, <2>5 DEF PersistExecution, server
  <2>6. CASE Return(p)
    BY <2>6, TryParts DEF Return, Current, TypeOK
  <2> QED
    BY <1>6, <2>1, <2>2, <2>3, <2>4, <2>5, <2>6 DEF TryStep
<1>7. CASE UNCHANGED vars
  BY <1>7 DEF vars
<1> QED
  BY <1>4, <1>5, <1>6, <1>7 DEF Next

\* Only the answer of the try the server waits for completes an attempt.
LEMMA NewlyCompleted ==
  ASSUME TypeOK, [Next]_vars, NEW a \in Attempt, child[a] # "completed", child'[a] = "completed"
  PROVE  \E p \in Try : Return(p) /\ p = <<a, tries[a]>>
<1>1. ASSUME NEW b \in Attempt, NEW verdict \in {"retryable", "failed"}, TryAgain(b, verdict)
      PROVE  FALSE
  BY <1>1 DEF TryAgain, TypeOK
<1>2. ASSUME NEW p \in Try, NEW how, NEW verdict \in {"retryable", "failed"}, Raises(p, how, verdict)
      PROVE  FALSE
  <2>1. CASE Current(p)
    <3>1. p[1] \in Attempt /\ TryAgain(p[1], verdict)
      BY <1>2, <2>1, TryParts DEF Raises
    <3> QED
      BY <1>1, <3>1
  <2>2. CASE ~Current(p)
    BY <1>2, <2>2 DEF Raises
  <2> QED
    BY <2>1, <2>2
<1>3. ASSUME NEW p \in Try, NEW kind, NEW content, PutJson(p, kind, content)
      PROVE  FALSE
  BY <1>2, <1>3 DEF PutJson, server
<1>4. ASSUME NEW b \in Attempt, StartAttempt(b) \/ Cancel(b)
      PROVE  FALSE
  BY <1>4 DEF StartAttempt, Cancel, TypeOK
<1>5. ASSUME NEW b \in Attempt, Timeout(b)
      PROVE  FALSE
  BY <1>1, <1>5 DEF Timeout
<1>6. ASSUME NEW p \in Try, TryStep(p)
      PROVE  Return(p) /\ p = <<a, tries[a]>>
  <2>1. CASE PickUp(p) \/ Finish(p) \/ Die(p) \/ DoResearch(p) \/ PersistArtifacts(p)
             \/ PrepareProposal(p) \/ PersistReference(p)
    BY <2>1 DEF PickUp, Finish, Die, DoResearch, PersistArtifacts, PrepareProposal,
         PersistReference, server
  <2>2. CASE Begin(p)
    BY <1>2, <2>2 DEF Begin, server
  <2>3. CASE Fail(p)
    BY <1>2, <2>3 DEF Fail
  <2>4. CASE PersistCandidates(p) \/ PersistEvidence(p) \/ PersistEvaluation(p)
    BY <1>3, <2>4 DEF PersistCandidates, PersistEvidence, PersistEvaluation
  <2>5. CASE PersistExecution(p)
    BY <1>2, <2>5 DEF PersistExecution, server
  <2>6. CASE Return(p)
    <3>1. Current(p) /\ p[1] = a
      BY <2>6, TryParts DEF Return, TypeOK
    <3> QED
      BY <2>6, <3>1, TryParts DEF Current
  <2> QED
    BY <1>6, <2>1, <2>2, <2>3, <2>4, <2>5, <2>6 DEF TryStep
<1>7. CASE UNCHANGED vars
  BY <1>7 DEF vars
<1> QED
  BY <1>4, <1>5, <1>6, <1>7 DEF Next

\* Whatever completes an attempt is the answer of its latest try, which has written
\* the execution record; afterwards nothing of it changes.
LEMMA CompletedStep ==
  ASSUME TypeOK, Owns, CompletedByLatestTry, Answered, [Next]_vars
  PROVE  CompletedByLatestTry' /\ Answered'
<1>1. Grows
  BY StepGrows
<1> SUFFICES ASSUME NEW a \in Attempt, child'[a] = "completed"
             PROVE  record'[<<"execution", a>>] = <<a, tries'[a]>> /\ <<a, tries'[a]>> \in Try
  BY DEF CompletedByLatestTry, Answered
<1>2. <<"execution", a>> \in Kind \X Attempt
  BY DEF Kind
<1>3. CASE child[a] = "completed"
  <2>1. tries'[a] = tries[a] /\ record[<<"execution", a>>] = <<a, tries[a]>>
    BY <1>3, SettledStays DEF CompletedByLatestTry
  <2>2. <<a, tries[a]>> \in Try
    BY <1>3 DEF Answered
  <2>3. record[<<"execution", a>>] # None
    BY <2>1, <2>2, ExecutorAssumption
  <2> QED
    BY <1>1, <1>2, <2>1, <2>2, <2>3 DEF Grows
<1>4. CASE child[a] # "completed"
  <2>1. PICK p \in Try : Return(p) /\ p = <<a, tries[a]>>
    BY <1>4, NewlyCompleted
  <2>2. pos[p] = Answer /\ record' = record /\ tries' = tries
    BY <2>1 DEF Return, At, stored
  <2>3. OwnsUpTo(p) /\ Did(p, Execution)
    BY <2>2 DEF Owns, Did
  <2> QED
    BY <2>1, <2>2, <2>3 DEF OwnsUpTo
<1> QED
  BY <1>3, <1>4

\* A try that has not moved still has its steps in the journal.
LEMMA JournaledStill ==
  ASSUME Grows, NEW q \in Try, JournaledUpTo(q), pos'[q] = pos[q], phase'[q] = phase[q]
  PROVE  JournaledUpTo(q)'
BY DEF JournaledUpTo, Grows

\* An operation leaves the journal as its step's beginning left it.
LEMMA JournaledOn ==
  ASSUME Grows, NEW q \in Try, JournaledUpTo(q), pos'[q] = pos[q], phase[q] = "act"
  PROVE  JournaledUpTo(q)'
BY DEF JournaledUpTo, Grows

\* A try has journaled what lies behind it.
LEMMA JournaledStep ==
  ASSUME TypeOK, Places, Journaled, [Next]_vars
  PROVE  Journaled'
<1>1. Grows
  BY StepGrows
<1>2. ASSUME NEW a \in Attempt, StartAttempt(a) \/ Cancel(a) \/ Timeout(a) PROVE Journaled'
  <2>1. pos' = pos /\ phase' = phase
    BY <1>2 DEF StartAttempt, Cancel, Timeout
  <2> QED
    BY <1>1, <2>1, JournaledStill DEF Journaled
<1>3. ASSUME NEW p \in Try, TryStep(p) PROVE Journaled'
  <2>1. \A q \in Try \ {p} : JournaledUpTo(q)'
    BY <1>1, <1>3, OthersStill, JournaledStill DEF Journaled, Still
  <2>2. JournaledUpTo(p)
    BY DEF Journaled
  <2>3. JournaledUpTo(p)'
    <3>1. CASE PickUp(p)
      BY <1>1, <2>2, <3>1, JournaledStill DEF PickUp
    <3>2. CASE Begin(p)
      <4>1. CASE Over(p)
        BY <4>1, OverOwns
      <4>2. CASE ~Over(p)
        <5>1. pos'[p] = pos[p] /\ events' = events \cup {<<p[1], pos[p], "started">>}
          BY <3>2, <4>2, Begun
        <5> QED
          BY <1>1, <2>2, <5>1 DEF JournaledUpTo, Grows
      <4> QED
        BY <4>1, <4>2
    <3>3. CASE Finish(p)
      <4>1. /\ phase[p] = "finish" /\ pos'[p] = Following(p)
            /\ phase'[p] = IF Following(p) \in Step THEN "start" ELSE "act"
            /\ events' = events \cup {<<p[1], pos[p], "completed">>}
            /\ autonomy' = autonomy /\ autonomy \in {"ask", "research_only"}
        BY <3>3 DEF Finish, Append, TypeOK, setting
      <4>2. pos[p] \in Step
        BY <4>1 DEF TypeOK, Places, Position, Step
      <4>3. /\ <<p[1], pos[p], "started">> \in events'
            /\ <<p[1], pos[p], "completed">> \in events'
        BY <1>1, <2>2, <4>1, <4>2 DEF JournaledUpTo, Grows
      <4>4. ASSUME NEW k \in Step, pos'[p] > k, k = Reference => autonomy = "ask"
            PROVE  <<p[1], k, "started">> \in events' /\ <<p[1], k, "completed">> \in events'
        <5>1. k \in Nat /\ pos[p] \in Nat /\ (pos[p] > k \/ pos[p] = k)
          BY <4>1, <4>2, <4>4 DEF Following, Step
        <5> QED
          BY <1>1, <2>2, <4>3, <4>4, <5>1 DEF JournaledUpTo, Grows
      <4>5. ASSUME NEW k \in Step, pos'[p] = k PROVE phase'[p] = "start"
        BY <4>1, <4>5
      <4> QED
        BY <4>1, <4>4, <4>5 DEF JournaledUpTo
    <3>4. CASE Return(p) \/ Fail(p) \/ Die(p)
      BY <3>4, Fallen, OverOwns
    <3>5. CASE DoResearch(p) \/ PersistArtifacts(p) \/ PrepareProposal(p) \/ PersistReference(p)
      <4>1. pos'[p] = pos[p] /\ phase[p] = "act"
        BY <3>5 DEF DoResearch, PersistArtifacts, PrepareProposal, PersistReference, At
      <4> QED
        BY <1>1, <2>2, <4>1, JournaledOn
    <3>6. CASE PersistCandidates(p) \/ PersistEvidence(p) \/ PersistEvaluation(p)
      <4>1. Over(p) \/ pos'[p] = pos[p]
        <5>1. PICK kind \in Kind, content \in {p, found[p]} : PutJson(p, kind, content)
          BY <3>6 DEF PersistCandidates, PersistEvidence, PersistEvaluation, Kind
        <5>2. found' = found
          BY <3>6 DEF PersistCandidates, PersistEvidence, PersistEvaluation
        <5> QED
          BY <5>1, <5>2, PutKeeps
      <4>2. phase[p] = "act"
        BY <3>6 DEF PersistCandidates, PersistEvidence, PersistEvaluation, At
      <4> QED
        BY <1>1, <2>2, <4>1, <4>2, JournaledOn, OverOwns
    <3>7. CASE PersistExecution(p)
      <4>1. CASE Over(p)
        BY <4>1, OverOwns
      <4>2. CASE ~Over(p)
        <5>1. pos[p] = Execution /\ pos'[p] = Answer
          BY <3>7, <4>2, ExecutionPut DEF PersistExecution, At
        <5>2. events' = events /\ autonomy' = autonomy
          BY <3>7 DEF PersistExecution, setting
        <5> QED
          BY <2>2, <5>1, <5>2 DEF JournaledUpTo, Step
      <4> QED
        BY <4>1, <4>2
    <3> QED
      BY <1>3, <3>1, <3>2, <3>3, <3>4, <3>5, <3>6, <3>7 DEF TryStep
  <2> QED
    BY <2>1, <2>3 DEF Journaled
<1>4. CASE UNCHANGED vars
  <2>1. pos' = pos /\ phase' = phase
    BY <1>4 DEF vars
  <2> QED
    BY <1>1, <2>1, JournaledStill DEF Journaled
<1> QED
  BY <1>2, <1>3, <1>4 DEF Next

\* A step is newly said to be completed by a try that stands behind its operation.
LEMMA NewCompletion ==
  ASSUME TypeOK, [Next]_vars, NEW a, NEW k,
         <<a, k, "completed">> \in events', <<a, k, "completed">> \notin events
  PROVE  \E p \in Try : Finish(p) /\ p[1] = a /\ pos[p] = k
<1>1. PICK p \in Try : Begin(p) \/ Finish(p)
  BY DEF Next, TryStep, StartAttempt, Cancel, Timeout, PickUp, Return, Fail, Die, DoResearch,
     PersistCandidates, PersistEvidence, PersistEvaluation, PersistArtifacts, PrepareProposal,
     PersistReference, PersistExecution, vars
<1>2. CASE Begin(p)
  BY <1>2 DEF Begin, Append
<1>3. CASE Finish(p)
  BY <1>3 DEF Finish, Append
<1> QED
  BY <1>1, <1>2, <1>3

\* What the journal says of one attempt.
Tells(a) ==
  LET Says(k) == <<a, k, "completed">> \in events
  IN /\ Says(Candidates) => record[<<"candidates", a>>] # None
     /\ Says(Evidence) => record[<<"evidence", a>>] # None
     /\ Says(Evaluation) => record[<<"evaluation", a>>] # None
     /\ Says(Artifacts) => \E p \in artifacts : p[1] = a
     /\ Says(Proposal) => autonomy = "research_only" \/ \E p \in proposals : p[1] = a
     /\ Says(Reference) => \E p \in references : p[1] = a
     /\ child[a] = "completed" =>
          \A k \in Step \ {Reference} : <<a, k, "started">> \in events /\ Says(k)

\* A new completion is journaled by a try that owns what the step keeps.
LEMMA AgreesStep ==
  ASSUME TypeOK, Places, Owns, Journaled, JournalAgrees, [Next]_vars
  PROVE  JournalAgrees'
<1>1. Grows
  BY StepGrows
<1> SUFFICES ASSUME NEW a \in Attempt PROVE Tells(a)'
  BY DEF JournalAgrees, Tells
<1>2. Tells(a)
  BY DEF JournalAgrees, Tells
<1>3. /\ <<"candidates", a>> \in Kind \X Attempt /\ <<"evidence", a>> \in Kind \X Attempt
      /\ <<"evaluation", a>> \in Kind \X Attempt
  BY DEF Kind
<1>4. child'[a] = "completed" =>
        \A k \in Step \ {Reference} :
          <<a, k, "started">> \in events' /\ <<a, k, "completed">> \in events'
  <2>1. CASE child[a] = "completed"
    BY <1>1, <1>2, <2>1 DEF Tells, Grows
  <2>2. CASE child[a] # "completed" /\ child'[a] = "completed"
    <3>1. PICK p \in Try : Return(p) /\ p = <<a, tries[a]>>
      BY <2>2, NewlyCompleted
    <3>2. pos[p] = Answer /\ p[1] = a
      BY <3>1 DEF Return, At
    <3>3. JournaledUpTo(p)
      BY DEF Journaled
    <3> QED
      BY <1>1, <3>2, <3>3 DEF JournaledUpTo, Grows, Step
  <2> QED
    BY <2>1, <2>2
<1>5. CASE \E k \in Step : <<a, k, "completed">> \in events' /\ <<a, k, "completed">> \notin events
  <2>1. PICK k \in Step : <<a, k, "completed">> \in events' /\ <<a, k, "completed">> \notin events
    BY <1>5
  <2>2. PICK p \in Try : Finish(p) /\ p[1] = a /\ pos[p] = k
    BY <2>1, NewCompletion
  <2>3. /\ phase[p] = "finish" /\ UNCHANGED <<record, artifacts, proposals, references, autonomy>>
        /\ events' = events \cup {<<a, k, "completed">>}
    BY <2>2 DEF Finish, Append, setting, stored
  <2>4. OwnsUpTo(p) /\ p # None /\ None \notin Sources /\ autonomy \in {"ask", "research_only"}
    BY ExecutorAssumption DEF Owns, TypeOK
  <2>5. Did(p, k) /\ \A j \in Step : j < k => Did(p, j)
    BY <2>2, <2>3 DEF Did, Step
  <2>6. k = Candidates => record[<<"candidates", a>>] # None
    BY <2>2, <2>4, <2>5 DEF OwnsUpTo, Step
  <2>7. k = Evidence => record[<<"evidence", a>>] # None
    BY <2>2, <2>4, <2>5 DEF OwnsUpTo
  <2>8. k = Evaluation => record[<<"evaluation", a>>] # None
    BY <2>2, <2>4, <2>5 DEF OwnsUpTo
  <2>9. k = Artifacts => \E q \in artifacts : q[1] = a
    BY <2>2, <2>4, <2>5 DEF OwnsUpTo
  <2>10. k = Proposal => autonomy = "research_only" \/ \E q \in proposals : q[1] = a
    BY <2>2, <2>4, <2>5 DEF OwnsUpTo
  <2>11. k = Reference => \E q \in references : q[1] = a
    BY <2>2, <2>4, <2>5 DEF OwnsUpTo, Places
  <2> QED
    BY <1>2, <1>4, <2>3, <2>6, <2>7, <2>8, <2>9, <2>10, <2>11 DEF Tells
<1>6. CASE \A k \in Step : <<a, k, "completed">> \in events' => <<a, k, "completed">> \in events
  <2>1. /\ record[<<"candidates", a>>] # None => record'[<<"candidates", a>>] # None
        /\ record[<<"evidence", a>>] # None => record'[<<"evidence", a>>] # None
        /\ record[<<"evaluation", a>>] # None => record'[<<"evaluation", a>>] # None
    BY <1>1, <1>3 DEF Grows
  <2>2. \A k \in {Candidates, Evidence, Evaluation, Artifacts, Proposal, Reference} :
          <<a, k, "completed">> \in events' => <<a, k, "completed">> \in events
    BY <1>6 DEF Step
  <2> QED
    BY <1>1, <1>2, <1>4, <2>1, <2>2 DEF Tells, Grows
<1> QED
  BY <1>5, <1>6

-----------------------------------------------------------------------------
(***************************************************************************)
(* The theorems                                                            *)
(***************************************************************************)

\* Before anything has run there is nothing to disagree about.
LEMMA InitIInv == Init => IInv
<1> SUFFICES ASSUME Init PROVE IInv
  OBVIOUS
<1>1. TypeOK
  BY ExecutorAssumption DEF Init, TypeOK, Position
<1>2. Places /\ Owns /\ Journaled
  BY DEF Init, Places, Owns, OwnsUpTo, Did, Journaled, JournaledUpTo, Step
<1>3. \A a \in Attempt : record[<<"execution", a>>] = None
  BY DEF Init, Kind
<1>4. ProposalsOwned /\ ExecutionIsWhole /\ WrittenLast
  BY <1>3 DEF Init, ProposalsOwned, ExecutionIsWhole, WrittenLast
<1>5. CompletedByLatestTry /\ Answered /\ JournalAgrees
  BY DEF Init, CompletedByLatestTry, Answered, JournalAgrees
<1> QED
  BY <1>1, <1>2, <1>4, <1>5 DEF IInv

\* The conjuncts support one another: together they are inductive.
LEMMA NextIInv == IInv /\ [Next]_vars => IInv'
BY TypeStep, PlacesStep, OwnsStep, ProposalsStep, ExecutionStep, WrittenStep, CompletedStep,
   JournaledStep, AgreesStep
DEF IInv

\* The invariant holds throughout.
THEOREM ExecutorInvariant == Spec => []IInv
BY InitIInv, NextIInv, PTL DEF Spec

\* Every variable keeps its type, however many attempts and tries there are.
THEOREM ExecutorTypes == Spec => []TypeOK
<1>1. IInv => TypeOK
  BY DEF IInv
<1> QED
  BY <1>1, ExecutorInvariant, PTL

\* However its tries overlap, die and are repeated, an attempt asks the operator
\* for one proposal at most: executor.py's puts let a single try beyond the
\* evidence.
THEOREM ProposesOnce == Spec => []OneProposalPerAttempt
<1>1. IInv => OneProposalPerAttempt
  BY DEF IInv, ProposalsOwned, OneProposalPerAttempt
<1> QED
  BY <1>1, ExecutorInvariant, PTL

\* An execution record never mixes the work of two tries, and nothing it names
\* is missing.
THEOREM ExecutionsAreWhole == Spec => []ExecutionIsWhole
<1>1. IInv => ExecutionIsWhole
  BY DEF IInv
<1> QED
  BY <1>1, ExecutorInvariant, PTL

\* A late answer is never taken for that of the try the server waits for.
THEOREM LatestTryCompletes == Spec => []CompletedByLatestTry
<1>1. IInv => CompletedByLatestTry
  BY DEF IInv
<1> QED
  BY <1>1, ExecutorInvariant, PTL

\* The journal's tool events agree with what is kept.
THEOREM ToolEventsAgree == Spec => []JournalAgrees
<1>1. IInv => JournalAgrees
  BY DEF IInv
<1> QED
  BY <1>1, ExecutorInvariant, PTL

\* What an attempt has stored is never replaced (repository.py's put).
THEOREM RecordsStay == Spec => [][Grows]_vars
<1>1. IInv /\ [Next]_vars => Grows
  BY StepGrows DEF IInv
<1> QED
  BY <1>1, ExecutorInvariant, PTL DEF Spec
=============================================================================
