------------------------------ MODULE Executor ------------------------------
(***************************************************************************)
(* The execute-work activity of one work item under one revision of the    *)
(* request (integration/executor.py),                                      *)
(* as the child workflow schedules it (workflows/child.py), over the       *)
(* records, the journal and the proposals of its run.                      *)
(*                                                                         *)
(* The parent numbers the ATTEMPTS of the item, one child workflow each;   *)
(* Temporal gives the activity of an attempt several TRIES.  A try that    *)
(* the server has given up - its time is over, or the child was cancelled  *)
(* - may still run: the activity sends no heartbeats, so nothing tells it, *)
(* and its writes go where those of its successor go.  The records of the  *)
(* steps are keyed by the attempt, artifacts and proposals by a random id. *)
(*                                                                         *)
(* A try runs through the positions below.  Where the code journals        *)
(* several steps in a row that touch nothing outside the try - loading the *)
(* request, searching and extracting, evaluating and ranking - one         *)
(* position stands for them, and one artifact for the set.                 *)
(***************************************************************************)
EXTENDS Naturals

CONSTANTS
  MaxAttempts,     \* bound on the attempts of the item
  MaxTries,        \* retry.maximum_attempts
  MaxPaused,       \* bound: an attempt is cancelled during its first MaxPaused tries
  Sources,         \* what a search may find
  FailureSteps,    \* what the demo's failure step may be set to
  None             \* no record, nothing found yet, no failure step

Research == 1
Candidates == 2
Evidence == 3
Evaluation == 4
Artifacts == 5
Proposal == 6
Reference == 7
Execution == 8
Answer == 9

Position == Research..Answer
\* The positions that _step journals.
Step == Research..Reference
Attempt == 1..MaxAttempts
Try == Attempt \X (1..MaxTries)
Kind == {"candidates", "evidence", "evaluation", "execution"}

ASSUME ExecutorAssumption ==
  /\ MaxAttempts \in Nat \ {0} /\ MaxTries \in Nat \ {0} /\ MaxPaused \in Nat
  /\ FailureSteps \subseteq Step \cup {None}
  /\ None \notin Sources \cup Try \cup Step

VARIABLES
  failure,         \* the demo profile's failure step
  autonomy,        \* the autonomy mode of the record they load
  child,           \* attempt -> the state of its child workflow
  tries,           \* attempt -> the number of its latest try
  run,             \* try -> waiting, running, over, or over with a conflict
  pos, phase,      \* try -> where it is, and on which side of the step's events
  found,           \* try -> what its search has found (kept when it is over)
  record,          \* the integration records: (kind, attempt) -> their content
  artifacts,       \* the artifact records, named by the try that wrote them
  proposals,       \* the broker's proposals, named by the try that made them
  references,      \* the proposal_ref records
  events           \* the journal's tool events, by idempotency key

server == <<child, tries, run>>
stored == <<record, artifacts, proposals, references>>
setting == <<failure, autonomy>>
vars == <<failure, autonomy, child, tries, run, pos, phase, found, record,
          artifacts, proposals, references, events>>

Init ==
  /\ failure \in FailureSteps
  /\ autonomy \in {"ask", "research_only"}
  /\ child = [a \in Attempt |-> "none"]
  /\ tries = [a \in Attempt |-> 0]
  /\ run = [p \in Try |-> "waiting"]
  /\ pos = [p \in Try |-> Research]
  /\ phase = [p \in Try |-> "start"]
  /\ found = [p \in Try |-> None]
  /\ record = [k \in Kind \X Attempt |-> None]
  /\ artifacts = {} /\ proposals = {} /\ references = {} /\ events = {}

\* Slip: any answer of an attempt that runs will do.
CurrentAttempt(p) == child[p[1]] = "running"

\* The server still waits for the answer of try p.
Current(p) == child[p[1]] = "running" /\ tries[p[1]] = p[2]

-----------------------------------------------------------------------------
(***************************************************************************)
(* The server and the child workflow                                       *)
(***************************************************************************)

\* The latest try of attempt a has failed: RetryPolicy allows another one, or
\* the child returns FAILED.  A cause that names no class of the taxonomy - a
\* ValueError, a timeout - is a TOOL_BUG, which no operator can retry.
TryAgain(a, verdict) ==
  IF tries[a] < MaxTries
  THEN tries' = [tries EXCEPT ![a] = @ + 1] /\ UNCHANGED child
  ELSE child' = [child EXCEPT ![a] = verdict] /\ UNCHANGED tries

\* Try p is over: nothing of its own is left but what it has written.
Ends(p, how) ==
  /\ run' = [run EXCEPT ![p] = how]
  /\ pos' = [pos EXCEPT ![p] = Research]
  /\ phase' = [phase EXCEPT ![p] = "start"]

\* Try p raises; an answer the server no longer waits for is dropped.
Raises(p, how, verdict) ==
  /\ Ends(p, how)
  /\ IF Current(p) THEN TryAgain(p[1], verdict) ELSE UNCHANGED <<child, tries>>

\* The parent starts attempt a: the first, the one that follows a pause, or the
\* operator's retry of a retryable failure.
StartAttempt(a) ==
  /\ child[a] = "none"
  /\ a > 1 => child[a - 1] \in {"cancelled", "retryable"}
  /\ child' = [child EXCEPT ![a] = "running"]
  /\ tries' = [tries EXCEPT ![a] = 1]
  /\ UNCHANGED <<setting, run, pos, phase, found, stored, events>>

\* The parent cancels the child.  The child returns CANCELLED at once; a try
\* that runs is not told.
Cancel(a) ==
  /\ child[a] = "running" /\ tries[a] <= MaxPaused
  /\ child' = [child EXCEPT ![a] = "cancelled"]
  /\ UNCHANGED <<setting, tries, run, pos, phase, found, stored, events>>

\* Slip: only a try that is heard of can be late.
TimeoutOfLiving(a) ==
  /\ child[a] = "running"
  /\ run[<<a, tries[a]>>] = "running"
  /\ TryAgain(a, "failed")
  /\ UNCHANGED <<setting, run, pos, phase, found, stored, events>>

\* start_to_close_timeout, counted from the moment a worker has taken the try.
Timeout(a) ==
  /\ child[a] = "running"
  /\ run[<<a, tries[a]>>] # "waiting"
  /\ TryAgain(a, "failed")
  /\ UNCHANGED <<setting, run, pos, phase, found, stored, events>>

\* A worker takes the try the server has scheduled.
PickUp(p) ==
  /\ Current(p) /\ run[p] = "waiting"
  /\ run' = [run EXCEPT ![p] = "running"]
  /\ UNCHANGED <<setting, child, tries, pos, phase, found, stored, events>>

-----------------------------------------------------------------------------
(***************************************************************************)
(* One try                                                                 *)
(***************************************************************************)

At(p, k) == run[p] = "running" /\ pos[p] = k /\ phase[p] = "act"

\* The operation of a step has returned; Finish journals that.
Proceed(p) == phase' = [phase EXCEPT ![p] = "finish"]

\* Slip: the key leaves out the attempt.
AppendOncePerItem(p, status) == events' = events \cup {<<1, pos[p], status>>}

\* The events have idempotency keys: what a try has appended, another try of
\* the attempt appends again without effect.
Append(p, status) == events' = events \cup {<<p[1], pos[p], status>>}

Begin(p) ==
  /\ run[p] = "running" /\ phase[p] = "start"
  /\ Append(p, "started")
  /\ IF pos[p] = failure /\ p[1] = 1
     THEN Raises(p, "over", "retryable")
     ELSE phase' = [phase EXCEPT ![p] = "act"] /\ UNCHANGED <<server, pos>>
  /\ UNCHANGED <<setting, found, stored>>

\* Under research-only autonomy the proposal's step is `proposal.suppress', and
\* no reference is kept.  The execution record and the answer are no steps.
Following(p) ==
  IF pos[p] = Proposal /\ autonomy = "research_only" THEN Execution ELSE pos[p] + 1

Finish(p) ==
  /\ run[p] = "running" /\ phase[p] = "finish"
  /\ Append(p, "completed")
  /\ pos' = [pos EXCEPT ![p] = Following(p)]
  /\ phase' = [phase EXCEPT ![p] = IF Following(p) \in Step THEN "start" ELSE "act"]
  /\ UNCHANGED <<setting, server, found, stored>>

\* Slip: put replaces what it finds.
NeverReused(key, content) == FALSE

\* IntegrationRepository.put: the first content stays; the same content again
\* is answered with it, any other raises ValueError.
Reused(key, content) == record[key] \notin {None, content}

\* Slip: put answers with what it finds, whatever that is.
PutJsonKeepingFirst(p, kind, content) ==
  /\ record' = IF Reused(<<kind, p[1]>>, content)
               THEN record
               ELSE [record EXCEPT ![<<kind, p[1]>>] = content]
  /\ Proceed(p)
  /\ UNCHANGED <<server, pos>>

\* _put_json: the record's reference is made of its kind and the attempt (and
\* the attempt's revision).
PutJson(p, kind, content) ==
  IF Reused(<<kind, p[1]>>, content)
  THEN Raises(p, "conflict", "failed") /\ UNCHANGED record
  ELSE /\ record' = [record EXCEPT ![<<kind, p[1]>>] = content]
       /\ Proceed(p)
       /\ UNCHANGED <<server, pos>>

\* Search, candidates, snapshots and extraction.  The snapshot store
\* lives and dies with the try.
DoResearch(p) ==
  /\ At(p, Research)
  /\ \E s \in Sources : found' = [found EXCEPT ![p] = s]
  /\ Proceed(p)
  /\ UNCHANGED <<setting, server, pos, stored, events>>

\* A candidate's id is made of its place in the list: what two tries find alike
\* they store alike.
CandidatesOf(p) == found[p]

\* An observation has a random id, and so has its snapshot: no two tries have the
\* same evidence.  The content is named by the try.
EvidenceOf(p) == p

\* The evaluation names the observations it rests on.
EvaluationOf(p) == EvidenceOf(p)

PersistCandidates(p) ==
  /\ At(p, Candidates)
  /\ PutJson(p, "candidates", CandidatesOf(p))
  /\ UNCHANGED <<setting, found, artifacts, proposals, references, events>>

PersistEvidence(p) ==
  /\ At(p, Evidence)
  /\ PutJson(p, "evidence", EvidenceOf(p))
  /\ UNCHANGED <<setting, found, artifacts, proposals, references, events>>

PersistEvaluation(p) ==
  /\ At(p, Evaluation)
  /\ PutJson(p, "evaluation", EvaluationOf(p))
  /\ UNCHANGED <<setting, found, artifacts, proposals, references, events>>

\* A fresh reference: put finds nothing there.
PersistArtifacts(p) ==
  /\ At(p, Artifacts)
  /\ artifacts' = artifacts \cup {p}
  /\ Proceed(p)
  /\ UNCHANGED <<setting, server, pos, found, record, proposals, references, events>>

PrepareProposal(p) ==
  /\ At(p, Proposal)
  /\ proposals' = IF autonomy = "research_only" THEN proposals ELSE proposals \cup {p}
  /\ Proceed(p)
  /\ UNCHANGED <<setting, server, pos, found, record, artifacts, references, events>>

\* The record's reference is the new proposal's id.
PersistReference(p) ==
  /\ At(p, Reference)
  /\ references' = references \cup {p}
  /\ Proceed(p)
  /\ UNCHANGED <<setting, server, pos, found, record, artifacts, proposals, events>>

\* The execution record names the try's artifacts and its proposal.
PersistExecution(p) ==
  /\ At(p, Execution)
  /\ IF Reused(<<"execution", p[1]>>, p)
     THEN Raises(p, "conflict", "failed") /\ UNCHANGED record
     ELSE /\ record' = [record EXCEPT ![<<"execution", p[1]>>] = p]
          /\ pos' = [pos EXCEPT ![p] = Answer]
          /\ UNCHANGED <<server, phase>>
  /\ UNCHANGED <<setting, found, artifacts, proposals, references, events>>

\* The WorkExecution reaches the server, if it still waits for it.
Return(p) ==
  /\ At(p, Answer)
  /\ Ends(p, "over")
  /\ child' = IF Current(p) THEN [child EXCEPT ![p[1]] = "completed"] ELSE child
  /\ UNCHANGED <<setting, tries, found, stored, events>>

\* A search, the broker, the database or the journal raises.
Fail(p) ==
  /\ run[p] = "running"
  /\ Raises(p, "over", "failed")
  /\ UNCHANGED <<setting, found, stored, events>>

\* The worker's process dies; the server learns of it by the timeout alone.
Die(p) ==
  /\ run[p] = "running"
  /\ Ends(p, "over")
  /\ UNCHANGED <<setting, child, tries, found, stored, events>>
-----------------------------------------------------------------------------

TryStep(p) ==
  \/ PickUp(p) \/ Begin(p) \/ Finish(p) \/ Return(p) \/ Fail(p) \/ Die(p)
  \/ DoResearch(p)
  \/ PersistCandidates(p) \/ PersistEvidence(p) \/ PersistEvaluation(p)
  \/ PersistArtifacts(p) \/ PrepareProposal(p) \/ PersistReference(p)
  \/ PersistExecution(p)

Next ==
  \/ \E a \in Attempt : StartAttempt(a) \/ Cancel(a) \/ Timeout(a)
  \/ \E p \in Try : TryStep(p)

Spec == Init /\ [][Next]_vars

\* Some worker is up and takes what is scheduled, and the server keeps its
\* timers.  Nothing is asked of a worker that has taken a try.  One attempt runs
\* at a time, so that the two quantifiers never choose.
FairSpec ==
  /\ Spec
  /\ WF_vars(\E p \in Try : PickUp(p))
  /\ WF_vars(\E a \in Attempt : Timeout(a))

-----------------------------------------------------------------------------
(***************************************************************************)
(* Properties                                                              *)
(***************************************************************************)

\* Every variable has its type.
TypeOK ==
  /\ failure \in Step \cup {None}
  /\ autonomy \in {"ask", "research_only"}
  /\ child \in [Attempt -> {"none", "running", "completed", "cancelled", "retryable", "failed"}]
  /\ tries \in [Attempt -> 0..MaxTries]
  /\ run \in [Try -> {"waiting", "running", "over", "conflict"}]
  /\ pos \in [Try -> Position]
  /\ phase \in [Try -> {"start", "act", "finish"}]
  /\ found \in [Try -> Sources \cup {None}]
  /\ record \in [Kind \X Attempt -> Sources \cup Try \cup {None}]
  /\ artifacts \subseteq Try /\ proposals \subseteq Try /\ references \subseteq Try
  /\ events \subseteq Attempt \X Step \X {"started", "completed"}

\* However the tries of an attempt overlap, at most one of them gets as far as a
\* proposal: the operator is never asked twice for the same attempt.
OneProposalPerAttempt == \A p, q \in proposals : p[1] = q[1] => p = q

\* What an execution record names is there, and all of it is the work of one
\* try: no comparison rests on another try's evidence, no proposal carries
\* another try's artifacts.
ExecutionIsWhole ==
  \A a \in Attempt :
    LET p == record[<<"execution", a>>]
    IN p # None =>
         /\ p \in Try /\ p[1] = a
         /\ record[<<"candidates", a>>] = found[p]
         /\ record[<<"evidence", a>>] = p
         /\ record[<<"evaluation", a>>] = p
         /\ p \in artifacts
         /\ autonomy = "ask" => p \in proposals /\ p \in references
         /\ autonomy = "research_only" => \A q \in proposals : q[1] # a

\* A completed attempt has an execution record, and it is that of the try the
\* server was waiting for: no late answer of an earlier try is taken for it.
CompletedByLatestTry ==
  \A a \in Attempt :
    child[a] = "completed" => record[<<"execution", a>>] = <<a, tries[a]>>

\* The journal says that a step of an attempt is completed only when what the
\* step keeps is kept, and it says so of every step of a completed attempt.
JournalAgrees ==
  \A a \in Attempt :
    LET Says(k) == <<a, k, "completed">> \in events
    IN /\ Says(Candidates) => record[<<"candidates", a>>] # None
       /\ Says(Evidence) => record[<<"evidence", a>>] # None
       /\ Says(Evaluation) => record[<<"evaluation", a>>] # None
       /\ Says(Artifacts) => \E p \in artifacts : p[1] = a
       /\ Says(Proposal) =>
            autonomy = "research_only" \/ \E p \in proposals : p[1] = a
       /\ Says(Reference) => \E p \in references : p[1] = a
       /\ child[a] = "completed" =>
            \A k \in Step \ {Reference} : <<a, k, "started">> \in events /\ Says(k)

\* No attempt runs for ever: whatever dies, its child returns, and for a moment,
\* until the parent starts the next attempt, none runs.
AttemptSettles ==
  (\E a \in Attempt : child[a] = "running") ~> (\A a \in Attempt : child[a] # "running")

\* An attempt fails only when every try of it has failed of itself: a worker
\* that is stopped and started again does not make the next try fail.
FailsOnlyByFaults ==
  \A a \in Attempt :
    child[a] = "failed" => \A n \in 1..MaxTries : run[<<a, n>>] # "conflict"
=============================================================================
