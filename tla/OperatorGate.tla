---------------------------- MODULE OperatorGate ----------------------------
(***************************************************************************)
(* The operator's protected-action requests of integration/service.py      *)
(* (decide_proposal, execute_approved_email, edit_proposal, set_autonomy)  *)
(* for one run, over the three stores they coordinate without a common     *)
(* transaction: the broker (ApprovalBroker), the put-once integration      *)
(* records (integration/repository.py), and the email sink, taken here at  *)
(* its contract (ExternalEffect, which EmailExecution implements).         *)
(*                                                                         *)
(* A request is a coroutine of the API: it reads records, awaits, calls    *)
(* the broker, awaits, writes a record.  Other requests run at every await *)
(* and the process may die there.  The journal entries a handler appends   *)
(* after its last write are read by no guard and are left out.             *)
(***************************************************************************)
EXTENDS ApprovalBroker

CONSTANTS
  MaxAutonomy,   \* bound on the autonomy records of the run
  MaxDecisions,  \* bound on the decision records that are prepared
  MaxCrashes     \* bound on the requests that die

Mode == {"research_only", "external"}   \* the other two modes gate nothing here

Decision ==
  [proposal : Proposal, version : Nat, decision : {"approved", "rejected"},
   permit : Permit \cup {None}, stored : BOOLEAN]

Execution ==
  [proposal : Proposal, version : Nat, permit : Permit,
   state : {"confirmed", "failed_before_effect", "outcome_unknown"}]

Request ==
  [kind : {"approve", "reject", "edit", "execute", "autonomy"},
   step : {"read", "decide", "issue", "put", "edit", "commit", "consume",
           "dispatch", "answer", "record"},
   proposal : Proposal \cup {None},
   version : Nat,
   permit : Permit \cup {None},
   slot : Nat,                          \* the record it prepared
   result : {"", "confirmed", "failed_before_effect", "outcome_unknown"} \cup Mode]

ASSUME GateAssumption ==
  /\ MaxAutonomy \in Nat /\ MaxDecisions \in Nat /\ MaxCrashes \in Nat
  /\ None \notin Request

VARIABLES
  autonomy,     \* autonomy_mode records, by version
  refs,         \* proposal_ref records, in the order the executor made them
  decisions,    \* proposal_decision records in the order of created_at
  executions,   \* email_execution records
  request,      \* the operator request each caller is serving
  crashes,
  phase, maybe, effect   \* ExternalEffect, one action per permit

records == <<autonomy, refs, decisions, executions>>
effects == <<phase, maybe, effect>>
gateVars == <<vars, records, request, crashes, effects>>

Effects == INSTANCE ExternalEffect WITH Intent <- Permit

GateTypeOK ==
  /\ TypeOK
  /\ autonomy \in Seq(Mode)
  /\ refs \in Seq(Proposal)
  /\ decisions \in Seq(Decision)
  /\ executions \subseteq Execution
  /\ request \in [Caller -> Request \cup {None}]
  /\ crashes \in Nat
  /\ effect \in [Permit -> BOOLEAN]

GateInit ==
  /\ Init
  /\ Effects!Init
  /\ autonomy \in {<<mode>> : mode \in Mode}   \* create_run stores autonomy:1
  /\ refs = <<>>
  /\ decisions = <<>>
  /\ executions = {}
  /\ request = [c \in Caller |-> None]
  /\ crashes = 0

-----------------------------------------------------------------------------
(* Reading the records.                                                    *)

ExternalAllowed == autonomy[Len(autonomy)] # "research_only"

\* _proposal: the last proposal_ref, and the current version the broker has.
latest == refs[Len(refs)]

Decided(p, v) ==
  {n \in 1..Len(decisions) : /\ decisions[n].stored
                             /\ decisions[n].proposal = p /\ decisions[n].version = v}
LastDecision(p, v) ==
  decisions[CHOOSE n \in Decided(p, v) : \A m \in Decided(p, v) : m <= n]

Executed(p, v) == \E e \in executions : e.proposal = p /\ e.version = v

Serve(c, r) == request' = [request EXCEPT ![c] = r]
Finish(c) == Serve(c, None)

Fresh(kind, step) ==
  [kind |-> kind, step |-> step, proposal |-> None, version |-> 0, permit |-> None,
   slot |-> 0, result |-> ""]

At(c, step) == request[c] # None /\ request[c].step = step

-----------------------------------------------------------------------------
(* The worker's executor: a proposal is created, then its ref is stored.   *)

CreateRef(p, content) ==
  /\ content \in Controlled[revision]
  /\ CreateProposal(p, content)
  /\ UNCHANGED <<records, request, crashes, effects>>

StoreRef(p) ==
  /\ status[p] # "absent"
  /\ \A n \in 1..Len(refs) : refs[n] # p
  /\ refs' = Append(refs, p)
  /\ UNCHANGED <<vars, autonomy, decisions, executions, request, crashes, effects>>

-----------------------------------------------------------------------------
(* decide_proposal and edit_proposal.                                      *)

Enter(c, kind) ==
  /\ request[c] = None
  /\ refs # <<>> /\ ExternalAllowed
  /\ Serve(c, Fresh(kind, "read"))
  /\ UNCHANGED <<vars, records, crashes, effects>>

ReadProposal(c) ==
  /\ At(c, "read")
  /\ Serve(c, [request[c] EXCEPT
       !.step = IF request[c].kind = "edit" THEN "edit" ELSE "decide",
       !.proposal = latest, !.version = current(latest)])
  /\ UNCHANGED <<vars, records, crashes, effects>>

\* A decided version answers or refuses; either way nothing changes.
AlreadyDecided(c) ==
  /\ At(c, "decide")
  /\ Decided(request[c].proposal, request[c].version) # {}
  /\ Finish(c)
  /\ UNCHANGED <<vars, records, crashes, effects>>

Undecided(c, kind) ==
  /\ At(c, "decide") /\ request[c].kind = kind
  /\ Decided(request[c].proposal, request[c].version) = {}

\* The record is made, and dated, before it is stored.
Prepare(c, decision, permit) ==
  /\ Len(decisions) < MaxDecisions
  /\ decisions' = Append(decisions,
       [proposal |-> request[c].proposal, version |-> request[c].version,
        decision |-> decision, permit |-> permit, stored |-> FALSE])
  /\ Serve(c, [request[c] EXCEPT !.step = "put", !.slot = Len(decisions) + 1])

Approve(c) ==
  /\ Undecided(c, "approve")
  /\ LET r == request[c] IN
       BeginIssue(c, r.proposal, r.version, versions[r.proposal][r.version], revision)
  /\ Serve(c, [request[c] EXCEPT !.step = "issue"])
  /\ UNCHANGED <<records, crashes, effects>>

PermitIssued(c, k) ==
  /\ At(c, "issue")
  /\ IssuePermit(c, k)
  /\ Prepare(c, "approved", k)
  /\ UNCHANGED <<autonomy, refs, executions, crashes, effects>>

Reject(c) ==
  /\ Undecided(c, "reject")
  /\ Prepare(c, "rejected", None)
  /\ UNCHANGED <<vars, autonomy, refs, executions, crashes, effects>>

\* Slip: the reference of a decision is not derived from what it decides.
RefUnused(d) == TRUE
\* put: the first record under a reference stays; a second approval carries
\* another permit and raises, a second rejection is the same record.
RefFree(d) ==
  \A n \in Decided(d.proposal, d.version) : decisions[n].decision # d.decision

PutDecision(c) ==
  /\ At(c, "put") /\ request[c].kind \in {"approve", "reject"}
  /\ decisions' = [decisions EXCEPT ![request[c].slot].stored =
                     RefFree(decisions[request[c].slot])]
  /\ Finish(c)
  /\ UNCHANGED <<vars, autonomy, refs, executions, crashes, effects>>

\* Slip: the edit leaves the status of the reviewed version standing.
KeepStatus(p, content) ==
  /\ current(p) < MaxVersion
  /\ versions' = [versions EXCEPT ![p] = Append(@, content)]
  /\ UNCHANGED <<status, permits, intents, calls, revision, clock>>
StoreEdit(p, content) == EditProposal(p, content)

\* The proposal_version record that follows is read by no handler.
Edit(c, content) ==
  /\ At(c, "edit")
  /\ StoreEdit(request[c].proposal, content)
  /\ Finish(c)
  /\ UNCHANGED <<records, crashes, effects>>

-----------------------------------------------------------------------------
(* execute_approved_email.                                                 *)

\* Slip: a live permit of the version is looked up instead of the decided one.
SomePermit(p, v) ==
  CHOOSE k \in Permit : permits[k] # None /\ permits[k].proposal = p /\ permits[k].version = v
DecidedPermit(p, v) == LastDecision(p, v).permit

\* One listing of the records gives the autonomy, the last decision and the
\* prior execution.  The version read after it matches them only if nothing
\* moved in between, so both reads are one step.
Execute(c) ==
  /\ request[c] = None
  /\ refs # <<>> /\ ExternalAllowed
  /\ LET p == latest
         v == current(latest)
     IN /\ Decided(p, v) # {}
        /\ LastDecision(p, v).decision = "approved"
        /\ ~Executed(p, v)
        /\ Serve(c, [Fresh("execute", "commit") EXCEPT
             !.proposal = p, !.version = v, !.permit = DecidedPermit(p, v)])
  /\ UNCHANGED <<vars, records, crashes, effects>>

\* ProtectedEmailBoundary reads the current version again for its context.
Commit(c) ==
  /\ At(c, "commit")
  /\ LET p == request[c].proposal IN
       BeginCommit(c, request[c].permit, current(p), versions[p][current(p)])
  /\ Serve(c, [request[c] EXCEPT !.step = "consume"])
  /\ UNCHANGED <<records, crashes, effects>>

Committed(c) ==
  /\ At(c, "consume")
  /\ AuthorizeAndConsume(c)
  /\ Effects!Authorize(request[c].permit)
  /\ Serve(c, [request[c] EXCEPT !.step = "dispatch"])
  /\ UNCHANGED <<records, crashes>>

\* AuthorizationError leaves the handler, whichever call raised it.
BrokerRefused(c) ==
  /\ At(c, "issue") \/ At(c, "consume")
  /\ Refuse(c)
  /\ Finish(c)
  /\ UNCHANGED <<records, crashes, effects>>

Dispatch(c) ==
  /\ At(c, "dispatch")
  /\ Effects!Open(request[c].permit)
  /\ Serve(c, [request[c] EXCEPT !.step = "answer"])
  /\ UNCHANGED <<vars, records, crashes>>

\* Slip: an ambiguous outcome is reported as a failure.
FailureShown(k) == Effects!CloseAmbiguous(k)
FailureClosed(k) == Effects!CloseWithoutEffect(k)

Answered(c) ==
  /\ At(c, "answer")
  /\ LET k == request[c].permit
         Close(closing, result) ==
           closing /\ Serve(c, [request[c] EXCEPT !.step = "record", !.result = result])
     IN \/ Close(Effects!Confirm(k), "confirmed")
        \/ Close(FailureClosed(k), "failed_before_effect")
        \/ Close(Effects!CloseAmbiguous(k), "outcome_unknown")
  /\ UNCHANGED <<vars, records, crashes>>

\* The email itself happens outside, during the attempt or after a lost answer.
EmailSent(k) ==
  /\ ~effect[k]
  /\ Effects!TakeEffect(k)
  /\ UNCHANGED <<vars, records, request, crashes>>

RecordExecution(c) ==
  /\ At(c, "record")
  /\ LET r == request[c] IN
       executions' = IF Executed(r.proposal, r.version) THEN executions
                     ELSE executions \cup
                       {[proposal |-> r.proposal, version |-> r.version,
                         permit |-> r.permit, state |-> r.result]}
  /\ Finish(c)
  /\ UNCHANGED <<vars, autonomy, refs, decisions, crashes, effects>>

-----------------------------------------------------------------------------
(* set_autonomy.                                                           *)

SetAutonomy(c, mode) ==
  /\ request[c] = None
  /\ mode # autonomy[Len(autonomy)]
  /\ Len(autonomy) < MaxAutonomy
  /\ Serve(c, [Fresh("autonomy", "put") EXCEPT
       !.slot = Len(autonomy) + 1, !.result = mode])
  /\ UNCHANGED <<vars, records, crashes, effects>>

\* The reference is the version number: of two concurrent changes one raises.
PutAutonomy(c) ==
  /\ At(c, "put") /\ request[c].kind = "autonomy"
  /\ autonomy' = IF Len(autonomy) < request[c].slot
                 THEN Append(autonomy, request[c].result) ELSE autonomy
  /\ Finish(c)
  /\ UNCHANGED <<vars, refs, decisions, executions, crashes, effects>>

-----------------------------------------------------------------------------
\* The API process dies or the client's request is cancelled at an await.
Crash(c) ==
  /\ request[c] # None
  /\ crashes < MaxCrashes
  /\ crashes' = crashes + 1
  /\ IF calls[c] = None THEN UNCHANGED vars ELSE Abandon(c)
  /\ Finish(c)
  /\ UNCHANGED <<records, effects>>

GateTick == Tick /\ UNCHANGED <<records, request, crashes, effects>>

GateNext ==
  \/ \E p \in Proposal, content \in Content : CreateRef(p, content)
  \/ \E p \in Proposal : StoreRef(p)
  \/ \E c \in Caller, kind \in {"approve", "reject", "edit"} : Enter(c, kind)
  \/ \E c \in Caller, content \in Content : Edit(c, content)
  \/ \E c \in Caller, k \in Permit : PermitIssued(c, k)
  \/ \E c \in Caller :
       \/ ReadProposal(c) \/ AlreadyDecided(c) \/ Approve(c) \/ Reject(c) \/ PutDecision(c)
       \/ Execute(c) \/ Commit(c) \/ Committed(c) \/ BrokerRefused(c)
       \/ Dispatch(c) \/ Answered(c) \/ RecordExecution(c)
       \/ PutAutonomy(c) \/ Crash(c)
  \/ \E c \in Caller, mode \in Mode : SetAutonomy(c, mode)
  \/ \E k \in Permit : EmailSent(k)
  \/ GateTick

GateSpec == GateInit /\ [][GateNext]_gateVars

-----------------------------------------------------------------------------
(* Properties.                                                             *)

\* However approvals, rejections and executions of one version interleave, and
\* wherever a request dies, the version is authorized at most once: the put-once
\* decision record makes every other permit of the version unreachable.
OneIntentPerVersion ==
  \A i, j \in 1..Len(intents) :
    intents[i].proposal = intents[j].proposal /\ intents[i].version = intents[j].version
      => i = j

\* Nothing leaves that the operator cannot find in the decisions: the permit of
\* every intent is named by a stored approval of that very version.
IntentsWereDecided ==
  \A i \in 1..Len(intents) :
    \E n \in Decided(intents[i].proposal, intents[i].version) :
      decisions[n].decision = "approved" /\ decisions[n].permit = intents[i].permit

\* The execution record agrees with the outcome store and the world: a recorded
\* confirmation was an email, a recorded failure was none, and an ambiguous
\* outcome is still ambiguous.
ExecutionsTrue ==
  \A e \in executions :
    /\ \E i \in 1..Len(intents) :
         intents[i].permit = e.permit /\ intents[i].proposal = e.proposal
                                      /\ intents[i].version = e.version
    /\ e.state = "confirmed" => phase[e.permit] = "confirmed" /\ effect[e.permit]
    /\ e.state = "failed_before_effect" => phase[e.permit] = "ready" /\ ~effect[e.permit]
    /\ e.state = "outcome_unknown" => phase[e.permit] = "ambiguous"

\* What the handlers do to the broker's rows is what ApprovalBroker allows, so
\* everything proved of the broker holds under the gate.
GateUsesBroker == Spec

\* "Provider unknown | No second send until reconciliation" (architecture.md:249):
\* no attempt is opened while another email of the proposal is unresolved.
NoSecondSendUntilReconciled ==
  [][\A i, j \in 1..Len(intents) :
       /\ intents[i].proposal = intents[j].proposal
       /\ phase[intents[i].permit] = "ambiguous"
       => ~(phase[intents[j].permit] = "ready" /\ phase'[intents[j].permit] = "open")]_gateVars

=============================================================================
