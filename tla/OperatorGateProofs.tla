------------------------- MODULE OperatorGateProofs -------------------------
(***************************************************************************)
(* Of the operator's gate, for any number of requests, proposals, permits, *)
(* decisions and crashes: the handlers use the broker as ApprovalBroker    *)
(* allows, a version is authorized once and only after a decision, and     *)
(* what is recorded of an execution is true.                               *)
(*                                                                         *)
(* Three stores without a common transaction agree because of what each    *)
(* request may rely on at its await.  A decision that was prepared is its  *)
(* request's own until it is stored; a permit that a request has taken     *)
(* from a stored approval is the only one that version will ever have; and *)
(* whoever consumed a permit is alone with its external effect.            *)
(***************************************************************************)
EXTENDS OperatorGate, ApprovalBrokerProofs, Integers, WellFoundedInduction

Executing == {"commit", "consume", "dispatch", "answer", "record"}
Effecting == {"dispatch", "answer", "record"}
Result == {"confirmed", "failed_before_effect", "outcome_unknown"}

Tables ==
  /\ autonomy \in Seq(Mode)
  /\ refs \in Seq(Proposal)
  /\ decisions \in Seq(Decision)
  /\ executions \subseteq Execution
  /\ request \in [Caller -> Request \cup {None}]
  /\ crashes \in Nat
  /\ phase \in [Permit -> {"absent", "ready", "open", "ambiguous", "examined",
                           "confirmed", "operator"}]
  /\ maybe \in [Permit -> BOOLEAN]
  /\ effect \in [Permit -> BOOLEAN]
  /\ \A p \in Proposal : Len(versions[p]) <= MaxVersion

-----------------------------------------------------------------------------
(* What a request holds at its await.                                      *)

Shaped(r) ==
  /\ r.step \in {"decide", "edit", "issue"} \cup Executing => r.proposal \in Proposal
  /\ r.step \in Executing => r.permit \in Permit
  /\ r.step = "issue" => r.kind # "autonomy"
  /\ r.step = "put" /\ r.kind = "autonomy" => r.result \in Mode
  /\ r.step = "record" => r.result \in Result

\* The call of the broker it has under way.
Carries(r, call) ==
  \/ /\ r.step = "issue" /\ call \in IssueCall
     /\ call.proposal = r.proposal /\ call.version = r.version
  \/ r.step = "consume" /\ call \in CommitCall /\ call.permit = r.permit

Served ==
  \A c \in Caller :
    /\ request[c] # None =>
         Shaped(request[c]) /\ (request[c].step = "read" => refs # <<>>)
    /\ calls[c] # None => request[c] # None /\ Carries(request[c], calls[c])

\* A stored approval of the version, with that permit.
Approved(p, v, k) ==
  \E n \in Decided(p, v) : decisions[n].decision = "approved" /\ decisions[n].permit = k

\* It has prepared a decision and not stored it yet.
Storing(r) == r # None /\ r.step = "put" /\ r.kind # "autonomy"

Executes(r) == r # None /\ r.step \in Executing
Affects(r) == r # None /\ r.step \in Effecting

\* A permit a decision names was issued for the version decided on.
Issues(n) ==
  LET d == decisions[n] IN
  d.decision = "approved" =>
    /\ d.permit \in Permit /\ permits[d.permit] # None
    /\ permits[d.permit].proposal = d.proposal
    /\ permits[d.permit].version = d.version

ExecutionApproved(c) ==
  Executes(request[c]) =>
    Approved(request[c].proposal, request[c].version, request[c].permit)

IntentApproved(i) ==
  Approved(intents[i].proposal, intents[i].version, intents[i].permit)

DecidedOnce ==
  \A m, n \in 1..Len(decisions) :
    /\ decisions[m].stored /\ decisions[n].stored
    /\ decisions[m].proposal = decisions[n].proposal
    /\ decisions[m].version = decisions[n].version
    /\ decisions[m].decision = decisions[n].decision
    => m = n

Approvals ==
  /\ DecidedOnce
  /\ \A n \in 1..Len(decisions) : Issues(n)
  /\ \A c \in Caller : Storing(request[c]) =>
       request[c].slot \in 1..Len(decisions) /\ ~decisions[request[c].slot].stored
  /\ \A c, d \in Caller :
       Storing(request[c]) /\ Storing(request[d]) /\ request[c].slot = request[d].slot => c = d
  /\ \A c \in Caller : ExecutionApproved(c)
  /\ \A i \in 1..Len(intents) : IntentApproved(i)

\* A result that is reported is still what the outcome store says.
Truth(k, result) ==
  /\ result = "confirmed" => phase[k] = "confirmed" /\ effect[k]
  /\ result = "failed_before_effect" => phase[k] = "ready" /\ ~effect[k]
  /\ result = "outcome_unknown" => phase[k] = "ambiguous"

InPhase(r) ==
  /\ r.step = "dispatch" => /\ phase[r.permit] = "ready" /\ ~effect[r.permit]
                            /\ \A e \in executions : e.permit # r.permit
  /\ r.step = "answer" => phase[r.permit] = "open"
  /\ r.step = "record" => Truth(r.permit, r.result)

Consumed(p, v, k) ==
  \E i \in 1..Len(intents) : /\ intents[i].permit = k
                             /\ intents[i].proposal = p /\ intents[i].version = v

Working(c) ==
  Affects(request[c]) =>
    /\ Consumed(request[c].proposal, request[c].version, request[c].permit)
    /\ InPhase(request[c])

Alone ==
  \A c, d \in Caller :
    Affects(request[c]) /\ Affects(request[d]) /\ request[c].permit = request[d].permit
    => c = d

Fits(k) ==
  /\ maybe[k] => phase[k] = "ambiguous"
  /\ effect[k] => phase[k] \in {"open", "ambiguous", "confirmed"}

Recorded(e) == Consumed(e.proposal, e.version, e.permit) /\ Truth(e.permit, e.state)

Resolved ==
  /\ Alone
  /\ \A c \in Caller : Working(c)
  /\ \A k \in Permit : Fits(k)
  /\ \A e \in executions : Recorded(e)

IInv == BrokerInv /\ Tables /\ Served /\ Approvals /\ Resolved

-----------------------------------------------------------------------------
(* The gate uses the broker.                                               *)

LEMMA RequestTypes ==
  ASSUME IInv, NEW c \in Caller, request[c] # None
  PROVE  request[c] \in Request /\ Shaped(request[c])
BY DEF IInv, Tables, Served

LEMMA VersionTypes ==
  ASSUME IInv, NEW p \in Proposal
  PROVE  /\ versions[p] \in Seq(Content) /\ current(p) \in Nat /\ current(p) <= MaxVersion
         /\ \A v \in 1..current(p) : v \in 1..MaxVersion /\ versions[p][v] \in Content
<1>1. versions[p] \in Seq(Content) /\ Len(versions[p]) <= MaxVersion
  BY DEF IInv, BrokerInv, TypeOK, Tables
<1> QED
  BY <1>1, BrokerAssumption DEF current

\* The version a commit reads is stored: the permit was issued for one.
LEMMA CommitReads ==
  ASSUME IInv, NEW c \in Caller, Commit(c)
  PROVE  LET p == request[c].proposal IN
         /\ current(p) \in 1..MaxVersion /\ current(p) \in Nat
         /\ versions[p][current(p)] \in Content
<1> DEFINE k == request[c].permit
           p == request[c].proposal
<1>1. p \in Proposal /\ k \in Permit
  BY RequestTypes DEF Commit, At, Shaped, Executing
<1>2. BeginCommit(c, k, current(p), versions[p][current(p)])
  BY DEF Commit
<1>3. Approved(p, request[c].version, k)
  BY DEF IInv, Approvals, ExecutionApproved, Commit, At, Executes, Executing
<1>4. PICK n \in 1..Len(decisions) :
        decisions[n].proposal = p /\ decisions[n].decision = "approved" /\ decisions[n].permit = k
  BY <1>3 DEF Approved, Decided
<1>5. permits[k].proposal = p
  BY <1>4 DEF IInv, Approvals, Issues
<1> QED
  BY <1>1, <1>2, <1>5, VersionTypes DEF BeginCommit

\* Every step of a request makes the calls of the broker it may make.
LEMMA BrokerUsed ==
  ASSUME IInv, [GateNext]_gateVars
  PROVE  [Next]_vars
<1>1. ASSUME NEW p \in Proposal, NEW content \in Content, CreateRef(p, content) PROVE Next
  BY <1>1 DEF CreateRef, Next
<1>2. ASSUME NEW c \in Caller, NEW content \in Content, Edit(c, content) PROVE Next
  <2>1. request[c].proposal \in Proposal
    BY <1>2, RequestTypes DEF Edit, At, Shaped
  <2> QED
    BY <1>2, <2>1 DEF Edit, StoreEdit, Next
<1>3. ASSUME NEW c \in Caller, NEW k \in Permit, PermitIssued(c, k) PROVE Next
  BY <1>3 DEF PermitIssued, Next
<1>4. ASSUME NEW c \in Caller, Approve(c) PROVE Next
  <2> DEFINE r == request[c]
  <2>1. r.proposal \in Proposal
    BY <1>4, RequestTypes DEF Approve, Undecided, At, Shaped
  <2>2. BeginIssue(c, r.proposal, r.version, versions[r.proposal][r.version], revision)
    BY <1>4 DEF Approve
  <2>3. r.version \in 1..MaxVersion /\ versions[r.proposal][r.version] \in Content
    BY <2>1, <2>2, VersionTypes DEF BeginIssue
  <2>4. revision \in Revision
    BY DEF IInv, BrokerInv, TypeOK
  <2> QED
    BY <2>1, <2>2, <2>3, <2>4 DEF Next
<1>5. ASSUME NEW c \in Caller, Commit(c) PROVE Next
  <2> DEFINE k == request[c].permit
             p == request[c].proposal
  <2>1. p \in Proposal /\ k \in Permit
    BY <1>5, RequestTypes DEF Commit, At, Shaped, Executing
  <2>2. BeginCommit(c, k, current(p), versions[p][current(p)])
    BY <1>5 DEF Commit
  <2>3. current(p) \in 1..MaxVersion /\ versions[p][current(p)] \in Content
    BY <1>5, CommitReads
  <2> QED
    BY <2>1, <2>2, <2>3 DEF Next
<1>6. ASSUME NEW c \in Caller, Committed(c) \/ BrokerRefused(c) PROVE Next
  BY <1>6 DEF Committed, BrokerRefused, Next
<1>7. ASSUME NEW c \in Caller, Crash(c) PROVE [Next]_vars
  BY <1>7 DEF Crash, Next
<1>8. ASSUME NEW c \in Caller,
             \/ ReadProposal(c) \/ AlreadyDecided(c) \/ Reject(c) \/ PutDecision(c)
             \/ Execute(c) \/ Dispatch(c) \/ Answered(c) \/ RecordExecution(c) \/ PutAutonomy(c)
      PROVE  UNCHANGED vars
  BY <1>8 DEF ReadProposal, AlreadyDecided, Reject, PutDecision, Execute, Dispatch, Answered,
              RecordExecution, PutAutonomy
<1>9. ASSUME NEW c \in Caller, NEW kind, Enter(c, kind) PROVE UNCHANGED vars
  BY <1>9 DEF Enter
<1>10. ASSUME NEW c \in Caller, NEW mode, SetAutonomy(c, mode) PROVE UNCHANGED vars
  BY <1>10 DEF SetAutonomy
<1>11. ASSUME NEW k \in Permit, EmailSent(k) PROVE UNCHANGED vars
  BY <1>11 DEF EmailSent
<1>12. ASSUME NEW p \in Proposal, StoreRef(p) PROVE UNCHANGED vars
  BY <1>12 DEF StoreRef
<1>13. CASE GateTick
  BY <1>13 DEF GateTick, Next
<1>14. CASE UNCHANGED gateVars
  BY <1>14 DEF gateVars
<1> QED
  BY <1>1, <1>2, <1>3, <1>4, <1>5, <1>6, <1>7, <1>8, <1>9, <1>10, <1>11, <1>12, <1>13, <1>14
  DEF GateNext

\* So the broker's rows keep their invariant, permits stay what they are and
\* only a commit adds an intent.
LEMMA BrokerStill ==
  ASSUME IInv, [GateNext]_gateVars
  PROVE  /\ BrokerInv'
         /\ \A k \in Permit : permits[k] # None =>
              /\ permits'[k] # None
              /\ permits'[k].proposal = permits[k].proposal
              /\ permits'[k].version = permits[k].version
<1>1. [Next]_vars
  BY BrokerUsed
<1> QED
  BY <1>1, BrokerKeeps, PermitsKeep DEF IInv, BrokerInv

-----------------------------------------------------------------------------
(* Requests.                                                               *)

LEMMA HasLast ==
  ASSUME NEW N \in Nat, NEW S, S \subseteq 1..N, S # {}
  PROVE  \E n \in S : \A m \in S : m <= n
<1> DEFINE R == {ss \in Nat \X Nat : ss[1] < ss[2]}
           T == {k \in Nat : N - k \in S}
<1>1. IsWellFoundedOn(R, Nat)
  BY NatLessThanWellFounded DEF OpToRel
<1>2. T \subseteq Nat
  OBVIOUS
<1>3. T # {}
  <2>1. PICK n \in S : TRUE
    OBVIOUS
  <2>2. n \in 1..N
    BY <2>1
  <2>3. N - n \in Nat /\ N - (N - n) = n
    BY <2>2
  <2> QED
    BY <2>1, <2>3
<1> HIDE DEF R, T
<1>4. PICK k \in T : \A j \in T : ~(<<j, k>> \in R)
  BY <1>1, <1>2, <1>3, WFMin, Zenon
<1>5. k \in Nat /\ N - k \in S
  BY <1>4 DEF T
<1>6. ASSUME NEW m \in S PROVE m <= N - k
  <2>1. m \in 1..N
    OBVIOUS
  <2>2. N - m \in Nat /\ N - (N - m) = m
    BY <2>1
  <2>3. N - m \in T
    BY <2>2 DEF T
  <2>4. ~(N - m < k)
    BY <1>4, <1>5, <2>2, <2>3 DEF R
  <2> QED
    BY <1>5, <2>1, <2>4
<1> QED
  BY <1>5, <1>6

LEMMA LastIsDecided ==
  ASSUME IInv, NEW p, NEW v, Decided(p, v) # {}
  PROVE  \E n \in Decided(p, v) : LastDecision(p, v) = decisions[n]
<1>1. Len(decisions) \in Nat /\ Decided(p, v) \subseteq 1..Len(decisions)
  BY DEF IInv, Tables, Decided
<1>2. \E n \in Decided(p, v) : \A m \in Decided(p, v) : m <= n
  BY <1>1, HasLast
<1> QED
  BY <1>2 DEF LastDecision

\* A request that is not inside the broker has no call there.
LEMMA Silent ==
  ASSUME IInv, NEW c \in Caller,
         request[c] = None \/ request[c].step \notin {"issue", "consume"}
  PROVE  calls[c] = None
BY DEF IInv, Served, Carries

\* What one request does is its own.
LEMMA Turn ==
  ASSUME IInv, NEW c \in Caller, NEW x \in Request \cup {None}, Serve(c, x)
  PROVE  /\ request' \in [Caller -> Request \cup {None}] /\ request'[c] = x
         /\ \A d \in Caller : d # c => request'[d] = request[d]
BY DEF IInv, Tables, Serve

LEMMA TurnServes ==
  ASSUME IInv, refs # <<>> => refs' # <<>>,
         NEW c \in Caller, NEW x \in Request \cup {None}, Serve(c, x),
         \A d \in Caller : d # c => calls'[d] = calls[d],
         x # None => Shaped(x) /\ (x.step = "read" => refs' # <<>>),
         calls'[c] # None => x # None /\ Carries(x, calls'[c])
  PROVE  request' \in [Caller -> Request \cup {None}] /\ Served'
<1>1. /\ request' \in [Caller -> Request \cup {None}] /\ request'[c] = x
      /\ \A d \in Caller : d # c => request'[d] = request[d]
  BY Turn
<1>2. ASSUME NEW d \in Caller
      PROVE  /\ request'[d] # None =>
                  Shaped(request'[d]) /\ (request'[d].step = "read" => refs' # <<>>)
             /\ calls'[d] # None => request'[d] # None /\ Carries(request'[d], calls'[d])
  <2>1. CASE d = c
    BY <1>1, <2>1
  <2>2. CASE d # c
    BY <1>1, <2>2 DEF IInv, Served
  <2> QED
    BY <2>1, <2>2
<1> QED
  BY <1>1, <1>2 DEF Served, Shaped, Carries

\* A request ends.
LEMMA EndServes ==
  ASSUME IInv, UNCHANGED refs, NEW c \in Caller, Finish(c),
         \A d \in Caller : d # c => calls'[d] = calls[d], calls'[c] = None
  PROVE  request' \in [Caller -> Request \cup {None}] /\ Served'
BY TurnServes DEF Finish

\* A request takes its turn outside the broker.
LEMMA TurnOutside ==
  ASSUME IInv, UNCHANGED <<refs, calls>>,
         NEW c \in Caller, NEW x \in Request, Serve(c, x), Shaped(x),
         x.step = "read" => refs # <<>>,
         request[c] = None \/ request[c].step \notin {"issue", "consume"}
  PROVE  request' \in [Caller -> Request \cup {None}] /\ Served'
BY Silent, TurnServes

LEMMA FreshTypes ==
  ASSUME NEW kind \in {"approve", "reject", "edit", "execute", "autonomy"},
         NEW step \in {"read", "commit", "put"}
  PROVE  Fresh(kind, step) \in Request
BY DEF Fresh, Request

Serving ==
  request' \in [Caller -> Request \cup {None}] /\ Served'

LEMMA ReadServes ==
  ASSUME IInv, NEW c \in Caller,
         ReadProposal(c) \/ \E kind \in {"approve", "reject", "edit"} : Enter(c, kind)
  PROVE  Serving
<1>1. ASSUME NEW kind \in {"approve", "reject", "edit"}, Enter(c, kind) PROVE Serving
  <2> DEFINE x == Fresh(kind, "read")
  <2>1. x \in Request /\ Shaped(x) /\ x.step = "read"
    BY FreshTypes DEF Fresh, Shaped, Executing
  <2>2. UNCHANGED <<refs, calls>> /\ request[c] = None /\ refs # <<>> /\ Serve(c, x)
    BY <1>1 DEF Enter, vars, records
  <2> QED
    BY <2>1, <2>2, TurnOutside DEF Serving
<1>2. CASE ReadProposal(c)
  <2> DEFINE r == request[c]
             x == [r EXCEPT !.step = IF r.kind = "edit" THEN "edit" ELSE "decide",
                            !.proposal = latest, !.version = current(latest)]
  <2>1. r \in Request /\ r.step = "read" /\ refs # <<>>
    BY <1>2, RequestTypes DEF ReadProposal, At, IInv, Served
  <2>2. latest \in Proposal
    <3>1. refs \in Seq(Proposal)
      BY DEF IInv, Tables
    <3>2. Len(refs) \in 1..Len(refs)
      BY <2>1, <3>1
    <3> QED
      BY <3>1, <3>2 DEF latest
  <2>3. current(latest) \in Nat
    BY <2>2, VersionTypes
  <2>4. x \in Request /\ Shaped(x) /\ x.step # "read"
    BY <2>1, <2>2, <2>3 DEF Request, Shaped, Executing
  <2>5. UNCHANGED <<refs, calls>> /\ Serve(c, x)
    BY <1>2 DEF ReadProposal, vars, records
  <2> HIDE DEF x
  <2> QED
    BY <2>1, <2>4, <2>5, TurnOutside DEF Serving
<1> QED
  BY <1>1, <1>2

LEMMA ApproveServes ==
  ASSUME IInv, NEW c \in Caller, Approve(c), BrokerInv'
  PROVE  Serving
<1> DEFINE r == request[c]
           x == [r EXCEPT !.step = "issue"]
           call == [op |-> "issue", proposal |-> r.proposal, version |-> r.version,
                    content |-> versions[r.proposal][r.version], decision |-> revision,
                    policy |-> revision, at |-> clock]
<1>1. r \in Request /\ Shaped(r) /\ r.step = "decide" /\ r.kind = "approve"
  BY RequestTypes DEF Approve, Undecided, At
<1>2. calls' = [calls EXCEPT ![c] = call] /\ UNCHANGED refs /\ Serve(c, x)
  BY DEF Approve, BeginIssue, records
<1>3. calls'[c] = call /\ \A d \in Caller : d # c => calls'[d] = calls[d]
  BY <1>2 DEF IInv, BrokerInv, TypeOK
<1>4. calls'[c] \in IssueCall
  <2>1. r.proposal \in Proposal
    BY <1>1 DEF Shaped
  <2>2. r.version \in 1..current(r.proposal)
    BY DEF Approve, BeginIssue
  <2>3. r.version \in Nat /\ versions[r.proposal][r.version] \in Content
    BY <2>1, <2>2, VersionTypes
  <2>4. revision \in Revision /\ clock \in Nat
    BY DEF IInv, BrokerInv, TypeOK
  <2> QED
    BY <1>3, <2>1, <2>3, <2>4 DEF IssueCall
<1>5. /\ x \in Request /\ Shaped(x) /\ x.step = "issue"
      /\ x.proposal = r.proposal /\ x.version = r.version
  BY <1>1 DEF Request, Shaped, Executing
<1>6. Carries(x, calls'[c])
  BY <1>3, <1>4, <1>5 DEF Carries
<1> HIDE DEF x, call
<1> QED
  BY <1>2, <1>3, <1>5, <1>6, GateAssumption, TurnServes DEF Serving

LEMMA PrepareServes ==
  ASSUME IInv, NEW c \in Caller, Reject(c) \/ \E k \in Permit : PermitIssued(c, k)
  PROVE  Serving
<1> DEFINE r == request[c]
           x == [r EXCEPT !.step = "put", !.slot = Len(decisions) + 1]
<1>1. /\ r \in Request /\ r.kind # "autonomy"
      /\ \A d \in Caller : d # c => calls'[d] = calls[d]
      /\ calls'[c] = None /\ UNCHANGED refs /\ Serve(c, x)
  <2>1. CASE Reject(c)
    BY <2>1, RequestTypes, Silent DEF Reject, Undecided, At, Prepare, vars
  <2>2. ASSUME NEW k \in Permit, PermitIssued(c, k)
        PROVE  /\ r \in Request /\ r.kind # "autonomy"
               /\ \A d \in Caller : d # c => calls'[d] = calls[d]
               /\ calls'[c] = None /\ UNCHANGED refs /\ Serve(c, x)
    <3>1. calls' = [calls EXCEPT ![c] = None]
      BY <2>2 DEF PermitIssued, IssuePermit
    <3> QED
      BY <2>2, <3>1, RequestTypes DEF PermitIssued, At, Shaped, Prepare, IInv, BrokerInv, TypeOK
  <2> QED
    BY <2>1, <2>2
<1>2. Len(decisions) + 1 \in Nat
  BY DEF IInv, Tables
<1>3. x \in Request /\ x.kind = r.kind /\ x.step = "put"
  BY <1>1, <1>2 DEF Request
<1>4. Shaped(x)
  BY <1>1, <1>3 DEF Shaped, Executing
<1> HIDE DEF x
<1> QED
  BY <1>1, <1>3, <1>4, TurnServes DEF Serving

LEMMA StartsTyped ==
  ASSUME IInv, NEW c \in Caller, Execute(c)
  PROVE  LET p == latest
             v == current(p)
             x == [Fresh("execute", "commit") EXCEPT
                     !.proposal = p, !.version = v, !.permit = DecidedPermit(p, v)]
         IN /\ x \in Request /\ x.step = "commit" /\ Shaped(x)
            /\ x.proposal = p /\ x.version = v /\ x.permit = DecidedPermit(p, v)
            /\ Approved(p, v, DecidedPermit(p, v))
            /\ request[c] = None /\ UNCHANGED <<refs, calls>> /\ Serve(c, x)
<1> DEFINE p == latest
           v == current(p)
           x == [Fresh("execute", "commit") EXCEPT
                   !.proposal = p, !.version = v, !.permit = DecidedPermit(p, v)]
<1>1. /\ request[c] = None /\ UNCHANGED <<refs, calls>> /\ Serve(c, x)
      /\ Decided(p, v) # {} /\ LastDecision(p, v).decision = "approved"
  BY DEF Execute, vars, records
<1>2. p \in Proposal
  <2>1. refs \in Seq(Proposal) /\ refs # <<>>
    BY DEF Execute, IInv, Tables
  <2>2. Len(refs) \in 1..Len(refs)
    BY <2>1
  <2> QED
    BY <2>1, <2>2 DEF latest
<1>3. v \in Nat
  BY <1>2, VersionTypes
<1>4. DecidedPermit(p, v) \in Permit /\ Approved(p, v, DecidedPermit(p, v))
  <2>1. PICK n \in Decided(p, v) : LastDecision(p, v) = decisions[n]
    BY <1>1, LastIsDecided
  <2>2. Issues(n)
    BY <2>1 DEF Decided, IInv, Approvals
  <2> QED
    BY <1>1, <2>1, <2>2 DEF DecidedPermit, Issues, Approved
<1>5. /\ x \in Request /\ x.step = "commit"
      /\ x.proposal = p /\ x.version = v /\ x.permit = DecidedPermit(p, v)
  BY <1>2, <1>3, <1>4 DEF Request, Fresh
<1>6. Shaped(x)
  BY <1>2, <1>4, <1>5 DEF Shaped, Executing
<1> QED
  BY <1>1, <1>4, <1>5, <1>6

LEMMA ExecuteServes ==
  ASSUME IInv, NEW c \in Caller, Execute(c)
  PROVE  Serving
BY StartsTyped, TurnOutside DEF Serving

LEMMA CommitServes ==
  ASSUME IInv, NEW c \in Caller, Commit(c), BrokerInv'
  PROVE  Serving
<1> DEFINE r == request[c]
           x == [r EXCEPT !.step = "consume"]
           call == [op |-> "commit", permit |-> r.permit, version |-> current(r.proposal),
                    content |-> versions[r.proposal][current(r.proposal)],
                    policy |-> revision, at |-> clock]
<1>1. r \in Request /\ Shaped(r) /\ r.step = "commit" /\ r.permit \in Permit
  BY RequestTypes DEF Commit, At, Shaped, Executing
<1>2. calls' = [calls EXCEPT ![c] = call] /\ UNCHANGED refs /\ Serve(c, x)
  BY DEF Commit, BeginCommit, records
<1>3. calls'[c] = call /\ \A d \in Caller : d # c => calls'[d] = calls[d]
  BY <1>2 DEF IInv, BrokerInv, TypeOK
<1>4. calls'[c] \in CommitCall
  <2>1. /\ current(r.proposal) \in Nat
        /\ versions[r.proposal][current(r.proposal)] \in Content
    BY CommitReads
  <2>2. revision \in Revision /\ clock \in Nat
    BY DEF IInv, BrokerInv, TypeOK
  <2> QED
    BY <1>1, <1>3, <2>1, <2>2 DEF CommitCall
<1>5. x \in Request /\ Shaped(x) /\ x.step = "consume" /\ x.permit = r.permit
  BY <1>1 DEF Request, Shaped, Executing
<1>6. Carries(x, calls'[c])
  BY <1>3, <1>4, <1>5 DEF Carries
<1> HIDE DEF x, call
<1> QED
  BY <1>2, <1>3, <1>5, <1>6, GateAssumption, TurnServes DEF Serving

LEMMA EffectServes ==
  ASSUME IInv, NEW c \in Caller, Committed(c) \/ Dispatch(c) \/ Answered(c)
  PROVE  Serving
<1> DEFINE r == request[c]
<1>1. r \in Request /\ Shaped(r) /\ r.proposal \in Proposal /\ r.permit \in Permit
  BY RequestTypes DEF Committed, Dispatch, Answered, At, Shaped, Executing
<1>2. UNCHANGED refs
  BY DEF Committed, Dispatch, Answered, records
<1>3. /\ calls'[c] = None
      /\ \A d \in Caller : d # c => calls'[d] = calls[d]
  <2>1. CASE Committed(c)
    <3>1. calls' = [calls EXCEPT ![c] = None]
      BY <2>1 DEF Committed, AuthorizeAndConsume
    <3> QED
      BY <3>1 DEF IInv, BrokerInv, TypeOK
  <2>2. CASE Dispatch(c) \/ Answered(c)
    BY <2>2, Silent DEF Dispatch, Answered, At, vars
  <2> QED
    BY <2>1, <2>2
<1>4. PICK x \in Request : Serve(c, x) /\ Shaped(x) /\ x.step # "read"
  <2>1. CASE Committed(c) \/ Dispatch(c)
    <3>1. PICK step \in {"dispatch", "answer"} : Serve(c, [r EXCEPT !.step = step])
      BY <2>1 DEF Committed, Dispatch
    <3>2. /\ [r EXCEPT !.step = step] \in Request
          /\ Shaped([r EXCEPT !.step = step])
          /\ [r EXCEPT !.step = step].step # "read"
      BY <1>1 DEF Request, Shaped, Executing
    <3> QED
      BY <3>1, <3>2
  <2>2. CASE Answered(c)
    <3>1. PICK result \in Result : Serve(c, [r EXCEPT !.step = "record", !.result = result])
      BY <2>2 DEF Answered, Result
    <3>2. /\ [r EXCEPT !.step = "record", !.result = result] \in Request
          /\ Shaped([r EXCEPT !.step = "record", !.result = result])
          /\ [r EXCEPT !.step = "record", !.result = result].step # "read"
      BY <1>1 DEF Request, Shaped, Executing, Result
    <3> QED
      BY <3>1, <3>2
  <2> QED
    BY <2>1, <2>2
<1> QED
  BY <1>2, <1>3, <1>4, TurnServes DEF Serving

LEMMA EndingServes ==
  ASSUME IInv, NEW c \in Caller,
         \/ AlreadyDecided(c) \/ PutDecision(c) \/ BrokerRefused(c) \/ RecordExecution(c)
         \/ PutAutonomy(c) \/ Crash(c) \/ \E content \in Content : Edit(c, content)
  PROVE  Serving
<1>1. Finish(c) /\ UNCHANGED refs
  BY DEF AlreadyDecided, PutDecision, BrokerRefused, RecordExecution, PutAutonomy, Crash,
         Edit, records
<1>2. calls'[c] = None /\ \A d \in Caller : d # c => calls'[d] = calls[d]
  <2>1. CASE calls' = [calls EXCEPT ![c] = None]
    BY <2>1 DEF IInv, BrokerInv, TypeOK
  <2>2. CASE UNCHANGED calls /\ calls[c] = None
    BY <2>2
  <2>3. CASE BrokerRefused(c)
    BY <2>1, <2>3 DEF BrokerRefused, Refuse
  <2>4. CASE Crash(c)
    BY <2>1, <2>2, <2>4 DEF Crash, Abandon, vars
  <2>5. CASE \/ AlreadyDecided(c) \/ PutDecision(c) \/ RecordExecution(c)
             \/ PutAutonomy(c) \/ \E content \in Content : Edit(c, content)
    <3>1. request[c].step \notin {"issue", "consume"} /\ UNCHANGED calls
      BY <2>5 DEF AlreadyDecided, PutDecision, RecordExecution, PutAutonomy, Edit, At, vars,
                  StoreEdit, EditProposal
    <3> QED
      BY <2>2, <3>1, Silent
  <2> QED
    BY <2>3, <2>4, <2>5
<1> QED
  BY <1>1, <1>2, EndServes DEF Serving

LEMMA OthersServe ==
  ASSUME IInv, UNCHANGED <<request, calls>>, refs # <<>> => refs' # <<>>
  PROVE  Serving
BY DEF IInv, Tables, Served, Serving, Shaped, Carries

LEMMA ServedKept ==
  ASSUME IInv, [GateNext]_gateVars
  PROVE  Serving
<1>0. BrokerInv'
  BY BrokerStill
<1>1. ASSUME NEW p \in Proposal, NEW content \in Content, CreateRef(p, content) PROVE Serving
  BY <1>1, OthersServe DEF CreateRef, CreateProposal, records
<1>2. ASSUME NEW p \in Proposal, StoreRef(p) PROVE Serving
  <2>1. refs' # <<>>
    <3>1. refs \in Seq(Proposal) /\ refs' = Append(refs, p)
      BY <1>2 DEF IInv, Tables, StoreRef
    <3> QED
      BY <3>1
  <2> QED
    BY <1>2, <2>1, OthersServe DEF StoreRef, vars
<1>3. ASSUME NEW c \in Caller, NEW mode \in Mode, SetAutonomy(c, mode) PROVE Serving
  <2> DEFINE x == [Fresh("autonomy", "put") EXCEPT !.slot = Len(autonomy) + 1, !.result = mode]
  <2>1. Len(autonomy) + 1 \in Nat
    BY DEF IInv, Tables
  <2>2. x \in Request /\ x.step = "put" /\ x.result = mode
    <3>1. Fresh("autonomy", "put") \in Request
      BY FreshTypes
    <3>2. x \in Request
      BY <2>1, <3>1 DEF Request
    <3> QED
      BY <3>1, <3>2 DEF Request, Fresh
  <2>3. Shaped(x)
    BY <2>2 DEF Shaped, Executing
  <2>4. Serve(c, x) /\ request[c] = None /\ UNCHANGED <<refs, calls>>
    BY <1>3 DEF SetAutonomy, vars, records
  <2> HIDE DEF x
  <2> QED
    BY <2>2, <2>3, <2>4, TurnOutside DEF Serving
<1>4. CASE GateTick \/ UNCHANGED gateVars
  BY <1>4, OthersServe DEF GateTick, Tick, gateVars, vars, records
<1>5. ASSUME NEW k \in Permit, EmailSent(k) PROVE Serving
  BY <1>5, OthersServe DEF EmailSent, vars, records
<1> QED
  BY <1>0, <1>1, <1>2, <1>3, <1>4, <1>5, ReadServes, ApproveServes, PrepareServes, ExecuteServes,
     CommitServes, EffectServes, EndingServes
  DEF GateNext

-----------------------------------------------------------------------------
(* Tables.                                                                 *)

LEMMA VersionsBounded ==
  ASSUME IInv, [GateNext]_gateVars
  PROVE  \A p \in Proposal : Len(versions'[p]) <= MaxVersion
<1>1. [Next]_vars
  BY BrokerUsed
<1>2. ASSUME NEW q \in Proposal, NEW content \in Content,
             CreateProposal(q, content) \/ EditProposal(q, content),
             NEW p \in Proposal
      PROVE  Len(versions'[p]) <= MaxVersion
  <2>1. /\ versions \in [Proposal -> Seq(Content)]
        /\ \A o \in Proposal : Len(versions[o]) <= MaxVersion
    BY DEF IInv, BrokerInv, TypeOK, Tables
  <2>2. CASE p # q
    BY <1>2, <2>1, <2>2 DEF CreateProposal, EditProposal
  <2>3. CASE p = q /\ CreateProposal(q, content)
    <3>1. versions'[p] = <<content>>
      BY <2>1, <2>3 DEF CreateProposal
    <3> QED
      BY <3>1, BrokerAssumption
  <2>4. CASE p = q /\ EditProposal(q, content)
    <3>1. versions'[p] = Append(versions[p], content) /\ Len(versions[p]) < MaxVersion
      BY <2>1, <2>4 DEF EditProposal, current
    <3>2. versions[p] \in Seq(Content)
      BY <2>1
    <3> QED
      BY <3>1, <3>2, BrokerAssumption
  <2> QED
    BY <1>2, <2>2, <2>3, <2>4
<1>3. CASE UNCHANGED versions
  BY <1>3 DEF IInv, Tables
<1> QED
  BY <1>1, <1>2, <1>3 DEF Next, vars, BeginIssue, BeginCommit, IssuePermit, AuthorizeAndConsume,
                          Refuse, Abandon, RevisePolicy, Tick

\* A prepared decision is added, not yet stored; it decides what the request read.
LEMMA Prepares ==
  ASSUME IInv, NEW c \in Caller, NEW decision \in {"approved", "rejected"},
         NEW k \in Permit \cup {None}, Prepare(c, decision, k),
         request[c] \in Request, request[c].proposal \in Proposal
  PROVE  LET N == Len(decisions) IN
         /\ N \in Nat /\ decisions' \in Seq(Decision) /\ Len(decisions') = N + 1
         /\ \A n \in 1..N : decisions'[n] = decisions[n]
         /\ decisions'[N + 1] =
              [proposal |-> request[c].proposal, version |-> request[c].version,
               decision |-> decision, permit |-> k, stored |-> FALSE]
         /\ Serve(c, [request[c] EXCEPT !.step = "put", !.slot = N + 1])
<1> DEFINE d == [proposal |-> request[c].proposal, version |-> request[c].version,
                 decision |-> decision, permit |-> k, stored |-> FALSE]
<1>1. decisions \in Seq(Decision)
  BY DEF IInv, Tables
<1>2. request[c].version \in Nat
  BY DEF Request
<1>3. d \in Decision
  BY <1>2 DEF Decision
<1>4. decisions' = Append(decisions, d)
  BY DEF Prepare
<1>5. Serve(c, [request[c] EXCEPT !.step = "put", !.slot = Len(decisions) + 1])
  BY DEF Prepare
<1> HIDE DEF d
<1> QED
  BY <1>1, <1>3, <1>4, <1>5, AppendIndices DEF d

\* A prepared decision is stored, or its reference is taken.
LEMMA Puts ==
  ASSUME IInv, NEW c \in Caller, PutDecision(c)
  PROVE  LET s == request[c].slot IN
         /\ s \in 1..Len(decisions) /\ ~decisions[s].stored
         /\ decisions' \in Seq(Decision) /\ Len(decisions') = Len(decisions)
         /\ \A n \in 1..Len(decisions) : n # s => decisions'[n] = decisions[n]
         /\ decisions'[s] = [decisions[s] EXCEPT !.stored = RefFree(decisions[s])]
         /\ RefFree(decisions[s]) \in BOOLEAN
<1> DEFINE s == request[c].slot
<1>1. s \in 1..Len(decisions) /\ ~decisions[s].stored
  BY DEF PutDecision, At, IInv, Approvals, Storing
<1>2. decisions \in Seq(Decision)
  BY DEF IInv, Tables
<1>3. decisions' = [decisions EXCEPT ![s] = [decisions[s] EXCEPT !.stored = RefFree(decisions[s])]]
  BY DEF PutDecision
<1>4. RefFree(decisions[s]) \in BOOLEAN
  BY DEF RefFree
<1>5. [decisions[s] EXCEPT !.stored = RefFree(decisions[s])] \in Decision
  <2>1. decisions[s] \in Decision
    BY <1>1, <1>2
  <2>2. \A d \in Decision : \A b \in BOOLEAN : [d EXCEPT !.stored = b] \in Decision
    BY DEF Decision
  <2> QED
    BY <1>4, <2>1, <2>2
<1> QED
  BY <1>1, <1>2, <1>3, <1>4, <1>5

\* What else can happen to the decisions.
LEMMA DecisionsStep ==
  ASSUME IInv, [GateNext]_gateVars
  PROVE  \/ UNCHANGED decisions
         \/ \E c \in Caller :
              Reject(c) \/ PutDecision(c) \/ \E k \in Permit : PermitIssued(c, k)
BY DEF GateNext, gateVars, records, CreateRef, StoreRef, Enter, Edit, ReadProposal, AlreadyDecided,
       Approve, Execute, Commit, Committed, BrokerRefused, Dispatch, Answered, RecordExecution,
       PutAutonomy, Crash, SetAutonomy, EmailSent, GateTick

LEMMA DecisionsTyped ==
  ASSUME IInv, [GateNext]_gateVars
  PROVE  decisions' \in Seq(Decision)
<1>1. CASE UNCHANGED decisions
  BY <1>1 DEF IInv, Tables
<1>2. ASSUME NEW c \in Caller, Reject(c) PROVE decisions' \in Seq(Decision)
  BY <1>2, RequestTypes, Prepares DEF Reject, Undecided, At, Shaped
<1>3. ASSUME NEW c \in Caller, NEW k \in Permit, PermitIssued(c, k)
      PROVE  decisions' \in Seq(Decision)
  BY <1>3, RequestTypes, Prepares DEF PermitIssued, At, Shaped
<1>4. ASSUME NEW c \in Caller, PutDecision(c) PROVE decisions' \in Seq(Decision)
  BY <1>4, Puts
<1> QED
  BY <1>1, <1>2, <1>3, <1>4, DecisionsStep

LEMMA RecordsTyped ==
  ASSUME IInv, [GateNext]_gateVars
  PROVE  /\ autonomy' \in Seq(Mode) /\ refs' \in Seq(Proposal)
         /\ executions' \subseteq Execution /\ crashes' \in Nat
<1> USE DEF IInv, Tables
<1>1. CASE UNCHANGED <<autonomy, refs, executions, crashes>>
  BY <1>1
<1>2. ASSUME NEW p \in Proposal, StoreRef(p)
      PROVE  UNCHANGED <<autonomy, executions, crashes>> /\ refs' \in Seq(Proposal)
  BY <1>2 DEF StoreRef
<1>3. ASSUME NEW c \in Caller, PutAutonomy(c)
      PROVE  autonomy' \in Seq(Mode) /\ UNCHANGED <<refs, executions, crashes>>
  <2>1. request[c].result \in Mode
    BY <1>3, RequestTypes DEF PutAutonomy, At, Shaped
  <2> QED
    BY <1>3, <2>1 DEF PutAutonomy
<1>4. ASSUME NEW c \in Caller, RecordExecution(c)
      PROVE  executions' \subseteq Execution /\ UNCHANGED <<autonomy, refs, crashes>>
  <2> DEFINE r == request[c]
  <2>1. r \in Request /\ r.proposal \in Proposal /\ r.permit \in Permit /\ r.result \in Result
    BY <1>4, RequestTypes DEF RecordExecution, At, Shaped, Executing
  <2>2. r.version \in Nat
    BY <2>1 DEF Request
  <2>3. [proposal |-> r.proposal, version |-> r.version, permit |-> r.permit,
         state |-> r.result] \in Execution
    BY <2>1, <2>2 DEF Execution, Result
  <2> QED
    BY <1>4, <2>3 DEF RecordExecution
<1>5. ASSUME NEW c \in Caller, Crash(c)
      PROVE  crashes' \in Nat /\ UNCHANGED <<autonomy, refs, executions>>
  BY <1>5 DEF Crash, records
<1> QED
  BY <1>1, <1>2, <1>3, <1>4, <1>5
  DEF GateNext, gateVars, records, CreateRef, Enter, Edit, ReadProposal, AlreadyDecided,
      Approve, Reject, PermitIssued, PutDecision, Prepare, Execute, Commit, Committed, BrokerRefused,
      Dispatch, Answered, SetAutonomy, EmailSent, GateTick

\* What the gate does to the external effects.
LEMMA EffectsStep ==
  ASSUME IInv, [GateNext]_gateVars
  PROVE  \/ UNCHANGED effects
         \/ \E c \in Caller : Committed(c) \/ Dispatch(c) \/ Answered(c)
         \/ \E k \in Permit : EmailSent(k)
BY DEF GateNext, gateVars, CreateRef, StoreRef, Enter, Edit, ReadProposal, AlreadyDecided,
       Approve, Reject, PermitIssued, PutDecision, Execute, Commit, BrokerRefused, RecordExecution,
       PutAutonomy, Crash, SetAutonomy, GateTick

LEMMA EffectsTyped ==
  ASSUME IInv, [GateNext]_gateVars
  PROVE  /\ phase' \in [Permit -> {"absent", "ready", "open", "ambiguous", "examined",
                                   "confirmed", "operator"}]
         /\ maybe' \in [Permit -> BOOLEAN] /\ effect' \in [Permit -> BOOLEAN]
<1> USE DEF IInv, Tables
<1>1. CASE UNCHANGED effects
  BY <1>1 DEF effects
<1>2. ASSUME NEW c \in Caller, Committed(c) \/ Dispatch(c)
      PROVE  /\ UNCHANGED <<maybe, effect>>
             /\ \E to \in {"ready", "open"} : phase' = [phase EXCEPT ![request[c].permit] = to]
  BY <1>2 DEF Committed, Dispatch, Effects!Authorize, Effects!Open, Effects!Move
<1>3. ASSUME NEW c \in Caller, Answered(c)
      PROVE  /\ UNCHANGED effect
             /\ maybe' = maybe \/ maybe' = [maybe EXCEPT ![request[c].permit] = TRUE]
             /\ \E to \in {"ready", "ambiguous", "confirmed"} :
                  phase' = [phase EXCEPT ![request[c].permit] = to]
  BY <1>3 DEF Answered, FailureClosed, Effects!Confirm, Effects!CloseWithoutEffect,
              Effects!CloseAmbiguous, Effects!Move
<1>4. ASSUME NEW k \in Permit, EmailSent(k)
      PROVE  UNCHANGED <<phase, maybe>> /\ effect' = [effect EXCEPT ![k] = TRUE]
  BY <1>4 DEF EmailSent, Effects!TakeEffect
<1> QED
  BY <1>1, <1>2, <1>3, <1>4, EffectsStep

LEMMA TablesKept ==
  ASSUME IInv, [GateNext]_gateVars
  PROVE  Tables'
BY ServedKept, VersionsBounded, DecisionsTyped, RecordsTyped, EffectsTyped DEF Serving, Tables

-----------------------------------------------------------------------------
(* Decisions.                                                              *)

\* Decisions stay what they are, and stored ones stay stored.
Stays(n) ==
  /\ n \in 1..Len(decisions')
  /\ decisions'[n].proposal = decisions[n].proposal
  /\ decisions'[n].version = decisions[n].version
  /\ decisions'[n].decision = decisions[n].decision
  /\ decisions'[n].permit = decisions[n].permit
  /\ decisions[n].stored => decisions'[n].stored

LEMMA ApprovedStays ==
  ASSUME \A n \in 1..Len(decisions) : Stays(n), NEW p, NEW v, NEW k, Approved(p, v, k)
  PROVE  Approved(p, v, k)'
<1>1. PICK n \in 1..Len(decisions) :
        /\ decisions[n].stored /\ decisions[n].proposal = p /\ decisions[n].version = v
        /\ decisions[n].decision = "approved" /\ decisions[n].permit = k
  BY DEF Approved, Decided
<1>2. Stays(n)
  OBVIOUS
<1>3. n \in Decided(p, v)' /\ decisions'[n].decision = "approved" /\ decisions'[n].permit = k
  BY <1>1, <1>2 DEF Decided, Stays
<1> QED
  BY <1>3 DEF Approved

LEMMA DecisionsStay ==
  ASSUME IInv, [GateNext]_gateVars
  PROVE  \A n \in 1..Len(decisions) : Stays(n)
<1>0. ASSUME NEW n \in 1..Len(decisions), decisions'[n] = decisions[n],
             Len(decisions) <= Len(decisions'), Len(decisions) \in Nat, Len(decisions') \in Nat
      PROVE  Stays(n)
  BY <1>0 DEF Stays
<1>1. Len(decisions) \in Nat
  BY DEF IInv, Tables
<1>2. CASE UNCHANGED decisions
  BY <1>0, <1>1, <1>2
<1>3. ASSUME NEW c \in Caller, Reject(c) PROVE \A n \in 1..Len(decisions) : Stays(n)
  <2>1. /\ Len(decisions') = Len(decisions) + 1
        /\ \A n \in 1..Len(decisions) : decisions'[n] = decisions[n]
    BY <1>3, RequestTypes, Prepares DEF Reject, Undecided, At, Shaped
  <2> QED
    BY <1>0, <1>1, <2>1
<1>4. ASSUME NEW c \in Caller, NEW k \in Permit, PermitIssued(c, k)
      PROVE  \A n \in 1..Len(decisions) : Stays(n)
  <2>1. /\ Len(decisions') = Len(decisions) + 1
        /\ \A n \in 1..Len(decisions) : decisions'[n] = decisions[n]
    BY <1>4, RequestTypes, Prepares DEF PermitIssued, At, Shaped
  <2> QED
    BY <1>0, <1>1, <2>1
<1>5. ASSUME NEW c \in Caller, PutDecision(c), NEW n \in 1..Len(decisions) PROVE Stays(n)
  <2> DEFINE slot == request[c].slot
  <2>1. /\ Len(decisions') = Len(decisions) /\ ~decisions[slot].stored
        /\ \A m \in 1..Len(decisions) : m # slot => decisions'[m] = decisions[m]
        /\ decisions'[slot] = [decisions[slot] EXCEPT !.stored = RefFree(decisions[slot])]
    BY <1>5, Puts
  <2>2. CASE n # slot
    BY <1>0, <1>1, <2>1, <2>2
  <2>3. CASE n = slot
    <3>1. decisions[n] \in Decision
      BY DEF IInv, Tables
    <3> QED
      BY <2>1, <2>3, <3>1 DEF Decision, Stays
  <2> QED
    BY <2>2, <2>3
<1> QED
  BY <1>2, <1>3, <1>4, <1>5, DecisionsStep

\* A request that executes goes on with the permit it has.
LEMMA Onward ==
  ASSUME IInv, NEW c \in Caller, Commit(c) \/ Committed(c) \/ Dispatch(c) \/ Answered(c)
  PROVE  /\ Executes(request[c])
         /\ Executes(request'[c])
         /\ request'[c].proposal = request[c].proposal
         /\ request'[c].version = request[c].version
         /\ request'[c].permit = request[c].permit
         /\ \A d \in Caller : d # c => request'[d] = request[d]
<1> DEFINE r == request[c]
<1>1. r \in Request /\ r # None /\ r.step \in Executing
  BY RequestTypes DEF Commit, Committed, Dispatch, Answered, At, Executing
<1>2. PICK x \in Request : /\ Serve(c, x) /\ x.step \in Executing
                           /\ x.proposal = r.proposal /\ x.version = r.version
                           /\ x.permit = r.permit
  <2>1. CASE Commit(c) \/ Committed(c) \/ Dispatch(c)
    <3>1. PICK step \in {"consume", "dispatch", "answer"} : Serve(c, [r EXCEPT !.step = step])
      BY <2>1 DEF Commit, Committed, Dispatch
    <3>2. /\ [r EXCEPT !.step = step] \in Request /\ [r EXCEPT !.step = step].step = step
          /\ [r EXCEPT !.step = step].proposal = r.proposal
          /\ [r EXCEPT !.step = step].version = r.version
          /\ [r EXCEPT !.step = step].permit = r.permit
      BY <1>1 DEF Request
    <3> QED
      BY <3>1, <3>2 DEF Executing
  <2>2. CASE Answered(c)
    <3>1. PICK result \in Result : Serve(c, [r EXCEPT !.step = "record", !.result = result])
      BY <2>2 DEF Answered, Result
    <3> DEFINE x == [r EXCEPT !.step = "record", !.result = result]
    <3>2. /\ x \in Request /\ x.step = "record"
          /\ x.proposal = r.proposal /\ x.version = r.version /\ x.permit = r.permit
      BY <1>1 DEF Request, Result
    <3> HIDE DEF x
    <3> QED
      BY <3>1, <3>2 DEF Executing, x
  <2> QED
    BY <2>1, <2>2
<1> QED
  BY <1>1, <1>2, Turn, GateAssumption DEF Executes

\* What it is about to do after the commit.
LEMMA CommitsNext ==
  ASSUME IInv, NEW c \in Caller, Commit(c)
  PROVE  ~Affects(request'[c])
<1> DEFINE r == request[c]
           x == [r EXCEPT !.step = "consume"]
<1>1. r \in Request /\ Serve(c, x)
  BY RequestTypes DEF Commit, At
<1>2. x.step = "consume" /\ request'[c] = x
  BY <1>1 DEF Request, Serve, IInv, Tables
<1> HIDE DEF x
<1> QED
  BY <1>2 DEF Affects, Effecting

\* A request that starts to execute has found a stored approval.
LEMMA Starts ==
  ASSUME IInv, NEW c \in Caller, Execute(c)
  PROVE  /\ request'[c] \in Request /\ request'[c].step = "commit"
         /\ Approved(request'[c].proposal, request'[c].version, request'[c].permit)
         /\ \A d \in Caller : d # c => request'[d] = request[d]
BY StartsTyped, Turn

\* What a step does to the requests when it leaves the decisions alone.
LEMMA RequestsGoOn ==
  ASSUME IInv, [GateNext]_gateVars, UNCHANGED decisions, NEW d \in Caller
  PROVE  \/ request'[d] = request[d]
         \/ request'[d] = None
         \/ /\ ~Storing(request'[d])
            /\ Executes(request'[d]) =>
                 Approved(request'[d].proposal, request'[d].version, request'[d].permit)
            /\ Affects(request'[d]) => Committed(d) \/ Dispatch(d) \/ Answered(d)
<1> DEFINE Goal(e) ==
             \/ request'[e] = request[e]
             \/ request'[e] = None
             \/ /\ ~Storing(request'[e])
                /\ Executes(request'[e]) =>
                     Approved(request'[e].proposal, request'[e].version, request'[e].permit)
                /\ Affects(request'[e]) => Committed(e) \/ Dispatch(e) \/ Answered(e)
<1>0. ASSUME NEW c \in Caller, NEW x \in Request, Serve(c, x),
             ~Storing(x), x.step \notin Executing
      PROVE  Goal(d)
  BY <1>0, Turn DEF Executes, Affects, Executing, Effecting
<1>1. ASSUME NEW c \in Caller, NEW kind \in {"approve", "reject", "edit"}, Enter(c, kind)
      PROVE  Goal(d)
  <2>1. Serve(c, Fresh(kind, "read")) /\ Fresh(kind, "read") \in Request
    BY <1>1, FreshTypes DEF Enter
  <2>2. Fresh(kind, "read").step = "read"
    BY DEF Fresh
  <2> QED
    BY <1>0, <2>1, <2>2 DEF Storing, Executing
<1>2. ASSUME NEW c \in Caller, ReadProposal(c) PROVE Goal(d)
  <2> DEFINE r == request[c]
             x == [r EXCEPT !.step = IF r.kind = "edit" THEN "edit" ELSE "decide",
                            !.proposal = latest, !.version = current(latest)]
  <2>1. r \in Request /\ Serve(c, x)
    BY <1>2, RequestTypes DEF ReadProposal, At
  <2>2. x.step \in {"edit", "decide"}
    BY <2>1 DEF Request
  <2>3. x = request'[c] /\ \A e \in Caller : e # c => request'[e] = request[e]
    BY <2>1 DEF Serve, IInv, Tables
  <2> HIDE DEF x
  <2> QED
    BY <2>2, <2>3 DEF Storing, Executes, Affects, Executing, Effecting
<1>3. ASSUME NEW c \in Caller, Approve(c) PROVE Goal(d)
  <2> DEFINE x == [request[c] EXCEPT !.step = "issue"]
  <2>1. request[c] \in Request /\ Serve(c, x)
    BY <1>3, RequestTypes DEF Approve, Undecided, At
  <2>2. x \in Request /\ x.step = "issue"
    BY <2>1 DEF Request
  <2> HIDE DEF x
  <2> QED
    BY <1>0, <2>1, <2>2 DEF Storing, Executing
<1>4. ASSUME NEW c \in Caller, NEW mode \in Mode, SetAutonomy(c, mode) PROVE Goal(d)
  <2> DEFINE x == [Fresh("autonomy", "put") EXCEPT !.slot = Len(autonomy) + 1, !.result = mode]
  <2>1. x = request'[c] /\ \A e \in Caller : e # c => request'[e] = request[e]
    BY <1>4 DEF SetAutonomy, Serve, IInv, Tables
  <2>2. x.step = "put" /\ x.kind = "autonomy"
    BY DEF Fresh
  <2> HIDE DEF x
  <2> QED
    BY <2>1, <2>2 DEF Storing, Executes, Affects, Executing, Effecting
<1>5. ASSUME NEW c \in Caller, Commit(c) \/ Committed(c) \/ Dispatch(c) \/ Answered(c)
      PROVE  Goal(d)
  <2>1. Approved(request[c].proposal, request[c].version, request[c].permit)
    BY <1>5, Onward DEF IInv, Approvals, ExecutionApproved
  <2>2. Commit(c) => ~Affects(request'[c])
    BY <1>5, CommitsNext
  <2> QED
    BY <1>5, <2>1, <2>2, Onward DEF Executes, Affects, Storing, Executing
<1>6. ASSUME NEW c \in Caller, Execute(c) PROVE Goal(d)
  BY <1>6, Starts DEF Storing, Affects, Effecting
<1>7. ASSUME NEW c \in Caller, Finish(c) PROVE Goal(d)
  BY <1>7, Turn DEF Finish
<1>8. ASSUME NEW c \in Caller,
             \/ AlreadyDecided(c) \/ PutDecision(c) \/ BrokerRefused(c) \/ RecordExecution(c)
             \/ PutAutonomy(c) \/ Crash(c) \/ \E content \in Content : Edit(c, content)
      PROVE  Finish(c)
  BY <1>8 DEF AlreadyDecided, PutDecision, BrokerRefused, RecordExecution, PutAutonomy, Crash, Edit
<1>9. ASSUME NEW c \in Caller, Reject(c) \/ \E k \in Permit : PermitIssued(c, k) PROVE FALSE
  <2>1. Len(decisions') = Len(decisions) + 1 /\ Len(decisions) \in Nat
    BY <1>9, RequestTypes, Prepares DEF Reject, PermitIssued, Undecided, At, Shaped
  <2> QED
    BY <2>1
<1>10. CASE UNCHANGED request
  BY <1>10
<1> QED
  BY <1>1, <1>2, <1>3, <1>4, <1>5, <1>6, <1>7, <1>8, <1>9, <1>10
  DEF GateNext, gateVars, CreateRef, StoreRef, EmailSent, GateTick

\* Only a commit adds an intent: that of the version and permit it was for.
LEMMA CommitAdds ==
  ASSUME IInv, NEW c \in Caller, Committed(c)
  PROVE  LET r == request[c]
             N == Len(intents)
         IN /\ N \in Nat /\ Len(intents') = N + 1
            /\ \A i \in 1..N : intents'[i] = intents[i]
            /\ intents'[N + 1].permit = r.permit
            /\ intents'[N + 1].proposal = r.proposal /\ intents'[N + 1].version = r.version
            /\ Approved(r.proposal, r.version, r.permit)
<1> DEFINE r == request[c]
<1>1. AuthorizeAndConsume(c) /\ r # None /\ r.step = "consume"
  BY DEF Committed, At
<1>2. /\ calls[c] \in CommitCall /\ NewIntent(calls[c]) \in Intent
      /\ intents' = Append(intents, NewIntent(calls[c])) /\ intents \in Seq(Intent)
  BY <1>1, Authorized DEF IInv, BrokerInv, TypeOK
<1>3. calls[c].permit = r.permit
  BY <1>1, <1>2, CallKinds DEF IInv, Served, Carries
<1>4. Approved(r.proposal, r.version, r.permit)
  BY <1>1 DEF IInv, Approvals, ExecutionApproved, Executes, Executing
<1>5. PICK n \in 1..Len(decisions) :
        /\ decisions[n].proposal = r.proposal /\ decisions[n].version = r.version
        /\ decisions[n].decision = "approved" /\ decisions[n].permit = r.permit
  BY <1>4 DEF Approved, Decided
<1>6. permits[r.permit].proposal = r.proposal /\ permits[r.permit].version = r.version
  BY <1>5 DEF IInv, Approvals, Issues
<1>7. /\ NewIntent(calls[c]).permit = r.permit
      /\ NewIntent(calls[c]).proposal = r.proposal /\ NewIntent(calls[c]).version = r.version
  BY <1>3, <1>6 DEF NewIntent
<1> HIDE DEF r
<1> QED
  BY <1>2, <1>4, <1>7, AppendIndices DEF r

LEMMA IntentsGo ==
  ASSUME IInv, [GateNext]_gateVars
  PROVE  UNCHANGED intents \/ \E c \in Caller : Committed(c)
BY DEF GateNext, gateVars, vars, CreateRef, CreateProposal, StoreRef, Enter, Edit, StoreEdit,
       EditProposal, ReadProposal, AlreadyDecided, Approve, BeginIssue, Reject, PermitIssued,
       IssuePermit, PutDecision, Execute, Commit, BeginCommit, BrokerRefused, Refuse, Dispatch,
       Answered, RecordExecution, PutAutonomy, Crash, Abandon, SetAutonomy, EmailSent, GateTick,
       Tick

LEMMA ApprovalsStand ==
  ASSUME IInv, [GateNext]_gateVars, NEW p, NEW v, NEW k, Approved(p, v, k)
  PROVE  Approved(p, v, k)'
BY DecisionsStay, ApprovedStays

LEMMA IntentsApprovedStay ==
  ASSUME IInv, [GateNext]_gateVars, NEW i \in 1..Len(intents')
  PROVE  IntentApproved(i)'
<1>1. ASSUME NEW p, NEW v, NEW k, Approved(p, v, k),
             intents'[i].proposal = p, intents'[i].version = v, intents'[i].permit = k
      PROVE  IntentApproved(i)'
  BY <1>1, ApprovalsStand DEF IntentApproved
<1>2. CASE i \in 1..Len(intents) /\ intents'[i] = intents[i]
  <2>1. Approved(intents[i].proposal, intents[i].version, intents[i].permit)
    BY <1>2 DEF IInv, Approvals, IntentApproved
  <2> QED
    BY <1>1, <1>2, <2>1
<1>3. CASE UNCHANGED intents
  BY <1>2, <1>3
<1>4. ASSUME NEW c \in Caller, Committed(c) PROVE IntentApproved(i)'
  <2>1. CASE i \in 1..Len(intents)
    BY <1>2, <1>4, <2>1, CommitAdds
  <2>2. CASE i = Len(intents) + 1
    BY <1>1, <1>4, <2>2, CommitAdds
  <2>3. i \in 1..Len(intents) \/ i = Len(intents) + 1
    BY <1>4, CommitAdds
  <2> QED
    BY <2>1, <2>2, <2>3
<1> QED
  BY <1>3, <1>4, IntentsGo

\* Executions keep their approval.
LEMMA ExecutionsApproved ==
  ASSUME IInv, [GateNext]_gateVars, NEW d \in Caller,
         Executes(request'[d]) =>
           \/ request'[d] = request[d]
           \/ Approved(request'[d].proposal, request'[d].version, request'[d].permit)
  PROVE  ExecutionApproved(d)'
<1> SUFFICES ASSUME Executes(request'[d]), NEW p, NEW v, NEW k,
                    request'[d].proposal = p, request'[d].version = v, request'[d].permit = k
             PROVE  Approved(p, v, k)'
  BY DEF ExecutionApproved
<1>1. Approved(p, v, k)
  BY DEF IInv, Approvals, ExecutionApproved
<1> QED
  BY <1>1, ApprovalsStand

\* A permit that was issued is what it was.
LEMMA IssuesStay ==
  ASSUME IInv, [GateNext]_gateVars, NEW n, Issues(n),
         decisions'[n].decision = decisions[n].decision,
         decisions'[n].permit = decisions[n].permit,
         decisions'[n].proposal = decisions[n].proposal,
         decisions'[n].version = decisions[n].version
  PROVE  Issues(n)'
BY BrokerStill DEF Issues

LEMMA ApprovalsStill ==
  ASSUME IInv, [GateNext]_gateVars, UNCHANGED decisions
  PROVE  Approvals'
<1>1. \A d \in Caller : Storing(request'[d]) => request'[d] = request[d]
  BY RequestsGoOn DEF Storing
<1>2. DecidedOnce' /\ \A n \in 1..Len(decisions') : Issues(n)'
  BY IssuesStay DEF IInv, Approvals, DecidedOnce
<1>3. /\ \A c \in Caller : Storing(request'[c]) =>
           request'[c].slot \in 1..Len(decisions') /\ ~decisions'[request'[c].slot].stored
      /\ \A c, d \in Caller :
           Storing(request'[c]) /\ Storing(request'[d]) /\ request'[c].slot = request'[d].slot
             => c = d
  BY <1>1 DEF IInv, Approvals
<1>4. \A d \in Caller : ExecutionApproved(d)'
  BY RequestsGoOn, ExecutionsApproved DEF Executes
<1> QED
  BY <1>2, <1>3, <1>4, IntentsApprovedStay DEF Approvals, Storing, Executes

LEMMA ApprovalsPrepared ==
  ASSUME IInv, [GateNext]_gateVars, NEW c \in Caller,
         NEW decision \in {"approved", "rejected"}, NEW k \in Permit \cup {None},
         Prepare(c, decision, k), request[c] \in Request, request[c].proposal \in Proposal,
         decision = "approved" =>
           /\ k \in Permit /\ permits'[k] # None
           /\ permits'[k].proposal = request[c].proposal
           /\ permits'[k].version = request[c].version
  PROVE  Approvals'
<1> DEFINE N == Len(decisions)
           r == request[c]
           x == [r EXCEPT !.step = "put", !.slot = N + 1]
           new == [proposal |-> r.proposal, version |-> r.version,
                   decision |-> decision, permit |-> k, stored |-> FALSE]
<1>1. /\ N \in Nat /\ Len(decisions') = N + 1
      /\ \A n \in 1..N : decisions'[n] = decisions[n]
      /\ decisions'[N + 1] = new
      /\ Serve(c, x)
  BY Prepares
<1>2. x.step = "put" /\ x.slot = N + 1
  BY DEF Request
<1>3. request'[c] = x /\ \A d \in Caller : d # c => request'[d] = request[d]
  BY <1>1 DEF Serve, IInv, Tables
<1>4. /\ ~new.stored /\ new.decision = decision /\ new.permit = k
      /\ new.proposal = r.proposal /\ new.version = r.version
  OBVIOUS
<1> HIDE DEF x, new
<1>5. DecidedOnce'
  <2>1. ASSUME NEW n \in 1..Len(decisions'), decisions'[n].stored
        PROVE  n \in 1..N
    BY <1>1, <1>4, <2>1
  <2> QED
    BY <1>1, <2>1 DEF IInv, Approvals, DecidedOnce
<1>6. ASSUME NEW n \in 1..Len(decisions') PROVE Issues(n)'
  <2>1. CASE n \in 1..N
    BY <1>1, <2>1, IssuesStay DEF IInv, Approvals
  <2>2. CASE n = N + 1
    BY <1>1, <1>4, <2>2 DEF Issues
  <2> QED
    BY <1>1, <2>1, <2>2
<1>7. ASSUME NEW d \in Caller, Storing(request'[d])
      PROVE  /\ request'[d].slot \in 1..Len(decisions')
             /\ ~decisions'[request'[d].slot].stored
             /\ d # c => request'[d].slot \in 1..N
             /\ d = c => request'[d].slot = N + 1
  <2>1. CASE d = c
    BY <1>1, <1>2, <1>3, <1>4, <2>1
  <2>2. CASE d # c
    BY <1>1, <1>3, <1>7, <2>2 DEF IInv, Approvals
  <2> QED
    BY <2>1, <2>2
<1>8. ASSUME NEW d \in Caller, NEW e \in Caller, Storing(request'[d]), Storing(request'[e]),
             request'[d].slot = request'[e].slot
      PROVE  d = e
  <2>1. CASE d = c \/ e = c
    BY <1>1, <1>7, <1>8, <2>1
  <2>2. CASE d # c /\ e # c
    BY <1>3, <1>8, <2>2 DEF IInv, Approvals
  <2> QED
    BY <2>1, <2>2
<1>9. ASSUME NEW d \in Caller PROVE ExecutionApproved(d)'
  <2>1. Executes(request'[d]) => d # c
    BY <1>2, <1>3 DEF Executes, Executing
  <2> QED
    BY <1>3, <2>1, ExecutionsApproved
<1> QED
  BY <1>5, <1>6, <1>7, <1>8, <1>9, IntentsApprovedStay DEF Approvals, Storing, Executes

\* The reference is free, so that no stored decision says the same.
LEMMA ApprovalsPut ==
  ASSUME IInv, [GateNext]_gateVars, NEW c \in Caller, PutDecision(c)
  PROVE  Approvals'
<1> DEFINE N == Len(decisions)
           slot == request[c].slot
<1>1. /\ slot \in 1..N /\ ~decisions[slot].stored /\ Len(decisions') = N
      /\ \A n \in 1..N : n # slot => decisions'[n] = decisions[n]
      /\ decisions'[slot] = [decisions[slot] EXCEPT !.stored = RefFree(decisions[slot])]
  BY Puts
<1>2. /\ decisions'[slot].proposal = decisions[slot].proposal
      /\ decisions'[slot].version = decisions[slot].version
      /\ decisions'[slot].decision = decisions[slot].decision
      /\ decisions'[slot].permit = decisions[slot].permit
      /\ decisions'[slot].stored => RefFree(decisions[slot])
  <2>1. decisions[slot] \in Decision
    BY <1>1 DEF IInv, Tables
  <2> QED
    BY <1>1, <2>1 DEF Decision
<1>3. request'[c] = None /\ \A d \in Caller : d # c => request'[d] = request[d]
  BY Turn DEF PutDecision, Finish
<1>4. At(c, "put") /\ Storing(request[c])
  BY DEF PutDecision, At, Storing
<1>5. DecidedOnce'
  <2>1. ASSUME NEW m \in 1..N, m # slot, decisions[m].stored, decisions'[slot].stored,
               decisions[m].proposal = decisions[slot].proposal,
               decisions[m].version = decisions[slot].version,
               decisions[m].decision = decisions[slot].decision
        PROVE  FALSE
    BY <1>2, <2>1 DEF RefFree, Decided
  <2> SUFFICES ASSUME NEW m \in 1..N, NEW n \in 1..N, decisions'[m].stored, decisions'[n].stored,
                      decisions'[m].proposal = decisions'[n].proposal,
                      decisions'[m].version = decisions'[n].version,
                      decisions'[m].decision = decisions'[n].decision
               PROVE  m = n
    BY <1>1 DEF DecidedOnce
  <2>2. CASE m = slot /\ n # slot
    BY <1>1, <1>2, <2>1, <2>2
  <2>4. CASE m # slot /\ n = slot
    BY <1>1, <1>2, <2>1, <2>4
  <2>3. CASE m # slot /\ n # slot
    BY <1>1, <2>3 DEF IInv, Approvals, DecidedOnce
  <2> QED
    BY <2>2, <2>3, <2>4
<1>6. ASSUME NEW n \in 1..Len(decisions') PROVE Issues(n)'
  <2>1. n \in 1..N /\ Issues(n)
    BY <1>1 DEF IInv, Approvals
  <2>2. /\ decisions'[n].decision = decisions[n].decision
        /\ decisions'[n].permit = decisions[n].permit
        /\ decisions'[n].proposal = decisions[n].proposal
        /\ decisions'[n].version = decisions[n].version
    BY <1>1, <1>2, <2>1
  <2> QED
    BY <2>1, <2>2, IssuesStay
<1>7. ASSUME NEW d \in Caller, Storing(request'[d])
      PROVE  /\ d # c /\ request'[d] = request[d]
             /\ request'[d].slot \in 1..Len(decisions')
             /\ ~decisions'[request'[d].slot].stored
  <2>1. d # c /\ request'[d] = request[d]
    BY <1>3, <1>7 DEF Storing
  <2>2. request[d].slot # slot /\ request[d].slot \in 1..N /\ ~decisions[request[d].slot].stored
    BY <1>4, <1>7, <2>1 DEF IInv, Approvals
  <2> QED
    BY <1>1, <2>1, <2>2
<1>8. \A d, e \in Caller :
        Storing(request'[d]) /\ Storing(request'[e]) /\ request'[d].slot = request'[e].slot
        => d = e
  BY <1>7 DEF IInv, Approvals
<1>9. \A d \in Caller : ExecutionApproved(d)'
  BY <1>3, ExecutionsApproved DEF Executes
<1> QED
  BY <1>5, <1>6, <1>7, <1>8, <1>9, IntentsApprovedStay DEF Approvals, Storing, Executes

LEMMA ApprovalsKept ==
  ASSUME IInv, [GateNext]_gateVars
  PROVE  Approvals'
<1>1. ASSUME NEW c \in Caller, Reject(c) PROVE Approvals'
  BY <1>1, RequestTypes, ApprovalsPrepared DEF Reject, Undecided, At, Shaped
<1>2. ASSUME NEW c \in Caller, NEW k \in Permit, PermitIssued(c, k) PROVE Approvals'
  <2>1. /\ request[c] \in Request /\ request[c].proposal \in Proposal
        /\ request[c].step = "issue" /\ Prepare(c, "approved", k)
    BY <1>2, RequestTypes DEF PermitIssued, At, Shaped
  <2>2. /\ calls[c] \in IssueCall /\ permits'[k] \in PermitRecord
        /\ permits'[k].proposal = calls[c].proposal /\ permits'[k].version = calls[c].version
    BY <1>2, Issued DEF PermitIssued, IInv, BrokerInv
  <2>3. calls[c].proposal = request[c].proposal /\ calls[c].version = request[c].version
    BY <2>1, <2>2, CallKinds DEF IInv, Served, Carries
  <2> QED
    BY <2>1, <2>2, <2>3, CallKinds, ApprovalsPrepared
<1> QED
  BY <1>1, <1>2, ApprovalsStill, ApprovalsPut, DecisionsStep

-----------------------------------------------------------------------------
(* External effects.                                                       *)

\* Whoever reaches the effect does so by one of three steps.
LEMMA EffectsReached ==
  ASSUME IInv, [GateNext]_gateVars, NEW d \in Caller, Affects(request'[d])
  PROVE  request'[d] = request[d] \/ Committed(d) \/ Dispatch(d) \/ Answered(d)
<1>1. CASE UNCHANGED decisions
  BY <1>1, RequestsGoOn DEF Affects
<1>2. ASSUME NEW c \in Caller, PutDecision(c) PROVE request'[d] = request[d]
  BY <1>2, Turn DEF PutDecision, Finish, Affects
<1>3. ASSUME NEW c \in Caller, NEW decision \in {"approved", "rejected"},
             NEW k \in Permit \cup {None}, Prepare(c, decision, k), request[c] \in Request,
             request[c].proposal \in Proposal
      PROVE  request'[d] = request[d]
  <2> DEFINE x == [request[c] EXCEPT !.step = "put", !.slot = Len(decisions) + 1]
  <2>1. x.step = "put"
    BY <1>3 DEF Request
  <2>2. request'[c] = x /\ \A e \in Caller : e # c => request'[e] = request[e]
    BY <1>3 DEF Prepare, Serve, IInv, Tables
  <2> HIDE DEF x
  <2> QED
    BY <2>1, <2>2 DEF Affects, Effecting
<1>4. ASSUME NEW c \in Caller, Reject(c) PROVE request'[d] = request[d]
  BY <1>3, <1>4, RequestTypes DEF Reject, Undecided, At, Shaped
<1>5. ASSUME NEW c \in Caller, NEW k \in Permit, PermitIssued(c, k)
      PROVE  request'[d] = request[d]
  BY <1>3, <1>5, RequestTypes DEF PermitIssued, At, Shaped
<1> QED
  BY <1>1, <1>2, <1>4, <1>5, DecisionsStep

\* Intents stay, so that a permit that was consumed stays consumed.
LEMMA ConsumedStays ==
  ASSUME IInv, [GateNext]_gateVars, NEW p, NEW v, NEW k, Consumed(p, v, k)
  PROVE  Consumed(p, v, k)'
<1>1. PICK i \in 1..Len(intents) :
        intents[i].permit = k /\ intents[i].proposal = p /\ intents[i].version = v
  BY DEF Consumed
<1>2. i \in 1..Len(intents') /\ intents'[i] = intents[i]
  <2>1. CASE UNCHANGED intents
    BY <2>1
  <2>2. ASSUME NEW c \in Caller, Committed(c)
        PROVE  i \in 1..Len(intents') /\ intents'[i] = intents[i]
    BY <2>2, CommitAdds
  <2> QED
    BY <2>1, <2>2, IntentsGo
<1> QED
  BY <1>1, <1>2 DEF Consumed

\* A request at the effect holds a permit, whose phase is not absent.
LEMMA EffectHeld ==
  ASSUME IInv, NEW c \in Caller, Affects(request[c])
  PROVE  /\ request[c] \in Request /\ request[c].permit \in Permit
         /\ phase[request[c].permit] # "absent"
<1>1. request[c] \in Request /\ Shaped(request[c]) /\ request[c].step \in Effecting
  BY RequestTypes DEF Affects
<1>2. InPhase(request[c])
  BY DEF IInv, Resolved, Working
<1> QED
  BY <1>1, <1>2 DEF Shaped, InPhase, Truth, Executing, Effecting, Result

\* So does an execution that is recorded.
LEMMA ExecutionHeld ==
  ASSUME IInv, NEW e \in executions
  PROVE  /\ e \in Execution /\ e.permit \in Permit
         /\ phase[e.permit] \in {"confirmed", "ready", "ambiguous"}
<1>1. e \in Execution /\ Truth(e.permit, e.state)
  BY DEF IInv, Tables, Resolved, Recorded
<1> QED
  BY <1>1 DEF Execution, Truth

\* Nothing is done to the effects or to the execution records.
LEMMA ResolvedStill ==
  ASSUME IInv, [GateNext]_gateVars, UNCHANGED <<effects, executions>>,
         \A c \in Caller : ~Committed(c) /\ ~Dispatch(c) /\ ~Answered(c)
  PROVE  Resolved'
<1>1. \A d \in Caller : Affects(request'[d]) => request'[d] = request[d]
  BY EffectsReached
<1>2. Alone'
  BY <1>1 DEF IInv, Resolved, Alone
<1>3. ASSUME NEW d \in Caller PROVE Working(d)'
  <2> SUFFICES ASSUME Affects(request'[d])
               PROVE  /\ Consumed(request[d].proposal, request[d].version, request[d].permit)'
                      /\ InPhase(request[d])'
    BY <1>1 DEF Working
  <2> QED
    BY <1>1, ConsumedStays DEF IInv, Resolved, Working, InPhase, Truth, effects
<1>4. \A k \in Permit : Fits(k)'
  BY DEF IInv, Resolved, Fits, effects
<1>5. ASSUME NEW e \in executions PROVE Recorded(e)'
  BY ConsumedStays DEF IInv, Resolved, Recorded, Truth, effects
<1> QED
  BY <1>2, <1>3, <1>4, <1>5 DEF Resolved

\* A step at the effect of a permit that nobody else holds.
LEMMA OwnEffect ==
  ASSUME IInv, [GateNext]_gateVars, NEW c \in Caller,
         Committed(c) \/ Dispatch(c) \/ Answered(c),
         UNCHANGED <<effect, executions>>,
         \A j \in Permit : j # request[c].permit => phase'[j] = phase[j] /\ maybe'[j] = maybe[j],
         \A d \in Caller :
           d # c /\ Affects(request[d]) => request[d].permit # request[c].permit,
         \A e \in executions : e.permit # request[c].permit,
         Working(c)', Fits(request[c].permit)'
  PROVE  Resolved'
<1> DEFINE k == request[c].permit
<1>1. /\ request'[c].permit = k
      /\ \A d \in Caller : d # c => request'[d] = request[d]
  BY Onward
<1>2. Alone'
  BY <1>1 DEF IInv, Resolved, Alone
<1>3. ASSUME NEW d \in Caller, d # c PROVE Working(d)'
  <2> SUFFICES ASSUME Affects(request[d])
               PROVE  /\ Consumed(request[d].proposal, request[d].version, request[d].permit)'
                      /\ InPhase(request[d])'
    BY <1>1, <1>3 DEF Working
  <2>1. request[d].permit \in Permit /\ request[d].permit # k
    BY <1>3, EffectHeld
  <2>2. phase'[request[d].permit] = phase[request[d].permit]
    BY <2>1
  <2>3. InPhase(request[d])'
    BY <1>1, <1>3, <2>2 DEF IInv, Resolved, Working, InPhase, Truth
  <2>4. ASSUME NEW p, NEW v, NEW j,
               p = request[d].proposal, v = request[d].version, j = request[d].permit
        PROVE  Consumed(p, v, j)'
    BY <2>4, ConsumedStays DEF IInv, Resolved, Working
  <2> QED
    BY <1>1, <1>3, <2>3, <2>4
<1>4. ASSUME NEW j \in Permit PROVE Fits(j)'
  <2>1. CASE j = k
    BY <1>1, <2>1 DEF Fits
  <2>2. CASE j # k
    BY <2>2 DEF IInv, Resolved, Fits
  <2> QED
    BY <2>1, <2>2
<1>5. ASSUME NEW e \in executions PROVE Recorded(e)'
  <2>1. e.permit \in Permit /\ phase'[e.permit] = phase[e.permit]
    BY ExecutionHeld
  <2> QED
    BY <2>1, ConsumedStays DEF IInv, Resolved, Recorded, Truth
<1> QED
  BY <1>2, <1>3, <1>4, <1>5 DEF Resolved

\* The permit was never consumed: no effect of it was begun or recorded.
LEMMA ResolvedCommitted ==
  ASSUME IInv, [GateNext]_gateVars, NEW c \in Caller, Committed(c)
  PROVE  Resolved'
<1> DEFINE r == request[c]
           k == r.permit
<1>1. r \in Request /\ k \in Permit
  BY RequestTypes DEF Committed, At, Shaped, Executing
<1>2. /\ phase[k] = "absent" /\ phase' = [phase EXCEPT ![k] = "ready"]
      /\ UNCHANGED <<maybe, effect, executions>>
  BY DEF Committed, records, Effects!Authorize, Effects!Move
<1>3. phase'[k] = "ready" /\ \A j \in Permit : j # k => phase'[j] = phase[j]
  BY <1>1, <1>2 DEF IInv, Tables
<1>4. ~effect[k] /\ ~maybe[k]
  BY <1>1, <1>2 DEF IInv, Resolved, Fits
<1>5. /\ \A d \in Caller : d # c /\ Affects(request[d]) => request[d].permit # k
      /\ \A e \in executions : e.permit # k
  BY <1>2, EffectHeld, ExecutionHeld
<1>6. /\ request'[c].step = "dispatch" /\ request'[c].permit = k
      /\ request'[c].proposal = r.proposal /\ request'[c].version = r.version
  <2>1. Serve(c, [r EXCEPT !.step = "dispatch"])
    BY DEF Committed
  <2>2. request'[c] = [r EXCEPT !.step = "dispatch"]
    BY <2>1 DEF Serve, IInv, Tables
  <2> QED
    BY <1>1, <2>2 DEF Request
<1>7. ASSUME NEW p, NEW v, NEW j, p = r.proposal, v = r.version, j = k
      PROVE  Consumed(p, v, j)'
  BY <1>7, CommitAdds DEF Consumed
<1>8. Working(c)'
  BY <1>2, <1>3, <1>4, <1>5, <1>6, <1>7 DEF Working, InPhase
<1>9. Fits(k)'
  BY <1>2, <1>4, <1>6 DEF Fits
<1> QED
  BY <1>2, <1>3, <1>5, <1>8, <1>9, OwnEffect

Phased(c) == InPhase(request[c])

\* What was consumed stays consumed when the request goes on.
LEMMA WorksOn ==
  ASSUME IInv, [GateNext]_gateVars, NEW c \in Caller, Dispatch(c) \/ Answered(c),
         Phased(c)'
  PROVE  Working(c)'
<1>1. Affects(request[c])
  BY DEF Dispatch, Answered, At, Affects, Effecting
<1>2. /\ request'[c].proposal = request[c].proposal
      /\ request'[c].version = request[c].version
      /\ request'[c].permit = request[c].permit
  BY Onward
<1>3. ASSUME NEW p, NEW v, NEW k,
             p = request[c].proposal, v = request[c].version, k = request[c].permit
      PROVE  Consumed(p, v, k)'
  BY <1>1, <1>3, ConsumedStays DEF IInv, Resolved, Working
<1> QED
  BY <1>2, <1>3 DEF Working, Phased

\* The attempt is opened by the request that consumed the permit.
LEMMA ResolvedDispatched ==
  ASSUME IInv, [GateNext]_gateVars, NEW c \in Caller, Dispatch(c)
  PROVE  Resolved'
<1> DEFINE r == request[c]
           k == r.permit
<1>1. Affects(r) /\ r \in Request /\ k \in Permit
  BY EffectHeld DEF Dispatch, At, Affects, Effecting
<1>2. ~effect[k] /\ \A e \in executions : e.permit # k
  BY <1>1 DEF IInv, Resolved, Working, InPhase, Dispatch, At
<1>3. UNCHANGED <<maybe, effect, executions>> /\ phase' = [phase EXCEPT ![k] = "open"]
  BY DEF Dispatch, records, Effects!Open, Effects!Move
<1>4. phase[k] = "ready"
  BY DEF Dispatch, Effects!Open, Effects!Move
<1>5. phase'[k] = "open" /\ \A j \in Permit : j # k => phase'[j] = phase[j]
  BY <1>1, <1>3 DEF IInv, Tables
<1>6. ~maybe[k]
  BY <1>1, <1>4 DEF IInv, Resolved, Fits
<1>7. request'[c].step = "answer" /\ request'[c].permit = k
  <2>1. request'[c] = [r EXCEPT !.step = "answer"]
    BY DEF Dispatch, Serve, IInv, Tables
  <2> QED
    BY <1>1, <2>1 DEF Request
<1>8. Working(c)'
  BY <1>5, <1>7, WorksOn DEF Phased, InPhase
<1>9. Fits(k)'
  BY <1>2, <1>3, <1>6, <1>7 DEF Fits
<1>10. \A d \in Caller : d # c /\ Affects(request[d]) => request[d].permit # k
  BY <1>1 DEF IInv, Resolved, Alone
<1> QED
  BY <1>2, <1>3, <1>5, <1>8, <1>9, <1>10, OwnEffect

\* What the request reports is what it has just put in the outcome store: a
\* permit has one attempt, so that a failure leaves no earlier effect behind.
LEMMA ResolvedAnswered ==
  ASSUME IInv, [GateNext]_gateVars, NEW c \in Caller, Answered(c)
  PROVE  Resolved'
<1> DEFINE r == request[c]
           k == r.permit
<1>1. Affects(r) /\ r \in Request /\ k \in Permit
  BY EffectHeld DEF Answered, At, Affects, Effecting
<1>2. phase[k] = "open" /\ ~maybe[k]
  BY <1>1 DEF IInv, Resolved, Working, Fits, InPhase, Answered, At
<1>3. PICK result \in Result :
        /\ Serve(c, [r EXCEPT !.step = "record", !.result = result])
        /\ UNCHANGED <<effect, executions>>
        /\ \/ result = "confirmed" /\ Effects!Confirm(k)
           \/ result = "failed_before_effect" /\ Effects!CloseWithoutEffect(k)
           \/ result = "outcome_unknown" /\ Effects!CloseAmbiguous(k)
  BY DEF Answered, FailureClosed, Result, records, Effects!Confirm, Effects!CloseWithoutEffect,
         Effects!CloseAmbiguous
<1>4. /\ request'[c].step = "record" /\ request'[c].result = result
      /\ request'[c].permit = k
  <2>1. request'[c] = [r EXCEPT !.step = "record", !.result = result]
    BY <1>3 DEF Serve, IInv, Tables
  <2>2. /\ [r EXCEPT !.step = "record", !.result = result].step = "record"
        /\ [r EXCEPT !.step = "record", !.result = result].result = result
        /\ [r EXCEPT !.step = "record", !.result = result].permit = r.permit
    BY <1>1 DEF Request
  <2> QED
    BY <2>1, <2>2
<1>5. \A j \in Permit : j # k => phase'[j] = phase[j] /\ maybe'[j] = maybe[j]
  BY <1>1, <1>3 DEF IInv, Tables, Effects!Confirm, Effects!CloseWithoutEffect,
                    Effects!CloseAmbiguous, Effects!Move
<1>6. /\ result = "confirmed" => phase'[k] = "confirmed" /\ effect[k] /\ ~maybe'[k]
      /\ result = "failed_before_effect" => phase'[k] = "ready" /\ ~effect[k] /\ ~maybe'[k]
      /\ result = "outcome_unknown" => phase'[k] = "ambiguous"
  BY <1>1, <1>2, <1>3 DEF IInv, Tables, Effects!Confirm, Effects!CloseWithoutEffect,
                          Effects!CloseAmbiguous, Effects!Move
<1>7. Working(c)'
  BY <1>3, <1>4, <1>6, WorksOn DEF Phased, InPhase, Truth
<1>8. Fits(k)'
  BY <1>3, <1>4, <1>6 DEF Fits, Result
<1>9. /\ \A d \in Caller : d # c /\ Affects(request[d]) => request[d].permit # k
      /\ \A e \in executions : e.permit # k
  BY <1>1, <1>2, ExecutionHeld DEF IInv, Resolved, Alone
<1> QED
  BY <1>3, <1>5, <1>7, <1>8, <1>9, OwnEffect

\* The email goes out during the attempt, or after its outcome was lost: never
\* once a failure was reported.
LEMMA ResolvedSent ==
  ASSUME IInv, [GateNext]_gateVars, NEW k \in Permit, EmailSent(k)
  PROVE  Resolved'
<1>1. /\ phase[k] = "open" \/ maybe[k]
      /\ effect' = [effect EXCEPT ![k] = TRUE]
      /\ UNCHANGED <<phase, maybe, executions, request>>
  BY DEF EmailSent, records, Effects!TakeEffect
<1>2. phase[k] \in {"open", "ambiguous"}
  BY <1>1 DEF IInv, Resolved, Fits
<1>3. effect'[k] /\ \A j \in Permit : j # k => effect'[j] = effect[j]
  BY <1>1 DEF IInv, Tables
<1>4. ASSUME NEW j \in Permit, NEW result \in Result, Truth(j, result) PROVE Truth(j, result)'
  BY <1>1, <1>2, <1>3, <1>4 DEF Truth, Result
<1>5. ASSUME NEW d \in Caller, NEW j, j = request[d].permit, Affects(request[d])
      PROVE  Working(d)'
  <2>1. j \in Permit /\ InPhase(request[d]) /\ Shaped(request[d])
    BY <1>5, EffectHeld, RequestTypes DEF IInv, Resolved, Working, Affects
  <2>2. ASSUME NEW p, NEW v, p = request[d].proposal, v = request[d].version
        PROVE  Consumed(p, v, j)'
    BY <1>5, <2>2, ConsumedStays DEF IInv, Resolved, Working
  <2>3. InPhase(request[d])'
    <3>1. CASE request[d].step = "dispatch"
      <4>1. j # k
        BY <1>2, <1>5, <2>1, <3>1 DEF InPhase
      <4> QED
        BY <1>1, <1>3, <1>5, <2>1, <3>1, <4>1 DEF InPhase
    <3>2. CASE request[d].step = "record"
      <4>1. ASSUME NEW result, result = request[d].result PROVE Truth(j, result)'
        BY <1>4, <1>5, <2>1, <3>2, <4>1 DEF InPhase, Shaped
      <4> QED
        BY <1>1, <1>5, <3>2, <4>1 DEF InPhase
    <3>3. CASE request[d].step \notin {"dispatch", "record"}
      BY <1>1, <2>1, <3>3 DEF InPhase
    <3> QED
      BY <3>1, <3>2, <3>3
  <2> QED
    BY <1>1, <1>5, <2>2, <2>3 DEF Working
<1>6. \A d \in Caller : Working(d)'
  BY <1>1, <1>5 DEF Working
<1>7. ASSUME NEW e \in executions PROVE Recorded(e)'
  <2>1. e.permit \in Permit /\ e.state \in Result
    BY ExecutionHeld DEF Execution, Result
  <2> QED
    BY <1>4, <2>1, ConsumedStays DEF IInv, Resolved, Recorded
<1>8. \A j \in Permit : Fits(j)'
  BY <1>1, <1>2, <1>3 DEF IInv, Resolved, Fits
<1> QED
  BY <1>1, <1>6, <1>7, <1>8 DEF IInv, Resolved, Alone

\* What the request reported is recorded.
LEMMA ResolvedRecorded ==
  ASSUME IInv, [GateNext]_gateVars, NEW c \in Caller, RecordExecution(c)
  PROVE  Resolved'
<1> DEFINE r == request[c]
           new == [proposal |-> r.proposal, version |-> r.version, permit |-> r.permit,
                   state |-> r.result]
<1>1. UNCHANGED <<phase, maybe, effect>> /\ executions' \subseteq executions \cup {new}
  BY DEF RecordExecution, effects
<1>2. request'[c] = None /\ \A d \in Caller : d # c => request'[d] = request[d]
  BY Turn DEF RecordExecution, Finish
<1>3. Affects(r) /\ r.step = "record"
  BY DEF RecordExecution, At, Affects, Effecting
<1>4. Recorded(new)
  BY <1>3 DEF IInv, Resolved, Working, InPhase, Recorded
<1>5. ASSUME NEW e, Recorded(e) PROVE Recorded(e)'
  BY <1>1, <1>5, ConsumedStays DEF Recorded, Truth
<1>6. ASSUME NEW d \in Caller, Affects(request'[d]) PROVE Working(d)'
  <2>1. d # c /\ request'[d] = request[d]
    BY <1>2, <1>6 DEF Affects
  <2>2. request[d].permit # new.permit
    BY <1>3, <1>6, <2>1 DEF IInv, Resolved, Alone
  <2>3. InPhase(request[d])'
    BY <1>1, <1>6, <2>1, <2>2 DEF IInv, Resolved, Working, InPhase, Truth
  <2>4. ASSUME NEW p, NEW v, NEW j,
               p = request[d].proposal, v = request[d].version, j = request[d].permit
        PROVE  Consumed(p, v, j)'
    BY <1>6, <2>1, <2>4, ConsumedStays DEF IInv, Resolved, Working
  <2> QED
    BY <2>1, <2>3, <2>4 DEF Working
<1>7. Alone'
  BY <1>2 DEF IInv, Resolved, Alone, Affects
<1>8. \A k \in Permit : Fits(k)'
  BY <1>1 DEF IInv, Resolved, Fits
<1>9. ASSUME NEW e \in executions' PROVE Recorded(e)'
  BY <1>1, <1>4, <1>5 DEF IInv, Resolved
<1> QED
  BY <1>6, <1>7, <1>8, <1>9 DEF Resolved, Working

LEMMA ResolvedKept ==
  ASSUME IInv, [GateNext]_gateVars
  PROVE  Resolved'
<1>1. \/ \E c \in Caller : Committed(c) \/ Dispatch(c) \/ Answered(c) \/ RecordExecution(c)
      \/ \E k \in Permit : EmailSent(k)
      \/ UNCHANGED <<effects, executions>>
  BY DEF GateNext, gateVars, records, CreateRef, StoreRef, Enter, Edit, ReadProposal,
         AlreadyDecided, Approve, Reject, PermitIssued, PutDecision, Execute, Commit,
         BrokerRefused, PutAutonomy, Crash, SetAutonomy, GateTick
<1> QED
  BY <1>1, ResolvedCommitted, ResolvedDispatched, ResolvedAnswered, ResolvedRecorded,
     ResolvedSent, ResolvedStill

-----------------------------------------------------------------------------
(* The theorems.                                                           *)

LEMMA GateStarts == GateInit => IInv
<1> SUFFICES ASSUME GateInit PROVE IInv
  OBVIOUS
<1>1. /\ request = [c \in Caller |-> None] /\ calls = [c \in Caller |-> None]
      /\ intents = <<>> /\ decisions = <<>> /\ executions = {} /\ Len(<<>>) = 0 /\ 1..0 = {}
  BY DEF GateInit, Init
<1>2. /\ phase = [k \in Permit |-> "absent"]
      /\ maybe = [k \in Permit |-> FALSE] /\ effect = [k \in Permit |-> FALSE]
  BY DEF GateInit, Effects!Init
<1>3. BrokerInv
  BY BrokerStarts DEF GateInit
<1>4. Tables
  <2>1. \A p \in Proposal : Len(versions[p]) <= MaxVersion
    <3>1. \A p \in Proposal : versions[p] = <<>>
      BY DEF GateInit, Init
    <3>2. 0 <= MaxVersion
      BY BrokerAssumption
    <3> QED
      BY <1>1, <3>1, <3>2
  <2>2. \A mode \in Mode : <<mode>> \in Seq(Mode)
    OBVIOUS
  <2>3. autonomy \in Seq(Mode)
    BY <2>2 DEF GateInit
  <2> QED
    BY <1>1, <1>2, <2>1, <2>3 DEF GateInit, Tables
<1>5. Served
  BY <1>1 DEF Served
<1>6. Approvals
  BY <1>1 DEF Approvals, DecidedOnce, Storing, ExecutionApproved, Executes
<1>7. Resolved
  BY <1>1, <1>2 DEF Resolved, Alone, Working, Affects, Fits
<1> QED
  BY <1>3, <1>4, <1>5, <1>6, <1>7 DEF IInv

LEMMA GateKeeps == IInv /\ [GateNext]_gateVars => IInv'
BY BrokerStill, TablesKept, ServedKept, ApprovalsKept, ResolvedKept DEF Serving, IInv

\* The three stores agree, and every request is where its await says, however
\* requests interleave, edits intervene, answers are lost and requests die.
THEOREM GateInvariant == GateSpec => []IInv
BY GateStarts, GateKeeps, PTL DEF GateSpec

\* Every record and every request has its shape in every reachable state.
THEOREM GateTypes == GateSpec => []GateTypeOK
<1>1. IInv => GateTypeOK
  BY DEF IInv, BrokerInv, Tables, GateTypeOK
<1> QED
  BY <1>1, GateInvariant, PTL

\* The handlers make only the calls ApprovalBroker allows, with versions and
\* permits it has stored: all that is proved of the broker holds of the gate.
THEOREM BrokerRespected == GateSpec => GateUsesBroker
<1>1. GateInit => Init
  BY DEF GateInit
<1>2. IInv /\ [GateNext]_gateVars => [Next]_vars
  BY BrokerUsed
<1> QED
  BY <1>1, <1>2, GateInvariant, PTL DEF GateSpec, GateUsesBroker, Spec

\* A version is authorized at most once.  Two intents of one version would
\* each name the permit of a stored approval; a version has one stored
\* approval, and a permit is spent once.
THEOREM VersionsAuthorizedOnce == GateSpec => []OneIntentPerVersion
<1>1. ASSUME IInv PROVE OneIntentPerVersion
  <2> SUFFICES ASSUME NEW i \in 1..Len(intents), NEW j \in 1..Len(intents),
                      intents[i].proposal = intents[j].proposal,
                      intents[i].version = intents[j].version
               PROVE  i = j
    BY DEF OneIntentPerVersion
  <2> DEFINE p == intents[i].proposal
             v == intents[i].version
  <2>1. PICK n \in Decided(p, v) :
          decisions[n].decision = "approved" /\ decisions[n].permit = intents[i].permit
    BY <1>1 DEF IInv, Approvals, IntentApproved, Approved
  <2>2. PICK m \in Decided(p, v) :
          decisions[m].decision = "approved" /\ decisions[m].permit = intents[j].permit
    BY <1>1 DEF IInv, Approvals, IntentApproved, Approved
  <2>3. m = n
    BY <1>1, <2>1, <2>2 DEF IInv, Approvals, DecidedOnce, Decided
  <2> QED
    BY <1>1, <2>1, <2>2, <2>3 DEF IInv, BrokerInv, PermitsSingleUse
<1> QED
  BY <1>1, GateInvariant, PTL

\* Nothing was authorized that no operator decided on.
THEOREM NothingUndecided == GateSpec => []IntentsWereDecided
<1>1. IInv => IntentsWereDecided
  BY DEF IInv, Approvals, IntentApproved, Approved, IntentsWereDecided
<1> QED
  BY <1>1, GateInvariant, PTL

\* What is recorded of an execution is, and stays, what happened outside.
THEOREM RecordsTrue == GateSpec => []ExecutionsTrue
<1>1. IInv => ExecutionsTrue
  BY DEF IInv, Resolved, Recorded, Consumed, Truth, ExecutionsTrue
<1> QED
  BY <1>1, GateInvariant, PTL

-----------------------------------------------------------------------------
(* The email sink at its contract.                                         *)

\* An external effect is begun by nobody but a request that has consumed the
\* permit.
BegunOnlyByCommits ==
  \A k \in Permit :
    phase[k] # "absent" => \E i \in 1..Len(intents) : intents[i].permit = k

\* The contract is never what stops a request: a commit that the broker grants
\* finds an intent the outcome store has not seen, who dispatches finds it
\* ready, and who waits for an answer finds its attempt open.
NothingRefused ==
  \A c \in Caller :
    LET k == request[c].permit IN
    /\ At(c, "consume") /\ calls[c] \in CommitCall /\ MayCommit(calls[c])
         => phase[k] = "absent"
    /\ At(c, "dispatch") => phase[k] = "ready"
    /\ At(c, "answer") => phase[k] = "open"

\* The steps that reach the effect of a permit, as steps of the contract.
LEMMA EffectsUsed ==
  ASSUME IInv, [GateNext]_gateVars
  PROVE  [Effects!Next]_effects
<1>1. CASE UNCHANGED effects
  BY <1>1
<1>2. ASSUME NEW c \in Caller, Committed(c) PROVE Effects!Next
  <2>1. request[c].permit \in Permit
    BY <1>2, RequestTypes DEF Committed, At, Shaped, Executing
  <2> QED
    BY <1>2, <2>1 DEF Committed, Effects!Next
<1>3. ASSUME NEW c \in Caller, Dispatch(c) PROVE Effects!Next
  <2>1. request[c].permit \in Permit
    BY <1>3, RequestTypes DEF Dispatch, At, Shaped, Executing
  <2> QED
    BY <1>3, <2>1 DEF Dispatch, Effects!Next
<1>4. ASSUME NEW c \in Caller, Answered(c) PROVE Effects!Next
  <2>1. request[c].permit \in Permit
    BY <1>4, RequestTypes DEF Answered, At, Shaped, Executing
  <2> QED
    BY <1>4, <2>1 DEF Answered, FailureClosed, Effects!Next
<1>5. ASSUME NEW k \in Permit, EmailSent(k) PROVE Effects!Next
  BY <1>5 DEF EmailSent, Effects!Next
<1> QED
  BY <1>1, <1>2, <1>3, <1>4, <1>5, EffectsStep

\* A phase leaves "absent" by a commit only, which stores the intent.
LEMMA BegunStays ==
  ASSUME IInv, BegunOnlyByCommits, [GateNext]_gateVars
  PROVE  BegunOnlyByCommits'
<1> SUFFICES ASSUME NEW k \in Permit, phase'[k] # "absent"
             PROVE  \E i \in 1..Len(intents') : intents'[i].permit = k
  BY DEF BegunOnlyByCommits
<1> USE DEF IInv, Tables
<1>1. ASSUME NEW i \in 1..Len(intents), intents[i].permit = k
      PROVE  \E j \in 1..Len(intents') : intents'[j].permit = k
  <2>1. ASSUME NEW p, NEW v, p = intents[i].proposal, v = intents[i].version
        PROVE  Consumed(p, v, k)'
    <3>1. Consumed(p, v, k)
      BY <1>1, <2>1 DEF Consumed
    <3> HIDE DEF IInv, Tables
    <3> QED
      BY <3>1, ConsumedStays
  <2> QED
    BY <2>1 DEF Consumed
<1>2. CASE phase[k] # "absent"
  BY <1>1, <1>2 DEF BegunOnlyByCommits
<1>3. CASE phase[k] = "absent"
  <2>1. PICK c \in Caller : Committed(c) /\ request[c].permit = k
    <3>1. ~UNCHANGED effects
      BY <1>3 DEF effects
    <3>2. ASSUME NEW c \in Caller, Dispatch(c) \/ Answered(c) PROVE FALSE
      <4>1. request[c].permit \in Permit /\ phase[request[c].permit] \in {"ready", "open"}
        BY <3>2, RequestTypes
        DEF Dispatch, Answered, At, Shaped, Executing, FailureClosed, Effects!Open,
            Effects!Confirm, Effects!CloseWithoutEffect, Effects!CloseAmbiguous, Effects!Move,
            Affects, Effecting, Resolved, Working, InPhase
      <4>2. phase'[k] = phase[k]
        BY <1>3, <3>2, <4>1
        DEF Dispatch, Answered, FailureClosed, Effects!Open, Effects!Confirm,
            Effects!CloseWithoutEffect, Effects!CloseAmbiguous, Effects!Move
      <4> QED
        BY <1>3, <4>2
    <3>3. ASSUME NEW j \in Permit, EmailSent(j) PROVE FALSE
      BY <1>3, <3>3 DEF EmailSent, Effects!TakeEffect
    <3>4. PICK c \in Caller : Committed(c)
      BY <3>1, <3>2, <3>3, EffectsStep
    <3>5. request[c].permit = k
      BY <1>3, <3>4 DEF Committed, Effects!Authorize, Effects!Move
    <3> QED
      BY <3>4, <3>5
  <2> QED
    BY <2>1, CommitAdds
<1> QED
  BY <1>2, <1>3

\* What the handlers do outside is a behaviour of the contract that the email
\* service implements: an attempt follows its authorization, an effect its
\* attempt, and nothing is opened again that was confirmed or is unknown.
THEOREM ContractRespected == GateSpec => Effects!Spec
<1>1. GateInit => Effects!Init
  BY DEF GateInit
<1>2. IInv /\ [GateNext]_gateVars => [Effects!Next]_effects
  BY EffectsUsed
<1> QED
  BY <1>1, <1>2, GateInvariant, PTL DEF GateSpec, Effects!Spec, effects, Effects!vars

\* And the gate never asks the outcome store for what it would refuse: a permit
\* that the broker grants was never dispatched, however approvals repeat,
\* executions race and requests die between consuming and dispatching.
THEOREM StoreNeverRefuses == GateSpec => []NothingRefused
<1>1. GateInit => BegunOnlyByCommits
  BY DEF GateInit, Effects!Init, BegunOnlyByCommits
<1>2. IInv /\ BegunOnlyByCommits /\ [GateNext]_gateVars => BegunOnlyByCommits'
  BY BegunStays
<1>3. ASSUME IInv, BegunOnlyByCommits PROVE NothingRefused
  <2> SUFFICES ASSUME NEW c \in Caller, request[c] # None
               PROVE  LET k == request[c].permit IN
                      /\ At(c, "consume") /\ calls[c] \in CommitCall /\ MayCommit(calls[c])
                           => phase[k] = "absent"
                      /\ At(c, "dispatch") => phase[k] = "ready"
                      /\ At(c, "answer") => phase[k] = "open"
    BY DEF NothingRefused, At
  <2> DEFINE k == request[c].permit
  <2>1. ASSUME At(c, "consume"), calls[c] \in CommitCall, MayCommit(calls[c])
        PROVE  phase[k] = "absent"
    <3>1. k \in Permit
      BY <1>3, <2>1, RequestTypes DEF At, Shaped, Executing
    <3>2. calls[c].permit = k
      BY <1>3, <2>1, CallKinds DEF IInv, Served, Carries, At
    <3>3. permits[k] # None /\ ~permits[k].consumed
      BY <1>3, <2>1, <3>2 DEF IInv, BrokerInv, CallsKnown, MayCommit, Usable
    <3>4. \A i \in 1..Len(intents) : intents[i].permit # k
      BY <1>3, <3>1, <3>3 DEF IInv, BrokerInv, PermitsSingleUse
    <3> QED
      BY <1>3, <3>1, <3>4 DEF BegunOnlyByCommits
  <2>2. At(c, "dispatch") => phase[k] = "ready"
    BY <1>3 DEF At, IInv, Resolved, Working, InPhase, Affects, Effecting
  <2>3. At(c, "answer") => phase[k] = "open"
    BY <1>3 DEF At, IInv, Resolved, Working, InPhase, Affects, Effecting
  <2> QED
    BY <2>1, <2>2, <2>3
<1> QED
  BY <1>1, <1>2, <1>3, GateInvariant, PTL DEF GateSpec
=============================================================================
