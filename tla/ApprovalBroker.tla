--------------------------- MODULE ApprovalBroker ---------------------------
(***************************************************************************)
(* The protected-action broker of protected_actions/broker.py (in memory,  *)
(* one RLock) and protected_actions/postgres.py (one row-locked transaction*)
(* per call).  Research produces a proposal; an operator approves one exact*)
(* version of it, which issues a single-use permit; a commit consumes the  *)
(* permit and creates the action intent that the email sink executes.      *)
(*                                                                         *)
(* Each broker call is two steps.  The caller first builds its arguments   *)
(* and the call reads `now' (broker.py:159,201); the locked body runs later*)
(* and is atomic.  Between the two, other callers' bodies may run, the     *)
(* organization policy may be revised and time passes: what the call       *)
(* carries is stale when the body looks at it.                             *)
(***************************************************************************)
EXTENDS Naturals, Sequences

CONSTANTS
  Proposal,     \* proposal ids
  Permit,       \* permit ids (the nonce of a permit is its id)
  Caller,       \* concurrent API requests that reach the broker
  Content,      \* what the payload and attachment digests of a version bind
  Controlled,   \* policy revision -> contents addressed to its recipient
  Ttl,          \* lifetime of a permit
  MaxVersion,   \* bound on the versions of one proposal
  MaxRevision,  \* bound on the revisions of the organization policy
  MaxTime,      \* bound on the clock
  None          \* no permit, no call in flight

Revision == 1..MaxRevision

PermitRecord ==
  [proposal : Proposal, version : Nat, content : Content, revision : Revision,
   approvedAt : Nat, expiresAt : Nat, consumed : BOOLEAN]

Intent ==
  [permit : Permit, proposal : Proposal, version : Nat, content : Content,
   revision : Revision, createdAt : Nat]

\* issue_permit: the previewed version and digests, the revision the policy
\* decision was taken under, the effective policy and `now'.
IssueCall ==
  [op : {"issue"}, proposal : Proposal, version : Nat, content : Content,
   decision : Revision, policy : Revision, at : Nat]

\* authorize_and_consume: the permit, the commit context (version and digests
\* read before the call), the effective policy and `now'.
CommitCall ==
  [op : {"commit"}, permit : Permit, version : Nat, content : Content,
   policy : Revision, at : Nat]

ASSUME BrokerAssumption ==
  /\ MaxVersion \in Nat \ {0} /\ MaxRevision \in Nat \ {0} /\ MaxTime \in Nat
  /\ Ttl \in Nat \ {0}
  /\ Controlled \in [Revision -> SUBSET Content]
  /\ None \notin PermitRecord \cup IssueCall \cup CommitCall

VARIABLES
  status,    \* proposals.status, "absent" before create_proposal
  versions,  \* proposal_versions: the current version is the last one
  permits,   \* approval_permits
  intents,   \* action_intents, in the order they were created
  calls,     \* the broker call each caller has in flight
  revision,  \* revision of the organization policy in force
  clock

store == <<status, versions, permits, intents>>
vars  == <<status, versions, permits, intents, calls, revision, clock>>

current(p) == Len(versions[p])

TypeOK ==
  /\ status \in [Proposal -> {"absent", "pending_approval", "approved", "authorized"}]
  /\ versions \in [Proposal -> Seq(Content)]
  /\ permits \in [Permit -> PermitRecord \cup {None}]
  /\ intents \in Seq(Intent)
  /\ calls \in [Caller -> IssueCall \cup CommitCall \cup {None}]
  /\ revision \in Revision
  /\ clock \in Nat

Init ==
  /\ status = [p \in Proposal |-> "absent"]
  /\ versions = [p \in Proposal |-> <<>>]
  /\ permits = [k \in Permit |-> None]
  /\ intents = <<>>
  /\ calls = [c \in Caller |-> None]
  /\ revision = 1
  /\ clock = 0

-----------------------------------------------------------------------------
(* Proposals.                                                              *)

CreatedStatus == "pending_approval"

CreateProposal(p, content) ==
  /\ status[p] = "absent"
  /\ status' = [status EXCEPT ![p] = CreatedStatus]
  /\ versions' = [versions EXCEPT ![p] = <<content>>]
  /\ UNCHANGED <<permits, intents, calls, revision, clock>>

\* Slip: an edit appends the version and leaves the status alone.
EditKeepsStatus(p) == status[p]

\* edit_proposal looks at no status: an approved or authorized proposal is
\* edited like a pending one, and goes back to pending_approval.
EditedStatus(p) == "pending_approval"

EditProposal(p, content) ==
  /\ status[p] # "absent"
  /\ current(p) < MaxVersion
  /\ versions' = [versions EXCEPT ![p] = Append(@, content)]
  /\ status' = [status EXCEPT ![p] = EditedStatus(p)]
  /\ UNCHANGED <<permits, intents, calls, revision, clock>>

-----------------------------------------------------------------------------
(* issue_permit.                                                           *)

\* The caller has read a version, current then, previewed it and taken its
\* policy decision; the digests it expects are whatever the operator was shown.
BeginIssue(c, p, version, content, decision) ==
  /\ calls[c] = None
  /\ version \in 1..current(p)
  /\ decision <= revision
  /\ calls' = [calls EXCEPT ![c] =
       [op |-> "issue", proposal |-> p, version |-> version, content |-> content,
        decision |-> decision, policy |-> revision, at |-> clock]]
  /\ UNCHANGED <<status, versions, permits, intents, revision, clock>>

\* _validate_policy_decision, the version and digest checks and
\* _validate_payload_policy.  The proposal's status is not looked at.
MayIssue(r) ==
  /\ r.decision = r.policy
  /\ current(r.proposal) = r.version
  /\ versions[r.proposal][r.version] = r.content
  /\ versions[r.proposal][r.version] \in Controlled[r.policy]

IssuePermit(c, k) ==
  /\ calls[c] \in IssueCall
  /\ permits[k] = None
  /\ LET r == calls[c] IN
     /\ MayIssue(r)
     /\ permits' = [permits EXCEPT ![k] =
          [proposal |-> r.proposal, version |-> r.version,
           content |-> versions[r.proposal][r.version], revision |-> r.policy,
           approvedAt |-> r.at, expiresAt |-> r.at + Ttl, consumed |-> FALSE]]
     /\ status' = [status EXCEPT ![r.proposal] = "approved"]
  /\ calls' = [calls EXCEPT ![c] = None]
  /\ UNCHANGED <<versions, intents, revision, clock>>

-----------------------------------------------------------------------------
(* authorize_and_consume.                                                  *)

\* The executor has read a version, current then, for its commit context
\* (ProtectedEmailBoundary.execute), and calls.
BeginCommit(c, k, version, content) ==
  /\ calls[c] = None
  /\ permits[k] # None
  /\ version \in 1..current(permits[k].proposal)
  /\ calls' = [calls EXCEPT ![c] =
       [op |-> "commit", permit |-> k, version |-> version, content |-> content,
        policy |-> revision, at |-> clock]]
  /\ UNCHANGED <<status, versions, permits, intents, revision, clock>>

\* Slips: the consumed check, or the expiry check, is missing.
ReusableUntilExpiry(k, now) == now < k.expiresAt
UsableAfterExpiry(k, now) == ~k.consumed
Usable(k, now) == ~k.consumed /\ now < k.expiresAt

\* Slip: only the commit context is compared with the permit.
SameAsContext(k, version) == version = k.version
StillCurrent(k, version) == current(k.proposal) = k.version /\ version = k.version

\* The refusals of authorize_and_consume, in the order of the code.
MayCommit(r) ==
  LET k == permits[r.permit] IN
  /\ Usable(k, r.at)
  /\ k.revision = r.policy
  /\ StillCurrent(k, r.version)
  /\ status[k.proposal] = "approved"
  /\ versions[k.proposal][k.version] = k.content
  /\ r.content = k.content
  /\ k.content \in Controlled[r.policy]

NewIntent(r) ==
  LET k == permits[r.permit] IN
  [permit |-> r.permit, proposal |-> k.proposal, version |-> k.version,
   content |-> versions[k.proposal][k.version], revision |-> k.revision,
   createdAt |-> r.at]

AuthorizeAndConsume(c) ==
  /\ calls[c] \in CommitCall
  /\ MayCommit(calls[c])
  /\ permits' = [permits EXCEPT ![calls[c].permit].consumed = TRUE]
  /\ intents' = Append(intents, NewIntent(calls[c]))
  /\ status' = [status EXCEPT ![permits[calls[c].permit].proposal] = "authorized"]
  /\ calls' = [calls EXCEPT ![c] = None]
  /\ UNCHANGED <<versions, revision, clock>>

-----------------------------------------------------------------------------
\* AuthorizationError: the transaction rolls back and nothing is stored.
Refuse(c) ==
  /\ \/ calls[c] \in IssueCall /\ ~MayIssue(calls[c])
     \/ calls[c] \in CommitCall /\ ~MayCommit(calls[c])
  /\ calls' = [calls EXCEPT ![c] = None]
  /\ UNCHANGED <<status, versions, permits, intents, revision, clock>>

\* The caller dies or is cancelled before the body runs: nothing is stored.
Abandon(c) ==
  /\ calls[c] # None
  /\ calls' = [calls EXCEPT ![c] = None]
  /\ UNCHANGED <<status, versions, permits, intents, revision, clock>>

RevisePolicy ==
  /\ revision < MaxRevision
  /\ revision' = revision + 1
  /\ UNCHANGED <<status, versions, permits, intents, calls, clock>>

Tick ==
  /\ clock < MaxTime
  /\ clock' = clock + 1
  /\ UNCHANGED <<status, versions, permits, intents, calls, revision>>

Next ==
  \/ \E p \in Proposal, content \in Content :
       CreateProposal(p, content) \/ EditProposal(p, content)
  \/ \E c \in Caller, p \in Proposal, version \in 1..MaxVersion, content \in Content,
        decision \in Revision : BeginIssue(c, p, version, content, decision)
  \/ \E c \in Caller, k \in Permit, version \in 1..MaxVersion, content \in Content :
       BeginCommit(c, k, version, content)
  \/ \E c \in Caller, k \in Permit : IssuePermit(c, k)
  \/ \E c \in Caller : AuthorizeAndConsume(c) \/ Refuse(c) \/ Abandon(c)
  \/ RevisePolicy
  \/ Tick

Spec == Init /\ [][Next]_vars

-----------------------------------------------------------------------------
(* Properties.                                                             *)

\* A permit is spent exactly when some intent names it, and no two intents
\* name the same permit: re-approving a version that was already authorized
\* (issue_permit never looks at the status) does not revive a spent permit.
PermitsSingleUse ==
  /\ \A i, j \in 1..Len(intents) : intents[i].permit = intents[j].permit => i = j
  /\ \A k \in Permit : permits[k] # None =>
       (permits[k].consumed <=> \E i \in 1..Len(intents) : intents[i].permit = k)

\* Every intent is exactly what its permit approved: same version, the bytes
\* that version still stores, a recipient the policy revision of the approval
\* controls, and a creation time inside the lifetime of the permit (the CHECK
\* on consumed_at in migration 0003 never fires).
IntentMatchesApproval ==
  \A i \in 1..Len(intents) :
    LET n == intents[i]
        k == permits[n.permit]
    IN /\ k # None
       /\ n.proposal = k.proposal /\ n.version = k.version /\ n.content = k.content
       /\ n.version \in 1..Len(versions[n.proposal])
       /\ versions[n.proposal][n.version] = n.content
       /\ n.revision = k.revision /\ n.content \in Controlled[n.revision]
       /\ k.approvedAt <= n.createdAt /\ n.createdAt < k.expiresAt

\* The status the operator sees is backed by the rows behind it: an approved
\* proposal has an unspent permit for its current version, and an authorized
\* one has an intent for its current version.
StatusIsBacked ==
  \A p \in Proposal :
    /\ status[p] = "approved" =>
         \E k \in Permit : /\ permits[k] # None /\ ~permits[k].consumed
                           /\ permits[k].proposal = p
                           /\ permits[k].version = current(p)
    /\ status[p] = "authorized" =>
         \E i \in 1..Len(intents) : /\ intents[i].proposal = p
                                    /\ intents[i].version = current(p)

\* A commit is only ever made for the version that is current, and approved,
\* in the state it is made in: an edit between the executor's read and its
\* commit leaves the older permit unusable for good.
CommitsOnlyCurrentApproved ==
  [][Len(intents') > Len(intents) =>
       LET n == intents'[Len(intents')] IN
       /\ n.version = current(n.proposal)
       /\ status[n.proposal] = "approved" /\ status'[n.proposal] = "authorized"]_vars

=============================================================================
