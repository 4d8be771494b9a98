------------------------ MODULE ApprovalBrokerProofs ------------------------
(***************************************************************************)
(* The safety of ApprovalBroker for every set of proposals, permits,       *)
(* callers and contents, every policy history and every bound.             *)
(*                                                                         *)
(* The invariants are not inductive by themselves: that a commit finds the *)
(* bytes its permit approved rests on permits being anchored to a stored   *)
(* version, and that it is not dated before the approval rests on what the *)
(* calls in flight carry.  BrokerInv adds these two facts.                 *)
(***************************************************************************)
EXTENDS ApprovalBroker, TLAPS

\* What a call in flight carries was true when it was built and stays true:
\* the permit exists and is not younger than the call, and `now' is past.
CallsKnown ==
  \A c \in Caller :
    /\ calls[c] \in IssueCall =>
         /\ calls[c].version \in 1..Len(versions[calls[c].proposal])
         /\ calls[c].at <= clock
    /\ calls[c] \in CommitCall =>
         /\ permits[calls[c].permit] # None
         /\ permits[calls[c].permit].approvedAt <= calls[c].at
         /\ calls[c].at <= clock

\* A permit is anchored to a stored version with the bytes it approved.
PermitsAnchored ==
  \A k \in Permit : permits[k] # None =>
    /\ permits[k].version \in 1..Len(versions[permits[k].proposal])
    /\ versions[permits[k].proposal][permits[k].version] = permits[k].content
    /\ permits[k].content \in Controlled[permits[k].revision]
    /\ permits[k].approvedAt <= clock

\* create_proposal stores the row and its version 1 together.
VersionsExist == \A p \in Proposal : status[p] = "absent" <=> Len(versions[p]) = 0

BrokerInv ==
  /\ TypeOK
  /\ VersionsExist
  /\ CallsKnown
  /\ PermitsAnchored
  /\ PermitsSingleUse
  /\ IntentMatchesApproval
  /\ StatusIsBacked

-----------------------------------------------------------------------------
(* Sequences of intents and of contents grow at the end.                   *)

LEMMA AppendIndices ==
  ASSUME NEW S, NEW s \in Seq(S), NEW e \in S
  PROVE  /\ Append(s, e) \in Seq(S)
         /\ Len(Append(s, e)) = Len(s) + 1
         /\ \A i \in 1..Len(s) : Append(s, e)[i] = s[i]
         /\ Append(s, e)[Len(s) + 1] = e
         /\ Len(s) \in Nat
OBVIOUS

\* A caller's slot holds one kind of call, or none.
LEMMA CallKinds ==
  /\ \A r \in IssueCall : r \notin CommitCall /\ r # None
  /\ \A r \in CommitCall : r \notin IssueCall /\ r # None
  /\ None \notin IssueCall /\ None \notin CommitCall /\ None \notin PermitRecord
BY BrokerAssumption DEF IssueCall, CommitCall

-----------------------------------------------------------------------------
(* Type correctness.                                                       *)

\* Every stored row and every call in flight keeps its shape.  A commit must
\* find a permit, not None, behind the id it carries: hence CallsKnown.
LEMMA TypeStep == TypeOK /\ CallsKnown /\ [Next]_vars => TypeOK'
<1> SUFFICES ASSUME TypeOK, CallsKnown, [Next]_vars PROVE TypeOK'
  OBVIOUS
<1> USE BrokerAssumption DEF TypeOK
<1>1. ASSUME NEW p \in Proposal, NEW content \in Content, CreateProposal(p, content)
      PROVE  TypeOK'
  BY <1>1 DEF CreateProposal, CreatedStatus
<1>2. ASSUME NEW p \in Proposal, NEW content \in Content, EditProposal(p, content)
      PROVE  TypeOK'
  BY <1>2 DEF EditProposal, EditedStatus
<1>3. ASSUME NEW c \in Caller, NEW p \in Proposal, NEW version \in 1..MaxVersion,
             NEW content \in Content, NEW decision \in Revision,
             BeginIssue(c, p, version, content, decision)
      PROVE  TypeOK'
  <2>1. [op |-> "issue", proposal |-> p, version |-> version, content |-> content,
         decision |-> decision, policy |-> revision, at |-> clock] \in IssueCall
    BY DEF IssueCall
  <2> QED BY <1>3, <2>1 DEF BeginIssue
<1>4. ASSUME NEW c \in Caller, NEW k \in Permit, NEW version \in 1..MaxVersion,
             NEW content \in Content, BeginCommit(c, k, version, content)
      PROVE  TypeOK'
  <2>1. [op |-> "commit", permit |-> k, version |-> version, content |-> content,
         policy |-> revision, at |-> clock] \in CommitCall
    BY DEF CommitCall
  <2> QED BY <1>4, <2>1 DEF BeginCommit
<1>5. ASSUME NEW c \in Caller, NEW k \in Permit, IssuePermit(c, k)
      PROVE  TypeOK'
  <2> DEFINE r == calls[c]
             new == [proposal |-> r.proposal, version |-> r.version,
                     content |-> versions[r.proposal][r.version], revision |-> r.policy,
                     approvedAt |-> r.at, expiresAt |-> r.at + Ttl, consumed |-> FALSE]
  <2>1. new \in PermitRecord
    BY <1>5 DEF IssuePermit, MayIssue, IssueCall, PermitRecord
  <2>2. permits' = [permits EXCEPT ![k] = new]
    BY <1>5 DEF IssuePermit
  <2> QED BY <1>5, <2>1, <2>2 DEF IssuePermit, IssueCall
<1>6. ASSUME NEW c \in Caller, AuthorizeAndConsume(c)
      PROVE  TypeOK'
  <2> DEFINE id == calls[c].permit
  <2>1. id \in Permit /\ calls[c].at \in Nat /\ permits[id] \in PermitRecord
    BY <1>6 DEF AuthorizeAndConsume, CommitCall, CallsKnown
  <2>2. permits' \in [Permit -> PermitRecord \cup {None}]
    BY <1>6, <2>1 DEF AuthorizeAndConsume, PermitRecord
  <2>3. NewIntent(calls[c]) \in Intent
    BY <1>6, <2>1 DEF AuthorizeAndConsume, MayCommit, NewIntent, Intent, PermitRecord
  <2>4. status' \in [Proposal -> {"absent", "pending_approval", "approved", "authorized"}]
    BY <1>6, <2>1 DEF AuthorizeAndConsume, PermitRecord
  <2> QED BY <1>6, <2>2, <2>3, <2>4 DEF AuthorizeAndConsume
<1>7. ASSUME NEW c \in Caller, Refuse(c) \/ Abandon(c) PROVE TypeOK'
  BY <1>7 DEF Refuse, Abandon
<1>8. CASE RevisePolicy
  BY <1>8 DEF RevisePolicy, Revision
<1>9. CASE Tick
  BY <1>9 DEF Tick
<1>10. CASE UNCHANGED vars
  BY <1>10 DEF vars
<1> QED BY <1>1, <1>2, <1>3, <1>4, <1>5, <1>6, <1>7, <1>8, <1>9, <1>10 DEF Next

-----------------------------------------------------------------------------
(* What each kind of step does to the store.                               *)

\* Versions are only ever appended: what a version stored, it stores for good.
LEMMA VersionsGrow ==
  ASSUME TypeOK, VersionsExist, [Next]_vars
  PROVE  \A p \in Proposal :
           /\ Len(versions[p]) \in Nat /\ Len(versions'[p]) \in Nat
           /\ Len(versions[p]) <= Len(versions'[p])
           /\ \A v \in 1..Len(versions[p]) : versions'[p][v] = versions[p][v]
<1> SUFFICES ASSUME NEW q \in Proposal
             PROVE  /\ Len(versions[q]) \in Nat /\ Len(versions'[q]) \in Nat
                    /\ Len(versions[q]) <= Len(versions'[q])
                    /\ \A v \in 1..Len(versions[q]) : versions'[q][v] = versions[q][v]
  OBVIOUS
<1>1. versions[q] \in Seq(Content)
  BY DEF TypeOK
<1>2. ASSUME NEW p \in Proposal, NEW content \in Content, CreateProposal(p, content)
      PROVE  versions'[q] = versions[q] \/ (Len(versions[q]) = 0 /\ versions'[q] = <<content>>)
  BY <1>2 DEF CreateProposal, TypeOK, VersionsExist
<1>3. ASSUME NEW p \in Proposal, NEW content \in Content, EditProposal(p, content)
      PROVE  versions'[q] = versions[q] \/ versions'[q] = Append(versions[q], content)
  BY <1>3 DEF EditProposal, TypeOK
<1>4. \/ versions'[q] = versions[q]
      \/ \E content \in Content : Len(versions[q]) = 0 /\ versions'[q] = <<content>>
      \/ \E content \in Content : versions'[q] = Append(versions[q], content)
  BY <1>2, <1>3 DEF Next, vars, BeginIssue, IssuePermit, BeginCommit, AuthorizeAndConsume,
                    Refuse, Abandon, RevisePolicy, Tick
<1>5. ASSUME NEW content \in Content, versions'[q] = Append(versions[q], content)
      PROVE  /\ Len(versions'[q]) = Len(versions[q]) + 1
             /\ \A v \in 1..Len(versions[q]) : versions'[q][v] = versions[q][v]
  BY <1>1, <1>5, AppendIndices
<1> QED BY <1>1, <1>4, <1>5

LEMMA ClockGrows ==
  ASSUME TypeOK, [Next]_vars
  PROVE  clock \in Nat /\ clock' \in Nat /\ clock <= clock'
<1>1. clock \in Nat
  BY DEF TypeOK
<1>2. clock' = clock \/ clock' = clock + 1
  BY DEF Next, vars, CreateProposal, EditProposal, BeginIssue, IssuePermit, BeginCommit,
         AuthorizeAndConsume, Refuse, Abandon, RevisePolicy, Tick
<1> QED BY <1>1, <1>2

\* Only IssuePermit stores a permit, in a free slot and unspent; only
\* AuthorizeAndConsume spends one, and changes nothing else of it.
LEMMA PermitsStep ==
  ASSUME TypeOK, CallsKnown, [Next]_vars
  PROVE  \/ UNCHANGED permits
         \/ \E c \in Caller, k \in Permit : IssuePermit(c, k)
         \/ \E c \in Caller : AuthorizeAndConsume(c)
BY DEF Next, vars, CreateProposal, EditProposal, BeginIssue, BeginCommit, Refuse, Abandon,
       RevisePolicy, Tick

LEMMA Issued ==
  ASSUME TypeOK, NEW c \in Caller, NEW k \in Permit, IssuePermit(c, k)
  PROVE  /\ calls[c] \in IssueCall /\ permits[k] = None
         /\ \A j \in Permit : j # k => permits'[j] = permits[j]
         /\ permits'[k] \in PermitRecord
         /\ permits'[k].proposal = calls[c].proposal
         /\ permits'[k].version = current(calls[c].proposal)
         /\ permits'[k].version = calls[c].version
         /\ permits'[k].content = versions[calls[c].proposal][calls[c].version]
         /\ permits'[k].content \in Controlled[permits'[k].revision]
         /\ permits'[k].approvedAt = calls[c].at
         /\ permits'[k].consumed = FALSE
<1> DEFINE r == calls[c]
           new == [proposal |-> r.proposal, version |-> r.version,
                   content |-> versions[r.proposal][r.version], revision |-> r.policy,
                   approvedAt |-> r.at, expiresAt |-> r.at + Ttl, consumed |-> FALSE]
<1>1. r \in IssueCall /\ MayIssue(r) /\ permits[k] = None
  BY DEF IssuePermit
<1>2. new \in PermitRecord
  BY <1>1, BrokerAssumption DEF MayIssue, IssueCall, PermitRecord
<1>3. permits' = [permits EXCEPT ![k] = new]
  BY DEF IssuePermit
<1>4. permits'[k] = new /\ \A j \in Permit : j # k => permits'[j] = permits[j]
  BY <1>3 DEF TypeOK
<1> QED BY <1>1, <1>2, <1>4 DEF MayIssue

LEMMA Authorized ==
  ASSUME TypeOK, CallsKnown, NEW c \in Caller, AuthorizeAndConsume(c)
  PROVE  /\ calls[c] \in CommitCall /\ calls[c].permit \in Permit
         /\ permits[calls[c].permit] \in PermitRecord
         /\ permits[calls[c].permit] # None
         /\ permits[calls[c].permit].consumed = FALSE
         /\ permits'[calls[c].permit].consumed = TRUE
         /\ \A j \in Permit : j # calls[c].permit => permits'[j] = permits[j]
         /\ \A j \in Permit : permits'[j] = None <=> permits[j] = None
         /\ NewIntent(calls[c]) \in Intent
         /\ intents' = Append(intents, NewIntent(calls[c]))
<1> DEFINE id == calls[c].permit
<1>1. calls[c] \in CommitCall /\ MayCommit(calls[c])
  BY DEF AuthorizeAndConsume
<1>2. id \in Permit /\ permits[id] \in PermitRecord /\ permits[id] # None
  BY <1>1, CallKinds DEF TypeOK, CallsKnown, CommitCall
<1>3. permits[id].consumed = FALSE /\ calls[c].at \in Nat
  BY <1>1, <1>2 DEF MayCommit, Usable, PermitRecord, CommitCall
<1>4. permits' = [permits EXCEPT ![id] = [permits[id] EXCEPT !.consumed = TRUE]]
  BY DEF AuthorizeAndConsume
<1>5. /\ permits'[id] = [permits[id] EXCEPT !.consumed = TRUE]
      /\ \A j \in Permit : j # id => permits'[j] = permits[j]
  BY <1>2, <1>4 DEF TypeOK
<1>6. permits'[id] \in PermitRecord /\ permits'[id].consumed = TRUE
  BY <1>2, <1>5 DEF PermitRecord
<1>7. \A j \in Permit : permits'[j] = None <=> permits[j] = None
  BY <1>2, <1>5, <1>6, CallKinds
<1>8. NewIntent(calls[c]) \in Intent
  BY <1>1, <1>2, <1>3 DEF MayCommit, NewIntent, Intent, PermitRecord, TypeOK
<1> QED BY <1>1, <1>2, <1>3, <1>5, <1>6, <1>7, <1>8 DEF AuthorizeAndConsume

\* Whatever a step does, a permit keeps everything but its consumed mark.
LEMMA PermitsKeep ==
  ASSUME TypeOK, CallsKnown, [Next]_vars, NEW k \in Permit, permits[k] # None
  PROVE  /\ permits'[k] # None
         /\ permits'[k].proposal = permits[k].proposal
         /\ permits'[k].version = permits[k].version
         /\ permits'[k].content = permits[k].content
         /\ permits'[k].revision = permits[k].revision
         /\ permits'[k].approvedAt = permits[k].approvedAt
         /\ permits'[k].expiresAt = permits[k].expiresAt
<1>1. CASE UNCHANGED permits
  BY <1>1
<1>2. ASSUME NEW c \in Caller, NEW j \in Permit, IssuePermit(c, j)
      PROVE  permits'[k] = permits[k]
  BY <1>2, Issued
<1>3. ASSUME NEW c \in Caller, AuthorizeAndConsume(c)
      PROVE  /\ permits'[k] # None
             /\ permits'[k] = permits[k] \/ permits'[k] = [permits[k] EXCEPT !.consumed = TRUE]
  <2>1. calls[c].permit \in Permit /\ (permits'[k] = None <=> permits[k] = None)
    BY <1>3, Authorized
  <2> QED BY <1>3, <2>1 DEF AuthorizeAndConsume, TypeOK
<1>4. permits[k] \in PermitRecord
  BY DEF TypeOK
<1>5. ASSUME permits'[k] = [permits[k] EXCEPT !.consumed = TRUE]
      PROVE  /\ permits'[k].proposal = permits[k].proposal
             /\ permits'[k].version = permits[k].version
             /\ permits'[k].content = permits[k].content
             /\ permits'[k].revision = permits[k].revision
             /\ permits'[k].approvedAt = permits[k].approvedAt
             /\ permits'[k].expiresAt = permits[k].expiresAt
  BY <1>4, <1>5 DEF PermitRecord
<1> QED BY <1>1, <1>2, <1>3, <1>5, PermitsStep

-----------------------------------------------------------------------------
(* The invariant, one conjunct at a time.                                  *)

LEMMA VersionsExistStep ==
  ASSUME BrokerInv, [Next]_vars PROVE VersionsExist'
<1> USE DEF BrokerInv, VersionsExist
<1>1. ASSUME NEW p \in Proposal, NEW content \in Content, CreateProposal(p, content)
      PROVE  VersionsExist'
  BY <1>1 DEF CreateProposal, CreatedStatus, TypeOK
<1>2. ASSUME NEW p \in Proposal, NEW content \in Content, EditProposal(p, content)
      PROVE  VersionsExist'
  <2>1. versions[p] \in Seq(Content)
    BY DEF TypeOK
  <2>2. Len(Append(versions[p], content)) # 0
    BY <2>1, AppendIndices
  <2> QED BY <1>2, <2>2 DEF EditProposal, EditedStatus, TypeOK
<1>3. ASSUME NEW c \in Caller, NEW k \in Permit, IssuePermit(c, k)
      PROVE  VersionsExist'
  <2>1. calls[c].proposal \in Proposal /\ calls[c].version \in 1..Len(versions[calls[c].proposal])
    BY <1>3 DEF IssuePermit, IssueCall, CallsKnown
  <2>2. status[calls[c].proposal] # "absent"
    BY <2>1 DEF TypeOK
  <2> QED BY <1>3, <2>1, <2>2 DEF IssuePermit, TypeOK
<1>4. ASSUME NEW c \in Caller, AuthorizeAndConsume(c) PROVE VersionsExist'
  BY <1>4 DEF AuthorizeAndConsume, MayCommit, TypeOK
<1>5. CASE UNCHANGED <<status, versions>>
  BY <1>5
<1> QED BY <1>1, <1>2, <1>3, <1>4, <1>5
     DEF Next, vars, BeginIssue, BeginCommit, Refuse, Abandon, RevisePolicy, Tick

LEMMA CallsKnownStep ==
  ASSUME BrokerInv, [Next]_vars PROVE CallsKnown'
<1> USE DEF BrokerInv
<1> SUFFICES ASSUME NEW c \in Caller
             PROVE  /\ calls'[c] \in IssueCall =>
                         /\ calls'[c].version \in 1..Len(versions'[calls'[c].proposal])
                         /\ calls'[c].at <= clock'
                    /\ calls'[c] \in CommitCall =>
                         /\ permits'[calls'[c].permit] # None
                         /\ permits'[calls'[c].permit].approvedAt <= calls'[c].at
                         /\ calls'[c].at <= clock'
  BY DEF CallsKnown
<1>1. clock \in Nat /\ clock' \in Nat /\ clock <= clock'
  BY ClockGrows
<1>2. ASSUME calls'[c] = calls[c], calls[c] \in IssueCall
      PROVE  /\ calls'[c].version \in 1..Len(versions'[calls'[c].proposal])
             /\ calls'[c].at <= clock'
  BY <1>1, <1>2, VersionsGrow DEF CallsKnown, IssueCall
<1>3. ASSUME calls'[c] = calls[c], calls[c] \in CommitCall
      PROVE  /\ permits'[calls'[c].permit] # None
             /\ permits'[calls'[c].permit].approvedAt <= calls'[c].at
             /\ calls'[c].at <= clock'
  <2>1. calls[c].permit \in Permit /\ calls[c].at \in Nat
    BY <1>3 DEF CommitCall
  <2> QED BY <1>1, <1>3, <2>1, PermitsKeep DEF CallsKnown
<1>4. ASSUME NEW p \in Proposal, NEW version \in 1..MaxVersion, NEW content \in Content,
             NEW decision \in Revision, BeginIssue(c, p, version, content, decision)
      PROVE  /\ calls'[c] \in IssueCall /\ calls'[c] \notin CommitCall
             /\ calls'[c].version \in 1..Len(versions'[calls'[c].proposal])
             /\ calls'[c].at <= clock'
  <2> DEFINE new == [op |-> "issue", proposal |-> p, version |-> version,
                     content |-> content, decision |-> decision, policy |-> revision,
                     at |-> clock]
  <2>1. calls'[c] = new
    BY <1>4 DEF BeginIssue, TypeOK
  <2>2. new \in IssueCall
    BY BrokerAssumption DEF IssueCall, TypeOK
  <2>3. version \in 1..Len(versions'[p])
    BY <1>4 DEF BeginIssue, current
  <2> QED BY <1>1, <2>1, <2>2, <2>3, CallKinds
<1>5. ASSUME NEW k \in Permit, NEW version \in 1..MaxVersion, NEW content \in Content,
             BeginCommit(c, k, version, content)
      PROVE  /\ calls'[c] \notin IssueCall
             /\ permits'[calls'[c].permit] # None
             /\ permits'[calls'[c].permit].approvedAt <= calls'[c].at
             /\ calls'[c].at <= clock'
  <2> DEFINE new == [op |-> "commit", permit |-> k, version |-> version,
                     content |-> content, policy |-> revision, at |-> clock]
  <2>1. calls'[c] = new
    BY <1>5 DEF BeginCommit, TypeOK
  <2>2. new \notin IssueCall
    BY DEF IssueCall
  <2> QED BY <1>1, <1>5, <2>1, <2>2 DEF BeginCommit, PermitsAnchored
<1>6. \/ calls'[c] = calls[c]
      \/ calls'[c] = None
      \/ \E p \in Proposal, version \in 1..MaxVersion, content \in Content,
            decision \in Revision : BeginIssue(c, p, version, content, decision)
      \/ \E k \in Permit, version \in 1..MaxVersion, content \in Content :
           BeginCommit(c, k, version, content)
  BY DEF TypeOK, Next, vars, CreateProposal, EditProposal, BeginIssue, IssuePermit,
         BeginCommit, AuthorizeAndConsume, Refuse, Abandon, RevisePolicy, Tick
<1> QED BY <1>2, <1>3, <1>4, <1>5, <1>6, CallKinds

LEMMA PermitsAnchoredStep ==
  ASSUME BrokerInv, [Next]_vars PROVE PermitsAnchored'
<1> USE DEF BrokerInv
<1> SUFFICES ASSUME NEW k \in Permit, permits'[k] # None
             PROVE  /\ permits'[k].version \in 1..Len(versions'[permits'[k].proposal])
                    /\ versions'[permits'[k].proposal][permits'[k].version]
                         = permits'[k].content
                    /\ permits'[k].content \in Controlled[permits'[k].revision]
                    /\ permits'[k].approvedAt <= clock'
  BY DEF PermitsAnchored
<1>1. CASE permits[k] # None
  <2>1. permits[k] \in PermitRecord
    BY <1>1 DEF TypeOK
  <2>2. permits[k].proposal \in Proposal /\ permits[k].approvedAt \in Nat
    BY <2>1 DEF PermitRecord
  <2>3. clock \in Nat /\ clock' \in Nat /\ clock <= clock'
    BY ClockGrows
  <2>4. Len(versions[permits[k].proposal]) <= Len(versions'[permits[k].proposal])
    BY <2>2, VersionsGrow
  <2>5. versions'[permits[k].proposal][permits[k].version]
          = versions[permits[k].proposal][permits[k].version]
    BY <1>1, <2>2, VersionsGrow DEF PermitsAnchored
  <2>6. permits[k].version \in 1..Len(versions'[permits[k].proposal])
    BY <1>1, <2>2, <2>4, VersionsGrow DEF PermitsAnchored
  <2> QED BY <1>1, <2>2, <2>3, <2>5, <2>6, PermitsKeep DEF PermitsAnchored
<1>2. ASSUME permits[k] = None, NEW c \in Caller, NEW j \in Permit, IssuePermit(c, j)
      PROVE  /\ permits'[k].version \in 1..Len(versions'[permits'[k].proposal])
             /\ versions'[permits'[k].proposal][permits'[k].version] = permits'[k].content
             /\ permits'[k].content \in Controlled[permits'[k].revision]
             /\ permits'[k].approvedAt <= clock'
  <2>1. j = k
    BY <1>2, Issued
  <2>2. UNCHANGED <<versions, clock>>
    BY <1>2 DEF IssuePermit
  <2> QED BY <1>2, <2>1, <2>2, Issued DEF CallsKnown
<1>3. ASSUME permits[k] = None, NEW c \in Caller, AuthorizeAndConsume(c) PROVE FALSE
  BY <1>3, Authorized
<1> QED BY <1>1, <1>2, <1>3, PermitsStep

\* The intents recorded so far stay, and at most one is added, by a commit.
LEMMA IntentsStep ==
  ASSUME TypeOK, CallsKnown, [Next]_vars
  PROVE  UNCHANGED intents \/ \E c \in Caller : AuthorizeAndConsume(c)
BY DEF Next, vars, CreateProposal, EditProposal, BeginIssue, IssuePermit, BeginCommit,
       Refuse, Abandon, RevisePolicy, Tick

LEMMA PermitsSingleUseStep ==
  ASSUME BrokerInv, [Next]_vars PROVE PermitsSingleUse'
<1> USE DEF BrokerInv
<1> DEFINE n == Len(intents)
<1>1. intents \in Seq(Intent) /\ n \in Nat
  BY DEF TypeOK
<1>2. CASE UNCHANGED <<permits, intents>>
  BY <1>2 DEF PermitsSingleUse
<1>3. ASSUME NEW c \in Caller, NEW k \in Permit, IssuePermit(c, k)
      PROVE  PermitsSingleUse'
  <2>1. UNCHANGED intents
    BY <1>3 DEF IssuePermit
  <2>2. /\ permits[k] = None /\ permits'[k].consumed = FALSE
        /\ \A j \in Permit : j # k => permits'[j] = permits[j]
    BY <1>3, Issued
  <2>3. \A i \in 1..n : intents[i].permit # k
    BY <2>2 DEF IntentMatchesApproval
  <2> QED BY <2>1, <2>2, <2>3 DEF PermitsSingleUse
<1>4. ASSUME NEW c \in Caller, AuthorizeAndConsume(c)
      PROVE  PermitsSingleUse'
  <2> DEFINE id == calls[c].permit
             e == NewIntent(calls[c])
  <2>1. /\ id \in Permit /\ permits[id] # None /\ permits[id].consumed = FALSE
        /\ \A j \in Permit : j # id => permits'[j] = permits[j]
        /\ e \in Intent /\ intents' = Append(intents, e)
    BY <1>4, Authorized
  <2>2. permits'[id].consumed = TRUE /\ permits'[id] # None
    BY <1>4, <2>1, Authorized
  <2>3. e.permit = id
    BY DEF NewIntent
  <2>4. \A i \in 1..n : intents[i].permit # id
    BY <2>1 DEF PermitsSingleUse
  <2>5. /\ Len(intents') = n + 1
        /\ \A i \in 1..n : intents'[i] = intents[i]
        /\ intents'[n + 1] = e
    BY <1>1, <2>1, AppendIndices
  <2>6. \A i \in 1..Len(intents') : i \in 1..n \/ i = n + 1
    BY <1>1, <2>5
  <2>7. \A i, j \in 1..Len(intents') : intents'[i].permit = intents'[j].permit => i = j
    BY <2>3, <2>4, <2>5, <2>6 DEF PermitsSingleUse
  <2>8. ASSUME NEW j \in Permit, permits'[j] # None, j # id
        PROVE  permits'[j].consumed <=> \E i \in 1..Len(intents') : intents'[i].permit = j
    <3>1. permits[j].consumed <=> \E i \in 1..n : intents[i].permit = j
      BY <2>1, <2>8 DEF PermitsSingleUse
    <3>2. \A i \in 1..n : i \in 1..Len(intents')
      BY <1>1, <2>5
    <3>3. (\E i \in 1..Len(intents') : intents'[i].permit = j)
            <=> \E i \in 1..n : intents[i].permit = j
      BY <2>3, <2>5, <2>6, <2>8, <3>2
    <3> QED BY <2>1, <2>8, <3>1, <3>3
  <2>9. \E i \in 1..Len(intents') : intents'[i].permit = id
    BY <1>1, <2>3, <2>5
  <2> QED BY <2>2, <2>7, <2>8, <2>9 DEF PermitsSingleUse
<1>5. \/ UNCHANGED <<permits, intents>>
      \/ \E c \in Caller, k \in Permit : IssuePermit(c, k)
      \/ \E c \in Caller : AuthorizeAndConsume(c)
  BY PermitsStep, IntentsStep DEF IssuePermit
<1> QED BY <1>2, <1>3, <1>4, <1>5

LEMMA IntentMatchesApprovalStep ==
  ASSUME BrokerInv, [Next]_vars PROVE IntentMatchesApproval'
<1> USE DEF BrokerInv
<1> DEFINE size == Len(intents)
           Matches(m) ==
             LET k == permits[m.permit] IN
             /\ k # None
             /\ m.proposal = k.proposal /\ m.version = k.version /\ m.content = k.content
             /\ m.version \in 1..Len(versions[m.proposal])
             /\ versions[m.proposal][m.version] = m.content
             /\ m.revision = k.revision /\ m.content \in Controlled[m.revision]
             /\ k.approvedAt <= m.createdAt /\ m.createdAt < k.expiresAt
<1>1. intents \in Seq(Intent) /\ size \in Nat
  BY DEF TypeOK
<1>2. ASSUME NEW m \in Intent, Matches(m)
      PROVE  Matches(m)'
  <2>1. m.permit \in Permit /\ m.proposal \in Proposal
    BY DEF Intent
  <2>2. permits[m.permit] # None
    BY <1>2
  <2>3. /\ m.version \in 1..Len(versions'[m.proposal])
        /\ versions'[m.proposal][m.version] = m.content
    <3>1. Len(versions[m.proposal]) <= Len(versions'[m.proposal])
          /\ Len(versions[m.proposal]) \in Nat /\ Len(versions'[m.proposal]) \in Nat
      BY <2>1, VersionsGrow
    <3>2. versions'[m.proposal][m.version] = versions[m.proposal][m.version]
      BY <1>2, <2>1, VersionsGrow
    <3> QED BY <1>2, <3>1, <3>2
  <2> QED BY <1>2, <2>1, <2>2, <2>3, PermitsKeep
<1>3. CASE UNCHANGED intents
  <2>1. \A i \in 1..size : intents[i] \in Intent /\ Matches(intents[i])
    BY <1>1 DEF IntentMatchesApproval
  <2>2. ASSUME NEW i \in 1..size
        PROVE  \E m \in Intent : m = intents[i] /\ Matches(m)'
    BY <1>2, <2>1
  <2> QED BY <1>3, <2>2 DEF IntentMatchesApproval
<1>4. ASSUME NEW c \in Caller, AuthorizeAndConsume(c)
      PROVE  IntentMatchesApproval'
  <2> DEFINE e == NewIntent(calls[c])
             k == permits[calls[c].permit]
  <2>1. /\ calls[c] \in CommitCall /\ calls[c].permit \in Permit
        /\ k \in PermitRecord /\ k # None
        /\ e \in Intent /\ intents' = Append(intents, e)
    BY <1>4, Authorized
  <2>2. MayCommit(calls[c])
    BY <1>4 DEF AuthorizeAndConsume
  <2>3. k.approvedAt <= calls[c].at /\ calls[c].at < k.expiresAt
    BY <2>1, <2>2 DEF MayCommit, Usable, CallsKnown
  <2>4. k.version \in 1..Len(versions[k.proposal])
        /\ versions[k.proposal][k.version] = k.content
        /\ k.content \in Controlled[k.revision]
    BY <2>1 DEF PermitsAnchored
  <2>5. Matches(e)
    BY <2>1, <2>3, <2>4 DEF NewIntent
  <2>6. \A i \in 1..size : intents[i] \in Intent /\ Matches(intents[i])
    BY <1>1 DEF IntentMatchesApproval
  <2>7. /\ Len(intents') = size + 1
        /\ \A i \in 1..size : intents'[i] = intents[i]
        /\ intents'[size + 1] = e
    BY <1>1, <2>1, AppendIndices
  <2>8. \A i \in 1..Len(intents') : i \in 1..size \/ i = size + 1
    BY <1>1, <2>7
  <2>9. ASSUME NEW i \in 1..Len(intents')
        PROVE  intents'[i] \in Intent /\ Matches(intents'[i])
    <3> HIDE DEF Matches, e, size
    <3>1. CASE i \in 1..size
      <4>1. intents'[i] = intents[i]
        BY <2>7, <3>1
      <4> QED BY <2>6, <3>1, <4>1
    <3>2. CASE i = size + 1
      <4>1. intents'[i] = e
        BY <2>7, <3>2
      <4> QED BY <2>1, <2>5, <4>1
    <3> QED BY <2>8, <3>1, <3>2
  <2>10. ASSUME NEW i \in 1..Len(intents')
         PROVE  \E m \in Intent : m = intents'[i] /\ Matches(m)'
    BY <1>2, <2>9
  <2> QED BY <2>10 DEF IntentMatchesApproval
<1> QED BY <1>3, <1>4, IntentsStep

\* An edit always resets the status, so it is enough to follow the two steps
\* that set it: an approval backs "approved" with the permit it stores, a
\* commit backs "authorized" with the intent it stores and spends a permit of
\* no other proposal.
LEMMA StatusIsBackedStep ==
  ASSUME BrokerInv, [Next]_vars PROVE StatusIsBacked'
<1> USE DEF BrokerInv
<1> DEFINE HasPermit(p) ==
             \E k \in Permit : /\ permits[k] # None /\ ~permits[k].consumed
                               /\ permits[k].proposal = p
                               /\ permits[k].version = current(p)
           HasIntent(p) ==
             \E i \in 1..Len(intents) : intents[i].proposal = p
                                        /\ intents[i].version = current(p)
<1>1. ASSUME NEW p \in Proposal, UNCHANGED <<permits, intents>>,
             status'[p] = status[p], versions'[p] = versions[p]
      PROVE  /\ status'[p] = "approved" => HasPermit(p)'
             /\ status'[p] = "authorized" => HasIntent(p)'
  BY <1>1 DEF StatusIsBacked, current
<1>2. ASSUME NEW q \in Proposal, NEW content \in Content, CreateProposal(q, content)
      PROVE  StatusIsBacked'
  <2>1. status'[q] = "pending_approval"
    BY <1>2 DEF CreateProposal, CreatedStatus, TypeOK
  <2>2. \A p \in Proposal : p # q => status'[p] = status[p] /\ versions'[p] = versions[p]
    BY <1>2 DEF CreateProposal, TypeOK
  <2> QED BY <1>1, <1>2, <2>1, <2>2 DEF StatusIsBacked, CreateProposal
<1>3. ASSUME NEW q \in Proposal, NEW content \in Content, EditProposal(q, content)
      PROVE  StatusIsBacked'
  <2>1. status'[q] = "pending_approval"
    BY <1>3 DEF EditProposal, EditedStatus, TypeOK
  <2>2. \A p \in Proposal : p # q => status'[p] = status[p] /\ versions'[p] = versions[p]
    BY <1>3 DEF EditProposal, TypeOK
  <2> QED BY <1>1, <1>3, <2>1, <2>2 DEF StatusIsBacked, EditProposal
<1>4. ASSUME NEW c \in Caller, NEW k \in Permit, IssuePermit(c, k)
      PROVE  StatusIsBacked'
  <2>0. PICK q \in Proposal : q = calls[c].proposal
    BY <1>4, Issued DEF IssueCall
  <2>1. /\ calls[c] \in IssueCall /\ permits[k] = None
        /\ \A j \in Permit : j # k => permits'[j] = permits[j]
        /\ permits'[k] \in PermitRecord /\ permits'[k].consumed = FALSE
        /\ permits'[k].proposal = q /\ permits'[k].version = current(q)
    BY <1>4, <2>0, Issued
  <2>3. UNCHANGED <<versions, intents>> /\ status' = [status EXCEPT ![q] = "approved"]
    BY <1>4, <2>0 DEF IssuePermit
  <2>4. HasPermit(q)' /\ status'[q] = "approved"
    BY <2>1, <2>3, CallKinds DEF current, TypeOK
  <2>5. ASSUME NEW p \in Proposal, p # q
        PROVE  /\ status'[p] = "approved" => HasPermit(p)'
               /\ status'[p] = "authorized" => HasIntent(p)'
    <3>1. status'[p] = status[p]
      BY <2>3, <2>5 DEF TypeOK
    <3>2. ASSUME status[p] = "approved" PROVE HasPermit(p)'
      BY <2>1, <2>3, <3>2 DEF StatusIsBacked, current
    <3> QED BY <2>3, <3>1, <3>2 DEF StatusIsBacked, current
  <2> QED BY <2>4, <2>5 DEF StatusIsBacked
<1>5. ASSUME NEW c \in Caller, AuthorizeAndConsume(c)
      PROVE  StatusIsBacked'
  <2> DEFINE id == calls[c].permit
  <2>0. PICK q \in Proposal, e \in Intent : q = permits[id].proposal /\ e = NewIntent(calls[c])
    BY <1>5, Authorized DEF PermitRecord
  <2>1. /\ id \in Permit /\ permits[id] \in PermitRecord /\ permits[id] # None
        /\ \A j \in Permit : j # id => permits'[j] = permits[j]
        /\ intents' = Append(intents, e)
    BY <1>5, <2>0, Authorized
  <2>3. UNCHANGED versions /\ status' = [status EXCEPT ![q] = "authorized"]
    BY <1>5, <2>0 DEF AuthorizeAndConsume
  <2>4. permits[id].version = current(q)
    BY <1>5, <2>0 DEF AuthorizeAndConsume, MayCommit, StillCurrent
  <2>5. intents \in Seq(Intent) /\ Len(intents) \in Nat
    BY DEF TypeOK
  <2>6. /\ Len(intents') = Len(intents) + 1
        /\ \A i \in 1..Len(intents) : intents'[i] = intents[i]
        /\ intents'[Len(intents) + 1] = e
    BY <2>1, <2>5, AppendIndices
  <2>7. Len(intents') \in 1..Len(intents')
    BY <2>5, <2>6
  <2>8. e.proposal = q /\ e.version = current(q)
    BY <2>0, <2>4 DEF NewIntent
  <2>9. HasIntent(q)'
    BY <2>3, <2>6, <2>7, <2>8 DEF current
  <2>10. status'[q] = "authorized"
    BY <2>3 DEF TypeOK
  <2>11. ASSUME NEW p \in Proposal, p # q
         PROVE  /\ status'[p] = "approved" => HasPermit(p)'
                /\ status'[p] = "authorized" => HasIntent(p)'
    <3>1. status'[p] = status[p]
      BY <2>3, <2>11 DEF TypeOK
    <3>2. ASSUME status[p] = "approved" PROVE HasPermit(p)'
      BY <2>0, <2>1, <2>3, <2>11, <3>2 DEF StatusIsBacked, current
    <3>3. ASSUME status[p] = "authorized" PROVE HasIntent(p)'
      <4>1. PICK i \in 1..Len(intents) : intents[i].proposal = p
                                         /\ intents[i].version = current(p)
        BY <3>3 DEF StatusIsBacked
      <4>2. i \in 1..Len(intents') /\ intents'[i] = intents[i]
        BY <2>5, <2>6
      <4> QED BY <2>3, <4>1, <4>2 DEF current
    <3> QED BY <3>1, <3>2, <3>3
  <2> QED BY <2>9, <2>10, <2>11 DEF StatusIsBacked
<1>6. CASE UNCHANGED store
  BY <1>1, <1>6 DEF StatusIsBacked, store
<1> QED BY <1>2, <1>3, <1>4, <1>5, <1>6
     DEF Next, vars, store, BeginIssue, BeginCommit, Refuse, Abandon, RevisePolicy, Tick

-----------------------------------------------------------------------------
(* The theorems.                                                           *)

LEMMA BrokerStarts == Init => BrokerInv
<1> SUFFICES ASSUME Init PROVE BrokerInv
  OBVIOUS
<1>1. Len(<<>>) = 0 /\ 1..0 = {}
  OBVIOUS
<1>2. TypeOK
  BY BrokerAssumption DEF Init, TypeOK, Revision
<1>3. CallsKnown
  BY CallKinds DEF Init, CallsKnown
<1>4. VersionsExist /\ PermitsAnchored /\ StatusIsBacked
  BY <1>1 DEF Init, VersionsExist, PermitsAnchored, StatusIsBacked
<1>5. PermitsSingleUse /\ IntentMatchesApproval
  BY <1>1 DEF Init, PermitsSingleUse, IntentMatchesApproval
<1> QED
  BY <1>2, <1>3, <1>4, <1>5 DEF BrokerInv

LEMMA BrokerKeeps == BrokerInv /\ [Next]_vars => BrokerInv'
<1> SUFFICES ASSUME BrokerInv, [Next]_vars PROVE BrokerInv'
  OBVIOUS
<1>1. TypeOK'
  BY TypeStep DEF BrokerInv
<1> QED
  BY <1>1, VersionsExistStep, CallsKnownStep, PermitsAnchoredStep,
     PermitsSingleUseStep, IntentMatchesApprovalStep, StatusIsBackedStep
  DEF BrokerInv

\* The broker starts with no rows and no calls, and every step keeps the
\* inductive invariant.
THEOREM BrokerInvariant == Spec => []BrokerInv
BY BrokerStarts, BrokerKeeps, PTL DEF Spec

\* Every row and every call in flight has its shape in every reachable state.
THEOREM TypeCorrect == Spec => []TypeOK
BY BrokerInvariant, PTL DEF BrokerInv

\* A permit is spent by exactly one intent, however often a version is
\* re-approved and however calls interleave.
THEOREM SingleUse == Spec => []PermitsSingleUse
BY BrokerInvariant, PTL DEF BrokerInv

\* Every intent carries out exactly what its permit approved, in its lifetime.
THEOREM IntentsApproved == Spec => []IntentMatchesApproval
BY BrokerInvariant, PTL DEF BrokerInv

\* The status of a proposal is backed by a permit or an intent.
THEOREM StatusBacked == Spec => []StatusIsBacked
BY BrokerInvariant, PTL DEF BrokerInv

\* Commits are made for the current, approved version only: an edit that lands
\* before the commit makes every older permit unusable.
THEOREM CommitsCurrent == Spec => CommitsOnlyCurrentApproved
<1> DEFINE Commits ==
      Len(intents') > Len(intents) =>
        LET n == intents'[Len(intents')] IN
        /\ n.version = current(n.proposal)
        /\ status[n.proposal] = "approved" /\ status'[n.proposal] = "authorized"
<1>1. BrokerInv /\ [Next]_vars => [Commits]_vars
  <2> SUFFICES ASSUME BrokerInv, [Next]_vars PROVE Commits
    OBVIOUS
  <2>1. TypeOK /\ CallsKnown /\ intents \in Seq(Intent) /\ Len(intents) \in Nat
    BY DEF BrokerInv, TypeOK
  <2>2. CASE UNCHANGED intents
    BY <2>1, <2>2
  <2>3. ASSUME NEW c \in Caller, AuthorizeAndConsume(c) PROVE Commits
    <3> DEFINE k == permits[calls[c].permit]
               e == NewIntent(calls[c])
    <3>1. k \in PermitRecord /\ e \in Intent /\ intents' = Append(intents, e)
      BY <2>1, <2>3, Authorized
    <3>2. intents'[Len(intents')] = e
      BY <2>1, <3>1, AppendIndices
    <3>3. k.version = current(k.proposal) /\ status[k.proposal] = "approved"
      BY <2>3 DEF AuthorizeAndConsume, MayCommit, StillCurrent
    <3>4. status'[k.proposal] = "authorized"
      BY <2>1, <2>3, <3>1 DEF AuthorizeAndConsume, PermitRecord, TypeOK
    <3>5. e.proposal = k.proposal /\ e.version = k.version
      BY DEF NewIntent
    <3> QED BY <3>2, <3>3, <3>4, <3>5
  <2> QED BY <2>1, <2>2, <2>3, IntentsStep
<1> QED BY <1>1, BrokerInvariant, PTL DEF Spec, CommitsOnlyCurrentApproved

=============================================================================
