-------------------------- MODULE RequestRevisions --------------------------
(***************************************************************************)
(* A redirect, from the operator's command to the proposal made for it:    *)
(* the service's put-once records (integration/service.py, repository.py), *)
(* the update of the parent workflow (workflows/parent.py) and the         *)
(* executor that loads the revision it works for (integration/executor.py).*)
(*                                                                         *)
(* A request is a coroutine of the API: it reads, awaits, writes, awaits.  *)
(* Others run at every await, it may die there, and a call to the workflow *)
(* may still arrive when nobody waits for its answer.  The parent is what  *)
(* ParentWorkflow makes of one work item: it applies redirects whenever it *)
(* waits for no child, it accepts them at every await until it returns,    *)
(* and an attempt it has cancelled goes on until it is done, for the       *)
(* activity sends no heartbeats.  The last step of a redirect, the listing *)
(* of what is reused, is a journal entry that nothing reads.               *)
(*                                                                         *)
(* Every redirect names something the work depends on, as the client's do. *)
(* Left out: the retries of one attempt (Executor), the other commands     *)
(* (ParentWorkflow) and the decision itself (OperatorGate).                *)
(***************************************************************************)
EXTENDS Naturals, Sequences, FiniteSets, FiniteSetsExt, Functions

CONSTANTS
  Command,         \* command ids
  Text,            \* what a redirect may ask for
  Original,        \* the text of the original request
  Submission,      \* what operators may submit: a command id with a text
  Caller,          \* requests under way at once
  MaxSubmissions,  \* bound on the requests made
  MaxFaults,       \* bound on the requests that break off
  None             \* no record; nothing served

Intent == [text : Text, number : Nat]
RevisionRecord == [kind : {"prepared", "promoted"}, number : Nat, text : Text]
Accepted == [command : Command, text : Text, number : Nat]

Step == {"list", "command", "prepare", "runtime", "orphan", "promote"}
Request == [command : Command, text : Text, number : Nat, step : Step]

Attempt ==
  [revision : Nat, text : Text \cup {Original, None}, cancel : BOOLEAN,
   state : {"started", "loaded", "stored", "failed"}]

ASSUME RevisionsAssumption ==
  /\ MaxSubmissions \in Nat /\ MaxFaults \in Nat
  /\ Original \notin Text
  /\ Submission \subseteq Command \X Text
  /\ None \notin Intent \cup Request

VARIABLES
  intent,     \* redirect_command records, by command
  stored,     \* prepared and promoted revisions, in the order of created_at
  request,    \* what each caller is doing
  submitted,  \* how often a command was submitted
  faults,     \* how many requests broke off
  accepted,   \* the redirects among the parent's commands
  applied,    \* how many of them the parent has applied
  work,       \* where the parent is with its work item
  attempts,   \* the attempts at it, in their order
  proposals,  \* proposal_ref records: the attempts that stored one, in order
  run         \* the parent works, completes the run, or has returned

records == <<intent, stored>>
api     == <<request, submitted, faults>>
parent  == <<accepted, applied, work, run>>
vars    == <<records, api, parent, attempts, proposals>>

TypeOK ==
  /\ intent \in [Command -> Intent \cup {None}]
  /\ stored \in Seq(RevisionRecord)
  /\ request \in [Caller -> Request \cup {None}]
  /\ submitted \in [Command -> Nat] /\ faults \in Nat
  /\ accepted \in Seq(Accepted)
  /\ applied \in 0..Len(accepted) /\ run \in {"open", "closing", "ended"}
  /\ work \in {"pending", "starting", "launched", "running", "settled"}
  /\ attempts \in Seq(Attempt)
  /\ proposals \in Seq(Nat)

Init ==
  /\ intent = [c \in Command |-> None] /\ stored = <<>>
  /\ request = [r \in Caller |-> None]
  /\ submitted = [c \in Command |-> 0] /\ faults = 0
  /\ accepted = <<>> /\ applied = 0 /\ work = "pending" /\ run = "open"
  /\ attempts = <<>> /\ proposals = <<>>

-----------------------------------------------------------------------------
(* The service.                                                            *)

Records(kind, n) ==
  {i \in DOMAIN stored : stored[i].kind = kind /\ stored[i].number = n}

Numbers(kind) == {n \in {stored[i].number : i \in DOMAIN stored} : Records(kind, n) # {}}

\* The number of the revision the operator sees.
Visible == Max({1} \cup Numbers("promoted"))

Put(kind, q) ==
  stored' = IF Records(kind, q.number) = {}
            THEN Append(stored, [kind |-> kind, number |-> q.number, text |-> q.text])
            ELSE stored

\* A record that exists with another content: put raises.
Clash(kind, q) == \E i \in Records(kind, q.number) : stored[i].text # q.text

Serve(r, q) == request' = [request EXCEPT ![r] = q]
Goto(r, step) == Serve(r, [request[r] EXCEPT !.step = step])
Finish(r) == Serve(r, None)

At(r, step) == request[r] # None /\ request[r].step = step

\* The command is looked up: one that is known goes straight to the workflow,
\* with the number it was given; one with another text is refused.
Submit(r, c, text) ==
  /\ request[r] = None
  /\ SumFunction(submitted) < MaxSubmissions
  /\ submitted' = [submitted EXCEPT ![c] = @ + 1]
  /\ \/ /\ intent[c] = None
        /\ Serve(r, [command |-> c, text |-> text, number |-> 0, step |-> "list"])
     \/ /\ intent[c] # None /\ intent[c].text = text
        /\ Serve(r, [command |-> c, text |-> text, number |-> intent[c].number,
                     step |-> "runtime"])
  /\ UNCHANGED <<records, faults, parent, attempts, proposals>>

\* Slip: the next number is counted from the revisions that were prepared.
NumberFromPrepared(r) ==
  /\ At(r, "list")
  /\ Serve(r, [request[r] EXCEPT
       !.number = 1 + Max({1} \cup Numbers("promoted") \cup Numbers("prepared")),
       !.step = "command"])
  /\ UNCHANGED <<records, submitted, faults, parent, attempts, proposals>>

ListRecords(r) ==
  /\ At(r, "list")
  /\ Serve(r, [request[r] EXCEPT !.number = Visible + 1, !.step = "command"])
  /\ UNCHANGED <<records, submitted, faults, parent, attempts, proposals>>

\* Another request of this command may have stored it by now.
PutCommand(r) ==
  /\ At(r, "command")
  /\ LET q == request[r]
         new == [text |-> q.text, number |-> q.number]
     IN IF intent[q.command] \in {None, new}
        THEN intent' = [intent EXCEPT ![q.command] = new] /\ Goto(r, "prepare")
        ELSE Finish(r) /\ UNCHANGED intent
  /\ UNCHANGED <<stored, submitted, faults, parent, attempts, proposals>>

\* Slip: the record is prepared when the workflow has answered.
PrepareLater(r) ==
  /\ At(r, "prepare")
  /\ Goto(r, "runtime")
  /\ UNCHANGED <<records, submitted, faults, parent, attempts, proposals>>

PutPrepared(r) ==
  /\ At(r, "prepare")
  /\ IF Clash("prepared", request[r]) THEN Finish(r) ELSE Goto(r, "runtime")
  /\ Put("prepared", request[r])
  /\ UNCHANGED <<intent, submitted, faults, parent, attempts, proposals>>

AcceptedNumber == IF accepted = <<>> THEN 1 ELSE accepted[Len(accepted)].number
Known(c) == \E i \in DOMAIN accepted : accepted[i].command = c

\* The parent's update, validator and handler in one.  A known command is
\* acknowledged again; a run that has ended refuses every update.
Deliver(r) ==
  /\ At(r, "runtime") \/ At(r, "orphan")
  /\ LET q == request[r]
         new == run # "ended" /\ ~Known(q.command) /\ q.number > AcceptedNumber
     IN /\ IF new
           THEN /\ accepted' = Append(accepted, [command |-> q.command, text |-> q.text,
                                                 number |-> q.number])
                /\ attempts' = IF work \in {"launched", "running"}
                               THEN [attempts EXCEPT ![Len(attempts)].cancel = TRUE]
                               ELSE attempts
           ELSE UNCHANGED <<accepted, attempts>>
        /\ IF At(r, "runtime") /\ (new \/ (run # "ended" /\ Known(q.command)))
           THEN Goto(r, "promote") ELSE Finish(r)
  /\ UNCHANGED <<records, submitted, faults, applied, work, run, proposals>>

\* The revision becomes visible; if it clashes, put raises.
Promote(r) ==
  /\ At(r, "promote")
  /\ Put("promoted", request[r])
  /\ Finish(r)
  /\ UNCHANGED <<intent, submitted, faults, parent, attempts, proposals>>

\* The request dies, or its call fails; a call that was sent may yet arrive.
Break(r) ==
  /\ faults < MaxFaults
  /\ request[r] # None /\ ~At(r, "orphan")
  /\ faults' = faults + 1
  /\ IF At(r, "runtime") THEN Goto(r, "orphan") ELSE Finish(r)
  /\ UNCHANGED <<records, submitted, parent, attempts, proposals>>

\* ... or not.
Lose(r) ==
  /\ At(r, "orphan")
  /\ Finish(r)
  /\ UNCHANGED <<records, submitted, faults, parent, attempts, proposals>>

-----------------------------------------------------------------------------
(* The parent workflow and its one work item.                              *)

Last == attempts[Len(attempts)]
Revision == IF applied = 0 THEN 1 ELSE accepted[applied].number

\* Slip: the result of the last attempt stands.
KeepResult == work
\* What the last attempt made depends on what was redirected; a failure does
\* not.
Invalidated == IF work = "settled" /\ Last.state = "stored" THEN "pending" ELSE work

ApplyRedirect ==
  /\ run = "open" /\ work \notin {"starting", "running"} /\ applied < Len(accepted)
  /\ applied' = applied + 1
  /\ work' = Invalidated
  /\ UNCHANGED <<records, api, accepted, run, attempts, proposals>>

\* The child is started; the parent has no handle of it yet.
Launch ==
  /\ run = "open" /\ work = "pending" /\ applied = Len(accepted)
  /\ work' = "starting"
  /\ attempts' = Append(attempts, [revision |-> Revision, text |-> None,
                                   cancel |-> FALSE, state |-> "started"])
  /\ UNCHANGED <<records, api, accepted, applied, run, proposals>>

\* A command that came in between cancels the child, and is applied before the
\* parent waits for it.
Launched ==
  /\ work = "starting"
  /\ IF applied = Len(accepted)
     THEN work' = "running" /\ UNCHANGED attempts
     ELSE work' = "launched" /\ attempts' = [attempts EXCEPT ![Len(attempts)].cancel = TRUE]
  /\ UNCHANGED <<records, api, accepted, applied, run, proposals>>

AwaitChild ==
  /\ work = "launched" /\ applied = Len(accepted)
  /\ work' = "running"
  /\ UNCHANGED <<records, api, accepted, applied, run, attempts, proposals>>

\* The child returns what the activity returned, or that it was cancelled.
ChildEnds ==
  /\ work = "running"
  /\ \/ Last.state \in {"stored", "failed"} /\ work' = "settled"
     \/ Last.cancel /\ work' = "pending"
  /\ UNCHANGED <<records, api, accepted, applied, run, attempts, proposals>>

\* The loop is left, the completion journaled; then the workflow returns.
Close ==
  /\ run = "open" /\ work = "settled" /\ applied = Len(accepted)
  /\ run' = "closing"
  /\ UNCHANGED <<records, api, accepted, applied, work, attempts, proposals>>

Return ==
  /\ run = "closing"
  /\ run' = "ended"
  /\ UNCHANGED <<records, api, accepted, applied, work, attempts, proposals>>

-----------------------------------------------------------------------------
(* The executor of an attempt, also of one that nobody waits for any more. *)

\* The last record of the revision, prepared or promoted.
Found(n) ==
  LET of == Records("prepared", n) \cup Records("promoted", n)
  IN  IF n = 1 THEN Original ELSE IF of = {} THEN None ELSE stored[Max(of)].text

Load(a) ==
  /\ a \in DOMAIN attempts /\ attempts[a].state = "started"
  /\ LET text == Found(attempts[a].revision)
     IN attempts' = [attempts EXCEPT ![a].text = text,
                       ![a].state = IF text = None THEN "failed" ELSE "loaded"]
  /\ UNCHANGED <<records, api, parent, proposals>>

Propose(a) ==
  /\ a \in DOMAIN attempts /\ attempts[a].state = "loaded"
  /\ attempts' = [attempts EXCEPT ![a].state = "stored"]
  /\ proposals' = Append(proposals, a)
  /\ UNCHANGED <<records, api, parent>>

-----------------------------------------------------------------------------
Serving(r) ==
  ListRecords(r) \/ PutCommand(r) \/ PutPrepared(r) \/ Deliver(r) \/ Promote(r)
Parent ==
  ApplyRedirect \/ Launch \/ Launched \/ AwaitChild \/ ChildEnds \/ Close \/ Return
Working(a) == Load(a) \/ Propose(a)

Next ==
  \/ \E r \in Caller : Serving(r) \/ Break(r) \/ Lose(r)
  \/ \E r \in Caller, s \in Submission : Submit(r, s[1], s[2])
  \/ Parent
  \/ \E a \in DOMAIN attempts : Working(a)

Spec == Init /\ [][Next]_vars

\* The API's event loop serves every request until it ends or breaks off;
\* Temporal schedules the parent when an await of it can return; an activity
\* runs to its end.  Requests and attempts are finite in number and in length,
\* so each is served when they are served together.  The operator owes nothing.
FairSpec ==
  /\ Spec
  /\ WF_vars(\E r \in Caller : Serving(r))
  /\ WF_vars(Parent)
  /\ WF_vars(\E a \in DOMAIN attempts : Working(a))

-----------------------------------------------------------------------------
(* Properties.                                                             *)

PromotedText(n) ==
  IF Records("promoted", n) = {} THEN None ELSE stored[CHOOSE i \in Records("promoted", n) : TRUE].text

Taken == [i \in DOMAIN accepted |->
            [number |-> accepted[i].number, text |-> accepted[i].text]]
Shown == [i \in 1..(Visible - 1) |-> [number |-> i + 1, text |-> PromotedText(i + 1)]]

Lineage == INSTANCE RevisionLineage WITH taken <- Taken, shown <- Shown

\* However requests race, break off and are sent again: the workflow takes
\* revisions 2, 3, ... one at a time, none before the operator sees the one
\* before it, and what the operator sees is what the workflow took (redirect
\* in service.py over put-once records, validate_redirect in parent.py).
ImplementsLineage == Lineage!Spec

\* Every attempt works from the text of the redirect its revision was accepted
\* with, and finds it, if that command was submitted only once (the prepared
\* record, and _request_record of the executor).  One that is submitted again
\* before it was prepared may fail, or work from the text of a redirect that
\* was refused.
LoadsWhatWasAccepted ==
  \A a \in DOMAIN attempts, i \in DOMAIN accepted :
    /\ attempts[a].state # "started" /\ attempts[a].revision = accepted[i].number
    /\ submitted[accepted[i].command] = 1
    => attempts[a].text = accepted[i].text

\* Accepted and not yet applied, at an await where the parent neither starts a
\* child nor completes the run.
InTime(n) ==
  n \in (applied + 1)..Len(accepted) /\ run = "open" /\ work \notin {"starting", "launched"}

\* A redirect that is accepted in time takes effect: unless a request broke
\* off, the operator comes to see it, and unless an attempt failed, the work is
\* taken up for it or a later one, also when the child answers all the same.
\* One that meets the start of a child may be applied to no result and leave
\* the child's old one standing; one that meets the completion is never applied.
RedirectTakesEffect ==
  \A n \in 1..Cardinality(Command) :
    InTime(n)
      ~> /\ n <= Len(accepted)
         /\ n < Visible \/ faults > 0
         /\ \E a \in DOMAIN attempts :
              attempts[a].revision >= accepted[n].number \/ attempts[a].state = "failed"

\* "Redirect mid-flight creates a new request revision, invalidates dependent
\* evaluation/artifacts/proposal" (architecture.md:116): when the run has ended,
\* the proposal the operator decides on, the last one stored, was made for the
\* revision the run ended with.
DecidesOnCurrentRevision ==
  run = "ended" /\ proposals # <<>> =>
    attempts[proposals[Len(proposals)]].revision = Revision
=============================================================================
