--------------------------- MODULE ParentWorkflow ---------------------------
(***************************************************************************)
(* The durable parent workflow of one procurement run                      *)
(* (workflows/parent.py) with its child workflows (workflows/child.py).    *)
(*                                                                         *)
(* Everything runs on one deterministic event loop: the main coroutine     *)
(* gives way only at its awaits, and the operator's updates, whose         *)
(* handlers never await, run there.  `main' is the await the coroutine is  *)
(* at, or a point between two awaits, where nothing else of the workflow   *)
(* runs.  Updates change the flags at once and leave a command behind; the loop   *)
(* applies the commands, in order, when it next comes round.  Worker       *)
(* restarts replay the history and are no step of the workflow.            *)
(*                                                                         *)
(* Left out: repeated command ids (the stored acknowledgement is returned, *)
(* or the update refused: nothing changes), the message bodies, and        *)
(* _cancel_reasons, which nothing reads.                                   *)
(***************************************************************************)
EXTENDS Naturals, Sequences, FiniteSets

CONSTANTS
  NItems,          \* the work items of the request, in their order
  Key,             \* dependency keys: fields of the request, output keys
  DependsOn,       \* item -> keys its products depend on
  Produces,        \* item -> output keys of its products
  Cancellable,     \* item -> work_item.cancellable
  Changes,         \* what a redirect may name: nonempty sets of keys
  MaxConcurrency,
  MaxCommands,     \* bound on the operator's commands
  None             \* no result, no child workflow

Item == 1..NItems

ASSUME ParentAssumption ==
  /\ NItems \in Nat \ {0} /\ MaxConcurrency \in Nat \ {0} /\ MaxCommands \in Nat
  /\ DependsOn \in [Item -> SUBSET Key] /\ Produces \in [Item -> SUBSET Key]
  /\ Cancellable \in [Item -> BOOLEAN]
  /\ Changes \subseteq (SUBSET Key) \ {{}}

Kind == {"pause", "resume", "redirect", "queue_message", "retry_work"}

\* item: the one to retry, or 0; changed, revision: what a redirect carries.
Command == [kind : Kind, item : Item \cup {0}, changed : SUBSET Key, revision : Nat]

Step ==
  {"boot", "top", "accept", "plan", "apply", "wait", "finish", "record", "paused",
   "start", "ensure", "announce", "launch", "recover", "blocked", "final",
   "cancelling", "done", "failed", "cancelled"}
BetweenAwaits == {"top", "finish", "start"}
Ended == {"done", "failed", "cancelled"}

WorkState ==
  [status : {"pending", "running", "completed", "failed"}, attempt : Nat,
   retryable : BOOLEAN]

ChildResult == [status : {"completed", "failed"}, attempt : Nat, revision : Nat]

Child ==
  [attempt : Nat, revision : Nat, cancel : BOOLEAN,
   state : {"running", "completed", "failed", "retryable", "cancelled"}]

ASSUME NoneAssumption == None \notin ChildResult \cup Child

VARIABLES
  main,       \* step of the main coroutine, its item and the items it still has
  commands,   \* _commands: accepted, the sequence number is the index
  processed,  \* _processed_command_sequence
  paused,
  revision,   \* _request_revision_number
  accepted,   \* _accepted_revision_number
  applied,    \* the queued messages that are APPLIED, by command
  work,       \* _states
  results,    \* _results
  active,     \* keys of _active
  child,      \* the child workflow last started for an item
  journal,    \* idempotency keys in the run's journal
  shown       \* the run's status in the projection

control == <<commands, processed, paused, revision, accepted, applied>>
books   == <<journal, shown>>
vars    == <<main, commands, processed, paused, revision, accepted, applied, work,
             results, active, child, journal, shown>>

TypeOK ==
  /\ main \in [step : Step, item : Item \cup {0}, queue : SUBSET Item]
  /\ commands \in Seq(Command)
  /\ processed \in Nat
  /\ paused \in BOOLEAN
  /\ revision \in Nat /\ accepted \in Nat
  /\ applied \subseteq Nat
  /\ work \in [Item -> WorkState]
  /\ results \in [Item -> ChildResult \cup {None}]
  /\ active \subseteq Item
  /\ child \in [Item -> Child \cup {None}]
  /\ shown \in {"queued", "running", "paused", "blocked", "completed",
                "completed_with_failures"}

Pending(attempt) == [status |-> "pending", attempt |-> attempt, retryable |-> FALSE]

Init ==
  /\ main = [step |-> "boot", item |-> 0, queue |-> {}]
  /\ commands = <<>> /\ processed = 0 /\ paused = FALSE
  /\ revision = 1 /\ accepted = 1
  /\ applied = {}
  /\ work = [i \in Item |-> Pending(0)]
  /\ results = [i \in Item |-> None]
  /\ active = {}
  /\ child = [i \in Item |-> None]
  /\ journal = {} /\ shown = "queued"

AtStep(s) == main.step = s
Go(s) == main' = [step |-> s, item |-> 0, queue |-> {}]
GoWith(s, i, queue) == main' = [step |-> s, item |-> i, queue |-> queue]

Unprocessed == processed < Len(commands)
command == commands[processed + 1]

-----------------------------------------------------------------------------
(* The operator's updates, validator and handler in one: an update that is *)
(* refused changes nothing.                                                *)

Accept(c) ==
  /\ main.step \notin Ended \cup BetweenAwaits
  /\ Len(commands) < MaxCommands
  /\ commands' = Append(commands, c)

Plain(kind) == [kind |-> kind, item |-> 0, changed |-> {}, revision |-> 0]

\* _cancel_active asks the children that may be cancelled.
CancelActive ==
  child' = [i \in Item |-> IF i \in active /\ Cancellable[i]
                           THEN [child[i] EXCEPT !.cancel = TRUE] ELSE child[i]]

Pause ==
  /\ Accept(Plain("pause"))
  /\ paused' = TRUE
  /\ CancelActive
  /\ UNCHANGED <<main, processed, revision, accepted, applied, work, results, active, books>>

Resume ==
  /\ Accept(Plain("resume"))
  /\ paused' = FALSE
  /\ UNCHANGED <<main, processed, revision, accepted, applied, work, results, active,
                 child, books>>

Redirect(changed) ==
  /\ Accept([kind |-> "redirect", item |-> 0, changed |-> changed, revision |-> accepted + 1])
  /\ accepted' = accepted + 1
  /\ CancelActive
  /\ UNCHANGED <<main, processed, paused, revision, applied, work, results, active, books>>

QueueMessage ==
  /\ Accept(Plain("queue_message"))
  /\ UNCHANGED <<main, processed, paused, revision, accepted, applied, work, results,
                 active, child, books>>

\* expected_attempt is the attempt the operator was shown: only that one passes.
RetryWork(i) ==
  /\ work[i].status = "failed" /\ work[i].retryable
  /\ Accept([Plain("retry_work") EXCEPT !.item = i])
  /\ UNCHANGED <<main, processed, paused, revision, accepted, applied, work, results,
                 active, child, books>>

-----------------------------------------------------------------------------
(* The journal.  An append is an activity, retried, and keyed: an event    *)
(* whose key is in the journal is dropped with everything it would project.*)

\* Slip: an attempt that is started again keeps its number.
SameAttempt(i) == work[i].attempt
NextAttempt(i) == work[i].attempt + 1

Recoverable == {i \in Item : work[i].status = "failed" /\ work[i].retryable}

\* The key of the event the current await appends.  The events that one
\* piece of the code appends in a row count as one.
EventKey ==
  CASE AtStep("boot")     -> <<"started">>
    [] AtStep("accept")   -> <<"accepted", processed + 1>>
    [] AtStep("apply")    ->
         IF command.kind = "redirect" THEN <<"redirect", command.revision>>
         ELSE <<"applied", processed + 1>>
    [] AtStep("announce") -> <<"work", main.item, NextAttempt(main.item), "started">>
    [] AtStep("record")   -> <<"work", main.item, results[main.item].attempt,
                               results[main.item].status>>
    [] AtStep("recover")  -> <<"recovery", {<<i, work[i].attempt>> : i \in Recoverable}>>
    [] AtStep("final")    -> <<"finished">>
    [] OTHER              -> <<>>

Failures == {i \in Item : results[i] # None /\ results[i].status = "failed"}

\* The run status the event projects; the others leave it.
EventStatus ==
  CASE AtStep("boot") -> "running"
    [] AtStep("apply") /\ command.kind = "pause"  -> "paused"
    [] AtStep("apply") /\ command.kind = "resume" -> "running"
    [] AtStep("recover") -> "blocked"
    [] AtStep("final") -> IF Failures = {} THEN "completed" ELSE "completed_with_failures"
    [] OTHER -> shown

Journal ==
  /\ journal' = journal \cup {EventKey}
  /\ shown' = IF EventKey \in journal THEN shown ELSE EventStatus

-----------------------------------------------------------------------------
(* The main coroutine.                                                     *)

Boot == /\ AtStep("boot") /\ Journal /\ Go("top")
        /\ UNCHANGED <<control, work, results, active, child>>

Queued == {i \in Item : work[i].status = "pending"}
\* pending[: max_concurrency]
FirstQueued == {i \in Queued : Cardinality({j \in Queued : j < i}) < MaxConcurrency}

\* Slip: failed work never keeps the run open.
NothingToRetry == {}
ToRetry == Recoverable

\* One turn of the loop: _drain_commands up to its first await, and if there
\* is nothing to drain, the rest of the turn up to its first await.
Turn ==
  /\ AtStep("top")
  /\ \/ Unprocessed /\ Go("accept")
     \/ ~Unprocessed /\ active # {} /\ Go("wait")
     \/ ~Unprocessed /\ active = {} /\ paused /\ Go("paused")
     \/ ~Unprocessed /\ active = {} /\ ~paused /\ Queued # {}
          /\ GoWith("start", 0, FirstQueued)
     \/ ~Unprocessed /\ active = {} /\ ~paused /\ Queued = {}
          /\ IF ToRetry # {} THEN Go("recover") ELSE Go("final")
  /\ UNCHANGED <<control, work, results, active, child, books>>

\* operator.command_accepted is in the journal; a message is marked APPLIED
\* and failed work is queued again before the second event is awaited.
AcceptCommand ==
  /\ AtStep("accept")
  /\ Journal
  /\ applied' = IF command.kind = "queue_message" THEN applied \cup {processed + 1}
                ELSE applied
  /\ IF command.kind = "retry_work"
     THEN /\ work' = [work EXCEPT ![command.item] = Pending(@.attempt)]
          /\ results' = [results EXCEPT ![command.item] = None]
     ELSE UNCHANGED <<work, results>>
  /\ Go(IF command.kind = "redirect" THEN "plan" ELSE "apply")
  /\ UNCHANGED <<commands, processed, paused, revision, accepted, active, child>>

\* plan_invalidation over the products of the results: what depends on a
\* changed key or on the output of something invalidated.  All the products
\* of an item have the dependencies of the item.
Stale(done, changed) ==
  LET Closed(S) ==
        \A i \in done :
          DependsOn[i] \cap (changed \cup UNION {Produces[j] : j \in S}) # {} => i \in S
  IN {i \in done : \A S \in SUBSET done : Closed(S) => i \in S}

\* Slip: the invalidated results stay in the books.
KeepResults(stale) == results
DropResults(stale) == [i \in Item |-> IF i \in stale THEN None ELSE results[i]]

\* The activity answers and the invalidated work is queued again.
ApplyRedirect ==
  /\ AtStep("plan")
  /\ LET done == {i \in Item : results[i] # None /\ results[i].status = "completed"}
         stale == Stale(done, command.changed)
     IN /\ work' = [i \in Item |-> IF i \in stale THEN Pending(work[i].attempt) ELSE work[i]]
        /\ results' = DropResults(stale)
  /\ revision' = command.revision
  /\ Go("apply")
  /\ UNCHANGED <<commands, processed, paused, accepted, applied, active, child, books>>

\* Slip: a message is applied again and again.
AdvanceButMessages ==
  IF command.kind = "queue_message" THEN processed ELSE processed + 1
Advanced == processed + 1

Applied ==
  /\ AtStep("apply")
  /\ Journal
  /\ processed' = Advanced
  /\ Go("top")
  /\ UNCHANGED <<commands, paused, revision, accepted, applied, work, results, active, child>>

\* workflow.wait(FIRST_COMPLETED) returns every handle that is done by then.
WaitReturns ==
  /\ AtStep("wait")
  /\ LET done == {i \in active : child[i].state # "running"}
     IN done # {} /\ GoWith("finish", 0, done)
  /\ UNCHANGED <<control, work, results, active, child, books>>

\* _finish_child, up to its first journal entry.
Finish(i) ==
  /\ AtStep("finish") /\ i \in main.queue
  /\ active' = active \ {i}
  /\ LET c == child[i]
         status == IF c.state = "completed" THEN "completed" ELSE "failed"
     IN IF c.state = "cancelled"
        THEN /\ work' = [work EXCEPT ![i] = Pending(@.attempt)]
             /\ GoWith("finish", 0, main.queue \ {i})
             /\ UNCHANGED results
        ELSE /\ results' = [results EXCEPT ![i] =
                  [status |-> status, attempt |-> c.attempt, revision |-> c.revision]]
             /\ work' = [work EXCEPT ![i] =
                  [status |-> status, attempt |-> c.attempt,
                   retryable |-> c.state = "retryable"]]
             /\ GoWith("record", i, main.queue \ {i})
  /\ UNCHANGED <<control, child, books>>

Recorded ==
  /\ AtStep("record")
  /\ Journal
  /\ GoWith("finish", 0, main.queue)
  /\ UNCHANGED <<control, work, results, active, child>>

FinishedAll ==
  /\ AtStep("finish") /\ main.queue = {}
  /\ Go("top")
  /\ UNCHANGED <<control, work, results, active, child, books>>

\* Slip: a paused run waits for the resume alone.
WakesOnResume == ~paused
Wakes == ~paused \/ Unprocessed

PausedReturns ==
  /\ AtStep("paused") /\ Wakes
  /\ Go("top")
  /\ UNCHANGED <<control, work, results, active, child, books>>

Interrupted == paused \/ Unprocessed

\* The next item of the batch, unless the operator came in between.
StartNext ==
  /\ AtStep("start")
  /\ \/ (main.queue = {} \/ Interrupted) /\ Go("top")
     \/ \E i \in main.queue :
          /\ ~Interrupted /\ \A j \in main.queue : i <= j
          /\ GoWith("ensure", i, main.queue \ {i})
  /\ UNCHANGED <<control, work, results, active, child, books>>

\* The child's run row exists.
Ensured ==
  /\ AtStep("ensure")
  /\ IF Interrupted THEN GoWith("start", 0, main.queue)
     ELSE GoWith("announce", main.item, main.queue)
  /\ UNCHANGED <<control, work, results, active, child, books>>

\* The events are out; the child is requested with what is current now.
Announced ==
  /\ AtStep("announce")
  /\ Journal
  /\ LET i == main.item IN
     /\ work' = [work EXCEPT ![i] =
          [status |-> "running", attempt |-> NextAttempt(i), retryable |-> FALSE]]
     /\ child' = [child EXCEPT ![i] =
          [attempt |-> NextAttempt(i), revision |-> revision, cancel |-> FALSE,
           state |-> "running"]]
  /\ GoWith("launch", main.item, main.queue)
  /\ UNCHANGED <<control, results, active>>

\* Slip: a command that came while the child was starting is not looked for.
NeverOnLaunch == FALSE
CancelOnLaunch == Interrupted

Launched ==
  /\ AtStep("launch")
  /\ active' = active \cup {main.item}
  /\ child' = [child EXCEPT ![main.item].cancel = CancelOnLaunch]
  /\ GoWith("start", 0, main.queue)
  /\ UNCHANGED <<control, work, results, books>>

RecoveryRecorded ==
  /\ AtStep("recover")
  /\ Journal
  /\ Go("blocked")
  /\ UNCHANGED <<control, work, results, active, child>>

BlockedReturns ==
  /\ AtStep("blocked") /\ Unprocessed
  /\ Go("top")
  /\ UNCHANGED <<control, work, results, active, child, books>>

\* The run closes; what is left of its children is terminated with it.
Close(s) ==
  /\ Go(s)
  /\ active' = {}
  /\ child' = [i \in Item |-> None]
  /\ UNCHANGED <<control, work, results>>

Complete == AtStep("final") /\ Journal /\ Close("done")

\* The last attempt of an activity failed: nothing catches the error.
GiveUp ==
  /\ main.step \in {"boot", "accept", "plan", "apply", "record", "ensure", "announce",
                    "recover", "final"}
  /\ Close("failed")
  /\ \/ EventKey # <<>> /\ Journal
     \/ UNCHANGED books

\* The workflow is cancelled from outside: inside the try the active children
\* are asked to stop and awaited; an await that turns the cancellation into an
\* error of its own closes the run at once.
CancelRun ==
  /\ main.step \notin Ended \cup BetweenAwaits \cup {"cancelling"}
  /\ \/ /\ main.step \notin {"boot", "final"}
        /\ Go("cancelling")
        /\ child' = [i \in Item |-> IF i \in active THEN [child[i] EXCEPT !.cancel = TRUE]
                                    ELSE child[i]]
        /\ UNCHANGED <<control, work, results, active>>
     \/ Close("cancelled")
  /\ UNCHANGED books

Cancelled ==
  /\ AtStep("cancelling")
  /\ \A i \in active : child[i].state # "running"
  /\ Close("cancelled")
  /\ UNCHANGED books

-----------------------------------------------------------------------------
\* The child runs its one activity and always returns a structured result; a
\* cancellation that was requested may still lose against the answer.
ChildEnds(i) ==
  /\ child[i] # None /\ child[i].state = "running"
  /\ \E state \in {"completed", "failed", "retryable"}
                    \cup (IF child[i].cancel THEN {"cancelled"} ELSE {}) :
       child' = [child EXCEPT ![i].state = state]
  /\ UNCHANGED <<main, control, work, results, active, books>>

Main ==
  \/ Boot \/ Turn \/ AcceptCommand \/ ApplyRedirect \/ Applied
  \/ WaitReturns \/ (\E i \in Item : Finish(i)) \/ Recorded \/ FinishedAll
  \/ PausedReturns \/ StartNext \/ Ensured \/ Announced \/ Launched
  \/ RecoveryRecorded \/ BlockedReturns \/ Complete \/ Cancelled

Operator ==
  \/ Pause \/ Resume \/ QueueMessage
  \/ \E changed \in Changes : Redirect(changed)
  \/ \E i \in Item : RetryWork(i)

Next == Main \/ Operator \/ (\E i \in Item : ChildEnds(i)) \/ GiveUp \/ CancelRun

Spec == Init /\ [][Next]_vars

\* Temporal schedules the workflow again when an await can return, and every
\* activity and child ends: each has a timeout and a bounded number of
\* attempts.  The operator owes nothing.
FairSpec == Spec /\ WF_vars(Main) /\ \A i \in Item : WF_vars(ChildEnds(i))

-----------------------------------------------------------------------------
(* Properties.                                                             *)

\* What the run shows of an item, what it will report of it and the child
\* behind it agree: an item is RUNNING exactly while a child runs for it, and
\* has a result exactly while it is settled, of the same attempt; and the
\* attempt of a child that is waited for is the one on display.
WorkAgrees ==
  main.step \notin Ended \cup {"cancelling"} =>
    \A i \in Item :
      /\ work[i].status = "running" <=>
           i \in active \/ (AtStep("launch") /\ main.item = i)
      /\ i \in active => child[i] # None /\ child[i].attempt = work[i].attempt
      /\ results[i] # None <=> work[i].status \in {"completed", "failed"}
      /\ results[i] # None =>
           results[i].attempt = work[i].attempt /\ results[i].status = work[i].status

\* No event is swallowed: whatever the operator commands and the children do,
\* the event about to be appended has a key the journal has not seen.  (The
\* recovery entry repeats its key on purpose while nothing changed.)
EventsFresh == ~AtStep("recover") => EventKey \notin journal

\* A pause reaches every cancellable child, also one whose start was under way
\* when it was accepted.
PauseReaches ==
  paused => \A i \in active : Cancellable[i] => child[i].cancel

\* A run that reports its end has settled everything: each item has a result,
\* and none that failed could still be retried.
DoneIsSettled ==
  AtStep("done") => \A i \in Item : results[i] # None /\ ~work[i].retryable

\* An accepted command is applied, also while the run is paused, blocked or
\* busy: unless the run was already reporting its end, or is broken off.
CommandsApplied ==
  \A n \in 1..MaxCommands :
    (n <= Len(commands) /\ main.step \notin Ended \cup {"final", "cancelling"})
      ~> (processed >= n \/ main.step \in {"failed", "cancelled"})

\* A run that is not left paused or waiting for a retry comes to an end.
RunSettles ==
  <>[](~paused /\ ~AtStep("blocked")) => <>(main.step \in Ended)

=============================================================================
