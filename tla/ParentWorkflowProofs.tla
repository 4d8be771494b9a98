------------------------ MODULE ParentWorkflowProofs ------------------------
(***************************************************************************)
(* Of the parent workflow, for any number of items, commands and children  *)
(* at once: what it shows, what it will report and what runs agree; a      *)
(* pause reaches every child; a run that reports its end has settled all.  *)
(*                                                                         *)
(* The coroutine relies, where it is, on what it found before its awaits:  *)
(* the items it is about to start are still pending, the ones it is about  *)
(* to take in are still active, a retry it is about to apply still finds   *)
(* its item failed, or queued by the retry before it.                      *)
(***************************************************************************)
EXTENDS ParentWorkflow, TLAPS

Live == main.step \notin Ended \cup {"cancelling"}

\* What the coroutine relies on at the point where it is.
Places ==
  /\ main.step \in {"accept", "plan", "apply"} => Unprocessed
  /\ main.step \in {"finish", "record"} => main.queue \subseteq active
  /\ AtStep("record") => main.item \in Item /\ results[main.item] # None
  /\ main.step \in {"start", "ensure", "announce", "launch"} =>
       \A i \in main.queue : work[i].status = "pending"
  /\ main.step \in {"ensure", "announce", "launch"} => main.item \in Item \ main.queue
  /\ main.step \in {"ensure", "announce"} => work[main.item].status = "pending"
  /\ AtStep("launch") =>
       child[main.item] # None /\ child[main.item].attempt = work[main.item].attempt
  /\ main.step \in {"final", "done"} =>
       \A i \in Item : results[i] # None /\ ~work[i].retryable

\* Only failed work can be retried; what is waited for exists.
Books ==
  /\ \A i \in Item : work[i].retryable => work[i].status = "failed"
  /\ \A i \in active : child[i] # None

\* A retry that is yet to be applied finds its item failed, or pending for an
\* earlier retry that was applied in the same turn.
Retries ==
  Live => \A n \in (processed + 1)..Len(commands) : commands[n].kind = "retry_work" =>
    /\ commands[n].item \in Item
    /\ \/ work[commands[n].item].status = "failed"
       \/ work[commands[n].item].status = "pending"
            /\ main.step \in {"top", "accept", "plan", "apply"}

IInv == TypeOK /\ Places /\ Books /\ Retries /\ WorkAgrees /\ PauseReaches

-----------------------------------------------------------------------------
(* The kinds of steps.                                                     *)

Coroutine == [step : Step, item : Item \cup {0}, queue : SUBSET Item]

\* The coroutine goes on and changes nothing but the journal.
Moves ==
  \/ Boot \/ Turn \/ WaitReturns \/ Recorded \/ FinishedAll \/ PausedReturns
  \/ StartNext \/ Ensured \/ RecoveryRecorded \/ BlockedReturns

\* The run ends, or is on its way there.
Leaves == Complete \/ Cancelled \/ GiveUp \/ CancelRun

LEMMA Steps ==
  Next <=> \/ Moves \/ Leaves \/ Operator
           \/ AcceptCommand \/ ApplyRedirect \/ Applied
           \/ (\E i \in Item : Finish(i)) \/ Announced \/ Launched
           \/ (\E i \in Item : ChildEnds(i))
BY DEF Next, Main, Moves, Leaves

LEMMA Zero == 0 \notin Item
BY ParentAssumption DEF Item

LEMMA Goes ==
  ASSUME NEW s \in Step, NEW i \in Item \cup {0}, NEW q \in SUBSET Item
  PROVE  /\ GoWith(s, i, q) => /\ main' \in Coroutine
                               /\ main'.step = s /\ main'.item = i /\ main'.queue = q
         /\ Go(s) => /\ main' \in Coroutine
                     /\ main'.step = s /\ main'.item = 0 /\ main'.queue = {}
BY DEF Go, GoWith, Coroutine

LEMMA MovesKeep ==
  ASSUME TypeOK, Moves
  PROVE  /\ UNCHANGED <<control, work, results, active, child>>
         /\ main' \in Coroutine /\ shown' \in {shown, EventStatus}
         /\ main.step \notin Ended \cup {"cancelling", "launch", "final"}
         /\ main'.step \notin Ended \cup {"cancelling", "launch", "record"}
<1>1. main \in Coroutine
  BY DEF TypeOK, Coroutine
<1> USE DEF AtStep, Journal, Ended, Step, books
<1>2. CASE Boot
  BY <1>2, Goes DEF Boot
<1>3. CASE Turn
  <2>1. FirstQueued \in SUBSET Item
    BY DEF FirstQueued, Queued
  <2> QED
    BY <1>3, <2>1, Goes DEF Turn
<1>4. CASE WaitReturns
  <2>1. {i \in active : child[i].state # "running"} \in SUBSET Item
    BY DEF TypeOK
  <2> QED
    BY <1>4, <2>1, Goes DEF WaitReturns
<1>5. CASE FinishedAll \/ PausedReturns \/ RecoveryRecorded \/ BlockedReturns
  BY <1>5, Goes DEF FinishedAll, PausedReturns, RecoveryRecorded, BlockedReturns
<1>8. CASE Recorded
  BY <1>1, <1>8, Goes DEF Recorded, Coroutine
<1>6. CASE StartNext
  BY <1>1, <1>6, Goes DEF StartNext, Coroutine
<1>7. CASE Ensured
  BY <1>1, <1>7, Goes DEF Ensured, Coroutine
<1> QED
  BY <1>2, <1>3, <1>4, <1>5, <1>6, <1>7, <1>8 DEF Moves

\* A child goes on under the same attempt; a cancellation is not taken back.
Kept(i) ==
  /\ child'[i] # None /\ child'[i].attempt = child[i].attempt
  /\ child[i].cancel => child'[i].cancel

LEMMA CancellingKeeps ==
  ASSUME TypeOK, NEW S, S \subseteq active, \A i \in S : child[i] # None,
         child' = [i \in Item |-> IF i \in S THEN [child[i] EXCEPT !.cancel = TRUE] ELSE child[i]]
  PROVE  /\ child' \in [Item -> Child \cup {None}]
         /\ \A i \in Item : child[i] # None => Kept(i)
         /\ \A i \in S : child'[i].cancel
<1>1. \A c \in Child : LET d == [c EXCEPT !.cancel = TRUE] IN
        d \in Child /\ d.attempt = c.attempt /\ d.cancel
  BY DEF Child
<1>2. \A i \in S : i \in Item /\ child[i] \in Child
  BY DEF TypeOK
<1>3. \A i \in S : child'[i] \in Child /\ child'[i].attempt = child[i].attempt /\ child'[i].cancel
  BY <1>1, <1>2
<1>4. \A i \in Item \ S : child'[i] = child[i]
  OBVIOUS
<1>5. child' \in [Item -> Child \cup {None}]
  BY <1>2, <1>3, <1>4 DEF TypeOK
<1> QED
  BY <1>3, <1>4, <1>5, NoneAssumption DEF Kept

LEMMA OperatorKeeps ==
  ASSUME IInv, Operator
  PROVE  /\ UNCHANGED <<main, processed, revision, applied, work, results, active, books>>
         /\ main.step \notin Ended /\ main.step \notin {"top", "finish", "start"}
         /\ \E c \in Command :
              /\ commands' = Append(commands, c)
              /\ c.kind = "retry_work" => c.item \in Item /\ work[c.item].status = "failed"
                                            /\ work[c.item].retryable
         /\ paused' \in BOOLEAN /\ accepted' \in Nat
         /\ child' \in [Item -> Child \cup {None}]
         /\ \A i \in Item : child[i] # None => Kept(i)
         /\ paused' => paused \/ \A i \in active : Cancellable[i] => child'[i].cancel
<1> USE DEF IInv, TypeOK, Accept, Plain, BetweenAwaits
<1>1. \A i \in Item : (child[i] # None /\ child' = child) => Kept(i)
  BY DEF Kept
<1>2. CancelActive => /\ child' \in [Item -> Child \cup {None}]
                      /\ \A i \in Item : child[i] # None => Kept(i)
                      /\ \A i \in active : Cancellable[i] => child'[i].cancel
  <2> DEFINE S == {i \in active : Cancellable[i]}
  <2> SUFFICES ASSUME CancelActive
               PROVE  /\ child' \in [Item -> Child \cup {None}]
                      /\ \A i \in Item : child[i] # None => Kept(i)
                      /\ \A i \in S : child'[i].cancel
    OBVIOUS
  <2>1. child' = [i \in Item |-> IF i \in S THEN [child[i] EXCEPT !.cancel = TRUE] ELSE child[i]]
    BY DEF CancelActive
  <2>2. S \subseteq active /\ \A i \in S : child[i] # None
    BY DEF Books
  <2> HIDE DEF S
  <2> QED
    BY <2>1, <2>2, CancellingKeeps
<1>3. \A kind \in Kind : Plain(kind) \in Command
  BY DEF Command
<1>4. CASE Pause
  <2>1. Plain("pause") \in Command /\ Plain("pause").kind = "pause"
    BY <1>3 DEF Kind
  <2> QED
    BY <1>2, <1>4, <2>1 DEF Pause
<1>5. CASE Resume
  <2>1. Plain("resume") \in Command /\ Plain("resume").kind = "resume"
    BY <1>3 DEF Kind
  <2> QED
    BY <1>1, <1>5, <2>1 DEF Resume
<1>6. CASE QueueMessage
  <2>1. Plain("queue_message") \in Command /\ Plain("queue_message").kind = "queue_message"
    BY <1>3 DEF Kind
  <2> QED
    BY <1>1, <1>6, <2>1 DEF QueueMessage
<1>7. ASSUME NEW changed \in Changes, Redirect(changed)
      PROVE  /\ UNCHANGED <<main, processed, paused, revision, applied, work, results, active, books>>
             /\ main.step \notin Ended \cup BetweenAwaits
             /\ accepted' \in Nat /\ CancelActive
             /\ \E c \in Command : commands' = Append(commands, c) /\ c.kind = "redirect"
  <2> DEFINE c == [kind |-> "redirect", item |-> 0, changed |-> changed,
                   revision |-> accepted + 1]
  <2>1. changed \subseteq Key
    BY ParentAssumption
  <2>2. c \in Command /\ c.kind = "redirect"
    <3>1. accepted + 1 \in Nat
      OBVIOUS
    <3> QED
      BY <2>1, <3>1 DEF Command, Kind
  <2> HIDE DEF c
  <2>3. commands' = Append(commands, c)
    BY <1>7 DEF Redirect, c
  <2> QED
    BY <1>7, <2>2, <2>3 DEF Redirect
<1>8. ASSUME NEW i \in Item, RetryWork(i)
      PROVE  /\ UNCHANGED <<main, processed, paused, revision, accepted, applied, work, results,
                            active, child, books>>
             /\ main.step \notin Ended \cup BetweenAwaits
             /\ \E c \in Command : /\ commands' = Append(commands, c)
                                   /\ c.item = i /\ work[i].status = "failed" /\ work[i].retryable
  <2> DEFINE c == [Plain("retry_work") EXCEPT !.item = i]
  <2>1. c \in Command /\ c.item = i
    BY DEF Command, Kind
  <2> HIDE DEF c
  <2>2. commands' = Append(commands, c)
    BY <1>8 DEF RetryWork, c
  <2> QED
    BY <1>8, <2>1, <2>2 DEF RetryWork
<1>9. CASE \E changed \in Changes : Redirect(changed)
  BY <1>2, <1>7, <1>9
<1>10. CASE \E i \in Item : RetryWork(i)
  BY <1>1, <1>8, <1>10
<1> QED
  BY <1>4, <1>5, <1>6, <1>9, <1>10 DEF Operator

RunStatus == {"queued", "running", "paused", "blocked", "completed", "completed_with_failures"}

LEMMA Projected == TypeOK => EventStatus \in RunStatus /\ shown \in RunStatus
BY DEF TypeOK, EventStatus, RunStatus

LEMMA LeavesKeep ==
  ASSUME IInv, Leaves
  PROVE  /\ UNCHANGED <<control, work, results>>
         /\ main' \in Coroutine /\ main'.step \in Ended \cup {"cancelling"}
         /\ main'.step = "done" => AtStep("final")
         /\ shown' \in {shown, EventStatus}
         /\ \/ active' = {} /\ child' = [i \in Item |-> None]
            \/ /\ active' = active /\ child' \in [Item -> Child \cup {None}]
               /\ \A i \in Item : child[i] # None => Kept(i)
<1> USE DEF Journal, Step, books, Close, IInv
<1>1. CASE Complete
  BY <1>1, Goes DEF Complete, Ended
<1>2. CASE Cancelled
  BY <1>2, Goes DEF Cancelled, Ended
<1>3. CASE GiveUp
  BY <1>3, Goes DEF GiveUp, Ended
<1>4. CASE CancelRun /\ Go("cancelling")
  <2>1. main' \in Coroutine /\ main'.step = "cancelling" /\ UNCHANGED <<control, work, results, books>>
    BY <1>4, Goes DEF CancelRun
  <2>2. CASE active' = {} /\ child' = [i \in Item |-> None]
    BY <2>1, <2>2 DEF Ended
  <2>3. CASE /\ active' = active
             /\ child' = [i \in Item |-> IF i \in active THEN [child[i] EXCEPT !.cancel = TRUE]
                                         ELSE child[i]]
    <3>1. \A i \in active : child[i] # None
      BY DEF Books
    <3> QED
      BY <2>1, <2>3, <3>1, CancellingKeeps DEF Ended
  <2> QED
    BY <1>4, <2>2, <2>3 DEF CancelRun
<1>5. CASE CancelRun /\ Close("cancelled")
  BY <1>5, Goes DEF CancelRun, Ended
<1> QED
  BY <1>1, <1>2, <1>3, <1>4, <1>5 DEF Leaves, CancelRun

LEMMA CommandType ==
  ASSUME TypeOK, Unprocessed
  PROVE  command \in Command /\ processed + 1 \in DOMAIN commands
BY DEF TypeOK, Unprocessed, command

LEMMA EndsKeep ==
  ASSUME TypeOK, NEW j \in Item, ChildEnds(j)
  PROVE  /\ child' \in [Item -> Child \cup {None}]
         /\ \A i \in Item : child[i] # None => Kept(i)
         /\ UNCHANGED <<main, control, work, results, active, books>>
<1>1. PICK state \in {"completed", "failed", "retryable", "cancelled"} :
        child' = [child EXCEPT ![j].state = state]
  BY DEF ChildEnds
<1>2. child[j] \in Child
  BY DEF ChildEnds, TypeOK
<1>3. LET d == [child[j] EXCEPT !.state = state] IN
        d \in Child /\ d.attempt = child[j].attempt /\ d.cancel = child[j].cancel
  BY <1>2 DEF Child
<1>4. child'[j] = [child[j] EXCEPT !.state = state] /\ \A i \in Item \ {j} : child'[i] = child[i]
  BY <1>1 DEF TypeOK
<1>5. child' \in [Item -> Child \cup {None}]
  BY <1>1, <1>3, <1>4 DEF TypeOK
<1> QED
  BY <1>3, <1>4, <1>5, NoneAssumption DEF Kept, ChildEnds

-----------------------------------------------------------------------------
(* What the steps that change the books do.                                *)

LEMMA AcceptDoes ==
  ASSUME IInv, AcceptCommand
  PROVE  /\ UNCHANGED <<commands, processed, paused, revision, accepted, active, child>>
         /\ main' \in Coroutine /\ main'.step \in {"plan", "apply"} /\ AtStep("accept")
         /\ Unprocessed
         /\ applied' \subseteq Nat /\ shown' \in {shown, EventStatus}
         /\ \/ work' = work /\ results' = results /\ command.kind # "retry_work"
            \/ \E i \in Item :
                 /\ command.item = i /\ command.kind = "retry_work"
                 /\ work[i].status \in {"failed", "pending"}
                 /\ work' = [work EXCEPT ![i] = Pending(work[i].attempt)]
                 /\ results' = [results EXCEPT ![i] = None]
<1>1. AtStep("accept") /\ Unprocessed
  BY DEF AcceptCommand, IInv, Places, AtStep
<1>2. command \in Command /\ processed + 1 \in (processed + 1)..Len(commands) /\ processed \in Nat
  BY <1>1, CommandType DEF IInv, TypeOK
<1>3. command.kind = "retry_work" => command.item \in Item
                                      /\ work[command.item].status \in {"failed", "pending"}
  <2>1. Live
    BY <1>1 DEF Live, AtStep, Ended
  <2> QED
    BY <1>2, <2>1 DEF IInv, Retries, command
<1>4. applied' \subseteq Nat
  BY <1>2 DEF AcceptCommand, IInv, TypeOK
<1>5. main' \in Coroutine /\ main'.step \in {"plan", "apply"}
  BY Goes DEF AcceptCommand, Step
<1> QED
  BY <1>1, <1>3, <1>4, <1>5 DEF AcceptCommand, Journal

LEMMA RedirectDoes ==
  ASSUME IInv, ApplyRedirect
  PROVE  /\ UNCHANGED <<commands, processed, paused, accepted, applied, active, child, books>>
         /\ main' \in Coroutine /\ main'.step = "apply" /\ AtStep("plan") /\ Unprocessed
         /\ revision' \in Nat
         /\ \E stale \in SUBSET Item :
              /\ \A i \in stale : results[i] # None /\ results[i].status = "completed"
              /\ work' = [i \in Item |-> IF i \in stale THEN Pending(work[i].attempt) ELSE work[i]]
              /\ results' = [i \in Item |-> IF i \in stale THEN None ELSE results[i]]
<1>1. AtStep("plan") /\ Unprocessed
  BY DEF ApplyRedirect, IInv, Places, AtStep
<1>2. command \in Command
  BY <1>1, CommandType DEF IInv
<1>3. main' \in Coroutine /\ main'.step = "apply"
  BY Goes DEF ApplyRedirect, Step
<1> DEFINE done == {i \in Item : results[i] # None /\ results[i].status = "completed"}
           stale == Stale(done, command.changed)
<1>4. stale \subseteq done
  BY DEF Stale
<1>5. /\ work' = [i \in Item |-> IF i \in stale THEN Pending(work[i].attempt) ELSE work[i]]
      /\ results' = [i \in Item |-> IF i \in stale THEN None ELSE results[i]]
  BY DEF ApplyRedirect, DropResults
<1> HIDE DEF stale
<1>6. stale \in SUBSET Item /\ \A i \in stale : results[i] # None /\ results[i].status = "completed"
  BY <1>4
<1> QED
  BY <1>1, <1>2, <1>3, <1>5, <1>6 DEF ApplyRedirect, Command

LEMMA FinishDoes ==
  ASSUME IInv, NEW i \in Item, Finish(i)
  PROVE  /\ UNCHANGED <<control, child, books>>
         /\ main' \in Coroutine /\ AtStep("finish")
         /\ i \in active /\ active' = active \ {i} /\ child[i] \in Child
         /\ main'.queue = main.queue \ {i}
         /\ \/ /\ main'.step = "finish" /\ results' = results
               /\ work' = [work EXCEPT ![i] = Pending(work[i].attempt)]
            \/ /\ main'.step = "record" /\ main'.item = i
               /\ \E s \in {"completed", "failed"}, t \in BOOLEAN :
                    /\ t => s = "failed"
                    /\ results' = [results EXCEPT ![i] =
                         [status |-> s, attempt |-> child[i].attempt, revision |-> child[i].revision]]
                    /\ work' = [work EXCEPT ![i] =
                         [status |-> s, attempt |-> child[i].attempt, retryable |-> t]]
<1>1. AtStep("finish") /\ i \in main.queue /\ main.queue \in SUBSET Item /\ i \in active
  BY DEF Finish, IInv, TypeOK, Places, AtStep
<1>2. child[i] \in Child
  BY <1>1 DEF IInv, TypeOK, Books
<1>3. main.queue \ {i} \in SUBSET Item
  BY <1>1
<1>4. CASE child[i].state = "cancelled"
  <2>1. GoWith("finish", 0, main.queue \ {i})
    BY <1>4 DEF Finish
  <2>2. main' \in Coroutine /\ main'.step = "finish" /\ main'.queue = main.queue \ {i}
    BY <1>3, <2>1, Goes DEF Step
  <2> QED
    BY <1>1, <1>2, <1>4, <2>2 DEF Finish
<1>5. CASE child[i].state # "cancelled"
  <2>1. GoWith("record", i, main.queue \ {i})
    BY <1>5 DEF Finish
  <2>2. /\ main' \in Coroutine /\ main'.step = "record" /\ main'.item = i
        /\ main'.queue = main.queue \ {i}
    BY <1>3, <2>1, Goes DEF Step
  <2> DEFINE s == IF child[i].state = "completed" THEN "completed" ELSE "failed"
             t == child[i].state = "retryable"
  <2>3. s \in {"completed", "failed"} /\ t \in BOOLEAN /\ (t => s = "failed")
    OBVIOUS
  <2>4. /\ results' = [results EXCEPT ![i] =
             [status |-> s, attempt |-> child[i].attempt, revision |-> child[i].revision]]
        /\ work' = [work EXCEPT ![i] =
             [status |-> s, attempt |-> child[i].attempt, retryable |-> t]]
    BY <1>5 DEF Finish
  <2> HIDE DEF s, t
  <2> QED
    BY <1>1, <1>2, <2>2, <2>3, <2>4 DEF Finish
<1> QED
  BY <1>4, <1>5

LEMMA AnnounceDoes ==
  ASSUME IInv, Announced
  PROVE  /\ UNCHANGED <<control, results, active>> /\ shown' \in {shown, EventStatus}
         /\ main' \in Coroutine /\ main'.step = "launch" /\ AtStep("announce")
         /\ main'.queue = main.queue /\ main'.item = main.item
         /\ main.item \in Item \ main.queue /\ work[main.item].status = "pending"
         /\ main.item \notin active
         /\ work[main.item].attempt + 1 \in Nat
         /\ work' = [work EXCEPT ![main.item] =
              [status |-> "running", attempt |-> work[main.item].attempt + 1, retryable |-> FALSE]]
         /\ child' = [child EXCEPT ![main.item] =
              [attempt |-> work[main.item].attempt + 1, revision |-> revision, cancel |-> FALSE,
               state |-> "running"]]
<1>1. /\ AtStep("announce") /\ main.item \in Item \ main.queue /\ main.queue \in SUBSET Item
      /\ work[main.item].status = "pending"
  BY DEF Announced, IInv, TypeOK, Places, AtStep
<1>2. main.item \notin active
  BY <1>1 DEF IInv, WorkAgrees, AtStep, Ended
<1>3. main' \in Coroutine /\ main'.step = "launch" /\ main'.queue = main.queue /\ main'.item = main.item
  BY <1>1, Goes DEF Announced, Step
<1>4. work[main.item].attempt + 1 \in Nat
  BY <1>1 DEF IInv, TypeOK, WorkState
<1> QED
  BY <1>1, <1>2, <1>3, <1>4 DEF Announced, NextAttempt, Journal

LEMMA LaunchDoes ==
  ASSUME IInv, Launched
  PROVE  /\ UNCHANGED <<control, work, results, books>>
         /\ main' \in Coroutine /\ main'.step = "start" /\ AtStep("launch")
         /\ main'.queue = main.queue
         /\ main.item \in Item \ main.queue /\ active' = active \cup {main.item}
         /\ child' \in [Item -> Child \cup {None}]
         /\ \A i \in Item \ {main.item} : child'[i] = child[i]
         /\ child'[main.item] # None /\ child'[main.item].attempt = work[main.item].attempt
         /\ paused => child'[main.item].cancel
<1>1. /\ AtStep("launch") /\ main.item \in Item \ main.queue /\ main.queue \in SUBSET Item
      /\ child[main.item] # None /\ child[main.item].attempt = work[main.item].attempt
  BY DEF Launched, IInv, TypeOK, Places, AtStep
<1>2. main' \in Coroutine /\ main'.step = "start" /\ main'.queue = main.queue
  BY <1>1, Goes DEF Launched, Step
<1>3. child[main.item] \in Child /\ Interrupted \in BOOLEAN /\ (paused => Interrupted)
  BY <1>1 DEF IInv, TypeOK, Interrupted, Unprocessed
<1> DEFINE d == [child[main.item] EXCEPT !.cancel = Interrupted]
<1>4. d \in Child /\ d.attempt = child[main.item].attempt /\ d.cancel = Interrupted
  BY <1>3 DEF Child
<1>5. child' = [child EXCEPT ![main.item] = d]
  BY DEF Launched, CancelOnLaunch
<1> HIDE DEF d
<1>6. child' \in [Item -> Child \cup {None}] /\ child'[main.item] = d
        /\ \A i \in Item \ {main.item} : child'[i] = child[i]
  BY <1>1, <1>4, <1>5 DEF IInv, TypeOK
<1> QED
  BY <1>1, <1>2, <1>3, <1>4, <1>6, NoneAssumption DEF Launched

LEMMA AppliedDoes ==
  ASSUME IInv, Applied
  PROVE  /\ UNCHANGED <<commands, paused, revision, accepted, applied, work, results, active, child>>
         /\ main' \in Coroutine /\ main'.step = "top" /\ AtStep("apply")
         /\ processed' = processed + 1 /\ Unprocessed /\ shown' \in {shown, EventStatus}
<1>1. main' \in Coroutine /\ main'.step = "top"
  BY Goes DEF Applied, Step
<1> QED
  BY <1>1 DEF Applied, IInv, Places, AtStep, Advanced, Journal

-----------------------------------------------------------------------------
(* The invariant: initially, and after every step.                         *)

LEMMA Initially == Init => IInv
<1> SUFFICES ASSUME Init PROVE IInv
  OBVIOUS
<1>1. TypeOK
  <2>1. main \in [step : Step, item : Item \cup {0}, queue : SUBSET Item]
    BY DEF Init, Step
  <2>2. work \in [Item -> WorkState]
    BY DEF Init, Pending, WorkState
  <2>3. /\ results \in [Item -> ChildResult \cup {None}]
        /\ child \in [Item -> Child \cup {None}]
    BY DEF Init
  <2>4. commands \in Seq(Command) /\ active \subseteq Item /\ applied \subseteq Nat
    BY DEF Init
  <2> QED
    BY <2>1, <2>2, <2>3, <2>4 DEF Init, TypeOK
<1>2. Places /\ Books /\ Retries /\ PauseReaches
  BY DEF Init, Places, Books, Retries, PauseReaches, Pending, AtStep
<1>3. WorkAgrees
  BY DEF Init, WorkAgrees, Pending, AtStep
<1> QED
  BY <1>1, <1>2, <1>3 DEF IInv

LEMMA StepTypes == IInv /\ [Next]_vars => TypeOK'
<1> SUFFICES ASSUME IInv, [Next]_vars PROVE TypeOK'
  OBVIOUS
<1>1. TypeOK
  BY DEF IInv
<1>2. EventStatus \in RunStatus /\ shown \in RunStatus
  BY <1>1, Projected
<1> USE DEF control, books, Coroutine, RunStatus
<1>3. CASE Moves
  BY <1>1, <1>2, <1>3, MovesKeep DEF TypeOK
<1>4. CASE Leaves
  <2>1. active' \subseteq Item /\ child' \in [Item -> Child \cup {None}]
    BY <1>1, <1>4, LeavesKeep DEF TypeOK
  <2> QED
    BY <1>1, <1>2, <1>4, <2>1, LeavesKeep DEF TypeOK
<1>5. CASE Operator
  <2>1. PICK c \in Command : commands' = Append(commands, c)
    BY <1>5, OperatorKeeps
  <2>2. commands' \in Seq(Command)
    BY <1>1, <2>1 DEF TypeOK
  <2> QED
    BY <1>1, <1>5, <2>2, OperatorKeeps DEF TypeOK
<1>6. CASE AcceptCommand
  <2>1. work' \in [Item -> WorkState] /\ results' \in [Item -> ChildResult \cup {None}]
    <3>1. \A i \in Item : Pending(work[i].attempt) \in WorkState
      BY <1>1 DEF TypeOK, WorkState, Pending
    <3> QED
      BY <1>1, <1>6, <3>1, AcceptDoes DEF TypeOK
  <2> QED
    BY <1>1, <1>2, <1>6, <2>1, AcceptDoes DEF TypeOK, AcceptCommand, Journal
<1>7. CASE ApplyRedirect
  <2>1. work' \in [Item -> WorkState] /\ results' \in [Item -> ChildResult \cup {None}]
    <3>1. \A i \in Item : Pending(work[i].attempt) \in WorkState
      BY <1>1 DEF TypeOK, WorkState, Pending
    <3> QED
      BY <1>1, <1>7, <3>1, RedirectDoes DEF TypeOK
  <2> QED
    BY <1>1, <1>7, <2>1, RedirectDoes DEF TypeOK
<1>8. CASE Applied
  <2>1. processed' \in Nat /\ shown' \in RunStatus
    BY <1>1, <1>2, <1>8, AppliedDoes DEF TypeOK
  <2> QED
    BY <1>1, <1>8, <2>1, AppliedDoes DEF TypeOK
<1>9. ASSUME NEW i \in Item, Finish(i) PROVE TypeOK'
  <2>1. child[i] \in Child /\ active' = active \ {i}
    BY <1>9, FinishDoes
  <2>2. work' \in [Item -> WorkState]
    <3>1. \A s \in {"completed", "failed"}, t \in BOOLEAN :
            [status |-> s, attempt |-> child[i].attempt, retryable |-> t] \in WorkState
      BY <2>1 DEF Child, WorkState
    <3>2. Pending(work[i].attempt) \in WorkState
      BY <1>1 DEF TypeOK, WorkState, Pending
    <3>3. PICK w \in WorkState : work' = [work EXCEPT ![i] = w]
      BY <1>9, <3>1, <3>2, FinishDoes
    <3> QED
      BY <1>1, <3>3 DEF TypeOK
  <2>3. results' \in [Item -> ChildResult \cup {None}]
    <3>1. \A s \in {"completed", "failed"} :
            [status |-> s, attempt |-> child[i].attempt, revision |-> child[i].revision] \in ChildResult
      BY <2>1 DEF Child, ChildResult
    <3>2. results' = results \/ \E q \in ChildResult : results' = [results EXCEPT ![i] = q]
      BY <1>9, <3>1, FinishDoes
    <3> QED
      BY <1>1, <3>2 DEF TypeOK
  <2> QED
    BY <1>1, <1>9, <2>1, <2>2, <2>3, FinishDoes DEF TypeOK
<1>10. CASE Announced
  <2>1. work' \in [Item -> WorkState]
    <3>1. [status |-> "running", attempt |-> work[main.item].attempt + 1, retryable |-> FALSE]
            \in WorkState
      BY <1>10, AnnounceDoes DEF WorkState
    <3> QED
      BY <1>1, <1>10, <3>1, AnnounceDoes DEF TypeOK
  <2>2. child' \in [Item -> Child \cup {None}]
    <3>1. [attempt |-> work[main.item].attempt + 1, revision |-> revision, cancel |-> FALSE,
           state |-> "running"] \in Child
      BY <1>1, <1>10, AnnounceDoes DEF Child, TypeOK
    <3> QED
      BY <1>1, <1>10, <3>1, AnnounceDoes DEF TypeOK
  <2> QED
    BY <1>1, <1>2, <1>10, <2>1, <2>2, AnnounceDoes DEF TypeOK
<1>11. CASE Launched
  BY <1>1, <1>11, LaunchDoes DEF TypeOK
<1>12. ASSUME NEW i \in Item, ChildEnds(i) PROVE TypeOK'
  BY <1>1, <1>12, EndsKeep DEF TypeOK
<1>13. CASE UNCHANGED vars
  BY <1>1, <1>13 DEF vars, TypeOK
<1> QED
  BY <1>3, <1>4, <1>5, <1>6, <1>7, <1>8, <1>9, <1>10, <1>11, <1>12, <1>13, Steps

\* A pause reaches every cancellable child.
LEMMA StepPause == IInv /\ [Next]_vars => PauseReaches'
<1> SUFFICES ASSUME IInv, [Next]_vars PROVE PauseReaches'
  OBVIOUS
<1>1. /\ active \subseteq Item /\ \A i \in active : child[i] # None
      /\ paused => \A i \in active : Cancellable[i] => child[i].cancel
  BY DEF IInv, TypeOK, Books, PauseReaches
<1>2. TypeOK
  BY DEF IInv
<1> USE DEF control, books, Kept, PauseReaches
<1>3. CASE Moves
  BY <1>1, <1>2, <1>3, MovesKeep
<1>4. CASE Leaves
  BY <1>1, <1>4, LeavesKeep
<1>5. CASE Operator
  BY <1>1, <1>5, OperatorKeeps
<1>6. CASE AcceptCommand \/ ApplyRedirect \/ Applied
  BY <1>1, <1>6, AcceptDoes, RedirectDoes, AppliedDoes
<1>7. ASSUME NEW i \in Item, Finish(i) PROVE PauseReaches'
  BY <1>1, <1>7, FinishDoes
<1>8. CASE Announced
  <2>1. active' = active /\ paused' = paused /\ \A i \in active : child'[i] = child[i]
    BY <1>1, <1>2, <1>8, AnnounceDoes DEF TypeOK
  <2> QED
    BY <1>1, <2>1
<1>9. CASE Launched
  BY <1>1, <1>9, LaunchDoes
<1>10. ASSUME NEW i \in Item, ChildEnds(i) PROVE PauseReaches'
  BY <1>1, <1>2, <1>10, EndsKeep
<1>11. CASE UNCHANGED vars
  BY <1>1, <1>11 DEF vars
<1> QED
  BY <1>3, <1>4, <1>5, <1>6, <1>7, <1>8, <1>9, <1>10, <1>11, Steps

LEMMA StepBooks == IInv /\ [Next]_vars => Books'
<1> SUFFICES ASSUME IInv, [Next]_vars PROVE Books'
  OBVIOUS
<1>1. /\ active \subseteq Item /\ \A i \in active : child[i] # None
      /\ \A i \in Item : work[i].retryable => work[i].status = "failed"
  BY DEF IInv, TypeOK, Books
<1>2. TypeOK
  BY DEF IInv
<1>p. \A n : Pending(n).retryable = FALSE
  BY DEF Pending
<1> USE DEF control, books, Kept, Books
<1>3. CASE Moves
  BY <1>1, <1>2, <1>3, MovesKeep
<1>4. CASE Leaves
  BY <1>1, <1>4, LeavesKeep
<1>5. CASE Operator
  BY <1>1, <1>5, OperatorKeeps
<1>6. CASE AcceptCommand
  BY <1>1, <1>2, <1>p, <1>6, AcceptDoes DEF TypeOK
<1>7. CASE ApplyRedirect
  BY <1>1, <1>2, <1>p, <1>7, RedirectDoes DEF TypeOK
<1>8. CASE Applied
  BY <1>1, <1>8, AppliedDoes
<1>9. ASSUME NEW i \in Item, Finish(i) PROVE Books'
  BY <1>1, <1>2, <1>p, <1>9, FinishDoes DEF TypeOK
<1>10. CASE Announced
  <2>1. [attempt |-> work[main.item].attempt + 1, revision |-> revision, cancel |-> FALSE,
         state |-> "running"] # None
    <3>1. [attempt |-> work[main.item].attempt + 1, revision |-> revision, cancel |-> FALSE,
           state |-> "running"] \in Child
      BY <1>2, <1>10, AnnounceDoes DEF TypeOK, Child
    <3> QED
      BY <3>1, NoneAssumption
  <2> QED
    BY <1>1, <1>2, <1>10, <2>1, AnnounceDoes DEF TypeOK
<1>11. CASE Launched
  BY <1>1, <1>11, LaunchDoes
<1>12. ASSUME NEW i \in Item, ChildEnds(i) PROVE Books'
  BY <1>1, <1>2, <1>12, EndsKeep
<1>13. CASE UNCHANGED vars
  BY <1>1, <1>13 DEF vars
<1> QED
  BY <1>3, <1>4, <1>5, <1>6, <1>7, <1>8, <1>9, <1>10, <1>11, <1>12, <1>13, Steps

\* What the run shows, what it reports and what runs agree.
LEMMA StepAgrees == IInv /\ [Next]_vars => WorkAgrees'
<1> SUFFICES ASSUME IInv, [Next]_vars PROVE WorkAgrees'
  OBVIOUS
<1>1. active \subseteq Item /\ \A i \in active : child[i] # None
  BY DEF IInv, TypeOK, Books
<1>2. TypeOK /\ WorkAgrees
  BY DEF IInv
<1>p. \A n : Pending(n).status = "pending"
  BY DEF Pending
<1> USE DEF control, books, Kept, WorkAgrees, AtStep, Ended
<1>3. CASE Moves
  BY <1>1, <1>2, <1>3, MovesKeep
<1>4. CASE Leaves
  BY <1>4, LeavesKeep
<1>5. CASE Operator
  BY <1>1, <1>2, <1>5, OperatorKeeps
<1>6. CASE AcceptCommand
  BY <1>1, <1>2, <1>p, <1>6, AcceptDoes DEF TypeOK
<1>7. CASE ApplyRedirect
  BY <1>1, <1>2, <1>p, <1>7, RedirectDoes DEF TypeOK
<1>8. CASE Applied
  BY <1>1, <1>2, <1>8, AppliedDoes
<1>9. ASSUME NEW i \in Item, Finish(i) PROVE WorkAgrees'
  <2>1. \A s \in {"completed", "failed"} :
            [status |-> s, attempt |-> child[i].attempt, revision |-> child[i].revision] # None
    BY <1>9, FinishDoes, NoneAssumption DEF Child, ChildResult
  <2> QED
    BY <1>1, <1>2, <1>p, <1>9, <2>1, FinishDoes DEF TypeOK
<1>10. CASE Announced
  BY <1>1, <1>2, <1>10, AnnounceDoes DEF TypeOK
<1>11. CASE Launched
  BY <1>1, <1>2, <1>11, LaunchDoes
<1>12. ASSUME NEW i \in Item, ChildEnds(i) PROVE WorkAgrees'
  BY <1>1, <1>2, <1>12, EndsKeep
<1>13. CASE UNCHANGED vars
  BY <1>2, <1>13 DEF vars
<1> QED
  BY <1>3, <1>4, <1>5, <1>6, <1>7, <1>8, <1>9, <1>10, <1>11, <1>12, <1>13, Steps

\* Where a turn of the loop leads to.
LEMMA TurnPlaces ==
  ASSUME IInv, Turn
  PROVE  Places'
<1>1. TypeOK /\ AtStep("top") /\ UNCHANGED <<control, work, results, active, child>>
  BY DEF IInv, Turn
<1> USE DEF AtStep, Step, control
<1>2. CASE Unprocessed /\ Go("accept")
  <2>1. main'.step = "accept"
    BY <1>2, Goes
  <2>2. Unprocessed'
    BY <1>1, <1>2 DEF Unprocessed
  <2> QED
    BY <2>1, <2>2 DEF Places
<1>3. CASE Go("wait") \/ Go("paused") \/ Go("recover")
  <2>1. main'.step \in {"wait", "paused", "recover"}
    BY <1>3, Goes
  <2> QED
    BY <2>1 DEF Places
<1>4. CASE GoWith("start", 0, FirstQueued)
  <2>1. FirstQueued \in SUBSET Item /\ \A i \in FirstQueued : work[i].status = "pending"
    BY DEF FirstQueued, Queued
  <2>2. main'.step = "start" /\ main'.queue = FirstQueued
    BY <1>4, <2>1, Goes
  <2> QED
    BY <1>1, <2>1, <2>2 DEF Places
<1>5. CASE active = {} /\ Queued = {} /\ ToRetry = {} /\ Go("final")
  <2>1. main'.step = "final"
    BY <1>5, Goes
  <2>2. ASSUME NEW i \in Item PROVE results[i] # None /\ ~work[i].retryable
    <3>1. work[i].status # "running" /\ work[i].status # "pending"
      BY <1>1, <1>5 DEF IInv, WorkAgrees, Queued, Ended
    <3>2. work[i].status \in {"completed", "failed"}
      BY <1>1, <3>1 DEF TypeOK, WorkState
    <3>3. results[i] # None
      BY <1>1, <3>2 DEF IInv, WorkAgrees, Ended
    <3>4. ~(work[i].status = "failed" /\ work[i].retryable)
      BY <1>5 DEF ToRetry, Recoverable
    <3> QED
      BY <3>3, <3>4 DEF IInv, Books
  <2> QED
    BY <1>1, <2>1, <2>2 DEF Places
<1> QED
  BY <1>2, <1>3, <1>4, <1>5 DEF Turn

LEMMA StepPlaces == IInv /\ [Next]_vars => Places'
<1> SUFFICES ASSUME IInv, [Next]_vars PROVE Places'
  OBVIOUS
<1>1. TypeOK /\ Places /\ WorkAgrees /\ main.queue \in SUBSET Item
  BY DEF IInv, TypeOK
<1> USE DEF control, books, AtStep, Step
<1>2. CASE Turn
  BY <1>2, TurnPlaces
<1>3. CASE WaitReturns
  <2>1. {i \in active : child[i].state # "running"} \in SUBSET Item
    BY <1>1 DEF TypeOK
  <2>2. main'.step = "finish" /\ main'.queue \subseteq active /\ active' = active
    BY <1>3, <2>1, Goes DEF WaitReturns
  <2> QED
    BY <2>2 DEF Places
<1>4. CASE Recorded
  <2>1. main'.step = "finish" /\ main'.queue = main.queue /\ active' = active /\ main.step = "record"
    BY <1>1, <1>4, Goes DEF Recorded
  <2> QED
    BY <1>1, <2>1 DEF Places
<1>5. CASE Boot \/ FinishedAll \/ PausedReturns \/ RecoveryRecorded \/ BlockedReturns
  <2>1. main'.step \in {"top", "blocked"}
    BY <1>5, Goes DEF Boot, FinishedAll, PausedReturns, RecoveryRecorded, BlockedReturns
  <2> QED
    BY <2>1 DEF Places
<1>6. CASE StartNext
  <2>1. CASE Go("top")
    <3>1. main'.step = "top"
      BY <2>1, Goes
    <3> QED
      BY <3>1 DEF Places
  <2>2. ASSUME NEW i \in main.queue, GoWith("ensure", i, main.queue \ {i}) PROVE Places'
    <3>1. main'.step = "ensure" /\ main'.item = i /\ main'.queue = main.queue \ {i}
      BY <1>1, <2>2, Goes
    <3>2. work' = work /\ i \in Item /\ \A j \in main.queue : work[j].status = "pending"
      BY <1>1, <1>6 DEF StartNext, Places
    <3> QED
      BY <3>1, <3>2 DEF Places
  <2> QED
    BY <1>6, <2>1, <2>2 DEF StartNext
<1>7. CASE Ensured
  <2>1. /\ main.step = "ensure" /\ work' = work /\ main.item \in Item \ main.queue
        /\ work[main.item].status = "pending" /\ \A j \in main.queue : work[j].status = "pending"
    BY <1>1, <1>7 DEF Ensured, Places
  <2>2. \/ main'.step = "start" /\ main'.queue = main.queue
        \/ main'.step = "announce" /\ main'.queue = main.queue /\ main'.item = main.item
    BY <1>1, <1>7, <2>1, Goes DEF Ensured
  <2> QED
    BY <2>1, <2>2 DEF Places
<1>8. CASE Leaves
  <2>1. /\ main'.step \in Ended \cup {"cancelling"} /\ UNCHANGED <<work, results>>
        /\ main'.step = "done" => main.step = "final"
    BY <1>8, LeavesKeep
  <2> QED
    BY <1>1, <2>1 DEF Places, Ended
<1>9. CASE Operator
  <2>1. UNCHANGED <<main, processed, work, results, active>>
    BY <1>9, OperatorKeeps
  <2>2. Unprocessed => Unprocessed'
    <3>1. PICK c \in Command : commands' = Append(commands, c)
      BY <1>9, OperatorKeeps
    <3> QED
      BY <1>1, <2>1, <3>1 DEF Unprocessed, TypeOK
  <2>3. AtStep("launch") => child'[main.item] # None /\ child'[main.item].attempt = work[main.item].attempt
    BY <1>1, <1>9, OperatorKeeps DEF Places, Kept
  <2> QED
    BY <1>1, <2>1, <2>2, <2>3 DEF Places
<1>10. CASE AcceptCommand \/ ApplyRedirect
  <2>1. main'.step \in {"plan", "apply"} /\ Unprocessed /\ UNCHANGED <<processed, commands>>
    BY <1>10, AcceptDoes, RedirectDoes
  <2> QED
    BY <2>1 DEF Places, Unprocessed
<1>11. CASE Applied
  <2>1. main'.step = "top"
    BY <1>11, AppliedDoes
  <2> QED
    BY <2>1 DEF Places
<1>12. ASSUME NEW i \in Item, Finish(i) PROVE Places'
  <2>1. main'.step \in {"finish", "record"} /\ main'.queue \subseteq active'
    BY <1>1, <1>12, FinishDoes DEF Places
  <2>2. main'.step = "record" => main'.item = i /\ results'[i] # None
    <3>1. \A s \in {"completed", "failed"} :
            [status |-> s, attempt |-> child[i].attempt, revision |-> child[i].revision] # None
      BY <1>12, FinishDoes, NoneAssumption DEF Child, ChildResult
    <3> QED
      BY <1>1, <1>12, <3>1, FinishDoes DEF TypeOK
  <2> QED
    BY <2>1, <2>2 DEF Places
<1>13. CASE Announced
  <2>1. /\ main'.step = "launch" /\ main'.queue = main.queue /\ main'.item = main.item
        /\ main.item \in Item \ main.queue /\ \A j \in main.queue : work[j].status = "pending"
    BY <1>1, <1>13, AnnounceDoes DEF Places
  <2>2. \A j \in main.queue : work'[j] = work[j]
    BY <1>1, <1>13, <2>1, AnnounceDoes DEF TypeOK
  <2>3. child'[main.item].attempt = work'[main.item].attempt
    BY <1>1, <1>13, <2>1, AnnounceDoes DEF TypeOK
  <2>4. child'[main.item] # None
    <3>1. [attempt |-> work[main.item].attempt + 1, revision |-> revision, cancel |-> FALSE,
           state |-> "running"] \in Child
      BY <1>1, <1>13, AnnounceDoes DEF TypeOK, Child
    <3> QED
      BY <1>1, <1>13, <2>1, <3>1, AnnounceDoes, NoneAssumption DEF TypeOK
  <2> QED
    BY <2>1, <2>2, <2>3, <2>4 DEF Places
<1>14. CASE Launched
  <2>1. main'.step = "start" /\ main'.queue = main.queue /\ work' = work
          /\ \A j \in main.queue : work[j].status = "pending"
    BY <1>1, <1>14, LaunchDoes DEF Places
  <2> QED
    BY <2>1 DEF Places
<1>15. ASSUME NEW i \in Item, ChildEnds(i) PROVE Places'
  <2>1. UNCHANGED <<main, processed, commands, work, results, active>>
          /\ \A j \in Item : child[j] # None => Kept(j)
    BY <1>1, <1>15, EndsKeep
  <2> QED
    BY <1>1, <2>1 DEF Places, Kept, Unprocessed
<1>16. CASE UNCHANGED vars
  BY <1>1, <1>16 DEF vars, Places, Unprocessed
<1> QED
  BY <1>2, <1>3, <1>4, <1>5, <1>6, <1>7, <1>8, <1>9, <1>10, <1>11, <1>12, <1>13, <1>14, <1>15,
     <1>16, Steps DEF Moves

\* A retry that is yet to be applied finds what it needs.
Fits(c) ==
  /\ c.item \in Item
  /\ \/ work[c.item].status = "failed"
     \/ work[c.item].status = "pending" /\ main.step \in {"top", "accept", "plan", "apply"}

Waiting == {n \in DOMAIN commands : n > processed /\ commands[n].kind = "retry_work"}

WaitingFit == Live => \A n \in Waiting : Fits(commands[n])

LEMMA RetriesFit == TypeOK => (Retries <=> WaitingFit)
<1> SUFFICES ASSUME TypeOK PROVE Retries <=> WaitingFit
  OBVIOUS
<1>1. DOMAIN commands = 1..Len(commands) /\ Len(commands) \in Nat /\ processed \in Nat
  BY DEF TypeOK
<1>2. \A n : n \in (processed + 1)..Len(commands) <=> n \in DOMAIN commands /\ n > processed
  BY <1>1
<1> QED
  BY <1>2 DEF Retries, WaitingFit, Waiting, Fits

LEMMA StepRetries == IInv /\ [Next]_vars => Retries'
<1>0. TypeOK' => (Retries' <=> WaitingFit')
  BY RetriesFit, PTL
<1> SUFFICES ASSUME IInv, [Next]_vars, Live' PROVE Retries'
  BY DEF Retries
<1>1. TypeOK /\ TypeOK' /\ Places /\ WorkAgrees
  BY StepTypes DEF IInv
<1>2. Live => \A n \in Waiting : Fits(commands[n])
  BY <1>1, RetriesFit DEF IInv, WaitingFit
<1> SUFFICES ASSUME NEW n \in Waiting' PROVE Fits(commands[n])'
  BY <1>0, <1>1 DEF WaitingFit
<1> USE DEF control, books, AtStep, Live, Ended
<1>3. ASSUME UNCHANGED <<commands, processed>>, Live
      PROVE  n \in Waiting /\ Fits(commands[n]) /\ commands'[n] = commands[n]
  BY <1>2, <1>3 DEF Waiting
<1>4. CASE Moves
  <2>1. UNCHANGED <<commands, processed, work>> /\ Live
    BY <1>1, <1>4, MovesKeep
  <2>2. n \in Waiting /\ Fits(commands[n]) /\ commands'[n] = commands[n]
    BY <1>3, <2>1
  <2>3. CASE work[commands[n].item].status = "failed"
    BY <2>1, <2>2, <2>3 DEF Fits
  <2>4. CASE work[commands[n].item].status # "failed"
    <3>1. main.step = "top" /\ Turn
      <4>1. main.step \in {"top", "accept", "plan", "apply"}
        BY <2>2, <2>4 DEF Fits
      <4>2. CASE ~Turn
        <5>1. main.step \in {"boot", "wait", "record", "finish", "paused", "start", "ensure",
                             "recover", "blocked"}
          BY <1>4, <4>2
             DEF Moves, Boot, WaitReturns, Recorded, FinishedAll, PausedReturns, StartNext, Ensured,
                 RecoveryRecorded, BlockedReturns
        <5> QED
          BY <4>1, <5>1
      <4> QED
        BY <4>2 DEF Turn
    <3>2. Unprocessed
      BY <1>1, <2>2 DEF Waiting, Unprocessed, TypeOK
    <3>3. main'.step = "accept"
      BY <3>1, <3>2, Goes DEF Turn, Step
    <3> QED
      BY <2>1, <2>2, <3>3 DEF Fits
  <2> QED
    BY <2>3, <2>4
<1>5. CASE Leaves
  BY <1>5, LeavesKeep
<1>6. CASE Operator
  <2>1. UNCHANGED <<main, processed, work>> /\ Live
    BY <1>6, OperatorKeeps
  <2>2. PICK c \in Command :
          /\ commands' = Append(commands, c)
          /\ c.kind = "retry_work" => c.item \in Item /\ work[c.item].status = "failed"
    BY <1>6, OperatorKeeps
  <2>3. \/ n \in DOMAIN commands /\ commands'[n] = commands[n]
        \/ commands'[n] = c
    BY <1>1, <2>2 DEF Waiting, TypeOK
  <2>4. CASE n \in DOMAIN commands /\ commands'[n] = commands[n]
    <3>1. n \in Waiting
      BY <2>1, <2>4 DEF Waiting
    <3> QED
      BY <1>2, <2>1, <2>4, <3>1 DEF Fits
  <2>5. CASE commands'[n] = c
    BY <2>1, <2>2, <2>5 DEF Fits, Waiting
  <2> QED
    BY <2>3, <2>4, <2>5
<1>7. CASE AcceptCommand
  <2>1. /\ UNCHANGED <<commands, processed>> /\ Live
        /\ main.step = "accept" /\ main'.step \in {"plan", "apply"}
    BY <1>7, AcceptDoes
  <2>2. n \in Waiting /\ Fits(commands[n]) /\ commands'[n] = commands[n]
    BY <1>3, <2>1
  <2>3. \A i \in Item : work'[i] = work[i] \/ work'[i].status = "pending"
    BY <1>1, <1>7, AcceptDoes DEF TypeOK, Pending
  <2> QED
    BY <2>1, <2>2, <2>3 DEF Fits
<1>8. CASE ApplyRedirect
  <2>1. UNCHANGED <<commands, processed>> /\ Live /\ main.step = "plan" /\ main'.step = "apply"
    BY <1>8, RedirectDoes
  <2>2. n \in Waiting /\ Fits(commands[n]) /\ commands'[n] = commands[n]
    BY <1>3, <2>1
  <2>3. \A i \in Item : work'[i] = work[i] \/ work'[i].status = "pending"
    BY <1>1, <1>8, RedirectDoes DEF TypeOK, Pending
  <2> QED
    BY <2>1, <2>2, <2>3 DEF Fits
<1>9. CASE Applied
  <2>1. /\ UNCHANGED <<commands, work>> /\ Live /\ main.step = "apply" /\ main'.step = "top"
        /\ processed' = processed + 1
    BY <1>9, AppliedDoes
  <2>2. n \in Waiting
    BY <1>1, <2>1 DEF Waiting, TypeOK
  <2> QED
    BY <1>2, <2>1, <2>2 DEF Fits
<1>10. ASSUME NEW i \in Item, Finish(i) PROVE Fits(commands[n])'
  <2>1. UNCHANGED <<commands, processed>> /\ Live /\ main.step = "finish" /\ i \in active
    BY <1>10, FinishDoes
  <2>2. n \in Waiting /\ Fits(commands[n]) /\ commands'[n] = commands[n]
    BY <1>3, <2>1
  <2>3. work[i].status = "running"
    BY <1>1, <2>1 DEF WorkAgrees
  <2>4. commands[n].item # i /\ work[commands[n].item].status = "failed"
    BY <2>1, <2>2, <2>3 DEF Fits
  <2>5. work'[commands[n].item] = work[commands[n].item]
    BY <1>1, <1>10, <2>2, <2>4, FinishDoes DEF TypeOK, Fits
  <2> QED
    BY <2>2, <2>4, <2>5 DEF Fits
<1>11. CASE Announced
  <2>1. /\ UNCHANGED <<commands, processed>> /\ Live /\ main.step = "announce"
        /\ main.item \in Item /\ work[main.item].status = "pending"
    BY <1>11, AnnounceDoes
  <2>2. n \in Waiting /\ Fits(commands[n]) /\ commands'[n] = commands[n]
    BY <1>3, <2>1
  <2>4. commands[n].item # main.item /\ work[commands[n].item].status = "failed"
    BY <2>1, <2>2 DEF Fits
  <2>5. work'[commands[n].item] = work[commands[n].item]
    BY <1>1, <1>11, <2>1, <2>2, <2>4, AnnounceDoes DEF TypeOK, Fits
  <2> QED
    BY <2>2, <2>4, <2>5 DEF Fits
<1>12. CASE Launched
  <2>1. UNCHANGED <<commands, processed, work>> /\ Live /\ main.step = "launch"
    BY <1>12, LaunchDoes
  <2>2. n \in Waiting /\ Fits(commands[n]) /\ commands'[n] = commands[n]
    BY <1>3, <2>1
  <2> QED
    BY <2>1, <2>2 DEF Fits
<1>13. ASSUME NEW i \in Item, ChildEnds(i) PROVE Fits(commands[n])'
  <2>1. UNCHANGED <<main, commands, processed, work>>
    BY <1>1, <1>13, EndsKeep
  <2>2. n \in Waiting /\ Fits(commands[n]) /\ commands'[n] = commands[n]
    BY <1>3, <2>1
  <2> QED
    BY <2>1, <2>2 DEF Fits
<1>14. CASE UNCHANGED vars
  <2>1. UNCHANGED <<main, commands, processed, work>>
    BY <1>14 DEF vars
  <2>2. n \in Waiting /\ Fits(commands[n]) /\ commands'[n] = commands[n]
    BY <1>3, <2>1
  <2> QED
    BY <2>1, <2>2 DEF Fits
<1> QED
  BY <1>4, <1>5, <1>6, <1>7, <1>8, <1>9, <1>10, <1>11, <1>12, <1>13, <1>14, Steps

\* The inductive invariant of the parent.
THEOREM ParentInvariant == Spec => []IInv
<1>1. IInv /\ [Next]_vars => IInv'
  BY StepTypes, StepPlaces, StepBooks, StepRetries, StepAgrees, StepPause DEF IInv
<1> QED
  BY Initially, <1>1, PTL DEF Spec

\* The parent's fields keep their types.
THEOREM ParentTypes == Spec => []TypeOK
<1>1. IInv => TypeOK
  BY DEF IInv
<1> QED
  BY <1>1, ParentInvariant, PTL

\* What the run shows of an item, what it reports and the child behind it agree
\* (_states, _results and _active across _start_child and _finish_child).
THEOREM BooksAgree == Spec => []WorkAgrees
<1>1. IInv => WorkAgrees
  BY DEF IInv
<1> QED
  BY <1>1, ParentInvariant, PTL

\* A pause reaches every cancellable child, also one that was being started
\* (the second look at _paused in _start_child).
THEOREM PausesReach == Spec => []PauseReaches
<1>1. IInv => PauseReaches
  BY DEF IInv
<1> QED
  BY <1>1, ParentInvariant, PTL

\* A run that reports its end has settled everything (the end of run).
THEOREM EndIsSettled == Spec => []DoneIsSettled
<1>1. IInv => DoneIsSettled
  BY DEF IInv, Places, DoneIsSettled, AtStep
<1> QED
  BY <1>1, ParentInvariant, PTL

-----------------------------------------------------------------------------
(* No event is swallowed: keys say what was journaled, and of what.        *)

\* The revisions the redirects carry grow.
RevisionsGrow ==
  /\ \A n \in DOMAIN commands : commands[n].kind = "redirect" => commands[n].revision <= accepted
  /\ \A m, n \in DOMAIN commands :
       commands[m].kind = "redirect" /\ commands[n].kind = "redirect" /\ m < n =>
         commands[m].revision < commands[n].revision

\* The commands whose events are in the journal.
CommandsWritten ==
  /\ \A n : <<"accepted", n>> \in journal =>
       n \in Nat /\ n <= processed + 1 /\ (n = processed + 1 => main.step \in {"plan", "apply"})
  /\ \A n : <<"applied", n>> \in journal => n \in Nat /\ n <= processed
  /\ \A r : <<"redirect", r>> \in journal =>
       \E n \in DOMAIN commands :
         n <= processed /\ commands[n].kind = "redirect" /\ commands[n].revision = r

\* The attempts whose events are in the journal.
WorkWritten ==
  /\ \A i \in Item : \A a : <<"work", i, a, "started">> \in journal =>
       a \in Nat /\ a <= work[i].attempt
  /\ \A i \in Item : \A a :
       <<"work", i, a, "completed">> \in journal \/ <<"work", i, a, "failed">> \in journal =>
       /\ a \in Nat /\ a <= work[i].attempt
       /\ a = work[i].attempt =>
            work[i].status # "running" /\ ~(AtStep("record") /\ main.item = i)

Written ==
  /\ <<>> \notin journal
  /\ Live => /\ <<"started">> \in journal => ~AtStep("boot")
             /\ <<"finished">> \notin journal
             /\ CommandsWritten /\ WorkWritten

EInv == IInv /\ RevisionsGrow /\ Written

LEMMA KeysDiffer ==
  /\ \A a, b : <<"accepted", a>> = <<"accepted", b>> => a = b
  /\ \A a, b : <<"applied", a>> = <<"applied", b>> => a = b
  /\ \A a, b : <<"redirect", a>> = <<"redirect", b>> => a = b
  /\ \A a, b : <<"accepted", a>> # <<"applied", b>>
  /\ \A a, b : <<"accepted", a>> # <<"redirect", b>>
  /\ \A a, b : <<"applied", a>> # <<"redirect", b>>
  /\ \A a, b : <<"recovery", a>> # <<"redirect", b>>
  /\ \A a, b : <<"recovery", a>> # <<"accepted", b>>
  /\ \A a, b : <<"recovery", a>> # <<"applied", b>>
  /\ \A i, a, s, j, b, t : <<"work", i, a, s>> = <<"work", j, b, t>> => i = j /\ a = b /\ s = t
  /\ \A k, a, i, b, s : <<k, a>> # <<"work", i, b, s>>
  /\ \A k, a : <<"started">> # <<k, a>> /\ <<"finished">> # <<k, a>> /\ <<>> # <<k, a>>
  /\ \A i, a, s : /\ <<"started">> # <<"work", i, a, s>> /\ <<"finished">> # <<"work", i, a, s>>
                  /\ <<>> # <<"work", i, a, s>>
  /\ <<"started">> # <<"finished">> /\ <<"started">> # <<>> /\ <<"finished">> # <<>>
OBVIOUS

LEMMA KeyIs ==
  /\ AtStep("boot") => EventKey = <<"started">>
  /\ AtStep("accept") => EventKey = <<"accepted", processed + 1>>
  /\ AtStep("apply") /\ command.kind = "redirect" => EventKey = <<"redirect", command.revision>>
  /\ AtStep("apply") /\ command.kind # "redirect" => EventKey = <<"applied", processed + 1>>
  /\ AtStep("announce") => EventKey = <<"work", main.item, work[main.item].attempt + 1, "started">>
  /\ AtStep("record") => EventKey = <<"work", main.item, results[main.item].attempt,
                                      results[main.item].status>>
  /\ AtStep("recover") => EventKey = <<"recovery", {<<i, work[i].attempt>> : i \in Recoverable}>>
  /\ AtStep("final") => EventKey = <<"finished">>
  /\ main.step \notin {"boot", "accept", "apply", "announce", "record", "recover", "final"} =>
       EventKey = <<>>
BY DEF EventKey, AtStep, NextAttempt

\* A result that is being journaled is the one on display.
LEMMA RecordPlace ==
  ASSUME IInv, AtStep("record")
  PROVE  /\ main.item \in Item /\ results[main.item].attempt = work[main.item].attempt
         /\ results[main.item].status \in {"completed", "failed"}
         /\ work[main.item].status # "running"
<1>1. main.item \in Item /\ results[main.item] # None
  BY DEF IInv, Places
<1> QED
  BY <1>1 DEF IInv, WorkAgrees, AtStep, Ended

\* From what is written: the event about to be appended is new.
LEMMA Fresh == EInv => EventsFresh
<1> SUFFICES ASSUME EInv, ~AtStep("recover"), EventKey \in journal PROVE FALSE
  BY DEF EventsFresh
<1>1. TypeOK /\ IInv /\ RevisionsGrow /\ <<>> \notin journal
  BY DEF EInv, IInv, Written
<1>2. main.step \in {"boot", "accept", "apply", "announce", "record", "final"}
  BY <1>1, KeyIs DEF AtStep
<1>3. Live /\ CommandsWritten /\ WorkWritten /\ <<"finished">> \notin journal
        /\ (<<"started">> \in journal => ~AtStep("boot"))
  BY <1>2 DEF EInv, Written, Live, Ended
<1> USE DEF AtStep
<1>4. CASE main.step \in {"boot", "final"}
  BY <1>3, <1>4, KeyIs
<1>5. CASE main.step = "accept"
  BY <1>3, <1>5, KeyIs DEF CommandsWritten
<1>6. CASE main.step = "apply"
  <2>1. processed + 1 \in DOMAIN commands /\ processed \in Nat
    BY <1>1, <1>6, CommandType DEF IInv, Places, TypeOK
  <2>2. CASE command.kind = "redirect"
    <3>1. PICK n \in DOMAIN commands :
            n <= processed /\ commands[n].kind = "redirect" /\ commands[n].revision = command.revision
      BY <1>3, <1>6, <2>2, KeyIs DEF CommandsWritten
    <3>2. n < processed + 1 /\ commands[n].revision < commands[processed + 1].revision
      BY <1>1, <2>1, <2>2, <3>1 DEF RevisionsGrow, command, TypeOK
    <3>3. command.revision \in Nat
      BY <1>1, <1>6, CommandType DEF Command, IInv, Places
    <3> QED
      BY <3>1, <3>2, <3>3 DEF command
  <2>3. CASE command.kind # "redirect"
    BY <1>3, <1>6, <2>1, <2>3, KeyIs DEF CommandsWritten
  <2> QED
    BY <2>2, <2>3
<1>7. CASE main.step = "announce"
  <2>1. main.item \in Item /\ work[main.item].attempt \in Nat
    BY <1>1, <1>7 DEF IInv, Places, TypeOK, WorkState
  <2> QED
    BY <1>3, <1>7, <2>1, KeyIs DEF WorkWritten
<1>8. CASE main.step = "record"
  <2>1. /\ main.item \in Item /\ results[main.item].attempt = work[main.item].attempt
        /\ results[main.item].status \in {"completed", "failed"}
    BY <1>1, <1>8, RecordPlace
  <2>2. <<"work", main.item, work[main.item].attempt, results[main.item].status>> \in journal
    BY <1>8, <2>1, KeyIs
  <2> QED
    BY <1>3, <1>8, <2>1, <2>2 DEF WorkWritten
<1> QED
  BY <1>2, <1>4, <1>5, <1>6, <1>7, <1>8

LEMMA OperatorNumbers ==
  ASSUME IInv, Operator
  PROVE  /\ journal' = journal
         /\ \E c \in Command :
              /\ commands' = Append(commands, c)
              /\ \/ c.kind = "redirect" /\ c.revision = accepted + 1 /\ accepted' = accepted + 1
                 \/ c.kind # "redirect" /\ accepted' = accepted
<1> USE DEF IInv, TypeOK, Accept, Plain, books
<1>1. CASE Pause \/ Resume \/ QueueMessage
  <2>1. \A kind \in Kind : Plain(kind) \in Command
    BY DEF Command
  <2>2. \A kind : Plain(kind).kind = kind
    OBVIOUS
  <2>3. PICK kind \in {"pause", "resume", "queue_message"} :
          commands' = Append(commands, Plain(kind)) /\ accepted' = accepted /\ journal' = journal
    BY <1>1 DEF Pause, Resume, QueueMessage
  <2>4. Plain(kind) \in Command /\ Plain(kind).kind # "redirect"
    BY <2>1, <2>2 DEF Kind
  <2> QED
    BY <2>3, <2>4
<1>2. ASSUME NEW changed \in Changes, Redirect(changed)
      PROVE  /\ journal' = journal /\ accepted' = accepted + 1
             /\ \E c \in Command : /\ commands' = Append(commands, c)
                                   /\ c.kind = "redirect" /\ c.revision = accepted + 1
  <2> DEFINE c == [kind |-> "redirect", item |-> 0, changed |-> changed,
                   revision |-> accepted + 1]
  <2>1. changed \subseteq Key /\ accepted + 1 \in Nat
    BY ParentAssumption
  <2>2. c \in Command /\ c.kind = "redirect" /\ c.revision = accepted + 1
    BY <2>1 DEF Command, Kind
  <2> HIDE DEF c
  <2>3. commands' = Append(commands, c)
    BY <1>2 DEF Redirect, c
  <2> QED
    BY <1>2, <2>2, <2>3 DEF Redirect
<1>3. ASSUME NEW i \in Item, RetryWork(i)
      PROVE  /\ journal' = journal /\ accepted' = accepted
             /\ \E c \in Command : commands' = Append(commands, c) /\ c.kind = "retry_work"
  <2> DEFINE c == [Plain("retry_work") EXCEPT !.item = i]
  <2>1. c \in Command /\ c.kind = "retry_work"
    BY DEF Command, Kind
  <2> HIDE DEF c
  <2>2. commands' = Append(commands, c)
    BY <1>3 DEF RetryWork, c
  <2> QED
    BY <1>3, <2>1, <2>2 DEF RetryWork
<1>4. CASE \E changed \in Changes : Redirect(changed)
  BY <1>2, <1>4
<1>5. CASE \E i \in Item : RetryWork(i)
  BY <1>3, <1>5
<1> QED
  BY <1>1, <1>4, <1>5 DEF Operator

LEMMA StepNumbers == EInv /\ [Next]_vars => RevisionsGrow'
<1> SUFFICES ASSUME EInv, [Next]_vars PROVE RevisionsGrow'
  OBVIOUS
<1>1. IInv /\ TypeOK /\ RevisionsGrow
  BY DEF EInv, IInv
<1>2. ASSUME UNCHANGED <<commands, accepted>> PROVE RevisionsGrow'
  BY <1>1, <1>2 DEF RevisionsGrow
<1>3. CASE Operator
  <2>1. PICK c \in Command :
          /\ commands' = Append(commands, c)
          /\ \/ c.kind = "redirect" /\ c.revision = accepted + 1 /\ accepted' = accepted + 1
             \/ c.kind # "redirect" /\ accepted' = accepted
    BY <1>1, <1>3, OperatorNumbers
  <2>2. /\ commands \in Seq(Command) /\ accepted \in Nat
        /\ DOMAIN commands' = DOMAIN commands \cup {Len(commands) + 1}
        /\ commands'[Len(commands) + 1] = c
        /\ \A n \in DOMAIN commands : n <= Len(commands) /\ commands'[n] = commands[n]
    BY <1>1, <2>1 DEF TypeOK
  <2>3. \A n \in DOMAIN commands : commands[n] \in Command /\ commands[n].revision \in Nat
    <3>1. \A n \in DOMAIN commands : commands[n] \in Command
      BY <2>2
    <3>2. \A d \in Command : d.revision \in Nat
      BY DEF Command
    <3> QED
      BY <3>1, <3>2
  <2>4. \A m, n \in DOMAIN commands' :
          commands'[m].kind = "redirect" /\ commands'[n].kind = "redirect" /\ m < n =>
            commands'[m].revision < commands'[n].revision
    BY <1>1, <2>1, <2>2, <2>3 DEF RevisionsGrow
  <2>5. \A n \in DOMAIN commands' :
          commands'[n].kind = "redirect" => commands'[n].revision <= accepted'
    BY <1>1, <2>1, <2>2, <2>3 DEF RevisionsGrow
  <2> QED
    BY <2>4, <2>5 DEF RevisionsGrow
<1> USE DEF control
<1>4. CASE Moves \/ Leaves \/ AcceptCommand \/ ApplyRedirect \/ Applied \/ Announced \/ Launched
  BY <1>1, <1>2, <1>4, MovesKeep, LeavesKeep, AcceptDoes, RedirectDoes, AppliedDoes, AnnounceDoes,
     LaunchDoes
<1>5. ASSUME NEW i \in Item, Finish(i) \/ ChildEnds(i) PROVE RevisionsGrow'
  BY <1>1, <1>2, <1>5, FinishDoes, EndsKeep
<1>6. CASE UNCHANGED vars
  BY <1>2, <1>6 DEF vars
<1> QED
  BY <1>3, <1>4, <1>5, <1>6, Steps

\* What a step that journals nothing, and takes the coroutine to a place where
\* nothing is applied or recorded, leaves of what is written.
LEMMA StillWritten ==
  ASSUME EInv, Live, journal' = journal, UNCHANGED <<commands, processed>>,
         main.step \notin {"plan", "apply"}, main'.step \notin {"boot", "record"},
         \A i \in Item : work'[i] = work[i]
  PROVE  Written'
<1>1. /\ <<>> \notin journal /\ <<"finished">> \notin journal /\ CommandsWritten /\ WorkWritten
  BY DEF EInv, Written
<1>2. CommandsWritten'
  BY <1>1 DEF CommandsWritten
<1>3. WorkWritten'
  BY <1>1 DEF WorkWritten, AtStep
<1> QED
  BY <1>1, <1>2, <1>3 DEF Written, AtStep

LEMMA EmptyIsNoKey ==
  ASSUME EInv, [Next]_vars
  PROVE  <<>> \notin journal'
<1>1. <<>> \notin journal /\ IInv
  BY DEF EInv, Written
<1>2. Journal /\ EventKey # <<>> => <<>> \notin journal'
  BY <1>1 DEF Journal
<1> USE DEF control, books
<1>3. CASE Boot \/ Recorded \/ RecoveryRecorded \/ AcceptCommand \/ Applied \/ Announced \/ Complete
  <2>1. Journal /\ main.step \in {"boot", "record", "recover", "accept", "apply", "announce", "final"}
    BY <1>3
       DEF Boot, Recorded, RecoveryRecorded, AcceptCommand, Applied, Announced, Complete, AtStep
  <2>2. EventKey # <<>>
    BY <2>1, KeyIs, KeysDiffer DEF AtStep
  <2> QED
    BY <1>2, <2>1, <2>2
<1>4. CASE Turn \/ WaitReturns \/ FinishedAll \/ PausedReturns \/ StartNext \/ Ensured \/ BlockedReturns
  BY <1>1, <1>4
     DEF Turn, WaitReturns, FinishedAll, PausedReturns, StartNext, Ensured, BlockedReturns
<1>5. CASE Cancelled \/ GiveUp \/ CancelRun
  BY <1>1, <1>2, <1>5 DEF Cancelled, GiveUp, CancelRun
<1>6. CASE Operator
  BY <1>1, <1>6, OperatorNumbers
<1>7. CASE ApplyRedirect \/ Launched
  BY <1>1, <1>7 DEF ApplyRedirect, Launched
<1>8. ASSUME NEW i \in Item, Finish(i) \/ ChildEnds(i) PROVE <<>> \notin journal'
  BY <1>1, <1>8 DEF Finish, ChildEnds
<1>9. CASE UNCHANGED vars
  BY <1>1, <1>9 DEF vars
<1> QED
  BY <1>3, <1>4, <1>5, <1>6, <1>7, <1>8, <1>9, Steps DEF Moves, Leaves

LEMMA StepWritten == EInv /\ [Next]_vars => Written'
<1> SUFFICES ASSUME EInv, [Next]_vars PROVE Written'
  OBVIOUS
<1>0. IInv /\ TypeOK /\ WorkAgrees /\ <<>> \notin journal'
  BY EmptyIsNoKey DEF EInv, IInv
<1>1. Live => /\ <<"finished">> \notin journal /\ CommandsWritten /\ WorkWritten
              /\ (<<"started">> \in journal => ~AtStep("boot"))
  BY DEF EInv, Written
<1>t. /\ processed \in Nat /\ \A i \in Item : work[i].attempt \in Nat
      /\ Len(commands) \in Nat
  BY <1>0 DEF TypeOK, WorkState
<1> USE DEF control, books
<1>2. CASE Boot
  <2>1. /\ Live /\ main.step = "boot" /\ main'.step = "top"
        /\ journal' = journal \cup {<<"started">>} /\ UNCHANGED <<commands, processed, work>>
    BY <1>2, KeyIs, Goes DEF Boot, AtStep, Live, Ended, Step, Journal
  <2>2. CommandsWritten'
    BY <1>1, <2>1, KeysDiffer DEF CommandsWritten
  <2>3. WorkWritten'
    BY <1>1, <2>1, KeysDiffer DEF WorkWritten, AtStep
  <2> QED
    BY <1>0, <1>1, <2>1, <2>2, <2>3, KeysDiffer DEF Written, AtStep
<1>3. CASE Turn \/ WaitReturns \/ FinishedAll \/ PausedReturns \/ StartNext \/ Ensured \/ BlockedReturns
  <2>1. journal' = journal /\ main.step \notin {"plan", "apply"}
    BY <1>3
       DEF Turn, WaitReturns, FinishedAll, PausedReturns, StartNext, Ensured, BlockedReturns, AtStep
  <2>2. /\ Live /\ UNCHANGED <<commands, processed, work>> /\ main'.step # "record"
    BY <1>0, <1>3, MovesKeep DEF Moves, Live
  <2>3. main'.step # "boot"
    <3>1. main.queue \in SUBSET Item /\ FirstQueued \in SUBSET Item /\ main.item \in Item \cup {0}
            /\ {i \in active : child[i].state # "running"} \in SUBSET Item
      BY <1>0 DEF TypeOK, FirstQueued, Queued
    <3> QED
      BY <1>3, <3>1, Goes
         DEF Turn, WaitReturns, FinishedAll, PausedReturns, StartNext, Ensured, BlockedReturns, Step
  <2> QED
    BY <2>1, <2>2, <2>3, StillWritten
<1>4. CASE Recorded
  <2>1. /\ Live /\ main.step = "record" /\ main'.step = "finish"
        /\ journal' = journal \cup {<<"work", main.item, results[main.item].attempt,
                                      results[main.item].status>>}
        /\ UNCHANGED <<commands, processed, work>>
    <3>1. main.queue \in SUBSET Item
      BY <1>0 DEF TypeOK
    <3> QED
      BY <1>4, <3>1, KeyIs, Goes DEF Recorded, AtStep, Live, Ended, Step, Journal
  <2>2. /\ main.item \in Item /\ results[main.item].attempt = work[main.item].attempt
        /\ results[main.item].status \in {"completed", "failed"}
        /\ work[main.item].status # "running"
    BY <1>0, <2>1, RecordPlace DEF AtStep
  <2>3. CommandsWritten'
    BY <1>1, <2>1, KeysDiffer DEF CommandsWritten
  <2>4. WorkWritten'
    <3>1. \A i, a : <<"work", i, a, "started">> \in journal' => <<"work", i, a, "started">> \in journal
      BY <2>1, <2>2, KeysDiffer
    <3>2. \A i, a, s : <<"work", i, a, s>> \in journal' =>
            \/ <<"work", i, a, s>> \in journal
            \/ i = main.item /\ a = work[main.item].attempt
      BY <2>1, <2>2, KeysDiffer
    <3> QED
      BY <1>1, <1>t, <2>1, <2>2, <3>1, <3>2 DEF WorkWritten, AtStep
  <2> QED
    BY <1>0, <1>1, <2>1, <2>3, <2>4, KeysDiffer DEF Written, AtStep
<1>5. CASE RecoveryRecorded
  <2>1. /\ Live /\ main.step = "recover" /\ main'.step = "blocked"
        /\ \E S : journal' = journal \cup {<<"recovery", S>>}
        /\ UNCHANGED <<commands, processed, work>>
    BY <1>5, KeyIs, Goes DEF RecoveryRecorded, AtStep, Live, Ended, Step, Journal
  <2>2. CommandsWritten'
    BY <1>1, <2>1, KeysDiffer DEF CommandsWritten
  <2>3. WorkWritten'
    BY <1>1, <2>1, KeysDiffer DEF WorkWritten, AtStep
  <2> QED
    BY <1>0, <1>1, <2>1, <2>2, <2>3, KeysDiffer DEF Written, AtStep
<1>6. CASE Leaves
  BY <1>0, <1>6, LeavesKeep DEF Written, Live
<1>7. CASE Operator
  <2>1. Live' => Live
    BY <1>0, <1>7, OperatorKeeps DEF Live
  <2>2. UNCHANGED <<main, processed, work, journal>>
    BY <1>0, <1>7, OperatorKeeps
  <2>3. PICK c \in Command : commands' = Append(commands, c)
    BY <1>0, <1>7, OperatorKeeps
  <2>4. \A n \in DOMAIN commands : n \in DOMAIN commands' /\ commands'[n] = commands[n]
    BY <1>0, <2>3 DEF TypeOK
  <2>5. Live => CommandsWritten'
    BY <1>1, <2>2, <2>4 DEF CommandsWritten
  <2>6. Live => WorkWritten'
    BY <1>1, <2>2 DEF WorkWritten, AtStep
  <2> QED
    BY <1>0, <1>1, <2>1, <2>2, <2>5, <2>6 DEF Written, AtStep
<1>8. CASE AcceptCommand
  <2>1. /\ Live /\ main.step = "accept" /\ main'.step \in {"plan", "apply"}
        /\ UNCHANGED <<commands, processed>>
    BY <1>0, <1>8, AcceptDoes DEF Live, AtStep, Ended
  <2>2. journal' = journal \cup {<<"accepted", processed + 1>>}
    BY <1>8, KeyIs DEF AcceptCommand, Journal
  <2>3. \A i \in Item : /\ work'[i].attempt = work[i].attempt
                        /\ work'[i].status = work[i].status \/ work'[i].status = "pending"
    BY <1>0, <1>8, AcceptDoes DEF TypeOK, Pending
  <2>4. CommandsWritten'
    BY <1>1, <1>t, <2>1, <2>2, KeysDiffer DEF CommandsWritten
  <2>5. WorkWritten'
    <3>1. \A i, a, s : <<"work", i, a, s>> \in journal' => <<"work", i, a, s>> \in journal
      BY <2>2, KeysDiffer
    <3> QED
      BY <1>1, <2>1, <2>3, <3>1 DEF WorkWritten, AtStep
  <2> QED
    BY <1>0, <1>1, <2>1, <2>2, <2>4, <2>5, KeysDiffer DEF Written, AtStep
<1>9. CASE ApplyRedirect
  <2>1. /\ Live /\ main.step = "plan" /\ main'.step = "apply" /\ journal' = journal
        /\ UNCHANGED <<commands, processed>>
    BY <1>0, <1>9, RedirectDoes DEF Live, AtStep, Ended
  <2>2. \A i \in Item : /\ work'[i].attempt = work[i].attempt
                        /\ work'[i].status = work[i].status \/ work'[i].status = "pending"
    BY <1>0, <1>9, RedirectDoes DEF TypeOK, Pending
  <2>3. CommandsWritten'
    BY <1>1, <2>1 DEF CommandsWritten
  <2>4. WorkWritten'
    BY <1>1, <2>1, <2>2 DEF WorkWritten, AtStep
  <2> QED
    BY <1>0, <1>1, <2>1, <2>3, <2>4 DEF Written, AtStep
<1>10. CASE Applied
  <2>1. /\ Live /\ main.step = "apply" /\ main'.step = "top" /\ processed' = processed + 1
        /\ UNCHANGED <<commands, work>> /\ processed + 1 \in DOMAIN commands
    BY <1>0, <1>10, AppliedDoes, CommandType DEF Live, AtStep, Ended
  <2>2. \/ command.kind = "redirect" /\ journal' = journal \cup {<<"redirect", command.revision>>}
        \/ command.kind # "redirect" /\ journal' = journal \cup {<<"applied", processed + 1>>}
    BY <1>10, KeyIs DEF Applied, Journal
  <2>3. CommandsWritten'
    <3>1. \A n : <<"accepted", n>> \in journal' => <<"accepted", n>> \in journal
      BY <2>2, KeysDiffer
    <3>2. \A n : <<"applied", n>> \in journal' => <<"applied", n>> \in journal \/ n = processed + 1
      BY <2>2, KeysDiffer
    <3>3. \A r : <<"redirect", r>> \in journal' =>
            \/ <<"redirect", r>> \in journal
            \/ command.kind = "redirect" /\ r = command.revision
      BY <2>2, KeysDiffer
    <3>4. ASSUME NEW n, <<"accepted", n>> \in journal'
          PROVE  n \in Nat /\ n <= processed' + 1 /\ (n = processed' + 1 => main'.step \in {"plan", "apply"})
      BY <1>1, <1>t, <2>1, <3>1, <3>4 DEF CommandsWritten
    <3>5. ASSUME NEW n, <<"applied", n>> \in journal' PROVE n \in Nat /\ n <= processed'
      BY <1>1, <1>t, <2>1, <3>2, <3>5 DEF CommandsWritten
    <3>6. ASSUME NEW r, <<"redirect", r>> \in journal'
          PROVE  \E n \in DOMAIN commands :
                   n <= processed' /\ commands[n].kind = "redirect" /\ commands[n].revision = r
      <4>1. CASE <<"redirect", r>> \in journal
        <5>1. PICK n \in DOMAIN commands :
                n <= processed /\ commands[n].kind = "redirect" /\ commands[n].revision = r
          BY <1>1, <2>1, <4>1 DEF CommandsWritten
        <5>2. n <= processed'
          BY <1>0, <1>t, <2>1, <5>1 DEF TypeOK
        <5> QED
          BY <5>1, <5>2
      <4>2. CASE command.kind = "redirect" /\ r = command.revision
        BY <1>t, <2>1, <4>2 DEF command
      <4> QED
        BY <3>3, <3>6, <4>1, <4>2
    <3> QED
      BY <2>1, <3>4, <3>5, <3>6 DEF CommandsWritten
  <2>4. WorkWritten'
    <3>1. \A i, a, s : <<"work", i, a, s>> \in journal' => <<"work", i, a, s>> \in journal
      BY <2>2, KeysDiffer
    <3> QED
      BY <1>1, <2>1, <3>1 DEF WorkWritten, AtStep
  <2>5. <<"finished">> \notin journal'
    BY <1>1, <2>1, <2>2, KeysDiffer
  <2> QED
    BY <1>0, <2>1, <2>3, <2>4, <2>5 DEF Written, AtStep
<1>11. ASSUME NEW i \in Item, Finish(i) PROVE Written'
  <2>1. /\ Live /\ main.step = "finish" /\ main'.step \in {"finish", "record"} /\ journal' = journal
        /\ UNCHANGED <<commands, processed>> /\ i \in active
        /\ main'.step = "record" => main'.item = i
    BY <1>0, <1>11, FinishDoes DEF Live, AtStep, Ended
  <2>2. work[i].status = "running" /\ child[i].attempt = work[i].attempt
    BY <1>0, <2>1 DEF WorkAgrees, Live, AtStep
  <2>3. /\ \A j \in Item : work'[j].attempt = work[j].attempt
        /\ \A j \in Item \ {i} : work'[j].status = work[j].status
    BY <1>0, <1>11, <2>2, FinishDoes DEF TypeOK, Pending
  <2>4. CommandsWritten'
    BY <1>1, <2>1 DEF CommandsWritten
  <2>5. WorkWritten'
    BY <1>1, <2>1, <2>2, <2>3 DEF WorkWritten, AtStep
  <2> QED
    BY <1>0, <1>1, <2>1, <2>4, <2>5 DEF Written, AtStep
<1>12. CASE Announced
  <2>1. /\ Live /\ main.step = "announce" /\ main'.step = "launch" /\ main.item \in Item
        /\ UNCHANGED <<commands, processed>>
    BY <1>0, <1>12, AnnounceDoes DEF Live, AtStep, Ended
  <2>2. journal' = journal \cup {<<"work", main.item, work[main.item].attempt + 1, "started">>}
    BY <1>12, KeyIs DEF Announced, Journal
  <2>3. /\ work'[main.item].attempt = work[main.item].attempt + 1
        /\ \A j \in Item \ {main.item} : work'[j] = work[j]
    BY <1>0, <1>12, <2>1, AnnounceDoes DEF TypeOK
  <2>4. CommandsWritten'
    BY <1>1, <2>1, <2>2, KeysDiffer DEF CommandsWritten
  <2>5. WorkWritten'
    <3>1. \A i, a : <<"work", i, a, "started">> \in journal' =>
            \/ <<"work", i, a, "started">> \in journal
            \/ i = main.item /\ a = work[main.item].attempt + 1
      BY <2>2, KeysDiffer
    <3>2. \A i, a : /\ <<"work", i, a, "completed">> \in journal' =>
                         <<"work", i, a, "completed">> \in journal
                    /\ <<"work", i, a, "failed">> \in journal' => <<"work", i, a, "failed">> \in journal
      BY <2>2, KeysDiffer
    <3>3. \A i \in Item : \A a : <<"work", i, a, "started">> \in journal' => a \in Nat /\ a <= work'[i].attempt
      BY <1>1, <1>t, <2>1, <2>3, <3>1 DEF WorkWritten
    <3>4. ASSUME NEW i \in Item, NEW a,
                 <<"work", i, a, "completed">> \in journal' \/ <<"work", i, a, "failed">> \in journal'
          PROVE  /\ a \in Nat /\ a <= work'[i].attempt
                 /\ a = work'[i].attempt => i # main.item /\ work[i].status # "running"
      BY <1>1, <1>t, <2>1, <2>3, <3>2, <3>4 DEF WorkWritten
    <3> QED
      BY <2>1, <2>3, <3>3, <3>4 DEF WorkWritten, AtStep
  <2> QED
    BY <1>0, <1>1, <2>1, <2>2, <2>4, <2>5, KeysDiffer DEF Written, AtStep
<1>13. CASE Launched
  <2>1. /\ Live /\ main.step = "launch" /\ main'.step = "start" /\ journal' = journal
        /\ UNCHANGED <<commands, processed, work>>
    BY <1>0, <1>13, LaunchDoes DEF Live, AtStep, Ended
  <2> QED
    BY <2>1, StillWritten
<1>14. ASSUME UNCHANGED <<main, commands, processed, work, journal>> PROVE Written'
  <2>1. Live => CommandsWritten' /\ WorkWritten'
    BY <1>1, <1>14 DEF CommandsWritten, WorkWritten, AtStep
  <2> QED
    BY <1>0, <1>1, <1>14, <2>1 DEF Written, Live, AtStep
<1>15. ASSUME NEW i \in Item, ChildEnds(i) PROVE Written'
  BY <1>0, <1>14, <1>15, EndsKeep
<1>16. CASE UNCHANGED vars
  BY <1>14, <1>16 DEF vars
<1> QED
  BY <1>2, <1>3, <1>4, <1>5, <1>6, <1>7, <1>8, <1>9, <1>10, <1>11, <1>12, <1>13, <1>15, <1>16, Steps
     DEF Moves

\* No event is swallowed: the event about to be appended has a key that the
\* journal has not seen (the keys of _append_event over a whole run).
THEOREM NothingSwallowed == Spec => []EventsFresh
<1>1. Init => EInv
  <2>1. Init => RevisionsGrow /\ Written
    BY DEF Init, RevisionsGrow, Written, CommandsWritten, WorkWritten
  <2> QED
    BY <2>1, Initially DEF EInv
<1>2. EInv /\ [Next]_vars => EInv'
  <2>1. EInv /\ [Next]_vars => IInv'
    BY StepTypes, StepPlaces, StepBooks, StepRetries, StepAgrees, StepPause DEF EInv, IInv
  <2> QED
    BY <2>1, StepNumbers, StepWritten DEF EInv
<1> QED
  BY <1>1, <1>2, Fresh, PTL DEF Spec

=============================================================================
