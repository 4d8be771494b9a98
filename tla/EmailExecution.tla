--------------------------- MODULE EmailExecution ---------------------------
(***************************************************************************)
(* The email sink: EmailExecutionService (email/service.py) over the       *)
(* compare-and-set outcome store (email/store.py, email/postgres.py) and   *)
(* the two provider adapters (email/resend.py on email/http_transport.py,  *)
(* and the deterministic fake of email/providers.py).                      *)
(*                                                                         *)
(* A worker is one call of execute or reconcile.  Every await of the       *)
(* service ends a step: other workers run in between, the clock advances,  *)
(* and the process may die.  A request that left the process lives on in   *)
(* the network when its worker gives up or dies.                           *)
(***************************************************************************)
EXTENDS Naturals, Sequences

CONSTANTS
  Intent,        \* authorized actions (action_intents)
  Worker,        \* concurrent calls of execute and reconcile
  Window,        \* the provider's idempotency window
  MaxAttempts,   \* bound on the dispatch attempts of one intent
  MaxCrashes,    \* bound on the processes that die
  MaxTime,       \* bound on the clock
  None           \* no worker task, no accepted request

ASSUME EmailAssumption ==
  /\ Window \in Nat \ {0}
  /\ MaxAttempts \in Nat /\ MaxCrashes \in Nat /\ MaxTime \in Nat

Outcome ==
  {"approved", "dispatching", "confirmed", "failed_before_effect",
   "outcome_unknown", "reconciling", "safe_to_retry", "needs_operator"}

Task ==
  [step : {"claim", "send", "await", "record", "reclaim", "reconcile", "conclude"},
   intent : Intent,
   state : Outcome,          \* the outcome it read, or the one it will record
   controlled : BOOLEAN,     \* the approved recipient is the controlled one now
   request : {"none", "flying", "applied", "rejected"},
   reference : BOOLEAN]      \* the provider gave a message id

VARIABLES
  adapter,       \* settings.email_provider
  outcome,       \* action_outcomes.state, "absent" before the broker's commit
  audit,         \* action_outcomes.audit_events: the states entered so far
  reference,     \* action_outcomes.provider_reference is set
  authorizedAt,  \* action_intents.created_at
  worker,
  accepted,      \* when the provider last stored the idempotency key, or None
  delivered,     \* emails the provider sent for the intent
  stray,         \* requests in the network nobody waits for any more
  crashes,
  clock

ledger   == <<outcome, audit, reference, authorizedAt>>
provider == <<accepted, delivered, stray>>
vars     == <<adapter, outcome, audit, reference, authorizedAt, worker, accepted,
              delivered, stray, crashes, clock>>

Entered(i, state) == \E n \in 1..Len(audit[i]) : audit[i][n] = state
Attempts(i) == Len(SelectSeq(audit[i], LAMBDA state : state = "dispatching"))

TypeOK ==
  /\ adapter \in {"fake", "resend"}
  /\ outcome \in [Intent -> Outcome \cup {"absent"}]
  /\ audit \in [Intent -> Seq(Outcome)]
  /\ reference \in [Intent -> BOOLEAN]
  /\ authorizedAt \in [Intent -> Nat]
  /\ worker \in [Worker -> Task \cup {None}]
  /\ accepted \in [Intent -> Nat \cup {None}]
  /\ delivered \in [Intent -> Nat]
  /\ stray \in [Intent -> Nat]
  /\ crashes \in Nat
  /\ clock \in Nat

Init ==
  /\ adapter \in {"fake", "resend"}
  /\ outcome = [i \in Intent |-> "absent"]
  /\ audit = [i \in Intent |-> <<>>]
  /\ reference = [i \in Intent |-> FALSE]
  /\ authorizedAt = [i \in Intent |-> 0]
  /\ worker = [w \in Worker |-> None]
  /\ accepted = [i \in Intent |-> None]
  /\ delivered = [i \in Intent |-> 0]
  /\ stray = [i \in Intent |-> 0]
  /\ crashes = 0
  /\ clock = 0

-----------------------------------------------------------------------------
(* The store.                                                              *)

\* transition: compare, set, append the audit event, keep or set the reference.
Transition(i, next, hasReference) ==
  /\ outcome' = [outcome EXCEPT ![i] = next]
  /\ audit' = [audit EXCEPT ![i] = Append(@, next)]
  /\ reference' = [reference EXCEPT ![i] = @ \/ hasReference]
  /\ UNCHANGED authorizedAt

\* Slip: the row starts where a fresh OutcomeMachine starts.
MachineDefault == "prepared"
InitialOutcome == "approved"

\* The broker's commit inserts the outcome row with the intent.
Authorize(i) ==
  /\ outcome[i] = "absent"
  /\ outcome' = [outcome EXCEPT ![i] = InitialOutcome]
  /\ audit' = [audit EXCEPT ![i] = <<InitialOutcome>>]
  /\ authorizedAt' = [authorizedAt EXCEPT ![i] = clock]
  /\ UNCHANGED <<adapter, reference, worker, provider, crashes, clock>>

Advance(w, task) == worker' = [worker EXCEPT ![w] = task]
Return(w) == Advance(w, None)

-----------------------------------------------------------------------------
(* execute.                                                                *)

Executable == {"approved", "failed_before_effect", "safe_to_retry"}

\* ensure_authorized reads the row; any other state is returned as it is.
Execute(w, i, controlled) ==
  /\ worker[w] = None
  /\ outcome[i] \in Executable
  /\ Advance(w, [step |-> "claim", intent |-> i, state |-> outcome[i],
                 controlled |-> controlled, request |-> "none", reference |-> FALSE])
  /\ UNCHANGED <<adapter, ledger, provider, crashes, clock>>

\* Slip: the update is made without WHERE state = expected.
ClaimableAfterRead(t) == outcome[t.intent] \in Outcome
Claimable(t) == outcome[t.intent] = t.state

Claim(w) ==
  /\ worker[w] # None /\ worker[w].step = "claim"
  /\ LET t == worker[w] IN
       IF Claimable(t)
       THEN /\ Attempts(t.intent) < MaxAttempts
            /\ Transition(t.intent, "dispatching", FALSE)
            /\ Advance(w, [t EXCEPT !.step = "send", !.state = "dispatching"])
       ELSE Return(w) /\ UNCHANGED ledger   \* ExecutionStateConflict
  /\ UNCHANGED <<adapter, provider, crashes, clock>>

\* Slip: the error is raised and the claimed outcome is left as it is.
RefusalUnrecorded(w) == Return(w) /\ UNCHANGED ledger
Refusal(w) ==
  /\ Transition(worker[w].intent, "failed_before_effect", FALSE)
  /\ Return(w)

RefuseRecipient(w) ==
  /\ worker[w] # None /\ worker[w].step = "send" /\ ~worker[w].controlled
  /\ Refusal(w)
  /\ UNCHANGED <<adapter, provider, crashes, clock>>

Sending(w) == worker[w] # None /\ worker[w].step = "send" /\ worker[w].controlled

\* HttpResendTransport: URLError, the connection was never made (NOT_APPLIED).
SendFails(w) ==
  /\ Sending(w) /\ adapter = "resend"
  /\ Advance(w, [worker[w] EXCEPT !.step = "record", !.state = "failed_before_effect"])
  /\ UNCHANGED <<adapter, ledger, provider, crashes, clock>>

Send(w) ==
  /\ Sending(w) /\ adapter = "resend"
  /\ Advance(w, [worker[w] EXCEPT !.step = "await", !.request = "flying"])
  /\ UNCHANGED <<adapter, ledger, provider, crashes, clock>>

\* The provider answers a key it stored less than a window ago with the
\* message it already sent; otherwise it sends one and stores the key.
Accept(i) ==
  IF accepted[i] # None /\ clock - accepted[i] < Window
  THEN UNCHANGED <<accepted, delivered>>
  ELSE /\ accepted' = [accepted EXCEPT ![i] = clock]
       /\ delivered' = [delivered EXCEPT ![i] = @ + 1]

ProviderHandles(w) ==
  /\ worker[w] # None /\ worker[w].request = "flying"
  /\ \/ Accept(worker[w].intent) /\ Advance(w, [worker[w] EXCEPT !.request = "applied"])
     \/ /\ Advance(w, [worker[w] EXCEPT !.request = "rejected"])
        /\ UNCHANGED <<accepted, delivered>>
  /\ UNCHANGED <<adapter, ledger, stray, crashes, clock>>

ProviderHandlesStray(i) ==
  /\ stray[i] > 0
  /\ stray' = [stray EXCEPT ![i] = @ - 1]
  /\ Accept(i) \/ UNCHANGED <<accepted, delivered>>
  /\ UNCHANGED <<adapter, ledger, worker, crashes, clock>>

\* What a dispatch is answered: 2xx with a message id, 4xx, or ambiguous (2xx
\* without a usable id, 5xx, a read timeout, a connection lost).
\* Slip: a lost answer is reported like a refused connection.
LostAnswerIsFailure(request) ==
  CASE request = "applied"  -> {"confirmed", "failed_before_effect"}
    [] request = "rejected" -> {"failed_before_effect"}
    [] request = "flying"   -> {"failed_before_effect"}
DispatchAnswers(request) ==
  CASE request = "applied"  -> {"confirmed", "outcome_unknown"}
    [] request = "rejected" -> {"failed_before_effect", "outcome_unknown"}
    [] request = "flying"   -> {"outcome_unknown"}

Abandoned(w) ==
  stray' = IF worker[w].request = "flying"
           THEN [stray EXCEPT ![worker[w].intent] = @ + 1] ELSE stray

DispatchAnswered(w) ==
  /\ worker[w] # None /\ worker[w].step = "await"
  /\ \E answer \in DispatchAnswers(worker[w].request) :
       Advance(w, [worker[w] EXCEPT !.step = "record", !.state = answer,
                                    !.request = "none",
                                    !.reference = answer = "confirmed"])
  /\ Abandoned(w)
  /\ UNCHANGED <<adapter, ledger, accepted, delivered, crashes, clock>>

\* The fake answers at once, from its receipts or else from its script; an
\* ambiguous-confirmed answer carries the message id.
FakeDispatch(w) ==
  /\ Sending(w) /\ adapter = "fake"
  /\ LET i == worker[w].intent
         Answer(state, id) == Advance(w, [worker[w] EXCEPT !.step = "record",
                                          !.state = state, !.reference = id])
     IN \/ /\ accepted[i] # None
           /\ Answer("confirmed", TRUE)
           /\ UNCHANGED <<accepted, delivered>>
        \/ /\ accepted[i] = None
           /\ \/ Answer("confirmed", TRUE) \/ Answer("outcome_unknown", TRUE)
           /\ Accept(i)
        \/ /\ accepted[i] = None
           /\ Answer("failed_before_effect", FALSE) \/ Answer("outcome_unknown", FALSE)
           /\ UNCHANGED <<accepted, delivered>>
  /\ UNCHANGED <<adapter, ledger, stray, crashes, clock>>

\* Both kinds of episode end by recording what the provider answered; a
\* conflict raises and records nothing.
RecordFrom(w, step, expected) ==
  /\ worker[w] # None /\ worker[w].step = step
  /\ LET t == worker[w] IN
       IF outcome[t.intent] = expected
       THEN Transition(t.intent, t.state, t.reference)
       ELSE UNCHANGED ledger
  /\ Return(w)
  /\ UNCHANGED <<adapter, provider, crashes, clock>>

RecordDispatch(w) == RecordFrom(w, "record", "dispatching")

-----------------------------------------------------------------------------
(* reconcile.                                                              *)

Reconcile(w, i) ==
  /\ worker[w] = None
  /\ outcome[i] = "outcome_unknown"
  /\ Advance(w, [step |-> "reclaim", intent |-> i, state |-> "outcome_unknown",
                 controlled |-> TRUE, request |-> "none", reference |-> FALSE])
  /\ UNCHANGED <<adapter, ledger, provider, crashes, clock>>

ClaimReconciliation(w) ==
  /\ worker[w] # None /\ worker[w].step = "reclaim"
  /\ LET t == worker[w] IN
       IF outcome[t.intent] = "outcome_unknown"
       THEN /\ Transition(t.intent, "reconciling", FALSE)
            /\ Advance(w, [t EXCEPT !.step = "reconcile", !.state = "reconciling"])
       ELSE Return(w) /\ UNCHANGED ledger
  /\ UNCHANGED <<adapter, provider, crashes, clock>>

\* Resend looks a message id up; without one it goes by the age of the intent.
\* Slip: inside the window the replay is taken for delivered.
WindowMeansDelivered(i) ==
  IF clock - authorizedAt[i] < Window THEN {"confirmed"} ELSE {"needs_operator"}
ResendAnswers(i) ==
  CASE reference[i] -> {"confirmed", "needs_operator"}
    [] ~reference[i] /\ clock - authorizedAt[i] < Window -> {"safe_to_retry"}
    [] ~reference[i] /\ clock - authorizedAt[i] >= Window -> {"needs_operator"}

\* The fake knows its receipts, and else answers by its script.
FakeAnswers(i) ==
  IF accepted[i] # None THEN {"confirmed"} ELSE {"safe_to_retry", "needs_operator"}

ReconcileAnswers(i) == IF adapter = "resend" THEN ResendAnswers(i) ELSE FakeAnswers(i)

ReconcileAnswered(w) ==
  /\ worker[w] # None /\ worker[w].step = "reconcile"
  /\ \E answer \in ReconcileAnswers(worker[w].intent) :
       Advance(w, [worker[w] EXCEPT !.step = "conclude", !.state = answer,
                                    !.reference = answer = "confirmed"])
  /\ UNCHANGED <<adapter, ledger, provider, crashes, clock>>

RecordReconciliation(w) == RecordFrom(w, "conclude", "reconciling")

-----------------------------------------------------------------------------
\* The process dies, or the call is cancelled: nothing catches it.
Crash(w) ==
  /\ worker[w] # None
  /\ crashes < MaxCrashes
  /\ crashes' = crashes + 1
  /\ Return(w)
  /\ Abandoned(w)
  /\ UNCHANGED <<adapter, ledger, accepted, delivered, clock>>

Tick ==
  /\ clock < MaxTime
  /\ clock' = clock + 1
  /\ UNCHANGED <<adapter, ledger, worker, provider, crashes>>

\* What a running call does by itself.
Progress(w) ==
  \/ Claim(w) \/ RefuseRecipient(w) \/ SendFails(w) \/ Send(w) \/ DispatchAnswered(w)
  \/ FakeDispatch(w) \/ RecordDispatch(w)
  \/ ClaimReconciliation(w) \/ ReconcileAnswered(w) \/ RecordReconciliation(w)

Next ==
  \/ \E i \in Intent : Authorize(i) \/ ProviderHandlesStray(i)
  \/ \E w \in Worker, i \in Intent, controlled \in BOOLEAN : Execute(w, i, controlled)
  \/ \E w \in Worker, i \in Intent : Reconcile(w, i)
  \/ \E w \in Worker : Progress(w) \/ ProviderHandles(w) \/ Crash(w)
  \/ Tick

Spec == Init /\ [][Next]_vars

\* A call that runs goes on: each of its awaits returns or times out (the
\* transport has a timeout).  Nobody is obliged to call, to die or to tick.
FairSpec == Spec /\ \A w \in Worker : WF_vars(Progress(w))

-----------------------------------------------------------------------------
(* Properties.                                                             *)

Dispatches(w, i) ==
  worker[w] # None /\ worker[w].intent = i /\ worker[w].step \in {"send", "await", "record"}
Reconciles(w, i) ==
  worker[w] # None /\ worker[w].intent = i /\ worker[w].step \in {"reconcile", "conclude"}

\* Between its claim and its record a worker has the intent to itself: no other
\* worker calls the provider for it, and nobody moves the outcome under it, so
\* the conflict at the record step cannot happen (email-execution.md:21-23).
OneOwner ==
  \A i \in Intent, w \in Worker :
    /\ Dispatches(w, i) => outcome[i] = "dispatching"
    /\ Reconciles(w, i) => outcome[i] = "reconciling"
    /\ \A v \in Worker : (Dispatches(w, i) \/ Reconciles(w, i))
                           /\ (Dispatches(v, i) \/ Reconciles(v, i)) => v = w

\* The audit trail accounts for every email: one that was sent, or may still
\* be, belongs to an intent that is being dispatched, or whose trail shows a
\* confirmation or an ambiguous outcome.  A trail of clean failures alone means
\* that nobody was written to.
EffectsAudited ==
  \A i \in Intent :
    \/ delivered[i] > 0 \/ stray[i] > 0
    \/ \E w \in Worker : worker[w] # None /\ worker[w].intent = i
                                          /\ worker[w].request # "none"
    => outcome[i] = "dispatching" \/ Entered(i, "confirmed") \/ Entered(i, "outcome_unknown")

\* The service, its workers and the network implement the external-effect
\* contract of ExternalEffect.
Phase(i) ==
  CASE outcome[i] = "absent"          -> "absent"
    [] outcome[i] \in Executable      -> "ready"
    [] outcome[i] = "dispatching"     -> "open"
    [] outcome[i] = "outcome_unknown" -> "ambiguous"
    [] outcome[i] = "reconciling"     -> "examined"
    [] outcome[i] = "confirmed"       -> "confirmed"
    [] outcome[i] = "needs_operator"  -> "operator"

Contract == INSTANCE ExternalEffect WITH
  phase  <- [i \in Intent |-> Phase(i)],
  maybe  <- [i \in Intent |-> Entered(i, "outcome_unknown")],
  effect <- [i \in Intent |-> delivered[i] > 0]

ImplementsContract == Contract!Spec

\* As long as no process dies, a claimed dispatch and a claimed reconciliation
\* always reach a recorded outcome.
ClaimsResolve ==
  [](crashes = 0) =>
    \A i \in Intent : outcome[i] \in {"dispatching", "reconciling"}
                        ~> outcome[i] \notin {"dispatching", "reconciling"}
=============================================================================
