------------------------ MODULE EmailExecutionProofs ------------------------
(***************************************************************************)
(* Of the email sink, for any number of intents, workers, attempts and     *)
(* crashes: a claim is exclusive, the audit trail accounts for every email *)
(* that was or may be sent, and the service, its store and the network     *)
(* implement the contract of an external effect.                           *)
(*                                                                         *)
(* As long as no attempt was declared ambiguous, an email can only come    *)
(* from the attempt under way, and whoever runs that attempt knows: it has *)
(* heard of the email, or it cannot tell.  A request that lives on without *)
(* its worker belongs to an attempt that can only be declared ambiguous,   *)
(* or whose worker is dead.                                                *)
(***************************************************************************)
EXTENDS EmailExecution, Integers, TLAPS

\* The trail begins with the row and ends with its state.
Trails ==
  \A i \in Intent : IF outcome[i] = "absent" THEN audit[i] = <<>>
                    ELSE Entered(i, outcome[i])

\* What a call holds at the await where it is.
Shape(t) ==
  /\ t.step = "claim" => t.state \in Executable
  /\ t.request # "none" <=> t.step = "await"
  /\ t.step = "record" => t.state \in {"confirmed", "failed_before_effect", "outcome_unknown"}
  /\ t.step = "conclude" => t.state \in {"confirmed", "needs_operator", "safe_to_retry"}
  /\ t.step \notin {"record", "conclude"} => t.state # "confirmed" /\ ~t.reference

Shapes == \A w \in Worker : worker[w] # None => Shape(worker[w])

\* A message id, a stored key or a confirmation is that of an email.
Backed ==
  /\ \A i \in Intent : accepted[i] # None \/ reference[i] => delivered[i] > 0
  /\ \A w \in Worker :
       /\ worker[w] # None
       /\ worker[w].reference \/ worker[w].state = "confirmed" \/ worker[w].request = "applied"
       => delivered[worker[w].intent] > 0

\* Its worker knows of an email, or cannot tell.
Told(t) ==
  \/ t.step = "await" /\ t.request = "applied"
  \/ t.step = "record" /\ t.state \in {"confirmed", "outcome_unknown"}

CannotTell(t) == t.step = "record" /\ t.state = "outcome_unknown"

Unambiguous ==
  \A i \in Intent : ~Entered(i, "outcome_unknown") =>
    /\ delivered[i] > 0 =>
         /\ outcome[i] \in {"dispatching", "confirmed"}
         /\ \A w \in Worker : Dispatches(w, i) => Told(worker[w])
    /\ stray[i] > 0 =>
         /\ outcome[i] = "dispatching"
         /\ \A w \in Worker : Dispatches(w, i) => CannotTell(worker[w])

IInv == TypeOK /\ Trails /\ Shapes /\ OneOwner /\ Backed /\ Unambiguous

-----------------------------------------------------------------------------
(* The trail.                                                              *)

LEMMA SameTrail ==
  ASSUME audit' = audit
  PROVE  \A i, s : Entered(i, s)' <=> Entered(i, s)
BY DEF Entered

LEMMA LongerTrail ==
  ASSUME audit \in [Intent -> Seq(Outcome)], NEW i \in Intent, NEW next \in Outcome,
         audit' = [audit EXCEPT ![i] = Append(@, next)]
  PROVE  /\ audit' \in [Intent -> Seq(Outcome)]
         /\ \A j \in Intent : \A s : Entered(j, s)' <=> Entered(j, s) \/ (j = i /\ s = next)
<1>1. audit[i] \in Seq(Outcome) /\ audit'[i] = Append(audit[i], next)
  OBVIOUS
<1>2. /\ Len(audit'[i]) = Len(audit[i]) + 1 /\ Len(audit[i]) \in Nat
      /\ audit'[i][Len(audit[i]) + 1] = next
      /\ \A n \in 1..Len(audit[i]) : audit'[i][n] = audit[i][n]
  BY <1>1
<1>3. \A s : Entered(i, s)' <=> Entered(i, s) \/ s = next
  BY <1>2 DEF Entered
<1>4. \A j \in Intent : j # i => audit'[j] = audit[j]
  OBVIOUS
<1> QED
  BY <1>3, <1>4, <1>1 DEF Entered

LEMMA TransitionMoves ==
  ASSUME TypeOK, Trails, NEW i \in Intent, NEW next \in Outcome, NEW hasReference \in BOOLEAN,
         outcome[i] # "absent", Transition(i, next, hasReference)
  PROVE  /\ outcome' \in [Intent -> Outcome \cup {"absent"}]
         /\ audit' \in [Intent -> Seq(Outcome)]
         /\ reference' \in [Intent -> BOOLEAN]
         /\ authorizedAt' \in [Intent -> Nat]
         /\ outcome'[i] = next
         /\ \A j \in Intent : j # i => outcome'[j] = outcome[j] /\ reference'[j] = reference[j]
         /\ reference'[i] <=> reference[i] \/ hasReference
         /\ \A j \in Intent : \A s : Entered(j, s)' <=> Entered(j, s) \/ (j = i /\ s = next)
         /\ Trails'
<1>1. /\ outcome' \in [Intent -> Outcome \cup {"absent"}]
      /\ outcome'[i] = next
      /\ \A j \in Intent : j # i => outcome'[j] = outcome[j] /\ audit'[j] = audit[j]
  BY DEF TypeOK, Transition
<1>2. /\ reference' \in [Intent -> BOOLEAN]
      /\ authorizedAt' \in [Intent -> Nat]
      /\ \A j \in Intent : j # i => reference'[j] = reference[j]
      /\ reference'[i] <=> reference[i] \/ hasReference
  BY DEF TypeOK, Transition
<1>3. /\ audit' \in [Intent -> Seq(Outcome)]
      /\ \A j \in Intent : \A s : Entered(j, s)' <=> Entered(j, s) \/ (j = i /\ s = next)
  BY LongerTrail DEF TypeOK, Transition
<1>4. next # "absent"
  BY DEF Outcome
<1>5. Trails'
  BY <1>1, <1>3, <1>4 DEF Trails
<1> QED
  BY <1>1, <1>2, <1>3, <1>5

-----------------------------------------------------------------------------
(* Steps that leave the ledger alone.                                      *)

Owning == {"send", "await", "record"}
Examining == {"reconcile", "conclude"}

\* A call goes on from t at x, or ends: it owns nothing it did not own, and
\* knows what it knew.
Goes(t, x) ==
  \/ x = None
  \/ /\ x \in Task /\ Shape(x)
     /\ x.step \in Owning =>
          /\ t # None /\ t.step \in Owning /\ t.intent = x.intent
          /\ Told(t) => Told(x)
          /\ CannotTell(t) => CannotTell(x)
     /\ x.step \in Examining => t # None /\ t.step \in Examining /\ t.intent = x.intent

CallsGoOn ==
  /\ worker' \in [Worker -> Task \cup {None}]
  /\ \A v \in Worker : worker'[v] = worker[v] \/ Goes(worker[v], worker'[v])

LEMMA LedgerStill ==
  ASSUME IInv, UNCHANGED ledger, CallsGoOn
  PROVE  /\ \A v \in Worker, i \in Intent :
              /\ Reconciles(v, i)' => Reconciles(v, i)
              /\ Dispatches(v, i)' =>
                   /\ Dispatches(v, i)
                   /\ Told(worker[v]) => Told(worker'[v])
                   /\ CannotTell(worker[v]) => CannotTell(worker'[v])
         /\ Trails' /\ Shapes' /\ OneOwner'
         /\ \A i \in Intent : \A s : Entered(i, s)' <=> Entered(i, s)
<1>1. ASSUME NEW v \in Worker, NEW i \in Intent
      PROVE  /\ Reconciles(v, i)' => Reconciles(v, i)
             /\ Dispatches(v, i)' =>
                  /\ Dispatches(v, i)
                  /\ Told(worker[v]) => Told(worker'[v])
                  /\ CannotTell(worker[v]) => CannotTell(worker'[v])
  <2>1. CASE worker'[v] = worker[v]
    BY <2>1 DEF Dispatches, Reconciles
  <2>2. CASE Goes(worker[v], worker'[v])
    BY <2>2 DEF Goes, Owning, Examining, Dispatches, Reconciles
  <2> QED
    BY <2>1, <2>2 DEF CallsGoOn
<1>2. \A i \in Intent : \A s : Entered(i, s)' <=> Entered(i, s)
  BY SameTrail DEF ledger
<1>3. Trails'
  BY <1>2 DEF IInv, Trails, ledger
<1>4. Shapes'
  BY DEF IInv, Shapes, CallsGoOn, Goes
<1>5. OneOwner'
  BY <1>1 DEF IInv, OneOwner, ledger
<1> QED
  BY <1>1, <1>2, <1>3, <1>4, <1>5

\* What a step that leaves the ledger alone has to show of the world: emails
\* that were sent, and requests without a worker, where there were none.
Explained(i) ==
  /\ delivered[i] > 0 => delivered'[i] > 0
  /\ accepted'[i] # None => delivered'[i] > 0
  /\ delivered'[i] > 0 =>
       \/ delivered[i] > 0 \/ Entered(i, "outcome_unknown")
       \/ /\ outcome[i] = "dispatching"
          /\ \A v \in Worker : Dispatches(v, i)' => Told(worker'[v])
  /\ stray'[i] > 0 =>
       \/ stray[i] > 0 \/ Entered(i, "outcome_unknown")
       \/ /\ outcome[i] = "dispatching"
          /\ \A v \in Worker : Dispatches(v, i)' => CannotTell(worker'[v])

\* What a call brings from the world is an email.
Brought(x) ==
  x # None /\ (x.reference \/ x.state = "confirmed" \/ x.request = "applied")
    => delivered'[x.intent] > 0

LEMMA WorldExplained ==
  ASSUME IInv, UNCHANGED <<adapter, ledger>>, CallsGoOn,
         crashes' \in Nat, clock' \in Nat,
         accepted' \in [Intent -> Nat \cup {None}],
         delivered' \in [Intent -> Nat], stray' \in [Intent -> Nat],
         \A i \in Intent : Explained(i),
         \A v \in Worker : worker'[v] = worker[v] \/ Brought(worker'[v])
  PROVE  IInv'
<1>1. TypeOK'
  BY DEF IInv, TypeOK, ledger, CallsGoOn
<1>2. Backed'
  <2>1. \A i \in Intent : accepted'[i] # None \/ reference'[i] => delivered'[i] > 0
    BY DEF IInv, Backed, ledger, Explained
  <2>2. ASSUME NEW v \in Worker, worker'[v] # None,
               worker'[v].reference \/ worker'[v].state = "confirmed" \/ worker'[v].request = "applied"
        PROVE  delivered'[worker'[v].intent] > 0
    <3>1. CASE worker'[v] # worker[v]
      BY <2>2, <3>1 DEF Brought
    <3>2. CASE worker'[v] = worker[v]
      <4>1. delivered[worker[v].intent] > 0
        BY <2>2, <3>2 DEF IInv, Backed
      <4>2. worker[v].intent \in Intent
        BY <2>2, <3>2 DEF IInv, TypeOK, Task
      <4> QED
        BY <4>1, <4>2, <3>2 DEF Explained
    <3> QED
      BY <3>1, <3>2
  <2> QED
    BY <2>1, <2>2 DEF Backed
<1>3. Unambiguous'
  <2> SUFFICES ASSUME NEW i \in Intent, ~Entered(i, "outcome_unknown")'
               PROVE  /\ delivered'[i] > 0 =>
                           /\ outcome[i] \in {"dispatching", "confirmed"}
                           /\ \A v \in Worker : Dispatches(v, i)' => Told(worker'[v])
                      /\ stray'[i] > 0 =>
                           /\ outcome[i] = "dispatching"
                           /\ \A v \in Worker : Dispatches(v, i)' => CannotTell(worker'[v])
    BY DEF Unambiguous, ledger, Told, CannotTell
  <2>1. ~Entered(i, "outcome_unknown")
    BY LedgerStill DEF ledger
  <2>2. Explained(i)
    OBVIOUS
  <2> QED
    BY <2>1, <2>2, LedgerStill DEF IInv, Unambiguous, Explained
<1> QED
  BY <1>1, <1>2, <1>3, LedgerStill DEF IInv

LEMMA OneCall ==
  ASSUME IInv, NEW w \in Worker, NEW x \in Task \cup {None},
         worker' = [worker EXCEPT ![w] = x], Goes(worker[w], x)
  PROVE  /\ CallsGoOn
         /\ worker'[w] = x /\ \A v \in Worker : v # w => worker'[v] = worker[v]
BY DEF IInv, TypeOK, CallsGoOn

\* The call goes on and brings nothing from the world.
LEMMA CallStill ==
  ASSUME IInv, UNCHANGED <<adapter, ledger, provider>>, crashes' \in Nat, clock' \in Nat,
         NEW w \in Worker, NEW x \in Task \cup {None},
         worker' = [worker EXCEPT ![w] = x], Goes(worker[w], x),
         Brought(x)
  PROVE  IInv'
<1>1. /\ accepted' \in [Intent -> Nat \cup {None}]
      /\ delivered' \in [Intent -> Nat] /\ stray' \in [Intent -> Nat]
  BY DEF IInv, TypeOK, provider
<1>2. \A i \in Intent : Explained(i)
  BY DEF IInv, Backed, Explained, provider
<1>3. \A v \in Worker : worker'[v] = worker[v] \/ Brought(worker'[v])
  BY OneCall
<1> QED
  BY <1>1, <1>2, <1>3, OneCall, WorldExplained

LEMMA ReturnStill ==
  ASSUME IInv, UNCHANGED <<adapter, ledger, provider>>, crashes' \in Nat, clock' \in Nat,
         NEW w \in Worker, Return(w)
  PROVE  IInv'
<1>1. worker' = [worker EXCEPT ![w] = None] /\ Goes(worker[w], None)
  BY DEF Return, Advance, Goes
<1> QED
  BY <1>1, CallStill DEF Brought

LEMMA Counters ==
  ASSUME IInv
  PROVE  crashes \in Nat /\ clock \in Nat
BY DEF IInv, TypeOK

LEMMA BeginKeeps ==
  ASSUME IInv, NEW w \in Worker, NEW i \in Intent,
         Reconcile(w, i) \/ \E controlled \in BOOLEAN : Execute(w, i, controlled)
  PROVE  IInv'
<1>1. PICK x \in Task :
        /\ worker' = [worker EXCEPT ![w] = x]
        /\ Shape(x) /\ x.step \in {"claim", "reclaim"}
        /\ ~x.reference /\ x.state # "confirmed" /\ x.request # "applied"
  <2>1. ASSUME NEW controlled \in BOOLEAN, Execute(w, i, controlled)
        PROVE  \E x \in Task :
                 /\ worker' = [worker EXCEPT ![w] = x]
                 /\ Shape(x) /\ x.step \in {"claim", "reclaim"}
                 /\ ~x.reference /\ x.state # "confirmed" /\ x.request # "applied"
    <3> DEFINE x == [step |-> "claim", intent |-> i, state |-> outcome[i],
                     controlled |-> controlled, request |-> "none", reference |-> FALSE]
    <3>1. worker' = [worker EXCEPT ![w] = x] /\ outcome[i] \in Executable
      BY <2>1 DEF Execute, Advance
    <3>2. x \in Task /\ Shape(x) /\ x.state # "confirmed"
      BY <3>1 DEF Task, Shape, Executable, Outcome
    <3> QED
      BY <3>1, <3>2
  <2>2. CASE Reconcile(w, i)
    <3> DEFINE x == [step |-> "reclaim", intent |-> i, state |-> "outcome_unknown",
                     controlled |-> TRUE, request |-> "none", reference |-> FALSE]
    <3>1. worker' = [worker EXCEPT ![w] = x]
      BY <2>2 DEF Reconcile, Advance
    <3>2. x \in Task /\ Shape(x)
      BY DEF Task, Shape, Outcome
    <3> QED
      BY <3>1, <3>2
  <2> QED
    BY <2>1, <2>2
<1>2. Goes(worker[w], x)
  BY <1>1 DEF Goes, Owning, Examining
<1>3. UNCHANGED <<adapter, ledger, provider, crashes, clock>>
  BY DEF Execute, Reconcile
<1> QED
  BY <1>1, <1>2, <1>3, CallStill, Counters DEF Brought, provider

LEMMA SendKeeps ==
  ASSUME IInv, NEW w \in Worker, Send(w) \/ SendFails(w)
  PROVE  IInv'
<1> DEFINE t == worker[w]
           x == IF Send(w) THEN [t EXCEPT !.step = "await", !.request = "flying"]
                ELSE [t EXCEPT !.step = "record", !.state = "failed_before_effect"]
<1>1. t \in Task /\ t.step = "send" /\ Shape(t) /\ t # None
  BY DEF IInv, TypeOK, Shapes, Send, SendFails, Sending
<1>2. worker' = [worker EXCEPT ![w] = x] /\ UNCHANGED <<adapter, ledger, provider, crashes, clock>>
  BY DEF Send, SendFails, Advance
<1>3. /\ x \in Task /\ Shape(x) /\ x.intent = t.intent /\ x.step \in {"await", "record"}
      /\ ~x.reference /\ x.state # "confirmed" /\ x.request # "applied"
  BY <1>1 DEF Task, Shape, Outcome
<1>4. Goes(t, x)
  BY <1>1, <1>3 DEF Goes, Owning, Examining, Told, CannotTell
<1> QED
  BY <1>2, <1>3, <1>4, CallStill, Counters DEF Brought, provider

LEMMA ReconcileAnsweredKeeps ==
  ASSUME IInv, NEW w \in Worker, ReconcileAnswered(w)
  PROVE  IInv'
<1> DEFINE t == worker[w]
<1>1. t \in Task /\ t.step = "reconcile" /\ Shape(t) /\ t # None /\ t.intent \in Intent
  BY DEF IInv, TypeOK, Shapes, ReconcileAnswered, Task
<1>2. PICK answer \in ReconcileAnswers(t.intent) :
        worker' = [worker EXCEPT ![w] = [t EXCEPT !.step = "conclude", !.state = answer,
                                                  !.reference = answer = "confirmed"]]
  BY DEF ReconcileAnswered, Advance
<1> DEFINE x == [t EXCEPT !.step = "conclude", !.state = answer,
                          !.reference = answer = "confirmed"]
<1>3. /\ answer \in {"confirmed", "needs_operator", "safe_to_retry"}
      /\ answer = "confirmed" => delivered[t.intent] > 0
  <2>1. reference[t.intent] \in BOOLEAN /\ clock - authorizedAt[t.intent] \in Int
    BY <1>1 DEF IInv, TypeOK
  <2>2. reference[t.intent] \/ accepted[t.intent] # None => delivered[t.intent] > 0
    BY <1>1 DEF IInv, Backed
  <2>3. CASE answer \in FakeAnswers(t.intent)
    BY <2>2, <2>3 DEF FakeAnswers
  <2>4. CASE answer \in ResendAnswers(t.intent)
    <3>1. CASE reference[t.intent]
      BY <2>2, <2>4, <3>1 DEF ResendAnswers
    <3>2. CASE ~reference[t.intent] /\ clock - authorizedAt[t.intent] < Window
      BY <2>4, <3>2 DEF ResendAnswers
    <3>3. CASE ~reference[t.intent] /\ clock - authorizedAt[t.intent] >= Window
      BY <2>4, <3>3, <2>1, EmailAssumption DEF ResendAnswers
    <3> QED
      BY <3>1, <3>2, <3>3, <2>1, EmailAssumption
  <2> QED
    BY <2>3, <2>4 DEF ReconcileAnswers
<1>4. /\ x \in Task /\ Shape(x) /\ x.intent = t.intent /\ x.step = "conclude"
      /\ x.request # "applied" /\ x.state = answer /\ x.reference = (answer = "confirmed")
  BY <1>1, <1>3 DEF Task, Shape, Outcome
<1>5. Goes(t, x)
  BY <1>1, <1>4 DEF Goes, Owning, Examining
<1>6. UNCHANGED <<adapter, ledger, provider, crashes, clock>>
  BY DEF ReconcileAnswered
<1> HIDE DEF x
<1> QED
  BY <1>2, <1>3, <1>4, <1>5, <1>6, CallStill, Counters DEF x, Brought, provider

-----------------------------------------------------------------------------
(* The world.                                                              *)

LEMMA AcceptDelivers ==
  ASSUME IInv, NEW i \in Intent, Accept(i)
  PROVE  /\ accepted' \in [Intent -> Nat \cup {None}] /\ delivered' \in [Intent -> Nat]
         /\ delivered'[i] > 0
         /\ \A j \in Intent :
              /\ delivered[j] > 0 => delivered'[j] > 0
              /\ accepted'[j] # None => delivered'[j] > 0
              /\ j # i => delivered'[j] = delivered[j]
<1> USE DEF IInv, TypeOK
<1>1. \A j \in Intent : accepted[j] # None => delivered[j] > 0
  BY DEF Backed
<1>2. CASE accepted[i] # None /\ UNCHANGED <<accepted, delivered>>
  BY <1>1, <1>2
<1>3. CASE /\ accepted' = [accepted EXCEPT ![i] = clock]
           /\ delivered' = [delivered EXCEPT ![i] = @ + 1]
  <2>1. /\ accepted' \in [Intent -> Nat \cup {None}]
        /\ \A j \in Intent : j # i => accepted'[j] = accepted[j]
    BY <1>3
  <2>2. /\ delivered' \in [Intent -> Nat] /\ delivered'[i] = delivered[i] + 1
        /\ \A j \in Intent : j # i => delivered'[j] = delivered[j]
    BY <1>3
  <2>3. delivered[i] + 1 > 0
    OBVIOUS
  <2> QED
    BY <1>1, <2>1, <2>2, <2>3
<1> QED
  BY <1>2, <1>3 DEF Accept

\* A worker that owns an intent owns it alone, and goes on owning it alone.
LEMMA OwnerAlone ==
  ASSUME IInv, NEW w \in Worker, NEW i \in Intent, Dispatches(w, i), NEW x, CallsGoOn,
         worker'[w] = x, \A v \in Worker : v # w => worker'[v] = worker[v]
  PROVE  /\ outcome[i] = "dispatching"
         /\ Told(x) => \A v \in Worker : Dispatches(v, i)' => Told(worker'[v])
         /\ CannotTell(x) => \A v \in Worker : Dispatches(v, i)' => CannotTell(worker'[v])
<1>1. \A v \in Worker : Dispatches(v, i) => v = w
  BY DEF IInv, OneOwner
<1>2. \A v \in Worker : v # w => (Dispatches(v, i)' <=> Dispatches(v, i))
  BY DEF Dispatches
<1>3. \A v \in Worker : Dispatches(v, i)' => v = w
  BY <1>1, <1>2
<1> QED
  BY <1>3 DEF IInv, OneOwner

LEMMA ProviderHandlesKeeps ==
  ASSUME IInv, NEW w \in Worker, ProviderHandles(w)
  PROVE  IInv'
<1> DEFINE t == worker[w]
<1>1. /\ t \in Task /\ t.step = "await" /\ t.request = "flying" /\ t # None /\ t.intent \in Intent
      /\ Shape(t)
  BY DEF IInv, TypeOK, Shapes, ProviderHandles, Task, Shape
<1>2. PICK i \in Intent : i = t.intent /\ Dispatches(w, i)
  BY <1>1 DEF Dispatches
<1>3. UNCHANGED <<adapter, ledger, stray, crashes, clock>>
  BY DEF ProviderHandles
<1>4. ASSUME NEW request \in {"applied", "rejected"}
      PROVE  LET x == [t EXCEPT !.request = request] IN
             /\ x \in Task /\ Shape(x) /\ x.intent = t.intent /\ x.step = "await"
             /\ x.request = request /\ ~x.reference /\ x.state # "confirmed"
             /\ Goes(t, x)
  BY <1>1 DEF Task, Shape, Goes, Owning, Examining, Told, CannotTell
<1>5. CASE Accept(t.intent) /\ Advance(w, [t EXCEPT !.request = "applied"])
  <2> DEFINE x == [t EXCEPT !.request = "applied"]
  <2>1. /\ CallsGoOn
        /\ worker'[w] = x /\ \A v \in Worker : v # w => worker'[v] = worker[v]
    BY <1>4, <1>5, OneCall DEF Advance
  <2>2. Told(x)
    BY <1>4 DEF Told
  <2>3. \A v \in Worker : Dispatches(v, i)' => Told(worker'[v])
    BY <1>1, <1>2, <2>1, <2>2, OwnerAlone
  <2>4. ASSUME NEW j \in Intent PROVE Explained(j)
    <3>1. CASE j = i
      BY <3>1, <1>1, <1>2, <1>3, <1>5, <2>1, <2>3, AcceptDelivers, OwnerAlone DEF Explained
    <3>2. CASE j # i
      BY <3>2, <1>1, <1>2, <1>3, <1>5, AcceptDelivers DEF Explained
    <3> QED
      BY <3>1, <3>2
  <2>5. \A v \in Worker : worker'[v] = worker[v] \/ Brought(worker'[v])
    <3>1. Brought(x)
      BY <1>1, <1>4, <1>5, AcceptDelivers DEF Brought
    <3> QED
      BY <2>1, <3>1
  <2>6. stray' \in [Intent -> Nat] /\ crashes' \in Nat /\ clock' \in Nat
    BY <1>3 DEF IInv, TypeOK
  <2> QED
    BY <1>1, <1>3, <1>5, <2>1, <2>4, <2>5, <2>6, AcceptDelivers, WorldExplained
<1>6. CASE /\ Advance(w, [t EXCEPT !.request = "rejected"])
           /\ UNCHANGED <<accepted, delivered>>
  BY <1>3, <1>4, <1>6, CallStill, Counters DEF Advance, Brought, provider
<1> QED
  BY <1>5, <1>6 DEF ProviderHandles

LEMMA FakeDispatchKeeps ==
  ASSUME IInv, NEW w \in Worker, FakeDispatch(w)
  PROVE  IInv'
<1> DEFINE t == worker[w]
           X(state, id) == [t EXCEPT !.step = "record", !.state = state, !.reference = id]
<1>1. /\ t \in Task /\ t.step = "send" /\ t # None /\ t.intent \in Intent /\ Shape(t)
      /\ t.request = "none"
  BY DEF IInv, TypeOK, Shapes, FakeDispatch, Sending, Task, Shape
<1>2. PICK i \in Intent : i = t.intent /\ Dispatches(w, i)
  BY <1>1 DEF Dispatches
<1>3. UNCHANGED <<adapter, ledger, stray, crashes, clock>>
  BY DEF FakeDispatch
<1>4. ASSUME NEW state \in {"confirmed", "failed_before_effect", "outcome_unknown"},
             NEW id \in BOOLEAN
      PROVE  /\ X(state, id) \in Task /\ Shape(X(state, id))
             /\ X(state, id).intent = t.intent /\ X(state, id).request = "none"
             /\ X(state, id).state = state /\ X(state, id).reference = id
             /\ X(state, id).step = "record"
             /\ Goes(t, X(state, id))
  BY <1>1 DEF Task, Shape, Goes, Owning, Examining, Told, CannotTell, Outcome
<1> HIDE DEF X
<1>5. CASE /\ accepted[t.intent] # None /\ Advance(w, X("confirmed", TRUE))
           /\ UNCHANGED <<accepted, delivered>>
  <2>1. delivered[t.intent] > 0
    BY <1>1, <1>5 DEF IInv, Backed
  <2> QED
    BY <1>3, <1>4, <1>5, <2>1, CallStill, Counters DEF Advance, Brought, provider
<1>6. ASSUME NEW state \in {"confirmed", "outcome_unknown"},
             Advance(w, X(state, TRUE)), Accept(t.intent)
      PROVE  IInv'
  <2> DEFINE x == X(state, TRUE)
  <2>0. /\ x \in Task /\ x.intent = t.intent /\ x.step = "record" /\ x.state = state
        /\ Goes(t, x) /\ worker' = [worker EXCEPT ![w] = x]
    BY <1>4, <1>6 DEF Advance
  <2> HIDE DEF x
  <2>1. /\ CallsGoOn
        /\ worker'[w] = x /\ \A v \in Worker : v # w => worker'[v] = worker[v]
    BY <2>0, OneCall
  <2>2. Told(x)
    BY <2>0, <1>6 DEF Told
  <2>3. \A v \in Worker : Dispatches(v, i)' => Told(worker'[v])
    BY <1>1, <1>2, <2>1, <2>2, OwnerAlone
  <2>4. ASSUME NEW j \in Intent PROVE Explained(j)
    <3>1. CASE j = i
      BY <3>1, <1>1, <1>2, <1>3, <1>6, <2>1, <2>3, AcceptDelivers, OwnerAlone DEF Explained
    <3>2. CASE j # i
      BY <3>2, <1>1, <1>2, <1>3, <1>6, AcceptDelivers DEF Explained
    <3> QED
      BY <3>1, <3>2
  <2>5. \A v \in Worker : worker'[v] = worker[v] \/ Brought(worker'[v])
    <3>1. Brought(x)
      BY <1>1, <1>6, <2>0, AcceptDelivers DEF Brought
    <3> QED
      BY <2>1, <3>1
  <2>6. stray' \in [Intent -> Nat] /\ crashes' \in Nat /\ clock' \in Nat
    BY <1>3 DEF IInv, TypeOK
  <2> QED
    BY <1>1, <1>3, <1>6, <2>1, <2>4, <2>5, <2>6, AcceptDelivers, WorldExplained
<1>7. ASSUME NEW state \in {"failed_before_effect", "outcome_unknown"},
             Advance(w, X(state, FALSE)), UNCHANGED <<accepted, delivered>>
      PROVE  IInv'
  BY <1>3, <1>4, <1>7, CallStill, Counters DEF Advance, Brought, provider
<1> QED
  BY <1>5, <1>6, <1>7 DEF FakeDispatch, X

LEMMA DispatchAnsweredKeeps ==
  ASSUME IInv, NEW w \in Worker, DispatchAnswered(w)
  PROVE  IInv'
<1> DEFINE t == worker[w]
<1>1. /\ t \in Task /\ t.step = "await" /\ t # None /\ t.intent \in Intent /\ Shape(t)
      /\ t.request \in {"flying", "applied", "rejected"}
  BY DEF IInv, TypeOK, Shapes, DispatchAnswered, Task, Shape
<1>2. PICK i \in Intent : i = t.intent /\ Dispatches(w, i)
  BY <1>1 DEF Dispatches
<1>3. PICK answer \in DispatchAnswers(t.request) :
        worker' = [worker EXCEPT ![w] = [t EXCEPT !.step = "record", !.state = answer,
                                !.request = "none", !.reference = answer = "confirmed"]]
  BY DEF DispatchAnswered, Advance
<1> DEFINE x == [t EXCEPT !.step = "record", !.state = answer,
                          !.request = "none", !.reference = answer = "confirmed"]
<1>4. /\ answer \in {"confirmed", "failed_before_effect", "outcome_unknown"}
      /\ answer = "confirmed" => t.request = "applied"
      /\ t.request = "applied" => answer \in {"confirmed", "outcome_unknown"}
      /\ t.request = "flying" => answer = "outcome_unknown"
  BY <1>1 DEF DispatchAnswers
<1>5. /\ x \in Task /\ Shape(x) /\ x.intent = t.intent /\ x.step = "record"
      /\ x.request = "none" /\ x.state = answer /\ x.reference = (answer = "confirmed")
  BY <1>1, <1>4 DEF Task, Shape, Outcome
<1>6. Goes(t, x)
  BY <1>1, <1>4, <1>5 DEF Goes, Owning, Examining, Told, CannotTell
<1>7. UNCHANGED <<adapter, ledger, accepted, delivered, crashes, clock>>
  BY DEF DispatchAnswered
<1>8. answer = "confirmed" => delivered[t.intent] > 0
  BY <1>1, <1>4 DEF IInv, Backed
<1> HIDE DEF x
<1>9. CASE t.request # "flying"
  <2>1. stray' = stray
    BY <1>9 DEF DispatchAnswered, Abandoned
  <2> QED
    BY <1>3, <1>5, <1>6, <1>7, <1>8, <2>1, CallStill, Counters DEF Brought, provider, x
<1>10. CASE t.request = "flying"
  <2>1. stray' = [stray EXCEPT ![t.intent] = @ + 1]
    BY <1>10 DEF DispatchAnswered, Abandoned
  <2>2. stray' \in [Intent -> Nat] /\ \A j \in Intent : j # i => stray'[j] = stray[j]
    BY <1>1, <1>2, <2>1 DEF IInv, TypeOK
  <2>3. /\ CallsGoOn
        /\ worker'[w] = x /\ \A v \in Worker : v # w => worker'[v] = worker[v]
    BY <1>3, <1>5, <1>6, OneCall DEF x
  <2>4. CannotTell(x)
    BY <1>4, <1>5, <1>10 DEF CannotTell
  <2>5. \A v \in Worker : Dispatches(v, i)' => CannotTell(worker'[v])
    BY <1>1, <1>2, <2>3, <2>4, OwnerAlone
  <2>6. outcome[i] = "dispatching"
    BY <1>1, <1>2, <2>3, OwnerAlone
  <2>7. ASSUME NEW j \in Intent PROVE Explained(j)
    <3>1. accepted[j] # None => delivered[j] > 0
      BY DEF IInv, Backed
    <3>2. CASE j = i
      BY <1>7, <2>5, <2>6, <3>1, <3>2 DEF Explained
    <3>3. CASE j # i
      BY <1>2, <1>7, <2>2, <3>1, <3>3 DEF Explained
    <3> QED
      BY <3>2, <3>3
  <2>8. \A v \in Worker : worker'[v] = worker[v] \/ Brought(worker'[v])
    <3>1. Brought(x)
      BY <1>4, <1>5, <1>10 DEF Brought
    <3> QED
      BY <2>3, <3>1
  <2>9. /\ accepted' \in [Intent -> Nat \cup {None}] /\ delivered' \in [Intent -> Nat]
        /\ crashes' \in Nat /\ clock' \in Nat
    BY <1>7 DEF IInv, TypeOK
  <2> QED
    BY <1>7, <2>2, <2>3, <2>7, <2>8, <2>9, WorldExplained
<1> QED
  BY <1>9, <1>10

\* Whoever waited for the request dies with it: nobody is left who could record
\* that it failed.
LEMMA CrashKeeps ==
  ASSUME IInv, NEW w \in Worker, Crash(w)
  PROVE  IInv'
<1> DEFINE t == worker[w]
<1>1. t \in Task /\ t # None /\ t.intent \in Intent /\ Shape(t)
  BY DEF IInv, TypeOK, Shapes, Crash, Task
<1>2. UNCHANGED <<adapter, ledger, accepted, delivered, clock>> /\ crashes' \in Nat /\ clock' \in Nat
  BY DEF IInv, TypeOK, Crash
<1>3. CASE t.request # "flying"
  <2>1. stray' = stray
    BY <1>3 DEF Crash, Abandoned
  <2> QED
    BY <1>2, <2>1, ReturnStill DEF Crash, provider
<1>4. CASE t.request = "flying"
  <2>1. PICK i \in Intent : i = t.intent /\ Dispatches(w, i)
    BY <1>1, <1>4 DEF Dispatches, Shape
  <2>2. /\ stray' = [stray EXCEPT ![i] = @ + 1]
        /\ worker' = [worker EXCEPT ![w] = None] /\ Goes(t, None)
    BY <1>4, <2>1 DEF Crash, Abandoned, Return, Advance, Goes
  <2>3. stray' \in [Intent -> Nat] /\ \A j \in Intent : j # i => stray'[j] = stray[j]
    BY <2>2 DEF IInv, TypeOK
  <2>4. /\ CallsGoOn
        /\ worker'[w] = None /\ \A v \in Worker : v # w => worker'[v] = worker[v]
    BY <2>2, OneCall
  <2>5. outcome[i] = "dispatching" /\ \A v \in Worker : ~Dispatches(v, i)'
    BY <2>1, <2>4 DEF IInv, OneOwner, Dispatches
  <2>6. ASSUME NEW j \in Intent PROVE Explained(j)
    <3>1. accepted[j] # None => delivered[j] > 0
      BY DEF IInv, Backed
    <3>2. CASE j = i
      BY <1>2, <2>5, <3>1, <3>2 DEF Explained
    <3>3. CASE j # i
      BY <1>2, <2>3, <3>1, <3>3 DEF Explained
    <3> QED
      BY <3>2, <3>3
  <2>7. \A v \in Worker : worker'[v] = worker[v] \/ Brought(worker'[v])
    BY <2>4 DEF Brought
  <2>8. accepted' \in [Intent -> Nat \cup {None}] /\ delivered' \in [Intent -> Nat]
    BY <1>2 DEF IInv, TypeOK
  <2> QED
    BY <1>2, <2>3, <2>4, <2>6, <2>7, <2>8, WorldExplained
<1> QED
  BY <1>3, <1>4

\* A request nobody waits for arrives: whoever still runs its attempt cannot
\* tell, so that the email it may bring is one more it cannot tell of.
LEMMA StrayKeeps ==
  ASSUME IInv, NEW i \in Intent, ProviderHandlesStray(i)
  PROVE  IInv'
<1>1. /\ UNCHANGED <<adapter, ledger, worker, crashes, clock>>
      /\ stray[i] \in Nat /\ stray[i] > 0 /\ stray' = [stray EXCEPT ![i] = @ - 1]
  BY DEF ProviderHandlesStray, IInv, TypeOK
<1>2. stray' \in [Intent -> Nat] /\ \A j \in Intent : stray'[j] > 0 => stray[j] > 0
  <2>1. stray[i] - 1 \in Nat
    BY <1>1
  <2> QED
    BY <1>1, <2>1 DEF IInv, TypeOK
<1>3. /\ accepted' \in [Intent -> Nat \cup {None}] /\ delivered' \in [Intent -> Nat]
      /\ \A j \in Intent :
           /\ delivered[j] > 0 => delivered'[j] > 0
           /\ accepted'[j] # None => delivered'[j] > 0
           /\ j # i => delivered'[j] = delivered[j]
  <2>1. CASE Accept(i)
    BY <2>1, AcceptDelivers
  <2>2. CASE UNCHANGED <<accepted, delivered>>
    BY <2>2 DEF IInv, TypeOK, Backed
  <2> QED
    BY <2>1, <2>2 DEF ProviderHandlesStray
<1>4. \/ Entered(i, "outcome_unknown")
      \/ /\ outcome[i] = "dispatching"
         /\ \A v \in Worker : Dispatches(v, i)' => Told(worker'[v])
  BY <1>1 DEF IInv, Unambiguous, CannotTell, Told, Dispatches
<1>5. \A j \in Intent : Explained(j)
  BY <1>2, <1>3, <1>4 DEF Explained
<1>6. CallsGoOn /\ \A v \in Worker : worker'[v] = worker[v]
  BY <1>1 DEF CallsGoOn, IInv, TypeOK
<1>7. crashes' \in Nat /\ clock' \in Nat
  BY <1>1 DEF IInv, TypeOK
<1> QED
  BY <1>1, <1>2, <1>3, <1>5, <1>6, <1>7, WorldExplained

LEMMA TickKeeps ==
  ASSUME IInv, Tick
  PROVE  IInv'
<1>1. UNCHANGED <<adapter, ledger, worker, accepted, delivered, stray, crashes>> /\ clock' \in Nat
  BY DEF IInv, TypeOK, Tick, provider
<1>2. /\ crashes' \in Nat /\ accepted' \in [Intent -> Nat \cup {None}]
      /\ delivered' \in [Intent -> Nat] /\ stray' \in [Intent -> Nat]
  BY <1>1 DEF IInv, TypeOK
<1>3. CallsGoOn /\ \A v \in Worker : worker'[v] = worker[v]
  BY <1>1 DEF CallsGoOn, IInv, TypeOK
<1>4. \A i \in Intent : Explained(i)
  BY <1>1 DEF IInv, Backed, Explained
<1> QED
  BY <1>1, <1>2, <1>3, <1>4, WorldExplained

-----------------------------------------------------------------------------
(* Steps that move an outcome.                                             *)

\* An outcome moves by the call that owns it, or by one that claims it from
\* nobody: what was sent, or may be, stays explained.
LEMMA OutcomeMoves ==
  ASSUME IInv, UNCHANGED <<adapter, provider, crashes, clock>>,
         NEW i \in Intent, NEW next \in Outcome, NEW hasReference \in BOOLEAN,
         outcome[i] # "absent", Transition(i, next, hasReference),
         hasReference => delivered[i] > 0,
         NEW w \in Worker, NEW x \in Task \cup {None}, worker' = [worker EXCEPT ![w] = x],
         x # None => /\ Shape(x) /\ x.intent = i
                     /\ ~x.reference /\ x.state # "confirmed" /\ x.request = "none"
                     /\ x.step \in Owning => next = "dispatching" /\ x.step = "send"
                     /\ x.step \in Examining => next = "reconciling",
         \A v \in Worker : v # w => ~Dispatches(v, i) /\ ~Reconciles(v, i),
         \/ Entered(i, "outcome_unknown") \/ next = "outcome_unknown"
         \/ delivered[i] = 0 /\ stray[i] = 0
         \/ next = "confirmed" /\ x = None /\ stray[i] = 0
  PROVE  IInv'
<1>1. /\ outcome' \in [Intent -> Outcome \cup {"absent"}]
      /\ audit' \in [Intent -> Seq(Outcome)]
      /\ reference' \in [Intent -> BOOLEAN]
      /\ authorizedAt' \in [Intent -> Nat]
      /\ outcome'[i] = next
      /\ \A j \in Intent : j # i => outcome'[j] = outcome[j] /\ reference'[j] = reference[j]
      /\ reference'[i] <=> reference[i] \/ hasReference
      /\ \A j \in Intent : \A s : Entered(j, s)' <=> Entered(j, s) \/ (j = i /\ s = next)
      /\ Trails'
  BY TransitionMoves DEF IInv
<1>2. /\ worker' \in [Worker -> Task \cup {None}] /\ worker'[w] = x
      /\ \A v \in Worker : v # w => worker'[v] = worker[v]
  BY DEF IInv, TypeOK
<1>3. TypeOK'
  BY <1>1, <1>2 DEF IInv, TypeOK, provider
<1>4. Shapes'
  BY <1>2 DEF IInv, Shapes
<1>5. ASSUME NEW j \in Intent, NEW v \in Worker
      PROVE  /\ v # w => /\ Dispatches(v, j)' <=> Dispatches(v, j)
                         /\ Reconciles(v, j)' <=> Reconciles(v, j)
             /\ v = w => /\ Dispatches(v, j)' => j = i /\ x # None /\ next = "dispatching" /\ x.step = "send"
                         /\ Reconciles(v, j)' => j = i /\ next = "reconciling"
  BY <1>2 DEF Dispatches, Reconciles, Owning, Examining
<1>6. OneOwner'
  <2>1. ASSUME NEW j \in Intent, NEW v \in Worker
        PROVE  /\ Dispatches(v, j)' => outcome'[j] = "dispatching"
               /\ Reconciles(v, j)' => outcome'[j] = "reconciling"
    <3>1. CASE v = w
      BY <1>1, <1>5, <3>1
    <3>2. CASE v # w
      BY <1>1, <1>5, <3>2 DEF IInv, OneOwner
    <3> QED
      BY <3>1, <3>2
  <2>2. ASSUME NEW j \in Intent, NEW v \in Worker, NEW u \in Worker,
               Dispatches(v, j)' \/ Reconciles(v, j)', Dispatches(u, j)' \/ Reconciles(u, j)'
        PROVE  u = v
    <3>1. CASE j = i
      BY <1>5, <2>2, <3>1
    <3>2. CASE j # i
      BY <1>5, <2>2, <3>2 DEF IInv, OneOwner
    <3> QED
      BY <3>1, <3>2
  <2> QED
    BY <2>1, <2>2 DEF OneOwner
<1>7. Backed'
  <2>1. \A j \in Intent : accepted[j] # None \/ reference'[j] => delivered[j] > 0
    BY <1>1 DEF IInv, Backed
  <2> QED
    BY <1>2, <2>1 DEF IInv, Backed, provider
<1>8. Unambiguous'
  <2> SUFFICES ASSUME NEW j \in Intent, ~Entered(j, "outcome_unknown")'
               PROVE  /\ delivered[j] > 0 =>
                           /\ outcome'[j] \in {"dispatching", "confirmed"}
                           /\ \A v \in Worker : Dispatches(v, j)' => Told(worker'[v])
                      /\ stray[j] > 0 =>
                           /\ outcome'[j] = "dispatching"
                           /\ \A v \in Worker : Dispatches(v, j)' => CannotTell(worker'[v])
    BY DEF Unambiguous, provider, Told, CannotTell
  <2>1. ~Entered(j, "outcome_unknown") /\ (j = i => next # "outcome_unknown")
    BY <1>1
  <2>2. delivered[j] \in Nat /\ stray[j] \in Nat
    BY DEF IInv, TypeOK
  <2>3. CASE j = i
    <3>1. CASE delivered[i] = 0 /\ stray[i] = 0
      BY <2>3, <3>1
    <3>2. CASE next = "confirmed" /\ x = None /\ stray[i] = 0
      <4>1. \A v \in Worker : ~Dispatches(v, i)'
        BY <1>5, <3>2
      <4> QED
        BY <1>1, <2>3, <3>2, <4>1
    <3> QED
      BY <2>1, <2>3, <3>1, <3>2
  <2>4. CASE j # i
    <3>1. \A v \in Worker : Dispatches(v, j)' => Dispatches(v, j) /\ worker'[v] = worker[v]
      BY <1>2, <1>5, <2>4
    <3> QED
      BY <1>1, <2>1, <2>4, <3>1 DEF IInv, Unambiguous
  <2> QED
    BY <2>3, <2>4
<1> QED
  BY <1>1, <1>3, <1>4, <1>6, <1>7, <1>8 DEF IInv

\* An outcome nobody dispatches and that is not confirmed has no email, and no
\* request under way, its trail does not admit.
LEMMA Quiet ==
  ASSUME IInv, NEW i \in Intent, outcome[i] \notin {"dispatching", "confirmed"}
  PROVE  Entered(i, "outcome_unknown") \/ (delivered[i] = 0 /\ stray[i] = 0)
<1>1. (delivered[i] = 0 \/ delivered[i] > 0) /\ (stray[i] = 0 \/ stray[i] > 0)
  BY DEF IInv, TypeOK
<1> QED
  BY <1>1 DEF IInv, Unambiguous

LEMMA ClaimKeeps ==
  ASSUME IInv, NEW w \in Worker, Claim(w)
  PROVE  IInv'
<1> DEFINE t == worker[w]
           x == [t EXCEPT !.step = "send", !.state = "dispatching"]
<1>1. t \in Task /\ t # None /\ t.step = "claim" /\ Shape(t)
  BY DEF IInv, TypeOK, Shapes, Claim
<1>2. PICK i \in Intent : i = t.intent
  BY <1>1 DEF Task
<1>3. UNCHANGED <<adapter, provider, crashes, clock>>
  BY DEF Claim
<1>4. CASE Claimable(t)
  <2>1. Transition(i, "dispatching", FALSE) /\ worker' = [worker EXCEPT ![w] = x]
    BY <1>2, <1>4 DEF Claim, Advance
  <2>2. outcome[i] \in Executable
    BY <1>1, <1>2, <1>4 DEF Claimable, Shape
  <2>3. /\ x \in Task /\ Shape(x) /\ x.intent = i /\ x.step = "send"
        /\ ~x.reference /\ x.state # "confirmed" /\ x.request = "none"
    BY <1>1, <1>2 DEF Task, Shape, Outcome
  <2>4. \A v \in Worker : ~Dispatches(v, i) /\ ~Reconciles(v, i)
    BY <2>2 DEF Executable, IInv, OneOwner
  <2>5. Entered(i, "outcome_unknown") \/ (delivered[i] = 0 /\ stray[i] = 0)
    BY <2>2, Quiet DEF Executable
  <2>6. outcome[i] # "absent" /\ "dispatching" \in Outcome
    BY <2>2 DEF Executable, Outcome
  <2> HIDE DEF x
  <2> QED
    BY <1>3, <2>1, <2>3, <2>4, <2>5, <2>6, OutcomeMoves DEF Owning, Examining
<1>5. CASE ~Claimable(t)
  <2>1. Return(w) /\ UNCHANGED ledger
    BY <1>5 DEF Claim
  <2> QED
    BY <1>3, <2>1, ReturnStill, Counters
<1> QED
  BY <1>4, <1>5

LEMMA RefuseKeeps ==
  ASSUME IInv, NEW w \in Worker, RefuseRecipient(w)
  PROVE  IInv'
<1> DEFINE t == worker[w]
<1>1. t \in Task /\ t # None /\ t.step = "send"
  BY DEF IInv, TypeOK, RefuseRecipient
<1>2. PICK i \in Intent : i = t.intent /\ Dispatches(w, i)
  BY <1>1 DEF Task, Dispatches
<1>3. /\ UNCHANGED <<adapter, provider, crashes, clock>>
      /\ Transition(i, "failed_before_effect", FALSE)
      /\ worker' = [worker EXCEPT ![w] = None]
  BY <1>2 DEF RefuseRecipient, Refusal, Return, Advance
<1>4. /\ outcome[i] = "dispatching"
      /\ \A v \in Worker : v # w => ~Dispatches(v, i) /\ ~Reconciles(v, i)
  BY <1>2 DEF IInv, OneOwner
<1>5. Entered(i, "outcome_unknown") \/ (delivered[i] = 0 /\ stray[i] = 0)
  <2>1. (delivered[i] = 0 \/ delivered[i] > 0) /\ (stray[i] = 0 \/ stray[i] > 0)
    BY DEF IInv, TypeOK
  <2> QED
    BY <1>1, <1>2, <2>1 DEF IInv, Unambiguous, Told, CannotTell
<1> QED
  BY <1>3, <1>4, <1>5, OutcomeMoves DEF Outcome

LEMMA RecordDispatchKeeps ==
  ASSUME IInv, NEW w \in Worker, RecordDispatch(w)
  PROVE  IInv'
<1> DEFINE t == worker[w]
<1>1. t \in Task /\ t # None /\ t.step = "record" /\ Shape(t)
  BY DEF IInv, TypeOK, Shapes, RecordDispatch, RecordFrom
<1>2. PICK i \in Intent : i = t.intent /\ Dispatches(w, i)
  BY <1>1 DEF Task, Dispatches
<1>3. /\ outcome[i] = "dispatching"
      /\ \A v \in Worker : v # w => ~Dispatches(v, i) /\ ~Reconciles(v, i)
  BY <1>2 DEF IInv, OneOwner
<1>4. /\ UNCHANGED <<adapter, provider, crashes, clock>>
      /\ Transition(i, t.state, t.reference)
      /\ worker' = [worker EXCEPT ![w] = None]
  BY <1>2, <1>3 DEF RecordDispatch, RecordFrom, Return, Advance
<1>5. /\ t.state \in {"confirmed", "failed_before_effect", "outcome_unknown"}
      /\ t.state \in Outcome /\ t.reference \in BOOLEAN
  BY <1>1 DEF Shape, Task
<1>6. t.reference => delivered[i] > 0
  BY <1>1, <1>2 DEF IInv, Backed
<1>7. \/ Entered(i, "outcome_unknown") \/ t.state = "outcome_unknown"
      \/ delivered[i] = 0 /\ stray[i] = 0
      \/ t.state = "confirmed" /\ stray[i] = 0
  <2>1. (delivered[i] = 0 \/ delivered[i] > 0) /\ (stray[i] = 0 \/ stray[i] > 0)
    BY DEF IInv, TypeOK
  <2> QED
    BY <1>1, <1>2, <1>5, <2>1 DEF IInv, Unambiguous, Told, CannotTell
<1> QED
  BY <1>3, <1>4, <1>5, <1>6, <1>7, OutcomeMoves

LEMMA ClaimReconciliationKeeps ==
  ASSUME IInv, NEW w \in Worker, ClaimReconciliation(w)
  PROVE  IInv'
<1> DEFINE t == worker[w]
           x == [t EXCEPT !.step = "reconcile", !.state = "reconciling"]
<1>1. t \in Task /\ t # None /\ t.step = "reclaim" /\ Shape(t)
  BY DEF IInv, TypeOK, Shapes, ClaimReconciliation
<1>2. PICK i \in Intent : i = t.intent
  BY <1>1 DEF Task
<1>3. UNCHANGED <<adapter, provider, crashes, clock>>
  BY DEF ClaimReconciliation
<1>4. CASE outcome[i] = "outcome_unknown"
  <2>1. Transition(i, "reconciling", FALSE) /\ worker' = [worker EXCEPT ![w] = x]
    BY <1>2, <1>4 DEF ClaimReconciliation, Advance
  <2>2. /\ x \in Task /\ Shape(x) /\ x.intent = i /\ x.step = "reconcile"
        /\ ~x.reference /\ x.state # "confirmed" /\ x.request = "none"
    BY <1>1, <1>2 DEF Task, Shape, Outcome
  <2>3. \A v \in Worker : ~Dispatches(v, i) /\ ~Reconciles(v, i)
    BY <1>4 DEF IInv, OneOwner
  <2>4. Entered(i, "outcome_unknown")
    BY <1>4 DEF IInv, Trails
  <2> HIDE DEF x
  <2> QED
    BY <1>3, <1>4, <2>1, <2>2, <2>3, <2>4, OutcomeMoves DEF Owning, Examining, Outcome
<1>5. CASE outcome[i] # "outcome_unknown"
  <2>1. Return(w) /\ UNCHANGED ledger
    BY <1>2, <1>5 DEF ClaimReconciliation
  <2> QED
    BY <1>3, <2>1, ReturnStill, Counters
<1> QED
  BY <1>4, <1>5

LEMMA RecordReconciliationKeeps ==
  ASSUME IInv, NEW w \in Worker, RecordReconciliation(w)
  PROVE  IInv'
<1> DEFINE t == worker[w]
<1>1. t \in Task /\ t # None /\ t.step = "conclude" /\ Shape(t)
  BY DEF IInv, TypeOK, Shapes, RecordReconciliation, RecordFrom
<1>2. PICK i \in Intent : i = t.intent /\ Reconciles(w, i)
  BY <1>1 DEF Task, Reconciles
<1>3. /\ outcome[i] = "reconciling"
      /\ \A v \in Worker : v # w => ~Dispatches(v, i) /\ ~Reconciles(v, i)
  BY <1>2 DEF IInv, OneOwner
<1>4. /\ UNCHANGED <<adapter, provider, crashes, clock>>
      /\ Transition(i, t.state, t.reference)
      /\ worker' = [worker EXCEPT ![w] = None]
  BY <1>2, <1>3 DEF RecordReconciliation, RecordFrom, Return, Advance
<1>5. t.state \in Outcome /\ t.reference \in BOOLEAN
  BY <1>1 DEF Task
<1>6. t.reference => delivered[i] > 0
  BY <1>1, <1>2 DEF IInv, Backed
<1> QED
  BY <1>3, <1>4, <1>5, <1>6, Quiet, OutcomeMoves

LEMMA AuthorizeKeeps ==
  ASSUME IInv, NEW i \in Intent, Authorize(i)
  PROVE  IInv'
<1>1. /\ UNCHANGED <<adapter, reference, worker, accepted, delivered, stray, crashes, clock>>
      /\ outcome[i] = "absent" /\ outcome' = [outcome EXCEPT ![i] = "approved"]
      /\ audit' = [audit EXCEPT ![i] = <<"approved">>]
      /\ authorizedAt' = [authorizedAt EXCEPT ![i] = clock]
  BY DEF Authorize, InitialOutcome, provider
<1>2. /\ outcome' \in [Intent -> Outcome \cup {"absent"}] /\ outcome'[i] = "approved"
      /\ \A j \in Intent : j # i => outcome'[j] = outcome[j]
      /\ authorizedAt' \in [Intent -> Nat]
  BY <1>1 DEF IInv, TypeOK, Outcome
<1>3. /\ audit' \in [Intent -> Seq(Outcome)] /\ audit'[i] = <<"approved">>
      /\ \A j \in Intent : j # i => audit'[j] = audit[j]
  <2>1. <<"approved">> \in Seq(Outcome)
    BY DEF Outcome
  <2> QED
    BY <1>1, <2>1 DEF IInv, TypeOK
<1>4. /\ \A s : Entered(i, s)' <=> s = "approved"
      /\ \A j \in Intent : j # i => \A s : Entered(j, s)' <=> Entered(j, s)
  BY <1>3 DEF Entered
<1>5. ~Entered(i, "outcome_unknown")
  BY <1>1 DEF IInv, Trails, Entered
<1>6. delivered[i] = 0 /\ stray[i] = 0
  BY <1>1, <1>5, Quiet
<1>7. TypeOK'
  BY <1>1, <1>2, <1>3 DEF IInv, TypeOK
<1>8. Trails'
  BY <1>2, <1>3, <1>4 DEF IInv, Trails
<1>9. Shapes' /\ Backed'
  BY <1>1 DEF IInv, Shapes, Backed
<1>10. /\ \A v \in Worker : ~Dispatches(v, i) /\ ~Reconciles(v, i)
       /\ \A v \in Worker, j \in Intent : /\ Dispatches(v, j)' <=> Dispatches(v, j)
                                          /\ Reconciles(v, j)' <=> Reconciles(v, j)
  BY <1>1 DEF IInv, OneOwner, Dispatches, Reconciles
<1>11. OneOwner'
  BY <1>2, <1>10 DEF IInv, OneOwner
<1>12. Unambiguous'
  <2> SUFFICES ASSUME NEW j \in Intent, ~Entered(j, "outcome_unknown")'
               PROVE  /\ delivered[j] > 0 =>
                           /\ outcome'[j] \in {"dispatching", "confirmed"}
                           /\ \A v \in Worker : Dispatches(v, j)' => Told(worker[v])
                      /\ stray[j] > 0 =>
                           /\ outcome'[j] = "dispatching"
                           /\ \A v \in Worker : Dispatches(v, j)' => CannotTell(worker[v])
    BY <1>1 DEF Unambiguous, Told, CannotTell
  <2>1. CASE j = i
    BY <1>6, <2>1
  <2>2. CASE j # i
    BY <1>2, <1>4, <1>10, <2>2 DEF IInv, Unambiguous
  <2> QED
    BY <2>1, <2>2
<1> QED
  BY <1>7, <1>8, <1>9, <1>11, <1>12 DEF IInv

-----------------------------------------------------------------------------
(* The theorems.                                                           *)

LEMMA InitHolds == Init => IInv
<1> SUFFICES ASSUME Init PROVE IInv
  OBVIOUS
<1>1. TypeOK
  BY DEF Init, TypeOK, Outcome
<1>2. Trails /\ Shapes /\ OneOwner
  BY DEF Init, Trails, Shapes, OneOwner, Dispatches, Reconciles
<1>3. Backed /\ Unambiguous
  BY DEF Init, Backed, Unambiguous
<1> QED
  BY <1>1, <1>2, <1>3 DEF IInv

LEMMA StepHolds == IInv /\ [Next]_vars => IInv'
<1> SUFFICES ASSUME IInv, [Next]_vars PROVE IInv'
  OBVIOUS
<1>1. ASSUME NEW i \in Intent, Authorize(i) PROVE IInv'
  BY <1>1, AuthorizeKeeps
<1>2. ASSUME NEW i \in Intent, ProviderHandlesStray(i) PROVE IInv'
  BY <1>2, StrayKeeps
<1>3. ASSUME NEW w \in Worker, NEW i \in Intent,
             Reconcile(w, i) \/ \E controlled \in BOOLEAN : Execute(w, i, controlled)
      PROVE  IInv'
  BY <1>3, BeginKeeps
<1>4. ASSUME NEW w \in Worker, Progress(w) PROVE IInv'
  BY <1>4, ClaimKeeps, RefuseKeeps, SendKeeps, DispatchAnsweredKeeps, FakeDispatchKeeps,
     RecordDispatchKeeps, ClaimReconciliationKeeps, ReconcileAnsweredKeeps,
     RecordReconciliationKeeps
  DEF Progress
<1>5. ASSUME NEW w \in Worker, ProviderHandles(w) PROVE IInv'
  BY <1>5, ProviderHandlesKeeps
<1>6. ASSUME NEW w \in Worker, Crash(w) PROVE IInv'
  BY <1>6, CrashKeeps
<1>7. CASE Tick
  BY <1>7, TickKeeps
<1>8. CASE UNCHANGED vars
  <2>1. UNCHANGED <<adapter, ledger, worker, accepted, delivered, stray, crashes, clock>>
    BY <1>8 DEF vars, ledger
  <2>2. CallsGoOn /\ \A v \in Worker : worker'[v] = worker[v]
    BY <2>1 DEF CallsGoOn, IInv, TypeOK
  <2>3. \A i \in Intent : Explained(i)
    BY <2>1 DEF IInv, Backed, Explained
  <2>4. /\ crashes' \in Nat /\ clock' \in Nat /\ accepted' \in [Intent -> Nat \cup {None}]
        /\ delivered' \in [Intent -> Nat] /\ stray' \in [Intent -> Nat]
    BY <2>1 DEF IInv, TypeOK
  <2> QED
    BY <2>1, <2>2, <2>3, <2>4, WorldExplained
<1> QED
  BY <1>1, <1>2, <1>3, <1>4, <1>5, <1>6, <1>7, <1>8 DEF Next

\* Whatever the calls of execute and reconcile do, in whatever order, with
\* whatever dies: an outcome is moved by the call that owns it, what a call
\* brings from the provider is an email, and without an ambiguous attempt an
\* email is known to the one call that sent it.
THEOREM EmailInvariant == Spec => []IInv
BY InitHolds, StepHolds, PTL DEF Spec

\* Every row, call, message and counter has its type.
THEOREM EmailTypes == Spec => []TypeOK
<1>1. IInv => TypeOK
  BY DEF IInv
<1> QED
  BY <1>1, EmailInvariant, PTL

\* The compare-and-set of the claim gives an intent to one call at a time, for
\* any number of concurrent calls and crashes.
THEOREM ClaimsExclude == Spec => []OneOwner
<1>1. IInv => OneOwner
  BY DEF IInv
<1> QED
  BY <1>1, EmailInvariant, PTL

\* No email without a trace: what was sent, or may still be, is being
\* dispatched, confirmed, or once declared ambiguous.
THEOREM TrailAccounts == Spec => []EffectsAudited
<1>1. IInv => EffectsAudited
  <2> SUFFICES ASSUME IInv, NEW i \in Intent, outcome[i] # "dispatching",
                      ~Entered(i, "confirmed"), ~Entered(i, "outcome_unknown")
               PROVE  /\ ~(delivered[i] > 0) /\ ~(stray[i] > 0)
                      /\ ~\E w \in Worker : worker[w] # None /\ worker[w].intent = i
                                                            /\ worker[w].request # "none"
    BY DEF EffectsAudited
  <2>1. outcome[i] # "confirmed"
    BY DEF IInv, Trails
  <2>2. ~(delivered[i] > 0) /\ ~(stray[i] > 0)
    BY <2>1 DEF IInv, Unambiguous
  <2>3. ASSUME NEW w \in Worker, worker[w] # None, worker[w].intent = i,
               worker[w].request # "none"
        PROVE  FALSE
    <3>1. Dispatches(w, i)
      BY <2>3 DEF IInv, Shapes, Shape, Dispatches
    <3> QED
      BY <3>1 DEF IInv, OneOwner
  <2> QED
    BY <2>2, <2>3
<1> QED
  BY <1>1, EmailInvariant, PTL

-----------------------------------------------------------------------------
(* The contract.                                                           *)

LEMMA PhaseStill ==
  ASSUME NEW i \in Intent, outcome'[i] = outcome[i]
  PROVE  Phase(i)' = Phase(i)
BY DEF Phase

\* Steps that move no outcome and send nothing are none of the contract's.
LEMMA Idle ==
  ASSUME UNCHANGED ledger, UNCHANGED delivered
  PROVE  UNCHANGED Contract!vars
<1>1. \A i \in Intent : Phase(i)' = Phase(i)
  BY PhaseStill DEF ledger
<1>2. \A i \in Intent : Entered(i, "outcome_unknown")' = Entered(i, "outcome_unknown")
  BY DEF Entered, ledger
<1> QED
  BY <1>1, <1>2 DEF Contract!vars

\* An email goes out.
LEMMA Sent ==
  ASSUME IInv, UNCHANGED ledger, NEW i \in Intent, Accept(i),
         outcome[i] = "dispatching" \/ Entered(i, "outcome_unknown")
  PROVE  Contract!Next
<1>1. \A j \in Intent : Phase(j)' = Phase(j)
  BY PhaseStill DEF ledger
<1>2. \A j \in Intent : Entered(j, "outcome_unknown")' = Entered(j, "outcome_unknown")
  BY DEF Entered, ledger
<1>3. delivered'[i] > 0 /\ \A j \in Intent : j # i => delivered'[j] = delivered[j]
  BY AcceptDelivers
<1>4. [j \in Intent |-> delivered'[j] > 0] = [[j \in Intent |-> delivered[j] > 0] EXCEPT ![i] = TRUE]
  BY <1>3
<1>5. Phase(i) = "open" \/ Entered(i, "outcome_unknown")
  BY DEF Phase, Executable
<1>6. Contract!TakeEffect(i)
  BY <1>1, <1>2, <1>4, <1>5 DEF Contract!TakeEffect
<1> QED
  BY <1>6 DEF Contract!Next

\* What a move of an outcome looks like.
LEMMA Shown ==
  ASSUME IInv, UNCHANGED delivered, NEW i \in Intent, NEW next \in Outcome,
         outcome' = [outcome EXCEPT ![i] = next],
         \A j \in Intent : \A s : Entered(j, s)' <=> Entered(j, s) \/ (j = i /\ s = next)
  PROVE  /\ \A from, to : Phase(i) = from /\ Phase(i)' = to => Contract!Move(i, from, to)
         /\ [j \in Intent |-> delivered'[j] > 0] = [j \in Intent |-> delivered[j] > 0]
         /\ next # "outcome_unknown" =>
              [j \in Intent |-> Entered(j, "outcome_unknown")']
                = [j \in Intent |-> Entered(j, "outcome_unknown")]
         /\ next = "outcome_unknown" =>
              [j \in Intent |-> Entered(j, "outcome_unknown")']
                = [[j \in Intent |-> Entered(j, "outcome_unknown")] EXCEPT ![i] = TRUE]
         /\ outcome'[i] = next
<1>1. outcome'[i] = next /\ \A j \in Intent : j # i => outcome'[j] = outcome[j]
  BY DEF IInv, TypeOK
<1>2. \A j \in Intent : j # i => Phase(j)' = Phase(j)
  BY <1>1, PhaseStill
<1>3. \A j \in Intent : (Entered(j, "outcome_unknown") \in BOOLEAN)
                        /\ (Entered(j, "outcome_unknown")' \in BOOLEAN)
  BY DEF Entered
<1>4. \A from, to : Phase(i) = from /\ Phase(i)' = to => Contract!Move(i, from, to)
  BY <1>2 DEF Contract!Move
<1>5. next # "outcome_unknown" =>
        \A j \in Intent : Entered(j, "outcome_unknown")' = Entered(j, "outcome_unknown")
  BY <1>3
<1>6. next = "outcome_unknown" =>
        /\ Entered(i, "outcome_unknown")' = TRUE
        /\ \A j \in Intent : j # i => Entered(j, "outcome_unknown")' = Entered(j, "outcome_unknown")
  BY <1>3
<1> QED
  BY <1>1, <1>4, <1>5, <1>6

\* The moves the contract allows: those of a call, with what it has shown.
LEMMA Moved ==
  ASSUME IInv, UNCHANGED delivered, NEW i \in Intent, NEW next \in Outcome,
         NEW hasReference \in BOOLEAN, Transition(i, next, hasReference),
         \/ outcome[i] \in Executable /\ next = "dispatching"
         \/ /\ outcome[i] = "dispatching" /\ next = "failed_before_effect"
            /\ delivered[i] > 0 => Entered(i, "outcome_unknown")
         \/ outcome[i] = "dispatching" /\ next = "outcome_unknown"
         \/ outcome[i] = "outcome_unknown" /\ next = "reconciling"
         \/ outcome[i] = "reconciling" /\ next \in {"safe_to_retry", "needs_operator"}
         \/ outcome[i] \in {"dispatching", "reconciling"} /\ next = "confirmed" /\ delivered[i] > 0
  PROVE  Contract!Next
<1>1. /\ outcome' = [outcome EXCEPT ![i] = next]
      /\ \A j \in Intent : \A s : Entered(j, s)' <=> Entered(j, s) \/ (j = i /\ s = next)
  BY LongerTrail DEF Transition, IInv, TypeOK
<1>2. /\ \A from, to : Phase(i) = from /\ Phase(i)' = to => Contract!Move(i, from, to)
      /\ [j \in Intent |-> delivered'[j] > 0] = [j \in Intent |-> delivered[j] > 0]
      /\ next # "outcome_unknown" =>
           [j \in Intent |-> Entered(j, "outcome_unknown")']
             = [j \in Intent |-> Entered(j, "outcome_unknown")]
      /\ next = "outcome_unknown" =>
           [j \in Intent |-> Entered(j, "outcome_unknown")']
             = [[j \in Intent |-> Entered(j, "outcome_unknown")] EXCEPT ![i] = TRUE]
      /\ outcome'[i] = next
  BY <1>1, Shown
<1>3. CASE outcome[i] \in Executable /\ next = "dispatching"
  <2>1. Phase(i) = "ready" /\ Phase(i)' = "open"
    BY <1>2, <1>3 DEF Phase, Executable
  <2> QED
    BY <1>2, <1>3, <2>1 DEF Contract!Next, Contract!Open
<1>4. CASE /\ outcome[i] = "dispatching" /\ next = "failed_before_effect"
           /\ delivered[i] > 0 => Entered(i, "outcome_unknown")
  <2>1. Phase(i) = "open" /\ Phase(i)' = "ready"
    BY <1>2, <1>4 DEF Phase, Executable
  <2> QED
    BY <1>2, <1>4, <2>1 DEF Contract!Next, Contract!CloseWithoutEffect
<1>5. CASE outcome[i] = "dispatching" /\ next = "outcome_unknown"
  <2>1. Phase(i) = "open" /\ Phase(i)' = "ambiguous"
    BY <1>2, <1>5 DEF Phase, Executable
  <2> QED
    BY <1>2, <1>5, <2>1 DEF Contract!Next, Contract!CloseAmbiguous
<1>6. CASE outcome[i] = "outcome_unknown" /\ next = "reconciling"
  <2>1. Phase(i) = "ambiguous" /\ Phase(i)' = "examined"
    BY <1>2, <1>6 DEF Phase, Executable
  <2> QED
    BY <1>2, <1>6, <2>1 DEF Contract!Next, Contract!Examine
<1>7. CASE outcome[i] = "reconciling" /\ next \in {"safe_to_retry", "needs_operator"}
  <2>1. Phase(i) = "examined" /\ Phase(i)' \in {"ready", "operator"}
    BY <1>2, <1>7 DEF Phase, Executable
  <2> QED
    BY <1>2, <1>7, <2>1 DEF Contract!Next, Contract!Release
<1>8. CASE /\ outcome[i] \in {"dispatching", "reconciling"} /\ next = "confirmed"
           /\ delivered[i] > 0
  <2>1. Phase(i) \in {"open", "examined"} /\ Phase(i)' = "confirmed"
    BY <1>2, <1>8 DEF Phase, Executable
  <2> QED
    BY <1>2, <1>8, <2>1 DEF Contract!Next, Contract!Confirm
<1> QED
  BY <1>3, <1>4, <1>5, <1>6, <1>7, <1>8

LEMMA RecordRefines ==
  ASSUME IInv, NEW w \in Worker, RecordDispatch(w) \/ RecordReconciliation(w)
  PROVE  Contract!Next \/ UNCHANGED Contract!vars
<1> DEFINE t == worker[w]
<1>1. t \in Task /\ t # None /\ Shape(t) /\ t.step \in {"record", "conclude"}
  BY DEF IInv, TypeOK, Shapes, RecordDispatch, RecordReconciliation, RecordFrom
<1>2. PICK i \in Intent : i = t.intent
  BY <1>1 DEF Task
<1>3. t.state \in Outcome /\ t.reference \in BOOLEAN /\ UNCHANGED delivered
  BY <1>1 DEF Task, RecordDispatch, RecordReconciliation, RecordFrom, provider
<1>4. t.state = "confirmed" => delivered[i] > 0
  BY <1>1, <1>2 DEF IInv, Backed
<1>5. CASE RecordDispatch(w)
  <2>1. t.step = "record" /\ Dispatches(w, i)
    BY <1>1, <1>2, <1>5 DEF RecordDispatch, RecordFrom, Dispatches
  <2>2. outcome[i] = "dispatching"
    BY <2>1 DEF IInv, OneOwner
  <2>3. Transition(i, t.state, t.reference)
    BY <1>2, <1>5, <2>2 DEF RecordDispatch, RecordFrom
  <2>4. t.state \in {"confirmed", "failed_before_effect", "outcome_unknown"}
    BY <1>1, <2>1 DEF Shape
  <2>5. t.state = "failed_before_effect" /\ delivered[i] > 0 => Entered(i, "outcome_unknown")
    BY <2>1 DEF IInv, Unambiguous, Told
  <2> QED
    BY <1>3, <1>4, <2>2, <2>3, <2>4, <2>5, Moved
<1>6. CASE RecordReconciliation(w)
  <2>1. t.step = "conclude" /\ Reconciles(w, i)
    BY <1>1, <1>2, <1>6 DEF RecordReconciliation, RecordFrom, Reconciles
  <2>2. outcome[i] = "reconciling"
    BY <2>1 DEF IInv, OneOwner
  <2>3. Transition(i, t.state, t.reference)
    BY <1>2, <1>6, <2>2 DEF RecordReconciliation, RecordFrom
  <2>4. t.state \in {"confirmed", "needs_operator", "safe_to_retry"}
    BY <1>1, <2>1 DEF Shape
  <2> QED
    BY <1>3, <1>4, <2>2, <2>3, <2>4, Moved
<1> QED
  BY <1>5, <1>6

LEMMA ClaimRefines ==
  ASSUME IInv, NEW w \in Worker, Claim(w) \/ ClaimReconciliation(w) \/ RefuseRecipient(w)
  PROVE  Contract!Next \/ UNCHANGED Contract!vars
<1> DEFINE t == worker[w]
<1>1. t \in Task /\ t # None /\ Shape(t)
  BY DEF IInv, TypeOK, Shapes, Claim, ClaimReconciliation, RefuseRecipient
<1>2. PICK i \in Intent : i = t.intent
  BY <1>1 DEF Task
<1>3. UNCHANGED delivered
  BY DEF Claim, ClaimReconciliation, RefuseRecipient, provider
<1>4. CASE Claim(w)
  <2>1. CASE Claimable(t)
    <3>1. outcome[i] \in Executable /\ Transition(i, "dispatching", FALSE)
      BY <1>1, <1>2, <1>4, <2>1 DEF Claim, Claimable, Shape
    <3> QED
      BY <1>3, <3>1, Moved DEF Outcome
  <2>2. CASE ~Claimable(t)
    BY <1>3, <1>4, <2>2, Idle DEF Claim
  <2> QED
    BY <2>1, <2>2
<1>5. CASE ClaimReconciliation(w)
  <2>1. CASE outcome[i] = "outcome_unknown"
    <3>1. Transition(i, "reconciling", FALSE)
      BY <1>2, <1>5, <2>1 DEF ClaimReconciliation
    <3> QED
      BY <1>3, <2>1, <3>1, Moved DEF Outcome
  <2>2. CASE outcome[i] # "outcome_unknown"
    BY <1>2, <1>3, <1>5, <2>2, Idle DEF ClaimReconciliation
  <2> QED
    BY <2>1, <2>2
<1>6. CASE RefuseRecipient(w)
  <2>1. Dispatches(w, i) /\ t.step = "send"
    BY <1>1, <1>2, <1>6 DEF RefuseRecipient, Dispatches
  <2>2. outcome[i] = "dispatching"
    BY <2>1 DEF IInv, OneOwner
  <2>3. Transition(i, "failed_before_effect", FALSE)
    BY <1>2, <1>6 DEF RefuseRecipient, Refusal
  <2>4. delivered[i] > 0 => Entered(i, "outcome_unknown")
    BY <2>1 DEF IInv, Unambiguous, Told
  <2> QED
    BY <1>3, <2>2, <2>3, <2>4, Moved DEF Outcome
<1> QED
  BY <1>4, <1>5, <1>6

LEMMA AuthorizeRefines ==
  ASSUME IInv, NEW i \in Intent, Authorize(i)
  PROVE  Contract!Next
<1>1. /\ outcome[i] = "absent" /\ outcome' = [outcome EXCEPT ![i] = "approved"]
      /\ audit[i] = <<>> /\ audit' = [audit EXCEPT ![i] = <<"approved">>]
      /\ UNCHANGED delivered
  BY DEF Authorize, InitialOutcome, provider, IInv, Trails
<1>2. /\ audit'[i] = <<"approved">>
      /\ \A j \in Intent : j # i => audit'[j] = audit[j]
  BY <1>1 DEF IInv, TypeOK
<1>3. \A j \in Intent : \A s : Entered(j, s)' <=> Entered(j, s) \/ (j = i /\ s = "approved")
  BY <1>1, <1>2 DEF Entered
<1>4. /\ \A from, to : Phase(i) = from /\ Phase(i)' = to => Contract!Move(i, from, to)
      /\ [j \in Intent |-> delivered'[j] > 0] = [j \in Intent |-> delivered[j] > 0]
      /\ [j \in Intent |-> Entered(j, "outcome_unknown")']
           = [j \in Intent |-> Entered(j, "outcome_unknown")]
      /\ outcome'[i] = "approved"
  BY <1>1, <1>3, Shown DEF Outcome
<1>5. Phase(i) = "absent" /\ Phase(i)' = "ready"
  BY <1>1, <1>4 DEF Phase, Executable
<1> QED
  BY <1>4, <1>5 DEF Contract!Next, Contract!Authorize

LEMMA EmailRefines ==
  ASSUME IInv, NEW w \in Worker, ProviderHandles(w) \/ FakeDispatch(w)
  PROVE  Contract!Next \/ UNCHANGED Contract!vars
<1> DEFINE t == worker[w]
<1>1. t \in Task /\ t # None /\ Shape(t) /\ t.step \in {"send", "await"}
  BY DEF IInv, TypeOK, Shapes, Shape, ProviderHandles, FakeDispatch, Sending
<1>2. PICK i \in Intent : i = t.intent /\ Dispatches(w, i)
  BY <1>1 DEF Task, Dispatches
<1>3. outcome[i] = "dispatching" /\ UNCHANGED ledger
  BY <1>2 DEF IInv, OneOwner, ProviderHandles, FakeDispatch
<1>4. Accept(i) \/ UNCHANGED delivered
  BY <1>2 DEF ProviderHandles, FakeDispatch
<1> QED
  BY <1>3, <1>4, Sent, Idle

LEMMA StepRefines ==
  ASSUME IInv, [Next]_vars
  PROVE  Contract!Next \/ UNCHANGED Contract!vars
<1>1. ASSUME NEW i \in Intent, Authorize(i) PROVE Contract!Next
  BY <1>1, AuthorizeRefines
<1>2. ASSUME NEW i \in Intent, ProviderHandlesStray(i)
      PROVE  Contract!Next \/ UNCHANGED Contract!vars
  <2>1. outcome[i] = "dispatching" \/ Entered(i, "outcome_unknown")
    BY <1>2 DEF ProviderHandlesStray, IInv, Unambiguous
  <2> QED
    BY <1>2, <2>1, Sent, Idle DEF ProviderHandlesStray
<1>3. ASSUME NEW w \in Worker, NEW i \in Intent,
             Reconcile(w, i) \/ \E controlled \in BOOLEAN : Execute(w, i, controlled)
      PROVE  UNCHANGED Contract!vars
  BY <1>3, Idle DEF Reconcile, Execute, provider
<1>4. ASSUME NEW w \in Worker, Progress(w)
      PROVE  Contract!Next \/ UNCHANGED Contract!vars
  <2>1. CASE Send(w) \/ SendFails(w) \/ DispatchAnswered(w) \/ ReconcileAnswered(w)
    BY <2>1, Idle DEF Send, SendFails, DispatchAnswered, ReconcileAnswered, provider
  <2> QED
    BY <1>4, <2>1, ClaimRefines, RecordRefines, EmailRefines DEF Progress
<1>5. ASSUME NEW w \in Worker, ProviderHandles(w)
      PROVE  Contract!Next \/ UNCHANGED Contract!vars
  BY <1>5, EmailRefines
<1>6. ASSUME NEW w \in Worker, Crash(w) PROVE UNCHANGED Contract!vars
  BY <1>6, Idle DEF Crash
<1>7. CASE Tick \/ UNCHANGED vars
  BY <1>7, Idle DEF Tick, vars, ledger, provider
<1> QED
  BY <1>1, <1>2, <1>3, <1>4, <1>5, <1>6, <1>7 DEF Next

\* The service over its store, its workers and the network are an external
\* effect: attempts one at a time, no effect outside an attempt or a declared
\* ambiguity, no confirmation of what did not happen.
THEOREM ContractImplemented == Spec => ImplementsContract
<1>1. Init => Contract!Init
  <2> SUFFICES ASSUME Init PROVE Contract!Init
    OBVIOUS
  <2>1. \A i \in Intent : Phase(i) = "absent"
    BY DEF Init, Phase, Executable
  <2>2. ASSUME NEW i \in Intent PROVE Entered(i, "outcome_unknown") = FALSE
    <3>1. audit[i] = <<>>
      BY DEF Init
    <3>2. ~Entered(i, "outcome_unknown")
      BY <3>1 DEF Entered
    <3> QED
      BY <3>2 DEF Entered
  <2>3. ASSUME NEW i \in Intent PROVE (delivered[i] > 0) = FALSE
    <3>1. delivered[i] = 0
      BY DEF Init
    <3>2. ~(delivered[i] > 0)
      BY <3>1
    <3> QED
      BY <3>1, <3>2
  <2> QED
    BY <2>1, <2>2, <2>3 DEF Contract!Init
<1>2. IInv /\ [Next]_vars => [Contract!Next]_(Contract!vars)
  BY StepRefines
<1> QED
  BY <1>1, <1>2, EmailInvariant, PTL DEF Spec, ImplementsContract, Contract!Spec
=============================================================================
