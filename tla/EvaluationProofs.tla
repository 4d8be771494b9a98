-------------------------- MODULE EvaluationProofs --------------------------
(***************************************************************************)
(* Of the evaluation, for any requirements, candidates, evidence and       *)
(* conflicts: a candidate is eligible exactly when it is proven on every   *)
(* mandatory requirement, only a resolution reverses an answer, and the    *)
(* ranking recommends the best of those that were proven.                  *)
(*                                                                         *)
(* The first two come from what it takes to get an answer at all:          *)
(* conflicts that are resolved in one way, and evidence left that can be   *)
(* read and speaks with one voice.  The first needs, besides, that the     *)
(* evidence stands still once the first candidate is evaluated; the        *)
(* ranking, that sort keys are in a strict total order - for which the     *)
(* sums of weights in them must be numbers, however many requirements      *)
(* there are.                                                              *)
(***************************************************************************)
EXTENDS Evaluation, FiniteSetTheorems, WellFoundedInduction, TLAPS

\* The conflicts about the acceptable evidence, what they leave to consider,
\* and the values it has.
Disputes(seen, known, c, r) == Touching(known, r, Acceptable(seen, c, r))
Remaining(seen, known, c, r) ==
  Considered(Disputes(seen, known, c, r), Acceptable(seen, c, r))
Voices(seen, known, c, r, t) == Values(r, Usable(Remaining(seen, known, c, r), t))

Answers(seen, known, c, r, t) ==
  /\ ~Unresolved(Disputes(seen, known, c, r))
  /\ Disputes(seen, known, c, r) = {} =>
       \A o \in Acceptable(seen, c, r) : o.classification # "conflicting"
  /\ Voices(seen, known, c, r, t) # {}
  /\ \A v, w \in Voices(seen, known, c, r, t) : v = w

\* Evidence and conflicts; conflicts are about evidence there is.
EvidenceTypes ==
  /\ observations \subseteq Pool
  /\ \A k \in conflicts : /\ k.ids \subseteq {o.id : o \in observations}
                           /\ k.resolved \in k.ids \cup {None}

\* The evaluations made so far were made on the evidence there is now.
Evaluated ==
  \A c \in DOMAIN evaluations :
    evaluations[c].status =
      [r \in Requirement |-> Standing(observations, conflicts, c, r, evaluations[c].at)]

ConflictGroup ==
  [key : {o.key : o \in Pool}, ids : SUBSET {o.id : o \in Pool},
   resolved : {o.id : o \in Pool} \cup {None}]

IInv ==
  /\ EvidenceTypes /\ Evaluated
  /\ conflicts \subseteq ConflictGroup
  /\ evaluations \in Seq([at : Nat, status : [Requirement -> Statuses]])
  /\ clock \in Nat

-----------------------------------------------------------------------------
(* What it takes to get an answer.                                         *)

LEMMA JudgedIsStatus ==
  \A r, v : Judged(r, v) \in {"satisfied", "not_satisfied", "invalid"}
BY DEF Judged

LEMMA StandingIsStatus ==
  \A seen, known, c, r, t : Standing(seen, known, c, r, t) \in Statuses
BY JudgedIsStatus DEF Standing, Statuses

\* Nothing else gives an answer.
LEMMA AnswerNeeds ==
  ASSUME NEW seen, NEW known, NEW c, NEW r, NEW t,
         Standing(seen, known, c, r, t) \in Supported
  PROVE  Answers(seen, known, c, r, t)
<1> DEFINE acceptable == Acceptable(seen, c, r)
           ks == Touching(known, r, acceptable)
           considered == Considered(ks, acceptable)
           usable == Usable(considered, t)
           values == Values(r, usable)
<1>1. Standing(seen, known, c, r, t) =
        IF Relevant(seen, c, r) = {} THEN "unknown"
        ELSE IF acceptable = {} THEN "invalid"
        ELSE IF Unresolved(ks) THEN "conflicting"
        ELSE IF considered = {} THEN "invalid"
        ELSE IF ks = {} /\ \E o \in acceptable : o.classification = "conflicting"
             THEN "conflicting"
        ELSE IF usable = {}
             THEN IF \E o \in considered : ~Fresh(o, t) THEN "stale" ELSE "unknown"
        ELSE IF values = {} THEN "invalid"
        ELSE IF \E v, w \in values : v # w THEN "conflicting"
        ELSE Judged(r, CHOOSE v \in values : TRUE)
  BY DEF Standing
<1> HIDE DEF acceptable, ks, considered, usable, values
<1>2. /\ ~Unresolved(ks)
      /\ ks = {} => \A o \in acceptable : o.classification # "conflicting"
      /\ values # {}
      /\ \A v, w \in values : v = w
  BY <1>1 DEF Supported
<1> QED
  BY <1>2 DEF Answers, Disputes, Remaining, Voices, acceptable, ks, considered, usable, values

\* And when there is an answer, it is the judgement of the one voice.
LEMMA AnswerIs ==
  ASSUME NEW seen, NEW known, NEW c, NEW r, NEW t, Answers(seen, known, c, r, t),
         NEW v \in Voices(seen, known, c, r, t)
  PROVE  Standing(seen, known, c, r, t) = Judged(r, v)
<1> DEFINE acceptable == Acceptable(seen, c, r)
           ks == Touching(known, r, acceptable)
           considered == Considered(ks, acceptable)
           usable == Usable(considered, t)
           values == Values(r, usable)
<1>1. Standing(seen, known, c, r, t) =
        IF Relevant(seen, c, r) = {} THEN "unknown"
        ELSE IF acceptable = {} THEN "invalid"
        ELSE IF Unresolved(ks) THEN "conflicting"
        ELSE IF considered = {} THEN "invalid"
        ELSE IF ks = {} /\ \E o \in acceptable : o.classification = "conflicting"
             THEN "conflicting"
        ELSE IF usable = {}
             THEN IF \E o \in considered : ~Fresh(o, t) THEN "stale" ELSE "unknown"
        ELSE IF values = {} THEN "invalid"
        ELSE IF \E w, u \in values : w # u THEN "conflicting"
        ELSE Judged(r, CHOOSE w \in values : TRUE)
  BY DEF Standing
<1>2. v \in values
  BY DEF Voices, Remaining, Disputes
<1>3. usable # {} /\ considered # {} /\ acceptable # {} /\ Relevant(seen, c, r) # {}
  <2>1. usable # {}
    BY <1>2 DEF Values, Readable
  <2>2. considered # {}
    BY <2>1 DEF Usable
  <2>3. acceptable # {}
    BY <2>2 DEF Considered
  <2> QED
    BY <2>1, <2>2, <2>3 DEF Acceptable
<1>4. /\ ~Unresolved(ks)
      /\ ks = {} => \A o \in acceptable : o.classification # "conflicting"
      /\ \A w, u \in values : w = u
  BY DEF Answers, Disputes, Remaining, Voices
<1> HIDE DEF acceptable, ks, considered, usable, values
<1>5. (CHOOSE w \in values : TRUE) = v
  BY <1>2, <1>4
<1> QED
  BY <1>1, <1>2, <1>3, <1>4, <1>5

-----------------------------------------------------------------------------
(* Eligible is proven.                                                     *)

LEMMA DisputesAreAbout ==
  ASSUME NEW c, NEW r
  PROVE  Disputes(observations, conflicts, c, r) = About(c, r)
BY DEF Disputes, Touching, About

\* What may be counted on is what is usable and can be read.
LEMMA AdmittedAre ==
  ASSUME EvidenceTypes, NEW c, NEW r, NEW t \in Nat
  PROVE  Admitted(c, r, t) = Readable(r, Usable(Acceptable(observations, c, r), t))
<1>1. ASSUME NEW o \in observations PROVE Fresh(o, t) <=> o.until = Forever \/ t <= o.until
  BY <1>1, EvaluationAssumption DEF Fresh, EvidenceTypes
<1> QED
  BY <1>1 DEF Admitted, Readable, Usable, Acceptable, Relevant

\* Evidence with the same id is the same evidence.
LEMMA SameId ==
  ASSUME EvidenceTypes
  PROVE  /\ \A o, p \in observations : o.id = p.id => o = p
         /\ \A o \in observations : o.id # None
BY EvaluationAssumption DEF EvidenceTypes

LEMMA SatisfiedIsProven ==
  ASSUME EvidenceTypes, NEW c, NEW r, NEW t \in Nat
  PROVE  Standing(observations, conflicts, c, r, t) = "satisfied" <=> Proven(c, r, t)
<1> DEFINE acceptable == Acceptable(observations, c, r)
           ks == About(c, r)
           left == Remaining(observations, conflicts, c, r)
           values == Voices(observations, conflicts, c, r, t)
<1>1. acceptable \subseteq observations
  BY DEF Acceptable, Relevant
<1>2. left = Considered(ks, acceptable)
  BY DisputesAreAbout DEF Remaining
<1>3. values = {Converted(r, o) : o \in Readable(r, Usable(left, t))}
  BY DEF Voices, Values
<1>4. Admitted(c, r, t) = Readable(r, Usable(acceptable, t))
  BY AdmittedAre
<1>5. Readable(r, Usable(left, t)) = left \cap Admitted(c, r, t)
  <2>1. left \subseteq acceptable
    BY <1>2 DEF Considered
  <2> QED
    BY <2>1, <1>4 DEF Readable, Usable
<1>6. Answers(observations, conflicts, c, r, t) <=>
        /\ ~Unresolved(ks)
        /\ ks = {} => \A o \in acceptable : o.classification # "conflicting"
        /\ values # {}
        /\ \A v, w \in values : v = w
  BY DisputesAreAbout DEF Answers
<1>7. ASSUME Standing(observations, conflicts, c, r, t) = "satisfied"
      PROVE  Proven(c, r, t)
  <2>1. Answers(observations, conflicts, c, r, t)
    BY <1>7, AnswerNeeds DEF Supported
  <2>2. PICK v \in values : TRUE
    BY <2>1, <1>6
  <2>3. PICK o \in left \cap Admitted(c, r, t) : v = Converted(r, o)
    BY <2>2, <1>3, <1>5
  <2>4. Judged(r, Converted(r, o)) = "satisfied"
    BY <2>1, <2>2, <2>3, <1>7, AnswerIs
  <2>5. CASE ks # {}
    <3>1. \A k \in ks : k.resolved = o.id
      BY <2>1, <2>3, <2>5, <1>2, <1>6 DEF Considered, Unresolved
    <3> QED
      BY <2>3, <2>4, <2>5, <3>1 DEF Proven
  <2>6. CASE ks = {}
    <3>1. left = acceptable
      BY <2>6, <1>2 DEF Considered
    <3>2. Admitted(c, r, t) \subseteq acceptable
      BY <1>4 DEF Readable, Usable
    <3>3. \A p \in Admitted(c, r, t) : Converted(r, p) = Converted(r, o)
      BY <3>1, <3>2, <2>1, <2>3, <1>3, <1>5, <1>6
    <3> QED
      BY <2>1, <2>3, <2>4, <2>6, <3>3, <1>6 DEF Proven
  <2> QED
    BY <2>5, <2>6
<1>8. ASSUME Proven(c, r, t)
      PROVE  Standing(observations, conflicts, c, r, t) = "satisfied"
  <2>1. PICK o \in Admitted(c, r, t) :
          /\ Judged(r, Converted(r, o)) = "satisfied"
          /\ \/ ks # {} /\ \A k \in ks : k.resolved = o.id
             \/ /\ ks = {}
                /\ \A p \in acceptable : p.classification # "conflicting"
                /\ \A p \in Admitted(c, r, t) : Converted(r, p) = Converted(r, o)
    BY <1>8 DEF Proven
  <2>2. o \in acceptable
    BY <2>1, <1>4 DEF Readable, Usable
  <2>3. SUFFICES /\ ~Unresolved(ks)
                 /\ Converted(r, o) \in values
                 /\ \A v \in values : v = Converted(r, o)
                 /\ ks = {} => \A p \in acceptable : p.classification # "conflicting"
    <3>1. Answers(observations, conflicts, c, r, t)
      BY <2>3, <1>6
    <3> QED
      BY <3>1, <2>3, <2>1, AnswerIs
  <2>4. CASE ks # {}
    <3>1. \A k \in ks : k.resolved = o.id
      BY <2>1, <2>4
    <3>2. \A k \in ks : k.resolved \in k.ids
      <4>1. o.id # None
        BY <2>2, <1>1, SameId
      <4>2. ks \subseteq conflicts
        BY DEF About
      <4> QED
        BY <4>1, <4>2, <3>1 DEF EvidenceTypes
    <3>3. left = {o}
      BY <2>2, <2>4, <3>1, <1>1, <1>2, SameId DEF Considered
    <3>4. values = {Converted(r, o)}
      BY <3>3, <2>1, <1>3, <1>5
    <3> QED
      BY <2>4, <3>1, <3>2, <3>4 DEF Unresolved
  <2>5. CASE ks = {}
    <3>1. left = acceptable
      BY <2>5, <1>2 DEF Considered
    <3>2. Converted(r, o) \in values
      BY <2>1, <2>2, <3>1, <1>3, <1>5
    <3>3. \A v \in values : v = Converted(r, o)
      BY <2>1, <2>5, <3>1, <1>3, <1>5
    <3> QED
      BY <2>1, <2>5, <3>2, <3>3 DEF Unresolved
  <2> QED
    BY <2>4, <2>5
<1> QED
  BY <1>7, <1>8

-----------------------------------------------------------------------------
(* The invariant, step by step.                                            *)

\* While the evidence is gathered there is nothing evaluated to go wrong.
LEMMA EvaluatedWhileGathering ==
  ASSUME Gathering, UNCHANGED evaluations
  PROVE  Evaluated'
BY DEF Gathering, Evaluated

LEMMA ObserveKeeps ==
  ASSUME IInv, NEW o \in Pool, Observe(o)
  PROVE  IInv'
<1>1. EvidenceTypes'
  BY DEF IInv, EvidenceTypes, Observe
<1> QED
  BY <1>1, EvaluatedWhileGathering DEF IInv, Observe

\* What is found is about evidence there is, and open.
LEMMA FoundAre ==
  ASSUME EvidenceTypes
  PROVE  \A k \in Found : /\ k \in ConflictGroup
                          /\ k.ids \subseteq {o.id : o \in observations}
                          /\ k.resolved = None
<1> SUFFICES ASSUME NEW k \in Found
             PROVE  /\ k \in ConflictGroup
                    /\ k.ids \subseteq {o.id : o \in observations}
                    /\ k.resolved = None
  OBVIOUS
<1>1. PICK o \in observations :
        k = [key |-> o.key, ids |-> {p.id : p \in Grain(o)}, resolved |-> None]
  BY DEF Found
<1>2. Grain(o) \subseteq observations
  BY DEF Grain
<1>3. {p.id : p \in Grain(o)} \subseteq {p.id : p \in observations}
  BY <1>2
<1>4. {p.id : p \in observations} \subseteq {p.id : p \in Pool} /\ o \in Pool
  BY DEF EvidenceTypes
<1> QED
  BY <1>1, <1>3, <1>4 DEF ConflictGroup

LEMMA FindKeeps ==
  ASSUME IInv, FindConflicts
  PROVE  IInv'
<1>1. EvidenceTypes' /\ conflicts' \subseteq ConflictGroup
  BY FoundAre DEF IInv, EvidenceTypes, FindConflicts
<1> QED
  BY <1>1, EvaluatedWhileGathering DEF IInv, FindConflicts

LEMMA ResolveKeeps ==
  ASSUME IInv, NEW k \in conflicts, NEW o \in observations, ResolveConflict(k, o.id)
  PROVE  IInv'
<1> DEFINE l == [k EXCEPT !.resolved = o.id]
<1>1. l \in ConflictGroup /\ l.ids = k.ids /\ l.resolved \in k.ids
  BY DEF IInv, EvidenceTypes, ConflictGroup, ResolveConflict
<1>2. conflicts' = (conflicts \ {k}) \cup {l} /\ observations' = observations
  BY DEF ResolveConflict
<1> HIDE DEF l
<1>3. EvidenceTypes' /\ conflicts' \subseteq ConflictGroup
  BY <1>1, <1>2 DEF IInv, EvidenceTypes
<1> QED
  BY <1>3, EvaluatedWhileGathering DEF IInv, ResolveConflict

LEMMA EvaluateKeeps ==
  ASSUME IInv, Evaluate
  PROVE  IInv'
<1> DEFINE c == Len(evaluations) + 1
           e == [at |-> clock,
                 status |-> [r \in Requirement |->
                               Standing(observations, conflicts, c, r, clock)]]
<1>1. evaluations' = Append(evaluations, e) /\ UNCHANGED <<observations, conflicts, clock>>
  BY DEF Evaluate
<1>2. e \in [at : Nat, status : [Requirement -> Statuses]]
  BY StandingIsStatus DEF IInv
<1>3. e.status = [r \in Requirement |-> Standing(observations, conflicts, c, r, e.at)]
  OBVIOUS
<1> HIDE DEF e
<1>4. /\ evaluations' \in Seq([at : Nat, status : [Requirement -> Statuses]])
      /\ DOMAIN evaluations' = DOMAIN evaluations \cup {c}
      /\ evaluations'[c] = e
      /\ \A d \in DOMAIN evaluations : evaluations'[d] = evaluations[d]
  BY <1>1, <1>2 DEF IInv
<1>5. Evaluated'
  <2> SUFFICES ASSUME NEW d \in DOMAIN evaluations'
               PROVE  evaluations'[d].status =
                        [r \in Requirement |->
                          Standing(observations, conflicts, d, r, evaluations'[d].at)]
    BY <1>1 DEF Evaluated
  <2>1. CASE d = c
    BY <2>1, <1>3, <1>4
  <2>2. CASE d \in DOMAIN evaluations
    BY <2>2, <1>4 DEF IInv, Evaluated
  <2> QED
    BY <2>1, <2>2, <1>4
<1>6. EvidenceTypes' /\ conflicts' \subseteq ConflictGroup
  BY <1>1 DEF IInv, EvidenceTypes
<1> QED
  BY <1>1, <1>4, <1>5, <1>6 DEF IInv

LEMMA RestKeeps ==
  ASSUME IInv, Tick \/ Rank \/ UNCHANGED vars
  PROVE  IInv'
<1>1. UNCHANGED <<observations, conflicts, evaluations>>
  BY DEF Tick, Rank, vars
<1>2. clock' \in Nat
  BY DEF IInv, Tick, Rank, vars
<1>3. EvidenceTypes' /\ Evaluated'
  BY <1>1 DEF IInv, EvidenceTypes, Evaluated
<1> QED
  BY <1>1, <1>2, <1>3 DEF IInv

\* The inductive invariant.
THEOREM EvaluationInvariant == Spec => []IInv
<1>1. Init => IInv
  BY DEF Init, IInv, EvidenceTypes, Evaluated
<1>2. IInv /\ [Next]_vars => IInv'
  BY ObserveKeeps, FindKeeps, ResolveKeeps, EvaluateKeeps, RestKeeps DEF Next
<1> QED
  BY <1>1, <1>2, PTL DEF Spec

LEMMA ElementOfSeq ==
  ASSUME NEW S, NEW s \in Seq(S), NEW i \in DOMAIN s
  PROVE  s[i] \in S
OBVIOUS

\* A candidate is eligible exactly when every mandatory requirement was proven
\* when it was evaluated (evaluate_candidate).
THEOREM EligibleAreProven == Spec => []EligibleIsProven
<1>1. IInv => EligibleIsProven
  <2> SUFFICES ASSUME IInv, NEW c \in DOMAIN evaluations
               PROVE  Eligible(evaluations[c])
                        <=> \A r \in OfPriority("mandatory") : Proven(c, r, evaluations[c].at)
    BY DEF EligibleIsProven
  <2>1. evaluations[c].at \in Nat
    <3>1. evaluations \in Seq([at : Nat, status : [Requirement -> Statuses]])
      BY DEF IInv
    <3>2. evaluations[c] \in [at : Nat, status : [Requirement -> Statuses]]
      BY <3>1, ElementOfSeq
    <3> QED
      BY <3>2
  <2>2. \A r \in Requirement :
          evaluations[c].status[r] = Standing(observations, conflicts, c, r, evaluations[c].at)
    BY DEF IInv, Evaluated
  <2>3. OfPriority("mandatory") \subseteq Requirement
    BY DEF OfPriority
  <2>4. Eligible(evaluations[c])
          <=> \A r \in OfPriority("mandatory") : evaluations[c].status[r] = "satisfied"
    BY DEF Eligible, Failed, Unsettled, Supported
  <2>5. \A r \in OfPriority("mandatory") :
          evaluations[c].status[r] = "satisfied" <=> Proven(c, r, evaluations[c].at)
    BY <2>1, <2>2, <2>3, SatisfiedIsProven DEF IInv
  <2> QED
    BY <2>4, <2>5
<1> QED
  BY <1>1, EvaluationInvariant, PTL

-----------------------------------------------------------------------------
(* Only a resolution reverses.                                             *)

LEMMA SharedVoice ==
  ASSUME NEW seen, NEW known, NEW t, NEW seen2, NEW known2, NEW t2, NEW c, NEW r,
         Answers(seen, known, c, r, t), Answers(seen2, known2, c, r, t2),
         \/ Voices(seen, known, c, r, t) \subseteq Voices(seen2, known2, c, r, t2)
         \/ Voices(seen2, known2, c, r, t2) \subseteq Voices(seen, known, c, r, t)
  PROVE  Standing(seen, known, c, r, t) = Standing(seen2, known2, c, r, t2)
<1>1. PICK v : v \in Voices(seen, known, c, r, t) /\ v \in Voices(seen2, known2, c, r, t2)
  BY DEF Answers
<1> QED
  BY <1>1, AnswerIs

\* More to consider, more voices.
LEMMA MoreVoices ==
  ASSUME NEW seen, NEW known, NEW seen2, NEW known2, NEW c, NEW r, NEW t,
         Remaining(seen, known, c, r) \subseteq Remaining(seen2, known2, c, r)
  PROVE  Voices(seen, known, c, r, t) \subseteq Voices(seen2, known2, c, r, t)
BY DEF Voices, Values, Readable, Usable

\* A new observation is in no conflict yet, so it is considered beside what
\* was, or not at all.
LEMMA ObserveReversesNothing ==
  ASSUME IInv, NEW o \in Pool, Observe(o), NEW c, NEW r,
         Answers(observations, conflicts, c, r, clock),
         Answers(observations', conflicts', c, r, clock')
  PROVE  Standing(observations, conflicts, c, r, clock)
           = Standing(observations', conflicts', c, r, clock')
<1> DEFINE old == Acceptable(observations, c, r)
           new == Acceptable(observations', c, r)
           ks == Touching(conflicts, r, old)
<1>1. observations' = observations \cup {o} /\ conflicts' = conflicts /\ clock' = clock
  BY DEF Observe
<1>2. old \subseteq new /\ new \subseteq old \cup {o} /\ old \subseteq observations
  BY <1>1 DEF Acceptable, Relevant
<1>3. \A p \in observations : p.id # o.id
  BY EvaluationAssumption DEF IInv, EvidenceTypes, Observe
<1>4. \A k \in conflicts : o.id \notin k.ids
  BY <1>3 DEF IInv, EvidenceTypes
<1>5. Touching(conflicts, r, new) = ks
  BY <1>2, <1>4 DEF Touching
<1>6. Considered(ks, old) \subseteq Considered(ks, new)
  BY <1>2 DEF Considered
<1>7. Remaining(observations, conflicts, c, r) \subseteq Remaining(observations', conflicts', c, r)
  BY <1>1, <1>5, <1>6 DEF Remaining, Disputes
<1>8. Voices(observations, conflicts, c, r, clock) \subseteq Voices(observations', conflicts', c, r, clock')
  BY <1>1, <1>7, MoreVoices
<1> QED
  BY <1>8, SharedVoice

\* A conflict that is found is open, and takes the answer away.
LEMMA FindReversesNothing ==
  ASSUME IInv, FindConflicts, NEW c, NEW r,
         Answers(observations, conflicts, c, r, clock),
         Answers(observations', conflicts', c, r, clock')
  PROVE  Standing(observations, conflicts, c, r, clock)
           = Standing(observations', conflicts', c, r, clock')
<1> DEFINE os == Acceptable(observations, c, r)
<1>1. conflicts' = conflicts \cup Found /\ observations' = observations /\ clock' = clock
  BY DEF FindConflicts
<1>2. \A k \in Found : k.resolved \notin k.ids
  BY FoundAre, SameId DEF IInv
<1>3. ~Unresolved(Touching(conflicts', r, os))
  BY <1>1 DEF Answers, Disputes
<1>4. Touching(conflicts', r, os) = Touching(conflicts, r, os)
  BY <1>1, <1>2, <1>3 DEF Unresolved, Touching
<1>5. Remaining(observations, conflicts, c, r) = Remaining(observations', conflicts', c, r)
  BY <1>1, <1>4 DEF Remaining, Disputes
<1> QED
  BY <1>1, <1>5, MoreVoices, SharedVoice

\* What expires is heard no more.
LEMMA TickReversesNothing ==
  ASSUME IInv, Tick, NEW c, NEW r,
         Answers(observations, conflicts, c, r, clock),
         Answers(observations', conflicts', c, r, clock')
  PROVE  Standing(observations, conflicts, c, r, clock)
           = Standing(observations', conflicts', c, r, clock')
<1>1. observations' = observations /\ conflicts' = conflicts /\ clock' = clock + 1
  BY DEF Tick
<1>2. Remaining(observations, conflicts, c, r) \subseteq Pool
  BY DEF Remaining, Considered, Acceptable, Relevant, IInv, EvidenceTypes
<1>3. \A o \in Pool : Fresh(o, clock + 1) => Fresh(o, clock)
  BY EvaluationAssumption DEF Fresh, IInv
<1>4. Voices(observations, conflicts, c, r, clock + 1) \subseteq Voices(observations, conflicts, c, r, clock)
  BY <1>2, <1>3 DEF Voices, Values, Readable, Usable
<1> QED
  BY <1>1, <1>4, SharedVoice

\* No expiry, observation or found conflict turns an answer into its opposite
\* (the order of the tests in _resolve_evidence).
THEOREM NothingElseReverses == Spec => OnlyResolutionReverses
<1> DEFINE Old(c, r) == Standing(observations, conflicts, c, r, clock)
           New(c, r) == Standing(observations', conflicts', c, r, clock')
           Resolution ==
             \E k \in conflicts \ conflicts' :
               \E id \in k.ids : [k EXCEPT !.resolved = id] \in conflicts'
<1>1. IInv /\ [Next]_vars => \A c \in Candidate, r \in Requirement :
                               {Old(c, r), New(c, r)} = Supported => Resolution
  <2> SUFFICES ASSUME IInv, [Next]_vars, NEW c \in Candidate, NEW r \in Requirement,
                      {Old(c, r), New(c, r)} = Supported
               PROVE  Resolution
    OBVIOUS
  <2>1. /\ Answers(observations, conflicts, c, r, clock)
        /\ Answers(observations', conflicts', c, r, clock')
    BY AnswerNeeds
  <2>2. Old(c, r) # New(c, r)
    BY DEF Supported
  <2>3. ASSUME NEW o \in Pool, Observe(o) PROVE FALSE
    BY <2>1, <2>2, <2>3, ObserveReversesNothing
  <2>4. CASE FindConflicts
    BY <2>1, <2>2, <2>4, FindReversesNothing
  <2>5. ASSUME NEW k \in conflicts, NEW o \in observations, ResolveConflict(k, o.id)
        PROVE  Resolution
    <3> DEFINE l == [k EXCEPT !.resolved = o.id]
    <3>1. conflicts' = (conflicts \ {k}) \cup {l} /\ o.id \in k.ids
          /\ observations' = observations /\ clock' = clock
      BY <2>5 DEF ResolveConflict
    <3>2. l # k
      BY <2>2, <3>1
    <3> QED
      BY <3>1, <3>2
  <2>6. CASE Tick
    BY <2>1, <2>2, <2>6, TickReversesNothing
  <2>7. CASE Evaluate \/ Rank \/ UNCHANGED vars
    BY <2>2, <2>7 DEF Evaluate, Rank, vars
  <2> QED
    BY <2>3, <2>4, <2>5, <2>6, <2>7 DEF Next
<1> QED
  BY <1>1, EvaluationInvariant, PTL DEF Spec, OnlyResolutionReverses

-----------------------------------------------------------------------------
(* The ranking: sums of weights are numbers, sort keys are in a strict     *)
(* total order, so ranks differ and one candidate has the first.           *)

\* Induction, for a set of numbers.
LEMMA AllNumbers ==
  ASSUME NEW T, 0 \in T, \A n \in Nat : n \in T => n + 1 \in T
  PROVE  Nat \subseteq T
<1> DEFINE R == {ss \in Nat \X Nat : ss[1] < ss[2]}
           F == Nat \ T
<1>1. IsWellFoundedOn(R, Nat)
  BY NatLessThanWellFounded DEF OpToRel
<1> SUFFICES ASSUME F # {} PROVE FALSE
  OBVIOUS
<1> HIDE DEF R
<1>2. PICK n \in F : \A m \in F : ~(<<m, n>> \in R)
  BY <1>1, WFMin, Zenon
<1>3. n \in Nat /\ n # 0 /\ n - 1 \in Nat
  BY <1>2
<1>4. <<n - 1, n>> \in R
  BY <1>3 DEF R
<1>5. n - 1 \in T
  BY <1>2, <1>3, <1>4
<1>6. n - 1 + 1 = n
  BY <1>3
<1> QED
  BY <1>2, <1>3, <1>5, <1>6

\* The weight of a set of requirements, and how the fold adds it up: MapThenSumSet
\* is the fixpoint of SumStep over the subsets of the set.
Total(S) == MapThenSumSet(LAMBDA r : Weight[r], S)
Some(s) == CHOOSE x \in s : TRUE
SumStep(g, s) == IF s = {} THEN 0 ELSE Weight[Some(s)] + g[s \ {Some(s)}]
Small(S, n) == {s \in SUBSET S : Cardinality(s) <= n}

\* The subsets of at most n + 1 elements rest on those of at most n.
LEMMA Smaller ==
  ASSUME NEW S \in SUBSET Requirement, NEW n \in Nat, NEW s \in Small(S, n + 1), s # {}
  PROVE  Some(s) \in s /\ s \ {Some(s)} \in Small(S, n)
<1>1. Some(s) \in s
  BY DEF Some
<1>2. IsFiniteSet(s)
  BY EvaluationAssumption, FS_Subset DEF Small
<1>3. Cardinality(s \ {Some(s)}) = Cardinality(s) - 1 /\ Cardinality(s) \in Nat
  BY <1>1, <1>2, FS_RemoveElement, FS_CardinalityType
<1> QED
  BY <1>1, <1>3 DEF Small

LEMMA Nothing ==
  ASSUME NEW S \in SUBSET Requirement
  PROVE  Small(S, 0) = {{}}
<1>1. \A s \in SUBSET S : IsFiniteSet(s) /\ Cardinality(s) \in Nat
  BY EvaluationAssumption, FS_Subset, FS_CardinalityType
<1> QED
  BY <1>1, FS_EmptySet DEF Small

LEMMA Grows ==
  ASSUME NEW S \in SUBSET Requirement, NEW n \in Nat
  PROVE  Small(S, n) \subseteq Small(S, n + 1)
<1>1. \A s \in SUBSET S : IsFiniteSet(s) /\ Cardinality(s) \in Nat
  BY EvaluationAssumption, FS_Subset, FS_CardinalityType
<1> QED
  BY <1>1 DEF Small

\* The fixpoint exists: sums over the small subsets extend to larger ones.
LEMMA SumExists ==
  ASSUME NEW S \in SUBSET Requirement
  PROVE  \E g : g = [s \in SUBSET S |-> SumStep(g, s)]
<1> DEFINE T == {n \in Nat : \E g : g = [s \in Small(S, n) |-> SumStep(g, s)]}
<1>1. 0 \in T
  <2> DEFINE g == [s \in Small(S, 0) |-> 0]
  <2>1. g = [s \in Small(S, 0) |-> SumStep(g, s)]
    BY Nothing DEF SumStep
  <2> QED
    BY <2>1
<1>2. ASSUME NEW n \in Nat, n \in T PROVE n + 1 \in T
  <2>1. PICK g : g = [s \in Small(S, n) |-> SumStep(g, s)]
    BY <1>2
  <2> DEFINE h == [s \in Small(S, n + 1) |-> SumStep(g, s)]
  <2>2. ASSUME NEW s \in Small(S, n + 1) PROVE h[s] = SumStep(h, s)
    <3>1. CASE s = {}
      BY <3>1 DEF SumStep
    <3>2. CASE s # {}
      <4> DEFINE t == s \ {Some(s)}
      <4>1. t \in Small(S, n) /\ t \in Small(S, n + 1)
        BY <3>2, Smaller, Grows
      <4>2. h[t] = SumStep(g, t) /\ g[t] = SumStep(g, t) /\ h[s] = SumStep(g, s)
        BY <2>1, <4>1
      <4> HIDE DEF h
      <4> QED
        BY <3>2, <4>2 DEF SumStep
    <3> QED
      BY <3>1, <3>2
  <2>3. h = [s \in Small(S, n + 1) |-> SumStep(h, s)]
    <3>1. DOMAIN h = Small(S, n + 1) /\ h = [s \in Small(S, n + 1) |-> h[s]]
      OBVIOUS
    <3> HIDE DEF h
    <3> QED
      BY <2>2, <3>1
  <2> HIDE DEF h
  <2> QED
    BY <2>3
<1> HIDE DEF T
<1>3. Nat \subseteq T
  BY <1>1, <1>2, AllNumbers
<1>4. IsFiniteSet(S) /\ Cardinality(S) \in Nat
  BY EvaluationAssumption, FS_Subset, FS_CardinalityType
<1>5. Small(S, Cardinality(S)) = SUBSET S
  BY <1>4, FS_Subset DEF Small
<1>6. \E g : g = [s \in Small(S, Cardinality(S)) |-> SumStep(g, s)]
  BY <1>3, <1>4 DEF T
<1> QED
  BY <1>5, <1>6

LEMMA TotalIsInt ==
  ASSUME NEW S \in SUBSET Requirement
  PROVE  Total(S) \in Int
<1> DEFINE f == CHOOSE g : g = [s \in SUBSET S |-> SumStep(g, s)]
<1>1. f = [s \in SUBSET S |-> SumStep(f, s)]
  BY SumExists
<1>2. Total(S) = f[S]
  BY DEF Total, MapThenSumSet, MapThenFoldSet, SumStep, Some
<1> HIDE DEF f
<1> DEFINE T == {n \in Nat : \A s \in Small(S, n) : f[s] \in Int}
<1>3. 0 \in T
  BY <1>1, Nothing DEF SumStep
<1>4. ASSUME NEW n \in Nat, n \in T PROVE n + 1 \in T
  <2> SUFFICES ASSUME NEW s \in Small(S, n + 1) PROVE f[s] \in Int
    OBVIOUS
  <2>0. s \in SUBSET S
    BY DEF Small
  <2>1. f[s] = SumStep(f, s)
    BY <1>1, <2>0
  <2>2. CASE s = {}
    BY <2>1, <2>2 DEF SumStep
  <2>3. CASE s # {}
    <3>1. Some(s) \in Requirement /\ f[s \ {Some(s)}] \in Int
      BY <1>4, <2>0, <2>3, Smaller
    <3>2. Weight[Some(s)] \in Int
      BY <3>1, EvaluationAssumption
    <3> QED
      BY <2>1, <2>3, <3>1, <3>2 DEF SumStep
  <2> QED
    BY <2>2, <2>3
<1> HIDE DEF T
<1>5. Nat \subseteq T
  BY <1>3, <1>4, AllNumbers
<1>6. IsFiniteSet(S) /\ Cardinality(S) \in Nat
  BY EvaluationAssumption, FS_Subset, FS_CardinalityType
<1>7. S \in Small(S, Cardinality(S))
  BY <1>6 DEF Small
<1> QED
  BY <1>2, <1>5, <1>6, <1>7 DEF T

Keys == Int \X Int \X Int \X Int \X Int
KeyAt(c) == Key(c, evaluations[c])
Ahead(c) == {d \in Candidate : Before(KeyAt(d), KeyAt(c))}

LEMMA ScoreIsInt ==
  ASSUME NEW e
  PROVE  Score(e) \in Int
<1>1. Meets(e, OfPriority("preferred")) \in SUBSET Requirement
  BY DEF Meets, OfPriority
<1> QED
  BY <1>1, TotalIsInt DEF Score, Total

LEMMA KeyIsKey ==
  ASSUME NEW c \in Candidate, NEW e
  PROVE  Key(c, e) \in Keys
<1>1. Score(e) \in Int
  BY ScoreIsInt
<1>2. ASSUME NEW rs \in SUBSET Requirement PROVE Coverage(e, rs) \in Int
  <2>1. IsFiniteSet({r \in rs : e.status[r] \in Supported})
    BY EvaluationAssumption, FS_Subset
  <2> QED BY <2>1, FS_CardinalityType DEF Coverage
<1>3. Coverage(e, OfPriority("mandatory")) \in Int /\ Coverage(e, Requirement) \in Int
  BY <1>2 DEF OfPriority
<1>4. c \in Int
  BY EvaluationAssumption DEF Candidate
<1> QED
  BY <1>1, <1>3, <1>4 DEF Key, Keys

\* Keys are compared from the left.
LEMMA BeforeIs ==
  ASSUME NEW k \in Keys, NEW l \in Keys
  PROVE  Before(k, l) <=>
           \/ k[1] < l[1]
           \/ k[1] = l[1] /\ k[2] < l[2]
           \/ k[1] = l[1] /\ k[2] = l[2] /\ k[3] < l[3]
           \/ k[1] = l[1] /\ k[2] = l[2] /\ k[3] = l[3] /\ k[4] < l[4]
           \/ k[1] = l[1] /\ k[2] = l[2] /\ k[3] = l[3] /\ k[4] = l[4] /\ k[5] < l[5]
<1> DEFINE First(i) == k[i] < l[i] /\ \A j \in 1..(i - 1) : k[j] = l[j]
<1>1. Before(k, l) <=> First(1) \/ First(2) \/ First(3) \/ First(4) \/ First(5)
  <2>1. \A i : i \in 1..5 <=> i = 1 \/ i = 2 \/ i = 3 \/ i = 4 \/ i = 5
    OBVIOUS
  <2>2. Before(k, l) <=> \E i \in 1..5 : First(i)
    BY DEF Before
  <2> HIDE DEF First
  <2> QED BY <2>1, <2>2
<1>2. First(1) <=> k[1] < l[1]
  OBVIOUS
<1>3. First(2) <=> k[1] = l[1] /\ k[2] < l[2]
  <2>1. \A j : j \in 1..(2 - 1) <=> j = 1
    OBVIOUS
  <2> QED BY <2>1
<1>4. First(3) <=> k[1] = l[1] /\ k[2] = l[2] /\ k[3] < l[3]
  <2>1. \A j : j \in 1..(3 - 1) <=> j = 1 \/ j = 2
    OBVIOUS
  <2> QED BY <2>1
<1>5. First(4) <=> k[1] = l[1] /\ k[2] = l[2] /\ k[3] = l[3] /\ k[4] < l[4]
  <2>1. \A j : j \in 1..(4 - 1) <=> j = 1 \/ j = 2 \/ j = 3
    OBVIOUS
  <2> QED BY <2>1
<1>6. First(5) <=> k[1] = l[1] /\ k[2] = l[2] /\ k[3] = l[3] /\ k[4] = l[4] /\ k[5] < l[5]
  <2>1. \A j : j \in 1..(5 - 1) <=> j = 1 \/ j = 2 \/ j = 3 \/ j = 4
    OBVIOUS
  <2> QED BY <2>1
<1> HIDE DEF First
<1> QED
  BY <1>1, <1>2, <1>3, <1>4, <1>5, <1>6

LEMMA KeyParts ==
  ASSUME NEW k \in Keys
  PROVE  /\ k[1] \in Int /\ k[2] \in Int /\ k[3] \in Int /\ k[4] \in Int /\ k[5] \in Int
BY DEF Keys

LEMMA BeforeIsStrict ==
  ASSUME NEW k \in Keys
  PROVE  ~Before(k, k)
BY KeyParts, BeforeIs

LEMMA BeforeIsTotal ==
  ASSUME NEW k \in Keys, NEW l \in Keys, k[5] # l[5]
  PROVE  Before(k, l) \/ Before(l, k)
<1>1. /\ k[1] \in Int /\ k[2] \in Int /\ k[3] \in Int /\ k[4] \in Int /\ k[5] \in Int
      /\ l[1] \in Int /\ l[2] \in Int /\ l[3] \in Int /\ l[4] \in Int /\ l[5] \in Int
  BY KeyParts
<1> QED
  BY <1>1, BeforeIs

LEMMA BeforeIsTransitive ==
  ASSUME NEW k \in Keys, NEW l \in Keys, NEW m \in Keys, Before(k, l), Before(l, m)
  PROVE  Before(k, m)
<1>1. /\ k[1] \in Int /\ k[2] \in Int /\ k[3] \in Int /\ k[4] \in Int /\ k[5] \in Int
      /\ l[1] \in Int /\ l[2] \in Int /\ l[3] \in Int /\ l[4] \in Int /\ l[5] \in Int
      /\ m[1] \in Int /\ m[2] \in Int /\ m[3] \in Int /\ m[4] \in Int /\ m[5] \in Int
  BY KeyParts
<1> QED
  BY <1>1, BeforeIs

\* Who is ahead has less before them, and there are never more ahead than others.
LEMMA AheadShrinks ==
  ASSUME NEW c \in Candidate, NEW d \in Ahead(c)
  PROVE  /\ Cardinality(Ahead(d)) \in Nat /\ Cardinality(Ahead(c)) \in Nat
         /\ Cardinality(Ahead(d)) < Cardinality(Ahead(c))
<1>1. d \in Candidate /\ Before(KeyAt(d), KeyAt(c))
  BY DEF Ahead
<1>2. \A b \in Candidate : KeyAt(b) \in Keys
  BY KeyIsKey DEF KeyAt
<1>3. IsFiniteSet(Candidate)
  BY EvaluationAssumption, FS_Interval DEF Candidate
<1>4. IsFiniteSet(Ahead(c)) /\ IsFiniteSet(Ahead(d))
  BY <1>3, FS_Subset DEF Ahead
<1>5. Ahead(d) \subseteq Ahead(c)
  BY <1>1, <1>2, BeforeIsTransitive DEF Ahead
<1>6. d \in Ahead(c) /\ d \notin Ahead(d)
  BY <1>1, <1>2, BeforeIsStrict DEF Ahead
<1>7. Cardinality(Ahead(d)) \in Nat /\ Cardinality(Ahead(c)) \in Nat
  BY <1>4, FS_CardinalityType
<1>8. Cardinality(Ahead(d)) <= Cardinality(Ahead(c)) /\ Cardinality(Ahead(d)) # Cardinality(Ahead(c))
  BY <1>4, <1>5, <1>6, FS_Subset
<1> QED
  BY <1>7, <1>8

LEMMA RanksAreRanks ==
  ASSUME NEW c \in Candidate
  PROVE  /\ IsFiniteSet(Ahead(c)) /\ Cardinality(Ahead(c)) \in Nat
         /\ 1 + Cardinality(Ahead(c)) \in 1..Candidates
<1>1. IsFiniteSet(Candidate) /\ Cardinality(Candidate) = Candidates /\ Candidates \in Nat
  BY EvaluationAssumption, FS_Interval DEF Candidate
<1>2. KeyAt(c) \in Keys
  BY KeyIsKey DEF KeyAt
<1>3. c \notin Ahead(c) /\ Ahead(c) \subseteq Candidate
  BY <1>2, BeforeIsStrict DEF Ahead
<1>4. IsFiniteSet(Ahead(c)) /\ Cardinality(Ahead(c)) \in Nat
  BY <1>1, <1>3, FS_Subset, FS_CardinalityType
<1>5. Cardinality(Ahead(c)) <= Candidates /\ Cardinality(Ahead(c)) # Candidates
  BY <1>1, <1>3, FS_Subset
<1> QED
  BY <1>1, <1>4, <1>5

LEMMA RanksDiffer ==
  ASSUME NEW c \in Candidate, NEW d \in Candidate, c # d
  PROVE  Cardinality(Ahead(c)) # Cardinality(Ahead(d))
<1>1. KeyAt(c) \in Keys /\ KeyAt(d) \in Keys
  BY KeyIsKey DEF KeyAt
<1>2. KeyAt(c)[5] = c /\ KeyAt(d)[5] = d
  BY DEF KeyAt, Key
<1>3. Before(KeyAt(c), KeyAt(d)) \/ Before(KeyAt(d), KeyAt(c))
  BY <1>1, <1>2, BeforeIsTotal
<1>4. c \in Ahead(d) \/ d \in Ahead(c)
  BY <1>3 DEF Ahead
<1> QED
  BY <1>4, AheadShrinks

\* A set of numbers has a least one.
LEMMA Least ==
  ASSUME NEW F \in SUBSET Nat, F # {}
  PROVE  \E n \in F : \A m \in F : n <= m
<1> DEFINE T == {n \in Nat : \A m \in F : n <= m}
<1>1. 0 \in T
  OBVIOUS
<1>2. CASE \E n \in T : n + 1 \notin T
  <2>1. PICK n \in T : n + 1 \notin T
    BY <1>2
  <2>2. PICK m \in F : ~(n + 1 <= m)
    BY <2>1
  <2> QED BY <2>1, <2>2
<1>3. CASE \A n \in T : n + 1 \in T
  <2>1. Nat \subseteq T
    BY <1>1, <1>3, AllNumbers
  <2>2. PICK m \in F : TRUE
    OBVIOUS
  <2>3. m + 1 \in T
    BY <2>1, <2>2
  <2> QED BY <2>2, <2>3
<1> QED
  BY <1>2, <1>3

\* Somebody is first.
LEMMA SomebodyIsFirst ==
  ASSUME Candidate # {}
  PROVE  \E c \in Candidate : Ahead(c) = {} /\ 1 + Cardinality(Ahead(c)) = 1
<1> DEFINE F == {Cardinality(Ahead(c)) : c \in Candidate}
<1>1. F \in SUBSET Nat /\ F # {}
  BY RanksAreRanks
<1>2. PICK n \in F : \A m \in F : n <= m
  BY <1>1, Least
<1>3. PICK c \in Candidate : n = Cardinality(Ahead(c))
  BY <1>2
<1>4. \A d \in Candidate : Cardinality(Ahead(c)) <= Cardinality(Ahead(d))
  BY <1>2, <1>3
<1>5. Ahead(c) = {}
  <2> SUFFICES ASSUME NEW d \in Ahead(c) PROVE FALSE
    OBVIOUS
  <2>1. d \in Candidate
    BY DEF Ahead
  <2> QED BY <2>1, <1>4, AheadShrinks
<1> QED
  BY <1>5, FS_EmptySet

\* A candidate ranked first that is eligible, if there is one.
Best == IF \E c \in Candidate : rank[c] = 1 /\ Eligible(evaluations[c])
        THEN CHOOSE c \in Candidate : rank[c] = 1
        ELSE None

\* The ranking that was made is the one the evaluations give.
Ranked ==
  /\ rank = <<>> => recommended = None
  /\ rank # <<>> =>
       /\ Len(evaluations) = Candidates
       /\ rank = [c \in Candidate |-> 1 + Cardinality(Ahead(c))]
       /\ recommended = Best

\* No evaluation is of the future, and none of a stranger.
Timed ==
  /\ clock \in 0..MaxTime
  /\ Len(evaluations) <= Candidates
  /\ \A c \in DOMAIN evaluations : evaluations[c].at \in 0..clock

RankingInv == Ranked /\ Timed

LEMMA EvaluationsTimed ==
  ASSUME IInv, Timed, Evaluate
  PROVE  Timed'
<1> DEFINE c == Len(evaluations) + 1
           e == [at |-> clock,
                 status |-> [r \in Requirement |->
                               Standing(observations, conflicts, c, r, clock)]]
<1>1. c \in Candidate /\ evaluations' = Append(evaluations, e) /\ clock' = clock
  BY DEF Evaluate
<1>2. evaluations \in Seq([at : Nat, status : [Requirement -> Statuses]]) /\ clock \in Nat
  BY DEF IInv
<1>3. e.at = clock
  OBVIOUS
<1> HIDE DEF e
<1>4. Len(evaluations') = c /\ DOMAIN evaluations' = DOMAIN evaluations \cup {c}
      /\ evaluations'[c] = e /\ \A d \in DOMAIN evaluations : evaluations'[d] = evaluations[d]
  BY <1>1, <1>2
<1>5. c <= Candidates
  BY <1>1 DEF Candidate
<1>6. \A d \in DOMAIN evaluations' : evaluations'[d].at \in 0..clock
  BY <1>2, <1>3, <1>4 DEF Timed
<1> QED
  BY <1>1, <1>4, <1>5, <1>6 DEF Timed

LEMMA RankRanks ==
  ASSUME IInv, RankingInv, Rank
  PROVE  RankingInv'
<1> DEFINE key == [c \in Candidate |-> Key(c, evaluations[c])]
<1>1. /\ Len(evaluations) = Candidates
      /\ rank' = [c \in Candidate |-> 1 + Cardinality({d \in Candidate : Before(key[d], key[c])})]
      /\ recommended' = Best'
      /\ UNCHANGED <<evaluations, clock>>
  BY DEF Rank, Best
<1>2. \A c \in Candidate : {d \in Candidate : Before(key[d], key[c])} = Ahead(c)
  BY DEF Ahead, KeyAt
<1>3. rank' = [c \in Candidate |-> 1 + Cardinality(Ahead(c))]
  BY <1>1, <1>2
<1>4. \A c \in Candidate : Ahead(c)' = Ahead(c)
  BY <1>1 DEF Ahead, KeyAt
<1>5. Timed'
  BY <1>1 DEF RankingInv, Timed
<1>6. rank' = <<>> => recommended' = None
  <2>1. DOMAIN rank' = Candidate
    BY <1>3
  <2>2. rank' = <<>> => Candidate = {}
    BY <2>1
  <2> QED BY <2>2, <1>1 DEF Best
<1>7. rank' = [c \in Candidate |-> 1 + Cardinality(Ahead(c)')]
  BY <1>3, <1>4
<1> QED
  BY <1>1, <1>5, <1>6, <1>7 DEF RankingInv, Ranked, Best

\* What happens before the ranking, and what happens after it, leaves it alone.
LEMMA RestKeepsRanking ==
  ASSUME IInv, RankingInv, [Next]_vars, ~Rank
  PROVE  RankingInv'
<1>1. UNCHANGED <<rank, recommended>>
  BY DEF Next, Observe, FindConflicts, ResolveConflict, Tick, Evaluate, vars
<1>2. CASE Evaluate
  <2>1. Len(evaluations) # Candidates
    BY <1>2, EvaluationAssumption DEF Evaluate, Candidate
  <2>2. rank = <<>>
    BY <2>1 DEF RankingInv, Ranked
  <2> QED BY <1>1, <1>2, <2>2, EvaluationsTimed DEF RankingInv, Ranked
<1>3. CASE ~Evaluate
  <2>1. evaluations' = evaluations
    BY <1>3 DEF Next, Observe, FindConflicts, ResolveConflict, Tick, vars
  <2>2. Ranked'
    <3>1. \A c \in Candidate : Ahead(c)' = Ahead(c)
      BY <2>1 DEF Ahead, KeyAt
    <3>2. Best' = Best
      BY <1>1, <2>1 DEF Best
    <3> QED
      BY <1>1, <2>1, <3>1, <3>2 DEF RankingInv, Ranked
  <2>3. clock' = clock \/ (clock < MaxTime /\ clock' = clock + 1)
    BY <1>3 DEF Next, Observe, FindConflicts, ResolveConflict, Tick, vars
  <2>4. MaxTime \in Nat
    BY EvaluationAssumption
  <2>5. \A n : n \in 0..clock => n \in 0..clock'
    BY <2>3, <2>4 DEF RankingInv, Timed
  <2>6. clock' \in 0..MaxTime
    BY <2>3, <2>4 DEF RankingInv, Timed
  <2> QED BY <2>1, <2>2, <2>5, <2>6 DEF RankingInv, Timed
<1> QED
  BY <1>2, <1>3

\* The second invariant, over the first.
THEOREM RankingInvariant == Spec => []RankingInv
<1>1. Init => RankingInv
  BY EvaluationAssumption DEF Init, RankingInv, Ranked, Timed
<1>2. IInv /\ RankingInv /\ [Next]_vars => RankingInv'
  BY RankRanks, RestKeepsRanking
<1> QED
  BY <1>1, <1>2, EvaluationInvariant, PTL DEF Spec

\* Every variable has its type: no conflict is about evidence nobody gathered,
\* no evaluation is of the future, ranks are ranks.
THEOREM EvaluationTypes == Spec => []TypeOK
<1>1. ASSUME IInv, RankingInv PROVE TypeOK
  <2>1. EvidenceTypes
    BY <1>1 DEF IInv
  <2>2. evaluations \in Seq([at : 0..clock, status : [Requirement -> Statuses]])
    <3>1. evaluations \in Seq([at : Nat, status : [Requirement -> Statuses]])
      BY <1>1 DEF IInv
    <3>2. \A c \in DOMAIN evaluations :
            evaluations[c] \in [at : Nat, status : [Requirement -> Statuses]]
      BY <3>1, ElementOfSeq
    <3>3. \A c \in DOMAIN evaluations :
            evaluations[c] \in [at : 0..clock, status : [Requirement -> Statuses]]
      BY <1>1, <3>2 DEF RankingInv, Timed
    <3> DEFINE E == [at : 0..clock, status : [Requirement -> Statuses]]
    <3> HIDE DEF E
    <3>4. Len(evaluations) \in Nat /\ evaluations \in [1..Len(evaluations) -> E]
      BY <3>1, <3>3 DEF E
    <3>5. evaluations \in Seq(E)
      BY <3>4
    <3> QED BY <3>5 DEF E
  <2>3. rank = <<>> \/ rank \in [Candidate -> 1..Candidates]
    BY <1>1, RanksAreRanks DEF RankingInv, Ranked
  <2>4. recommended \in Candidate \cup {None}
    <3>1. CASE rank = <<>>
      BY <1>1, <3>1 DEF RankingInv, Ranked
    <3>2. CASE rank # <<>>
      <4>1. recommended = Best
        BY <1>1, <3>2 DEF RankingInv, Ranked, Best
      <4> QED BY <4>1 DEF Best
    <3> QED BY <3>1, <3>2
  <2> QED
    BY <1>1, <2>1, <2>2, <2>3, <2>4 DEF EvidenceTypes, RankingInv, Timed, TypeOK
<1> QED
  BY <1>1, EvaluationInvariant, RankingInvariant, PTL

\* The recommendation is a proven candidate of the most weight, there is one
\* whenever some candidate was proven, and ranks differ (rank_candidates).
THEOREM BestIsRecommended == Spec => []RecommendsBest
<1>1. ASSUME IInv, RankingInv, EligibleIsProven PROVE RecommendsBest
  <2> SUFFICES ASSUME rank # <<>> PROVE RecommendsBest
    BY DEF RecommendsBest
  <2> DEFINE proven == {c \in Candidate :
                          \A r \in OfPriority("mandatory") : Proven(c, r, evaluations[c].at)}
  <2>1. /\ Len(evaluations) = Candidates
        /\ rank = [c \in Candidate |-> 1 + Cardinality(Ahead(c))]
        /\ recommended = Best
    BY <1>1 DEF RankingInv, Ranked, Best
  <2>2. proven = {c \in Candidate : Eligible(evaluations[c])}
    <3>1. evaluations \in Seq([at : Nat, status : [Requirement -> Statuses]])
      BY <1>1 DEF IInv
    <3>2. DOMAIN evaluations = Candidate
      BY <2>1, <3>1 DEF Candidate
    <3> QED BY <1>1, <3>2 DEF EligibleIsProven
  <2> HIDE DEF proven
  <2>3. \A c, d \in Candidate : rank[c] = rank[d] => c = d
    BY <2>1, RanksAreRanks, RanksDiffer
  <2>4. \A c \in Candidate : rank[c] = 1 <=> Ahead(c) = {}
    BY <2>1, RanksAreRanks, FS_EmptySet
  <2>5. ASSUME NEW c \in Candidate, rank[c] = 1, NEW d \in proven
        PROVE  c \in proven /\ Score(evaluations[d]) <= Score(evaluations[c])
    <3>1. KeyAt(c) \in Keys /\ KeyAt(d) \in Keys /\ d \in Candidate
      BY <2>2, <2>5, KeyIsKey DEF KeyAt
    <3>2. ~Before(KeyAt(d), KeyAt(c))
      BY <2>4, <2>5, <3>1 DEF Ahead
    <3>3. /\ KeyAt(c)[1] = (IF Eligible(evaluations[c]) THEN 0 ELSE 1)
          /\ KeyAt(d)[1] = 0
          /\ KeyAt(c)[2] = -Score(evaluations[c]) /\ KeyAt(d)[2] = -Score(evaluations[d])
      BY <2>2, <2>5 DEF KeyAt, Key
    <3>4. ~(KeyAt(d)[1] < KeyAt(c)[1])
          /\ ~(KeyAt(d)[1] = KeyAt(c)[1] /\ KeyAt(d)[2] < KeyAt(c)[2])
      BY <3>1, <3>2, BeforeIs
    <3>5. Eligible(evaluations[c])
      BY <3>3, <3>4
    <3>6. Score(evaluations[c]) \in Int /\ Score(evaluations[d]) \in Int
      BY ScoreIsInt
    <3> QED BY <2>2, <2>5, <3>3, <3>4, <3>5, <3>6
  <2>6. ASSUME recommended = None PROVE proven = {}
    <3> SUFFICES ASSUME NEW d \in proven PROVE FALSE
      OBVIOUS
    <3>1. Candidate # {}
      BY <2>2
    <3>2. PICK c \in Candidate : rank[c] = 1
      BY <2>4, <3>1, SomebodyIsFirst
    <3>3. Eligible(evaluations[c])
      BY <2>2, <2>5, <3>2
    <3>4. recommended \in Candidate
      BY <2>1, <3>2, <3>3 DEF Best
    <3> QED BY <2>6, <3>4, EvaluationAssumption
  <2>7. ASSUME recommended # None
        PROVE  /\ recommended \in proven
               /\ \A c \in proven : Score(evaluations[c]) <= Score(evaluations[recommended])
    <3>1. PICK c \in Candidate : rank[c] = 1 /\ Eligible(evaluations[c])
      BY <2>1, <2>7 DEF Best
    <3>2. recommended \in Candidate /\ rank[recommended] = 1
      BY <2>1, <3>1 DEF Best
    <3>3. recommended = c
      BY <2>3, <3>1, <3>2
    <3>4. c \in proven
      BY <2>2, <3>1
    <3> QED BY <2>5, <3>1, <3>3, <3>4
  <2> QED
    BY <2>3, <2>6, <2>7 DEF RecommendsBest, proven
<1> QED
  BY <1>1, EligibleAreProven, EvaluationInvariant, RankingInvariant, PTL
=============================================================================
