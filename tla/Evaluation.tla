----------------------------- MODULE Evaluation -----------------------------
(***************************************************************************)
(* How the evidence gathered for the candidates becomes a recommendation:  *)
(* observations and conflict groups (research/evidence.py), the            *)
(* deterministic engine that resolves them against each requirement, and   *)
(* the ranking (evaluation/engine.py), driven as the executor drives it:   *)
(* one candidate after the other, each at its own reading of the clock.    *)
(*                                                                         *)
(* The evidence is a set of observations with ids of their own; which of   *)
(* several that agree is shown (their confidence decides) is left out.  A  *)
(* number stands for its amount in the base unit of its dimension, so a    *)
(* conversion multiplies by the factor of the source unit, and a weight    *)
(* for its amount in the smallest unit in use; the rounding of             *)
(* Decimal divisions is left out.  Texts that differ only in case or in    *)
(* surrounding blanks are one value.  The last keys of the sort - names of *)
(* supplier and offering, id of the candidate - are one order, that of the *)
(* candidates' numbers.                                                    *)
(***************************************************************************)
EXTENDS Integers, Sequences, FiniteSets, FiniteSetsExt

CONSTANTS
  Candidates,        \* how many candidates, numbered in the order of their names
  Requirement,       \* the keys of the line item's requirements
  Priority, Weight,  \* key -> mandatory, preferred or informational; its weight
  Criterion,         \* key -> its type, operator, target and matching texts
  Accepts,           \* key -> acceptable evidence types; none: any
  Factor,            \* key -> the units that convert, with their factors
  Revision,          \* the revision the candidates belong to
  Pool,              \* the observations that may be made
  MaxObservations,   \* bound on the observations
  MaxTime,           \* bound on the clock
  Forever,           \* fresh_until is None
  None               \* not resolved; no recommendation

VARIABLES
  observations,      \* the observations gathered for the revision
  conflicts,         \* the conflict groups, with their resolutions
  clock,             \* utc_now()
  evaluations,       \* the evaluations made so far, by candidate
  rank,              \* candidate -> its rank, once there is a ranking
  recommended        \* the candidate recommended

vars == <<observations, conflicts, clock, evaluations, rank, recommended>>

Candidate == 1..Candidates

ASSUME EvaluationAssumption ==
  /\ Candidates \in Nat /\ MaxTime \in Nat /\ MaxObservations \in Nat
  /\ \A o \in Pool : o.id # None /\ o.until \in Int \cup {Forever}
  /\ \A o, p \in Pool : o.id = p.id => o = p
  /\ Forever \notin Int /\ None \notin Candidate
  /\ IsFiniteSet(Requirement) /\ Weight \in [Requirement -> Int]

-----------------------------------------------------------------------------
(* Values. *)

Measured == {"number", "money"}
Ordered == Measured \cup {"date"}

\* The sorts of value that evidence for a criterion of a type may have.
Sorts(type) ==
  CASE type \in Measured -> {"number"}
    [] type = "date"     -> {"date", "naive date"}
    [] type = "assertion" -> {"number", "date", "naive date", "boolean", "text", "none"}
    [] OTHER             -> {type}

\* _normalize_value raises for the other observations.
Converts(r, o) ==
  /\ o.value.sort \in Sorts(Criterion[r].type)
  /\ Criterion[r].type \in Measured => o.unit \in DOMAIN Factor[r]

Converted(r, o) ==
  IF Criterion[r].type \in Measured
  THEN [sort |-> "number", n |-> o.value.n * Factor[r][o.unit]]
  ELSE o.value

\* The comparison raises for the other values.
Comparable(c, v) ==
  \/ c.operator = "exists"
  \/ c.operator \in {"in", "contains"} /\ v.sort = "text"
     /\ (c.operator = "in" => c.matching # {})
  \/ c.operator \in {"equals", "not_equals"} /\ (c.type = "date" => v.sort = "date")
  \/ c.operator \in {"at_least", "at_most"} /\ c.type \in Ordered
     /\ (c.type = "date" => v.sort = "date")

Holds(c, v) ==
  CASE c.operator = "exists"     -> v.sort # "none"
    [] c.operator \in {"in", "contains"} -> v \in c.matching
    [] c.operator = "equals"     -> v = c.target
    [] c.operator = "not_equals" -> v # c.target
    [] c.operator = "at_least"   -> v.n >= c.target.n
    [] c.operator = "at_most"    -> v.n <= c.target.n

Judged(r, v) ==
  IF ~Comparable(Criterion[r], v) THEN "invalid"
  ELSE IF Holds(Criterion[r], v) THEN "satisfied" ELSE "not_satisfied"

-----------------------------------------------------------------------------
(* One requirement of one candidate: what the observations seen and the    *)
(* conflicts known say at time t.                                          *)

Relevant(seen, c, r) ==
  {o \in seen : o.revision = Revision /\ o.candidate = c /\ o.key = r}

Acceptable(seen, c, r) ==
  {o \in Relevant(seen, c, r) : Accepts[r] # {} => o.type \in Accepts[r]}

\* The conflicts that are about some of the observations os.
Touching(known, r, os) ==
  {k \in known : k.key = r /\ \E o \in os : o.id \in k.ids}

\* Open, resolved by a stranger, or resolved in two ways.
Unresolved(ks) ==
  \/ \E k \in ks : k.resolved \notin k.ids
  \/ \E k, l \in ks : k.resolved # l.resolved

\* A resolution leaves one observation to consider.
Considered(ks, os) ==
  IF ks = {} THEN os ELSE {o \in os : \E k \in ks : o.id = k.resolved}

Fresh(o, t) == o.until = Forever \/ o.until >= t

UsableClassification == {"operator_provided", "observed", "calculated", "inferred"}
Usable(os, t) ==
  {o \in os : Fresh(o, t) /\ o.classification \in UsableClassification}

Readable(r, os) == {o \in os : Converts(r, o)}
\* Slip: of values that disagree the latest counts.
LatestWins(r, os) ==
  {Converted(r, o) : o \in {o \in Readable(r, os) : \A p \in Readable(r, os) : p.id <= o.id}}
Values(r, os) == {Converted(r, o) : o \in Readable(r, os)}

Standing(seen, known, c, r, t) ==
  LET acceptable == Acceptable(seen, c, r)
      ks == Touching(known, r, acceptable)
      considered == Considered(ks, acceptable)
      usable == Usable(considered, t)
      values == Values(r, usable)
  IN  IF Relevant(seen, c, r) = {} THEN "unknown"
      ELSE IF acceptable = {} THEN "invalid"
      ELSE IF Unresolved(ks) THEN "conflicting"
      ELSE IF considered = {} THEN "invalid"
      ELSE IF ks = {} /\ \E o \in acceptable : o.classification = "conflicting"
           THEN "conflicting"
      ELSE IF usable = {}
           THEN IF \E o \in considered : ~Fresh(o, t) THEN "stale" ELSE "unknown"
      ELSE IF values = {} THEN "invalid"
      ELSE IF \E v, w \in values : v # w THEN "conflicting"
      ELSE Judged(r, CHOOSE v \in values : TRUE)

Supported == {"satisfied", "not_satisfied"}

-----------------------------------------------------------------------------
(* Candidates and their ranking. *)

OfPriority(p) == {r \in Requirement : Priority[r] = p}
Meets(e, rs) == {r \in rs : e.status[r] = "satisfied"}
Failed(e) == {r \in OfPriority("mandatory") : e.status[r] = "not_satisfied"}

\* Slip: only evidence that is missing leaves a requirement open.
UnknownOnly(e) == {r \in OfPriority("mandatory") : e.status[r] = "unknown"}
Unsettled(e) == {r \in OfPriority("mandatory") : e.status[r] \notin Supported}
Eligible(e) == Failed(e) = {} /\ Unsettled(e) = {}

\* All candidates answer to the same requirements: the share of the possible
\* weight orders them as the weight earned does, and a percentage of
\* requirements as their number does.
Score(e) == MapThenSumSet(LAMBDA r : Weight[r], Meets(e, OfPriority("preferred")))
Coverage(e, rs) == Cardinality({r \in rs : e.status[r] \in Supported})

\* Slip: merit comes before eligibility.
KeyOfMerit(c, e) ==
  <<0, -Score(e), -Coverage(e, OfPriority("mandatory")), -Coverage(e, Requirement), c>>
\* The sort key; the first component is 0 for the eligible.
Key(c, e) ==
  <<IF Eligible(e) THEN 0 ELSE 1, -Score(e),
    -Coverage(e, OfPriority("mandatory")), -Coverage(e, Requirement), c>>

Before(k, l) ==
  \E i \in 1..5 : k[i] < l[i] /\ \A j \in 1..(i - 1) : k[j] = l[j]

-----------------------------------------------------------------------------
Init ==
  /\ observations = {} /\ conflicts = {}
  /\ clock = 0
  /\ evaluations = <<>>
  /\ rank = <<>> /\ recommended = None

\* The evidence is complete when the first candidate is evaluated.
Gathering == evaluations = <<>>

Observe(o) ==
  /\ Gathering /\ Cardinality(observations) < MaxObservations
  /\ o \notin observations
  /\ observations' = observations \cup {o}
  /\ UNCHANGED <<conflicts, clock, evaluations, rank, recommended>>

\* The observations that speak of what o speaks of.
Grain(o) ==
  {p \in observations : p.classification # "unknown" /\ p.revision = o.revision
                        /\ p.candidate = o.candidate /\ p.key = o.key}

\* Values are compared as they were found, whatever their units.
Found ==
  {[key |-> o.key, ids |-> {p.id : p \in Grain(o)}, resolved |-> None] :
     o \in {o \in observations : \E p, q \in Grain(o) : p.value # q.value}}

FindConflicts ==
  /\ Gathering
  /\ conflicts' = conflicts \cup Found
  /\ UNCHANGED <<observations, clock, evaluations, rank, recommended>>

\* Slip: any observation may decide.
ResolveByStranger(k, id) ==
  /\ Gathering
  /\ conflicts' = (conflicts \ {k}) \cup {[k EXCEPT !.resolved = id]}
  /\ UNCHANGED <<observations, clock, evaluations, rank, recommended>>

\* The operator lets one observation of the group decide.
ResolveConflict(k, id) ==
  /\ Gathering /\ id \in k.ids
  /\ conflicts' = (conflicts \ {k}) \cup {[k EXCEPT !.resolved = id]}
  /\ UNCHANGED <<observations, clock, evaluations, rank, recommended>>

Tick ==
  /\ clock < MaxTime
  /\ clock' = clock + 1
  /\ UNCHANGED <<observations, conflicts, evaluations, rank, recommended>>

\* evaluate_candidate, for the next candidate.
Evaluate ==
  LET c == Len(evaluations) + 1
  IN  /\ c \in Candidate
      /\ evaluations' = Append(evaluations,
           [at |-> clock,
            status |-> [r \in Requirement |->
                          Standing(observations, conflicts, c, r, clock)]])
      /\ UNCHANGED <<observations, conflicts, clock, rank, recommended>>

\* rank_candidates: a rank is one more than the number of keys before it.
Rank ==
  /\ Len(evaluations) = Candidates /\ rank = <<>>
  /\ LET key == [c \in Candidate |-> Key(c, evaluations[c])]
     IN  rank' = [c \in Candidate |->
                    1 + Cardinality({d \in Candidate : Before(key[d], key[c])})]
  /\ recommended' =
       IF \E c \in Candidate : rank'[c] = 1 /\ Eligible(evaluations[c])
       THEN CHOOSE c \in Candidate : rank'[c] = 1
       ELSE None
  /\ UNCHANGED <<observations, conflicts, clock, evaluations>>

Next ==
  \/ \E o \in Pool : Observe(o)
  \/ FindConflicts
  \/ \E k \in conflicts, o \in observations : ResolveConflict(k, o.id)
  \/ Tick \/ Evaluate \/ Rank

Spec == Init /\ [][Next]_vars

-----------------------------------------------------------------------------
(* What the engine promises. *)

Statuses ==
  {"satisfied", "not_satisfied", "unknown", "conflicting", "stale", "invalid"}

TypeOK ==
  /\ observations \subseteq Pool
  /\ \A k \in conflicts : /\ k.ids \subseteq {o.id : o \in observations}
                           /\ k.resolved \in k.ids \cup {None}
  /\ clock \in 0..MaxTime
  /\ evaluations \in Seq([at : 0..clock, status : [Requirement -> Statuses]])
  /\ Len(evaluations) <= Candidates
  /\ rank = <<>> \/ rank \in [Candidate -> 1..Candidates]
  /\ recommended \in Candidate \cup {None}

\* What may be counted on for requirement r of candidate c at time t.
Admitted(c, r, t) ==
  {o \in observations :
     /\ o.revision = Revision /\ o.candidate = c /\ o.key = r
     /\ Accepts[r] = {} \/ o.type \in Accepts[r]
     /\ o.classification \in UsableClassification
     /\ o.until = Forever \/ t <= o.until
     /\ Converts(r, o)}

\* The conflicts that are about an acceptable observation of c for r.
About(c, r) ==
  {k \in conflicts : k.key = r /\ k.ids \cap {o.id : o \in Acceptable(observations, c, r)} # {}}

\* Some admitted observation meets the criterion, and nothing speaks against
\* it: either every conflict about the matter was resolved in its favour, or
\* there is none, no observation is marked as conflicting and all the admitted
\* ones agree with it.
Proven(c, r, t) ==
  \E o \in Admitted(c, r, t) :
    /\ Judged(r, Converted(r, o)) = "satisfied"
    /\ \/ /\ About(c, r) # {}
          /\ \A k \in About(c, r) : k.resolved = o.id
       \/ /\ About(c, r) = {}
          /\ \A p \in Acceptable(observations, c, r) : p.classification # "conflicting"
          /\ \A p \in Admitted(c, r, t) : Converted(r, p) = Converted(r, o)

\* A candidate is eligible when, and only when, every mandatory requirement
\* was proven at the moment the candidate was evaluated: what is missing,
\* stale, contradicted, unacceptable or cannot be converted never counts for a
\* candidate (evaluate_candidate and the order of the tests in
\* _resolve_evidence).
EligibleIsProven ==
  \A c \in DOMAIN evaluations :
    Eligible(evaluations[c])
      <=> \A r \in OfPriority("mandatory") : Proven(c, r, evaluations[c].at)

\* Nothing but a resolution turns the answer for a requirement into its
\* opposite: neither the expiry of some of the evidence, nor another
\* observation, nor the search for conflicts.  They may only take the answer
\* away or give one where there was none (_resolve_evidence drops stale
\* evidence before it compares values, and never lets one observation outvote
\* another).
OnlyResolutionReverses ==
  [][\A c \in Candidate, r \in Requirement :
       LET before == Standing(observations, conflicts, c, r, clock)
           after == Standing(observations', conflicts', c, r, clock')
       IN  {before, after} = Supported
             => \E k \in conflicts \ conflicts' :
                  \E id \in k.ids : [k EXCEPT !.resolved = id] \in conflicts']_vars

\* The recommendation is a proven candidate, and no candidate that was proven
\* too has earned more weight; without a recommendation no candidate was
\* proven, and no two candidates share a rank (rank_candidates).
RecommendsBest ==
  rank # <<>> =>
    LET proven == {c \in Candidate :
                     \A r \in OfPriority("mandatory") : Proven(c, r, evaluations[c].at)}
    IN  /\ recommended = None <=> proven = {}
        /\ recommended # None =>
             /\ recommended \in proven
             /\ \A c \in proven : Score(evaluations[c]) <= Score(evaluations[recommended])
        /\ \A c, d \in Candidate : rank[c] = rank[d] => c = d
=============================================================================
