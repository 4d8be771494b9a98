---------------------------- MODULE EvaluationMC ----------------------------
(* A small instance of Evaluation: a mandatory mass, a preferred warranty   *)
(* and delivery date and a grade for information, two candidates, and       *)
(* claims that agree, contradict each other, expire, do not convert, cannot *)
(* be compared, or are of a type that is not accepted.                      *)
EXTENDS Evaluation

MCRequirement == {"mass", "warranty", "delivery", "grade"}
MCPriority == [r \in MCRequirement |->
  CASE r = "mass" -> "mandatory" [] r = "grade" -> "informational" [] OTHER -> "preferred"]
MCWeight == [r \in MCRequirement |-> IF r = "warranty" THEN 2 ELSE 1]
MCAccepts == [r \in MCRequirement |-> IF r = "mass" THEN {"supplier_page"} ELSE {}]
MCFactor == [r \in MCRequirement |-> [u \in {"kg", "pair"} |-> IF u = "kg" THEN 1 ELSE 2]]

V(sort, n) == [sort |-> sort, n |-> n]
C(type, operator, n, matching) ==
  [type |-> type, operator |-> operator, target |-> V(type, n), matching |-> matching]
MCCriterion == [r \in MCRequirement |->
  CASE r = "mass"     -> C("number", "at_most", 2, {})
    [] r = "warranty" -> C("boolean", "equals", 1, {})
    [] r = "delivery" -> C("date", "at_most", 5, {})
    [] r = "grade"    -> C("text", "in", 1, {V("text", 1)})]

Mass(id, c, n, unit, until) ==
  [id |-> id, revision |-> 1, candidate |-> c, key |-> "mass", type |-> "supplier_page",
   value |-> V("number", n), unit |-> unit, classification |-> "observed",
   until |-> until]
Other(id, c, key, value) ==
  [Mass(id, c, 1, "none", Forever) EXCEPT !.key = key, !.type = "review", !.value = value]

MCPool == {
  Mass(1, 1, 2, "kg", Forever), Mass(2, 1, 1, "pair", 0), Mass(3, 1, 3, "kg", 1),
  Mass(4, 1, 2, "stone", Forever), Mass(5, 1, 2, "pair", Forever),
  [Mass(6, 1, 0, "none", Forever) EXCEPT !.value = V("none", 0),
                                         !.classification = "unknown"],
  [Mass(7, 1, 2, "kg", Forever) EXCEPT !.classification = "conflicting"],
  [Mass(8, 1, 3, "kg", Forever) EXCEPT !.type = "review"],
  [Mass(9, 1, 2, "kg", Forever) EXCEPT !.revision = 2],
  [Mass(10, 1, 2, "kg", Forever) EXCEPT !.value.sort = "text"],
  Mass(11, 2, 2, "kg", 1), Mass(12, 2, 3, "kg", 0),
  Other(13, 1, "warranty", V("boolean", 1)), Other(14, 2, "warranty", V("boolean", 1)),
  Other(15, 2, "warranty", V("boolean", 0)), Other(16, 1, "delivery", V("naive date", 4)),
  Other(17, 2, "delivery", V("date", 5)), Other(18, 1, "grade", V("text", 1))}
=============================================================================
