------------------------------ MODULE JsonBodies ------------------------------
(***************************************************************************)
(* How a body that a route asks for is compared with the one of a request: *)
(* JSON values are records [tag, v], strings sequences of tokens.          *)
(***************************************************************************)
EXTENDS Integers, Sequences

\* == of Python: True equals 1, False equals 0.
Scalar(j) ==
  IF j.tag = "bool" THEN [tag |-> "num", v |-> IF j.v THEN 1 ELSE 0] ELSE j
RECURSIVE PyEqual(_, _)
PyEqual(a, b) ==
  /\ Scalar(a).tag = Scalar(b).tag
  /\ CASE a.tag \in {"obj", "list"} ->
            DOMAIN a.v = DOMAIN b.v /\ \A k \in DOMAIN a.v : PyEqual(a.v[k], b.v[k])
       [] OTHER -> Scalar(a) = Scalar(b)
IsPart(s, t) == \E i \in 0..Len(t) - Len(s) : SubSeq(t, i + 1, i + Len(s)) = s
RECURSIVE JsonContains(_, _)
JsonContains(expected, actual) ==
  CASE expected.tag = "obj" ->
         /\ actual.tag = "obj"
         /\ \A k \in DOMAIN expected.v :
              k \in DOMAIN actual.v /\ JsonContains(expected.v[k], actual.v[k])
    [] expected.tag = "list" ->
         /\ actual.tag = "list"
         /\ \A i \in DOMAIN expected.v :
              \E j \in DOMAIN actual.v : JsonContains(expected.v[i], actual.v[j])
    [] expected.tag = "str" /\ actual.tag = "str" -> IsPart(expected.v, actual.v)
    [] OTHER -> PyEqual(expected, actual)
==============================================================================
