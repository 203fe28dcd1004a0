------------------------------ MODULE MCDatabase ------------------------------
(* Inserts of up to three columns and fields, and updates of one, two and six *)
(* fields, among them those whose columns and fields do not agree; the first  *)
(* three fields are numbers, or of types that their binders treat otherwise.  *)
EXTENDS Database

Mixes == {<<"number", "number", "number">>, <<"chars", "string", "number">>,
          <<"other", "number", "null">>, <<"other", "other", "string">>}

\* The types of a caller's structures of so many fields; those beyond the third are numbers.
TypesOf(mix, set, where) ==
  [f \in {"set", "where"} \X Fields |->
     IF f[2] > (IF f[1] = "set" THEN set ELSE where) THEN "void"
     ELSE IF f[2] <= Len(mix) THEN mix[f[2]] ELSE "number"]

MCCalls ==
  {[op |-> "insert", cols |-> c, set |-> s, where |-> 1, nulls |-> n,
    type |-> TypesOf(mix, s, 1)] : c \in 1..3, s \in 1..3, n \in {{}, {1}, {2}}, mix \in Mixes}
    \union
  {[op |-> "update", cols |-> s + w, set |-> s, where |-> w, nulls |-> {},
    type |-> TypesOf(mix, s, w)] : s \in {1, 2, 6}, w \in {1, 2, 6}, mix \in Mixes}
===============================================================================
