----------------------------- MODULE AttributeMap -----------------------------
(***************************************************************************)
(* What dx.symbols.changeAttribute promises (spec.md section 6): a symbol  *)
(* is a base together with a set of key -> value attributes, and          *)
(* changeAttribute(symbol, key, value) sets or replaces the attribute key  *)
(* when value is defined, and removes it when value is undefined or null,  *)
(* leaving the base and every other attribute as they are.                 *)
(***************************************************************************)
EXTENDS FiniteSets

CONSTANTS Bases, Keys, Values, Undefined

VARIABLES base, attrs, lastCall   \* lastCall: the key and value of the last call

SetAttribute(a, k, v) == [x \in DOMAIN a \cup {k} |-> IF x = k THEN v ELSE a[x]]
DropAttribute(a, k)   == [x \in DOMAIN a \ {k} |-> a[x]]

Init == base \in Bases /\ attrs = [x \in {} |-> Undefined] /\ lastCall = <<>>

Change(k, v) ==
    /\ attrs' = IF v = Undefined THEN DropAttribute(attrs, k) ELSE SetAttribute(attrs, k, v)
    /\ lastCall' = <<k, v>>
    /\ UNCHANGED base

Next == \E k \in Keys, v \in Values \cup {Undefined} : Change(k, v)

Spec == Init /\ [][Next]_<<base, attrs, lastCall>>
=============================================================================
