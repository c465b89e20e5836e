---------------------------- MODULE ConfigCasts ----------------------------
(***************************************************************************)
(* The registry of Config with the conversions of LexicalCast.  A value    *)
(* comes with its type, <<type, content>>, so that TLC can compare any two *)
(* values.                                                                 *)
(***************************************************************************)
EXTENDS Config, LexicalCast

CONSTANT CastOf  \* CastOf[ty]: the specialisation of LexicalCast for type ty

Typed(ty, x) == IF x = Throws THEN Null ELSE <<ty, x>>

(* YAML gives the text of an element back: it loads, and what it loads as is
   written as that text again.  Numbers do; of strings, "null", "a # b", "'a'"
   and the empty one are among those that do not. *)
Stable(T, x) ==
  /\ T = "int" => x \in DOMAIN IntText
  /\ x # Throws /\ Loaded(T, x) # Throws
  /\ From(T, Emit(Loaded(T, x))) = x

(* A scalar, or a container of stable elements whose node YAML reads as it
   writes it. *)
Plain(cast, x) ==
  LET T == cast[2] IN
  \/ cast[1] = "scalar" /\ (T = "int" => x \in DOMAIN IntText) /\ x # Throws
  \/ /\ cast[1] = "vector" /\ x \in Seq(Range(x)) /\ x # Throws
     /\ \A k \in DOMAIN x : Stable(T, x[k])
     /\ RoundTrips(VectorNode(x, T))
  \/ /\ cast[1] = "set" /\ IsFiniteSet(x) /\ SetToSeq(x) # Throws
     /\ \A e \in x : Stable(T, e)
     /\ RoundTrips(VectorNode(SetToSeq(x), T))
  \/ /\ cast[1] = "map" /\ IsFiniteSet(DOMAIN x)
     /\ x = [k \in DOMAIN x |-> x[k]]
     /\ \A k \in DOMAIN x : Stable(T, x[k])
     /\ RoundTrips(MapNodeOf(x, T))

(* fromString and toString are casts of LexicalCast, the values that are not
   plain are the fragile ones, and no default is one of these. *)
ASSUME CastAssumption ==
  \A ty \in Types :
    /\ CastOf[ty] \in {"scalar", "vector", "set", "map"} \X {"int", "string"}
    /\ \A v \in Values[ty] :
         /\ v = <<ty, v[2]>> /\ v[2] # Throws
         /\ Text(ty, v) = Shown(CastTo(CastOf[ty], v[2]))
         /\ v \notin Fragile => Plain(CastOf[ty], v[2])
    /\ \A s \in Inputs \cup {Text(ty, v) : v \in Values[ty]} :
         Parse(ty, s) = Typed(ty, CastFrom(CastOf[ty], s))
    /\ Default[ty] \notin Fragile
=============================================================================
