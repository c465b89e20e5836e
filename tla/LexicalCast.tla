---------------------------- MODULE LexicalCast ----------------------------
(***************************************************************************)
(* The conversions of sylar/config.h between the value of a configuration  *)
(* variable and its YAML text.  As with the templates, the conversion of a *)
(* container has the type of its elements, "int" or "string", as a         *)
(* parameter.  A conversion that throws gives Throws.                      *)
(*                                                                         *)
(* Texts are opaque, and yaml-cpp is a parameter: Load makes a node of a   *)
(* text, or throws, and Emit writes a node as a text.  Neither undoes the  *)
(* other for every text: Load drops comments and quotes and reads the      *)
(* empty text, ~ and null all as null.                                     *)
(***************************************************************************)
EXTENDS Integers, Sequences, SequencesExt

CONSTANTS
  Throws,
  Load(_),    \* YAML::Load(text): a node, or Throws
  Emit(_),    \* stringstream << node: a text
  EmptyText,  \* the text ""
  IntOf,      \* IntOf[s]: the number lexical_cast<int> makes of text s
  IntText     \* IntText[i]: the text it makes of number i

NullNode == [tag |-> "null", of |-> <<>>]
Scalar(text) == [tag |-> "scalar", of |-> text]
SeqNode(items) == [tag |-> "seq", of |-> items]
MapNode(pairs) == [tag |-> "map", of |-> pairs]

(* A node that is written and read is the same. *)
RoundTrips(node) ==
  node # Throws /\ Emit(node) # Throws /\ Load(Emit(node)) = node

ASSUME LexicalCastAssumption ==
  /\ Load(EmptyText) = NullNode
  /\ RoundTrips(NullNode)
  /\ EmptyText # Throws
  /\ \A i \in DOMAIN IntText :
       /\ i # Throws /\ IntText[i] # Throws
       /\ IntText[i] \in DOMAIN IntOf /\ IntOf[IntText[i]] = i
       /\ Load(IntText[i]) # Throws /\ Emit(Load(IntText[i])) = IntText[i]

(* Fault: each element is assigned to the node instead of pushed. *)
PushedLast(items) == IF items = <<>> THEN NullNode ELSE items[Len(items)]

(* A node that is null at first, with the items pushed to it. *)
Pushed(items) == IF items = <<>> THEN NullNode ELSE SeqNode(items)

(* node[0] to node[size() - 1], each written as a text.  A scalar and null
   have the size 0.  A map finds no number among its keys, and what it gives
   instead, an undefined node, is written as nothing. *)
ItemTexts(node) ==
  CASE node.tag = "seq" -> [k \in DOMAIN node.of |-> Emit(node.of[k])]
    [] node.tag = "map" -> [k \in DOMAIN node.of |-> EmptyText]
    [] OTHER -> <<>>

(* The keys and values over which an iterator goes. *)
Pairs(node) == IF node.tag = "map" THEN node.of ELSE <<>>

----------------------------------------------------------------------------
(* boost::lexical_cast, for numbers and for strings, which are texts. *)
IntFrom(text) == IF text \in DOMAIN IntOf THEN IntOf[text] ELSE Throws
IntTo(i) == IntText[i]

StringFrom(text) == text
StringTo(s) == s

(* LexicalCast<std::string, T> and <T, std::string>, for an element type T. *)
From(T, text) == IF T = "int" THEN IntFrom(text) ELSE StringFrom(text)
To(T, x) == IF T = "int" THEN IntTo(x) ELSE StringTo(x)

(* The node an element becomes. *)
Loaded(T, x) == Load(To(T, x))

(* vector and list: one element that throws ends it all. *)
VectorFrom(text, T) ==
  LET node == Load(text)
      texts == ItemTexts(node)
      v == [k \in DOMAIN texts |-> From(T, texts[k])]
  IN IF node = Throws THEN Throws
     ELSE IF \E k \in DOMAIN v : v[k] = Throws THEN Throws ELSE v

VectorNode(v, T) == Pushed([k \in DOMAIN v |-> Loaded(T, v[k])])

VectorTo(v, T) ==
  IF \E k \in DOMAIN v : Loaded(T, v[k]) = Throws THEN Throws
  ELSE Emit(VectorNode(v, T))

(* set and unordered_set: equal elements become one, in some order. *)
SetFrom(text, T) ==
  LET v == VectorFrom(text, T) IN IF v = Throws THEN Throws ELSE ToSet(v)

SetTo(S, T) == VectorTo(SetToSeq(S), T)

(* map and unordered_map: insert keeps the first value of a key; the items of
   a list have no key, and asking for it throws. *)
MapFrom(text, T) ==
  LET node == Load(text)
      pairs == Pairs(node)
      keys == {pairs[k][1] : k \in DOMAIN pairs}
      at(key) == Min({k \in DOMAIN pairs : pairs[k][1] = key})
  IN
  IF node = Throws THEN Throws
  ELSE IF node.tag = "seq" /\ node.of # <<>> THEN Throws
  ELSE IF \E k \in DOMAIN pairs : From(T, Emit(pairs[k][2])) = Throws THEN Throws
  ELSE [key \in keys |-> From(T, Emit(pairs[at(key)][2]))]

MapNodeOf(m, T) ==
  LET keys == SetToSeq(DOMAIN m) IN
  IF keys = <<>> THEN NullNode
  ELSE MapNode([k \in DOMAIN keys |-> <<keys[k], Loaded(T, m[keys[k]])>>])

MapTo(m, T) ==
  IF \E k \in DOMAIN m : Loaded(T, m[k]) = Throws THEN Throws
  ELSE Emit(MapNodeOf(m, T))

(* The specialisation for a type, <<container, element type>>. *)
CastFrom(cast, text) ==
  CASE cast[1] = "scalar" -> From(cast[2], text)
    [] cast[1] = "vector" -> VectorFrom(text, cast[2])
    [] cast[1] = "set" -> SetFrom(text, cast[2])
    [] cast[1] = "map" -> MapFrom(text, cast[2])

CastTo(cast, v) ==
  CASE cast[1] = "scalar" -> To(cast[2], v)
    [] cast[1] = "vector" -> VectorTo(v, cast[2])
    [] cast[1] = "set" -> SetTo(v, cast[2])
    [] cast[1] = "map" -> MapTo(v, cast[2])

(* toString(): a cast that throws is logged, and shows as nothing. *)
Shown(text) == IF text = Throws THEN EmptyText ELSE text
=============================================================================
