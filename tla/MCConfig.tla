------------------------------ MODULE MCConfig ------------------------------
(* Instance of Config for TLC, with the conversions of LexicalCast: variables
   `a' of type map<string, int>, `b' of type set<string> and `a.k', an int
   that a document with `a' also reaches.  Texts and what YAML makes of them
   are a table of the cases that matter: null in three spellings, a comment,
   quotes, a text that does not parse.  The documents have an element that is
   no number, a name twice, unknown and illegal names, a null and a map where
   a list belongs.  AnyType lets callers look one name up with two types, as
   tests/test_config.cc does. *)
EXTENDS ConfigCasts, ConfigTree, TLC

CONSTANTS t1, t2, o1, o2, o3

(* A text: characters as they are, in double quotes, or a written node. *)
Bare(s) == <<"bare", s>>
Quoted(s) == <<"quoted", s>>
Dump(node) == <<"dump", node>>

MCEmptyText == Bare("")
NullTexts == {Bare(""), Bare("~"), Bare("null")}

MCLoad(text) ==
  CASE text[1] = "dump" -> text[2]
    [] text[1] = "quoted" -> Scalar(Bare(text[2]))
    [] text \in NullTexts -> NullNode
    [] text = Bare("x # y") -> Scalar(Bare("x"))
    [] text = Bare("[x") -> Throws
    [] OTHER -> Scalar(text)

(* A scalar that would be read as another is written in quotes. *)
MCEmit(node) ==
  CASE node = NullNode -> Bare("~")
    [] node.tag = "scalar" /\ node.of \in NullTexts \cup {Bare("x # y"), Bare("[x")} ->
         Quoted(node.of[2])
    [] node.tag = "scalar" -> node.of
    [] OTHER -> Dump(node)

MCThreads == {t1, t2}
MCObjs == {o1, o2, o3}
MCLegalParts == {"a", "b", "k", "l", "u"}
MCNames == {<<"a">>, <<"b">>, <<"a", "k">>}
MCOtherNames == {<<>>, <<"u">>, <<"a", "l">>, <<"b", "k">>, <<"b", "l">>}
MCTypes == {"map", "set", "int"}
MCTypeOf == (<<"a">> :> "map") @@ (<<"b">> :> "set") @@ (<<"a", "k">> :> "int")
MCIntOf == (Bare("0") :> 0) @@ (Bare("1") :> 1) @@ (Bare("01") :> 1)
MCIntText == (0 :> Bare("0")) @@ (1 :> Bare("1"))

MCCastOf == ("map" :> <<"map", "int">>) @@ ("set" :> <<"set", "string">>) @@
            ("int" :> <<"scalar", "int">>)

Number(s) == Scalar(Bare(s))
Strings(texts) == SeqNode([k \in DOMAIN texts |-> Scalar(Bare(texts[k]))])
Tree(keys, nodes) == MapNode([k \in DOMAIN keys |-> <<keys[k], nodes[k]>>])

Table == Tree(<< <<"k">>, <<"l">> >>, <<Number("01"), Number("0")>>)
Wrong == Tree(<< <<"k">>, <<"l">> >>, <<Number("0"), Number("x")>>)

Roots ==
  { Tree(<< <<"u">>, <<"b">>, <<"a">> >>,
         <<Number("1"), Strings(<<"x", "x # y", "x">>), Table>>),
    Tree(<< <<"a">>, <<"A">>, <<"a", "k">>, <<"b">> >>,
         <<Wrong, Tree(<< <<"k">> >>, <<Number("0")>>), Number("1"), NullNode>>),
    Tree(<< <<"b">> >>, <<Table>>) }

MCDocs == {AllNodes(root) : root \in Roots}
MCInputs == UNION {{d[k][2] : k \in DOMAIN d} : d \in MCDocs}

MCDefault == [ty \in MCTypes |-> <<ty, CASE ty = "map" -> <<>>
                                         [] ty = "set" -> {}
                                         [] ty = "int" -> 0>>]
MCMaps == {<<>>, (<<"k">> :> 1) @@ (<<"l">> :> 0)}
MCSets == {{}, {Bare("~")}, {Bare("x"), Quoted("x # y")}} \cup
          {{text} : text \in {Bare(""), Bare("null"), Bare("x # y"), Bare("[x"),
                              Quoted("x")}}
MCValues == [ty \in MCTypes |-> {<<ty, x>> : x \in CASE ty = "map" -> MCMaps
                                                    [] ty = "set" -> MCSets
                                                    [] ty = "int" -> {0, 1}}]

(* The conversions of every value and text that occurs, computed once. *)
TextTable == [ty \in MCTypes |->
                [v \in MCValues[ty] |-> Shown(CastTo(MCCastOf[ty], v[2]))]]
MCText(ty, v) == TextTable[ty][v]
ParseTable == [ty \in MCTypes |->
                 [s \in MCInputs \cup {MCText(ty, v) : v \in MCValues[ty]} |->
                    Typed(ty, CastFrom(MCCastOf[ty], s))]]
MCParse(ty, s) == ParseTable[ty][s]
MCFragile == {v \in MCValues["set"] : ~Plain(MCCastOf["set"], v[2])}

MCContract == Clauses
AnyType == Clauses \ {"one_type"}
=============================================================================
