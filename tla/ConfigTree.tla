----------------------------- MODULE ConfigTree -----------------------------
(***************************************************************************)
(* How Config::LoadFromYaml (sylar/config.cc) takes a document apart: the  *)
(* tree of nodes becomes the list of names and texts that the loop of      *)
(* Config goes through.  A name is the sequence of its parts between the   *)
(* dots, so that joining a prefix and a key is a concatenation, and a key  *)
(* `a.b' names what `b' inside `a' does.                                   *)
(***************************************************************************)
EXTENDS LexicalCast

CONSTANT LegalParts  \* parts made of a-z, 0-9 and _

Legal(prefix) == \A k \in DOMAIN prefix : prefix[k] \in LegalParts

(* ListAllMember(prefix, node, output): the node comes before its children,
   and an illegal prefix takes what is below it away with it. *)
RECURSIVE ListAllMember(_, _)
ListAllMember(prefix, node) ==
  IF ~Legal(prefix) THEN <<>>
  ELSE << <<prefix, node>> >> \o
       FlattenSeq(
         IF node.tag # "map" THEN <<>>
         ELSE [k \in DOMAIN node.of |->
                 ListAllMember(prefix \o node.of[k][1], node.of[k][2])])

(* What fromString is given: a scalar as it is, any other node written out. *)
NodeText(node) == IF node.tag = "scalar" THEN node.of ELSE Emit(node)

(* all_nodes, with the text of each node. *)
AllNodes(root) ==
  LET output == ListAllMember(<<>>, root) IN
  [k \in DOMAIN output |-> <<output[k][1], NodeText(output[k][2])>>]
=============================================================================
