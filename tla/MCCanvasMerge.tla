---------------------------- MODULE MCCanvasMerge ----------------------------
(* CanvasMerge for TLC: two nodes with labels that may contain each     *)
(* other, and an edge from one to the other.                                  *)
EXTENDS CanvasMerge

CONSTANTS a, b, x, v1, v2

Node(label, parent) ==
    [f \in Field |-> CASE f = "label" -> label [] f = "parentId" -> parent [] OTHER -> Undefined]
Edge(source, target) ==
    [f \in Field |-> CASE f = "source" -> source [] f = "target" -> target [] OTHER -> Undefined]

AsCanvas(na, nb, e) == [i \in Id |-> CASE i = a -> na [] i = b -> nb [] OTHER -> e]

MCCanvas ==
    {c \in {AsCanvas(na, nb, e) :
              na \in {Undefined} \cup {Node(l, p) : l \in {Undefined, v1, v2}, p \in {Undefined, b}},
              nb \in {Undefined} \cup {Node(l, p) : l \in {Undefined, v1}, p \in {Undefined, a}},
              e \in {Undefined, Edge(a, b), Edge(b, a)}} : IsGraph(c)}
==============================================================================
