------------------------------ MODULE MCRepair ------------------------------
(* Small instances of Repair. *)
EXTENDS RepairClaims

CONSTANTS a, b, dots, n1, n2, t1, t2

ExactLike == [n \in Names |-> n]

TwoStamps == <<t1, t2>>

NestedPaths == {<<a>>, <<a, a>>, <<a, a, a>>, <<b>>, <<a, dots>>}

Scenario(paths, payloads, kinds, nodes, versions) ==
  [paths |-> paths, payloads |-> payloads, damage |-> kinds, nodes |-> nodes,
   versions |-> versions]

(* One file per namespace, of one or two bytes; every field but the path is damaged. *)
RowScenario ==
  Scenario({<<a>>}, {<<0>>, <<0, 1>>}, {"block", "node", "type", "mapping"}, 2, 3)

(* Three empty files whose paths are damaged, into nests and to invalid ones. *)
PathScenario == Scenario(NestedPaths, {<<>>}, {"path"}, 3, 1)

AllScenarios == {RowScenario, PathScenario}
PathScenarios == {PathScenario}
TypeScenarios == {Scenario(NestedPaths, {<<>>}, {"type"}, 3, 1)}

Symmetry == Permutations(Namespaces)
=============================================================================
