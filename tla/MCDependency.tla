---------------------------- MODULE MCDependency ----------------------------
(* Three jobs: a join that updates take apart, where c runs after a and b,  *)
(* after a or alone; or a chain with a join, a -> b, a -> c and b -> c.     *)
EXTENDS DependencyScheduler, TLC

CONSTANTS a, b, c

Triangle == (a :> {}) @@ (b :> {a}) @@ (c :> {a, b})
Join(U) == (a :> {}) @@ (b :> {}) @@ (c :> U)

TriangleOnly == {Triangle}
Joins == {Join(U) : U \in {{a, b}, {a}, {}}}

=============================================================================
