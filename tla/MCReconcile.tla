--------------------------- MODULE MCReconcile ---------------------------
(***************************************************************************)
(* Reconcile for TLC: two bindings, which is enough for a conflict, a      *)
(* blamed pair and a binding that moves; two specs: an AWS role, and one   *)
(* that only names another provider.                                       *)
(***************************************************************************)
EXTENDS Reconcile, TLC

MCBody(aws, other) == [aws |-> aws, other |-> other, prov |-> "unset", extra |-> {}]

MCNames == 1..2
MCExtra == {}
MCTwoBodies == {MCBody("r1", FALSE), MCBody("none", TRUE)}
MCRoles == {"r1", "r2"}
MCNoAws == "none"

Budget(where, keys, ops, faults, restarts, pending) ==
  [home |-> where, keys |-> keys,
   ops |-> ops, faults |-> faults, restarts |-> restarts, pending |-> pending]

\* All workers in one replica; each replica with a worker of its own.
Together == {[w \in Workers |-> r] : r \in Replicas}
Apart == {h \in [Workers -> Replicas] : \A v, w \in Workers : v # w => h[v] # h[w]}
SomeOf(S) == CHOOSE x \in S : TRUE

MCSafetyBudgets ==
  {Budget(h, Keys, 3, 0, 0, 2) : h \in Together}
    \union {Budget(h, Keys, 2, 1, 1, 2) : h \in Together}
    \union {Budget(h, Keys, 2, 0, 0, 0) : h \in Apart}
    \union {Budget(h, {k}, 2, 0, 1, 0) : h \in Apart, k \in Keys}
MCLiveBudgets ==
  {Budget(SomeOf(Together), Keys, 2, 1, 0, 2),
   Budget(SomeOf(Together), Keys, 2, 0, 1, 2),
   Budget(SomeOf(Apart), {SomeOf(Keys)}, 1, 1, 0, 1),
   Budget(SomeOf(Apart), {SomeOf(Keys)}, 1, 0, 1, 1)}
MCTwoChanges == {Budget(h, Keys, 2, 0, 0, 0) : h \in Together}
MCRestart == {Budget(h, Keys, 2, 0, 1, 0) : h \in Together}

\* Workers are interchangeable, and so are service accounts and replicas
\* (bindings are not: the list has an order).
Symmetry == Permutations(Keys) \union Permutations(Workers) \union Permutations(Replicas)
==========================================================================
