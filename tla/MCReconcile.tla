----------------------------- MODULE MCReconcile -----------------------------
EXTENDS Reconcile, FiniteSets

CONSTANTS k1, k2, t1, t2, h1, h2

\* A document unchanged, edited, moved to another type with the same bytes, and
\* a second document.
Entries ==
  {[key |-> k1, row |-> [type |-> t1, hash |-> h1]],
   [key |-> k1, row |-> [type |-> t1, hash |-> h2]],
   [key |-> k1, row |-> [type |-> t2, hash |-> h1]],
   [key |-> k2, row |-> [type |-> t1, hash |-> h1]]}

\* BOUND: at most three files in a tree, in every order, duplicate keys included.
Trees == {<<>>} \cup {<<e>> : e \in Entries} \cup {<<e, f>> : e, f \in Entries}
         \cup {<<e, f, g>> : e, f, g \in Entries}

MCSnapshots ==
  {[types |-> {tree[j].row.type : j \in DOMAIN tree}, rows |-> tree] : tree \in Trees}
=============================================================================
