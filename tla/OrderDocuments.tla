--------------------------- MODULE OrderDocuments ---------------------------
(***************************************************************************)
(* order_documents of ipamsync/plan.py as it is written, a depth-first     *)
(* search, against the order that TreePlan takes from Place.  Here for     *)
(* TLC: TreePlan, which is proved about, has no recursive operator.        *)
(***************************************************************************)
EXTENDS TreePlan
LOCAL INSTANCE SequencesExt

\* parent[c] is the master_subnet of the document of c, or None.  A parent that has
\* no document is not descended to, and neither is one that is being visited.
RECURSIVE place(_, _, _, _)
place(parent, c, visiting, ordered) ==
  IF c \notin DOMAIN parent \/ c \in visiting \/ Contains(ordered, c) THEN ordered
  ELSE LET above == IF parent[c] = None THEN ordered
                    ELSE place(parent, parent[c], visiting \cup {c}, ordered)
       IN  IF Contains(above, c) THEN above ELSE Append(above, c)

order_documents(parent) ==
  FoldLeft(LAMBDA ordered, c : place(parent, c, {}, ordered), << >>,
           SetToSortSeq(DOMAIN parent, <))

-----------------------------------------------------------------------------
Parents == UNION {[S -> Cidr \cup {None}] : S \in SUBSET Cidr}

\* No document is an ancestor of itself.
Acyclic(parent) ==
  \A S \in SUBSET DOMAIN parent : S # {} => \E c \in S : parent[c] \notin S

DocumentsOf(parent) == {[cidr |-> c, master_subnet |-> parent[c]] : c \in DOMAIN parent}

Earlier(docs, c, d) ==
  LET p == Place(docs, c)
      q == Place(docs, d)
  IN  p[1] < q[1] \/ (p[1] = q[1] /\ p[2] < q[2])

(***************************************************************************)
(* Every document is ordered once, whatever its parent, a cycle included   *)
(* ("broken rather than hung on", plan.py:238); without cycles a parent    *)
(* comes before its children, and the order is that of Place.              *)
(***************************************************************************)
ASSUME DocumentOrder ==
  \A parent \in Parents :
    LET ordered == order_documents(parent) IN
    /\ Range(ordered) = DOMAIN parent /\ Len(ordered) = Cardinality(DOMAIN parent)
    /\ Acyclic(parent) =>
         \A i, j \in DOMAIN ordered :
           /\ parent[ordered[j]] = ordered[i] => i < j
           /\ i < j <=> Earlier(DocumentsOf(parent), ordered[i], ordered[j])
=============================================================================
