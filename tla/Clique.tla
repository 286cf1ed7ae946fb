------------------------------- MODULE Clique -------------------------------
(***************************************************************************)
(* findClique of src/services/ivss.go: the recursive backtracking search   *)
(* for a clique of exactly k nodes, taking the nodes in the order of the   *)
(* slice it is given and trying "include" before "exclude".  The graph is  *)
(* a set adj of ordered pairs <<u, v>> (neighbors[u][v]).  The code's nil  *)
(* is NoClique; k is at least 1 at both call sites.                        *)
(***************************************************************************)
EXTENDS Integers, Sequences

NoClique == <<>>

\* node may join clique: it is a neighbour of every member so far.
CanInclude(node, clique, adj) == \A i \in 1..Len(clique) : <<node, clique[i]>> \in adj

RECURSIVE Search(_, _, _, _)

\* Faulty variant: includes the node without checking adjacency.
SearchNoCheck(cands, clique, k, adj) ==
    IF Len(clique) = k THEN clique
    ELSE IF Len(clique) + Len(cands) < k THEN NoClique
    ELSE LET res == Search(Tail(cands), Append(clique, Head(cands)), k, adj)
         IN  IF res # NoClique THEN res ELSE Search(Tail(cands), clique, k, adj)

\* Faulty variant: a node that can be included is never excluded again.
SearchNoBacktrack(cands, clique, k, adj) ==
    IF Len(clique) = k THEN clique
    ELSE IF Len(clique) + Len(cands) < k THEN NoClique
    ELSE IF CanInclude(Head(cands), clique, adj)
         THEN Search(Tail(cands), Append(clique, Head(cands)), k, adj)
         ELSE Search(Tail(cands), clique, k, adj)

\* search(candidates, currentClique): done at k members; pruned when the
\* remaining candidates cannot reach k; else candidates[0] is tried in,
\* then out.
Search(cands, clique, k, adj) ==
    IF Len(clique) = k THEN clique
    ELSE IF Len(clique) + Len(cands) < k THEN NoClique
    ELSE LET node == Head(cands)
             res  == IF CanInclude(node, clique, adj)
                     THEN Search(Tail(cands), Append(clique, node), k, adj)
                     ELSE NoClique
         IN  IF res # NoClique THEN res ELSE Search(Tail(cands), clique, k, adj)

FindClique(nodes, k, adj) == Search(nodes, <<>>, k, adj)

=============================================================================
