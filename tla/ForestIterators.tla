-------------------------- MODULE ForestIterators --------------------------
(***************************************************************************)
(* The links of a forest and the iterators over them.  A node is threaded  *)
(* twice, at its leading and at its trailing edge; a forest is the node    *)
(* that is the parent of its trees.  An iterator is a node and an edge,    *)
(* and finds the edge of the next position by what the links say.          *)
(*                                                                         *)
(* links maps a node and an edge to its two neighbours.  A walk is cut     *)
(* after Bound steps, more than any forest of these nodes has.             *)
(*                                                                         *)
(* A definition X_Y is X with the defect Y.  Nothing uses it: it is there  *)
(* to put in the place of X and see a property of X fail.                  *)
(***************************************************************************)
EXTENDS Naturals, Integers, Sequences, FiniteSets

CONSTANTS
    Forests,     \* the forests, each standing for its _tail
    Nodes        \* the nodes that may be allocated

\* The forests that are local variables of the operations.
Locals == {"tmp", "temp"}
Cells  == Nodes \cup Forests \cup Locals
Bound  == 2 * Cardinality(Nodes) + 2

\* The state of a loop, step after step, until it is done.
Loop(step(_), done(_), start) ==
    LET after[k \in 0..Bound] ==
            IF k = 0 THEN start
            ELSE CHOOSE s \in {IF done(s) THEN s ELSE step(s) : s \in {after[k - 1]}} : TRUE
    IN  after[Bound]

\* The positions [first, last) an iterator goes through.
Walk(next(_), first, last) ==
    Loop(LAMBDA w : [at |-> next(w.at), seen |-> Append(w.seen, w.at)],
         LAMBDA w : w.at = last, [at |-> first, seen |-> << >>]).seen

-----------------------------------------------------------------------------

SelfLinked(n) == [e \in {"leading", "trailing"} |-> [prior |-> n, next |-> n]]

pivot(e) == IF e = "leading" THEN "trailing" ELSE "leading"

pivot_of(i)    == << i[1], pivot(i[2]) >>
leading_of(i)  == << i[1], "leading" >>
trailing_of(i) == << i[1], "trailing" >>
is_leading(i)  == i[2] = "leading"

equal_node(i, j) == i[1] = j[1]

next(links, i) ==
    LET n == links[i[1]][i[2]].next
    IN  << n, IF is_leading(i)
              THEN IF n # i[1] THEN "leading" ELSE "trailing"
              ELSE IF links[n]["leading"].prior = i[1] THEN "leading" ELSE "trailing" >>

prior(links, i) ==
    LET n == links[i[1]][i[2]].prior
    IN  << n, IF is_leading(i)
              THEN IF links[n]["trailing"].next # i[1] THEN "leading" ELSE "trailing"
              ELSE IF n = i[1] THEN "leading" ELSE "trailing" >>

set_next(links, x, y) ==
    [links EXCEPT ![x[1]][x[2]].next = y[1], ![y[1]][y[2]].prior = x[1]]

root(f)         == << f, "leading" >>
end(f)          == << f, "trailing" >>
begin(links, f) == next(links, root(f))
empty(links, f) == begin(links, f) = end(f)

has_children(links, i) == ~equal_node(i, next(links, leading_of(i)))

find_parent(links, i) ==
    Loop(LAMBDA j : next(links, trailing_of(j)), LAMBDA j : ~is_leading(j),
         next(links, trailing_of(i)))

-----------------------------------------------------------------------------
(* Children *)

child_next(links, i)  == next(links, pivot_of(i))
child_prior(links, i) == pivot_of(prior(links, i))
child_begin(links, i) == next(links, leading_of(i))
child_end(i)          == trailing_of(i)

\* set_next of child iterators.
set_next_child(links, x, y) == set_next(links, pivot_of(x), y)

child_range(links, i) ==
    Walk(LAMBDA j : child_next(links, j), child_begin(links, i), child_end(i))

\* [first, last) of siblings
ChildRanges(links, i) ==
    LET all == child_range(links, i) \o << child_end(i) >>
    IN  {<< all[jk[1]], all[jk[2]] >> :
            jk \in {jk \in (DOMAIN all) \X (DOMAIN all) : jk[1] <= jk[2]}}

-----------------------------------------------------------------------------
(* Preorder and postorder *)

find_edge(links, i, e) ==
    Loop(LAMBDA j : next(links, j), LAMBDA j : j[2] = e, i)
find_edge_reverse(links, i, e) ==
    Loop(LAMBDA j : prior(links, j), LAMBDA j : j[2] = e, i)

edge_next(links, i, e)  == find_edge(links, next(links, i), e)
edge_prior(links, i, e) == find_edge_reverse(links, prior(links, i), e)

edge_range(links, f, e) ==
    Walk(LAMBDA i : edge_next(links, i, e),
         find_edge(links, begin(links, f), e), find_edge(links, end(f), e))

-----------------------------------------------------------------------------
(* The nodes that pass a filter, and none below a node that does not.  A   *)
(* filter iterator is inside or outside of [first, last).                  *)

skip_forward_Into(links, first, last, accepted) ==
    Loop(LAMBDA i : next(links, i),
         LAMBDA i : ~is_leading(i) \/ i = last \/ i[1] \in accepted, first)
skip_forward(links, first, last, accepted) ==
    Loop(LAMBDA i : next(links, trailing_of(i)),
         LAMBDA i : ~is_leading(i) \/ i = last \/ i[1] \in accepted, first)

skip_backward(links, first, last, accepted) ==
    Loop(LAMBDA i : prior(links, leading_of(i)),
         LAMBDA i : is_leading(i) \/ i = first \/ i[1] \in accepted, last)

filter(links, first, last, accepted) ==
    [at |-> skip_forward(links, first, last, accepted), inside |-> TRUE]

filter_next(links, x, first, last, accepted) ==
    LET i == next(links, x.at)
        inside == i = first \/ (x.inside /\ x.at # last)
    IN  [at |-> IF inside THEN skip_forward(links, i, last, accepted) ELSE i, inside |-> inside]

filter_prior(links, x, first, last, accepted) ==
    LET i == prior(links, x.at)
        inside == i = last \/ (x.inside /\ x.at # first)
    IN  [at |-> IF inside THEN skip_backward(links, first, i, accepted) ELSE i, inside |-> inside]

-----------------------------------------------------------------------------
(* Backwards, with the edges exchanged: the position before the base.      *)

reverse(links, i) ==
    LET b == prior(links, i) IN [base |-> b, edge |-> pivot(b[2])]

reverse_next(links, x) ==
    LET b == prior(links, << x.base[1], pivot(x.edge) >>) IN [base |-> b, edge |-> pivot(b[2])]

reverse_prior(links, x) ==
    LET b == next(links, << x.base[1], pivot(x.edge) >>) IN [base |-> b, edge |-> pivot(b[2])]

reverse_fullorder_range(links, f) ==
    Walk(LAMBDA x : reverse_next(links, x), reverse(links, end(f)), reverse(links, begin(links, f)))

-----------------------------------------------------------------------------
(* With the depth *)

Step(e) == IF e = "leading" THEN 1 ELSE -1

depth_next(links, x) ==
    LET i == next(links, x.at)
    IN  [at |-> i, depth |-> IF i[2] = x.at[2] THEN x.depth + Step(x.at[2]) ELSE x.depth]

depth_prior(links, x) ==
    LET i == prior(links, x.at)
    IN  [at |-> i, depth |-> IF i[2] = x.at[2] THEN x.depth - Step(x.at[2]) ELSE x.depth]

=============================================================================
