------------------------------- MODULE Forest -------------------------------
(***************************************************************************)
(* The forests of forest.hpp: nodes that are allocated, linked, moved      *)
(* between forests and deleted, and the size each forest caches, where     *)
(* zero stands for unknown unless the forest is empty.  One action per     *)
(* operation; an operation is a function of the heap, a record of the      *)
(* links, the sizes and the nodes that are allocated.                      *)
(*                                                                         *)
(* The user keeps to what the documentation asks for: positions are of the *)
(* forest they are used with, a range is not moved into itself, and a      *)
(* range that is copied is of another forest.                              *)
(*                                                                         *)
(* A definition X_Y is X with the defect Y.  Nothing uses it: it is there  *)
(* to put in the place of X and see a property of X fail.                  *)
(***************************************************************************)
EXTENDS ForestIterators

CONSTANTS
    Value,       \* the value each node holds
    SizeMax      \* the largest std::size_t: it counts any nodes there can be

ASSUME ForestAssumption ==
    /\ IsFiniteSet(Nodes) /\ SizeMax \in Nat /\ Cardinality(Nodes) <= SizeMax
    /\ Nodes \cap (Forests \cup Locals) = {}
    /\ Forests \cap Locals = {}

VARIABLES
    heap,
    did        \* history: the operation that was called last

vars == << heap, did >>

Init ==
    /\ heap = [links     |-> [c \in Cells |-> SelfLinked(c)],
               size      |-> [f \in Forests \cup Locals |-> 0],
               allocated |-> {}]
    /\ did = "construct"

\* std::size_t wraps around.
Minus(a, b) == IF b <= a THEN a - b ELSE a + SizeMax + 1 - b

size_valid(h, f) == h.size[f] # 0 \/ empty(h.links, f)

Fullorder(h, f) == Walk(LAMBDA i : next(h.links, i), begin(h.links, f), end(f))

\* The iterators a forest is used with: root() is not a position for a node.
Iterators(h, f) ==
    LET s == Fullorder(h, f) IN {s[k] : k \in DOMAIN s} \cup {end(f)}

size_KnownEmpty(h, f) == h.size[f]
size(h, f) ==
    IF size_valid(h, f) THEN h.size[f] ELSE Len(edge_range(h.links, f, "leading"))

Sized(h, f) == [h EXCEPT !.size[f] = size(h, f)]

-----------------------------------------------------------------------------
(* Operations on a heap, with the iterator they return *)

insert(h, f, at, n) ==
    LET counted == IF size_valid(h, f) THEN h.size[f] + 1 ELSE h.size[f]
        before  == set_next(h.links, prior(h.links, at), << n, "leading" >>)
    IN  [heap |-> [links     |-> set_next(before, next(before, << n, "leading" >>), at),
                   size      |-> [h.size EXCEPT ![f] = counted],
                   allocated |-> h.allocated \cup {n}],
         at   |-> << n, "leading" >>]

\* All four neighbours are looked up before any link is changed.
unlink_AsParent(links, at) ==
    set_next(set_next(links, prior(links, leading_of(at)), next(links, leading_of(at))),
             prior(links, trailing_of(at)), next(links, trailing_of(at)))

unlink(links, at) ==
    LET leading_prior  == prior(links, leading_of(at))
        leading_next   == next(links, leading_of(at))
        trailing_prior == prior(links, trailing_of(at))
        trailing_next  == next(links, trailing_of(at))
    IN  IF has_children(links, at)
        THEN set_next(set_next(links, leading_prior, leading_next), trailing_prior, trailing_next)
        ELSE set_next(links, leading_prior, trailing_next)

erase(h, f, at) ==
    LET linked == unlink(h.links, at)
    IN  [heap |-> [links     |-> [linked EXCEPT ![at[1]] = SelfLinked(at[1])],
                   size      |-> IF size_valid(h, f) THEN [h.size EXCEPT ![f] = Minus(@, 1)]
                                 ELSE h.size,
                   allocated |-> h.allocated \ {at[1]}],
         at   |-> IF is_leading(at) THEN next(linked, prior(h.links, at))
                  ELSE next(h.links, at)]

\* A node is erased at its trailing edge, if its leading edge is in the range.
erase_range(h, f, first, last) ==
    Loop(LAMBDA s :
            IF is_leading(s.at)
            THEN [heap |-> s.heap, at |-> next(s.heap.links, s.at), depth |-> s.depth + 1]
            ELSE LET e == erase(s.heap, f, s.at)
                 IN  IF s.depth > 0 THEN [heap |-> e.heap, at |-> e.at, depth |-> s.depth - 1]
                     ELSE [s EXCEPT !.at = next(s.heap.links, @)],
         LAMBDA s : s.at = last, [heap |-> h, at |-> first, depth |-> 0]).heap

clear(h, f) == erase_range(h, f, begin(h.links, f), end(f))

\* The range [first, last) of siblings moves from x to f.  The caller may know its count.
Recount_Kept(h, f, x, count) ==
    IF x = f \/ count = 0 THEN h.size
    ELSE [h.size EXCEPT ![f] = IF size_valid(h, f) THEN @ + count ELSE @,
                        ![x] = IF size_valid(h, x) THEN Minus(@, count) ELSE @]
Recount(h, f, x, count) ==
    IF x = f THEN h.size
    ELSE IF count = 0 THEN [h.size EXCEPT ![f] = 0, ![x] = 0]
    ELSE [h.size EXCEPT ![f] = IF size_valid(h, f) THEN @ + count ELSE @,
                        ![x] = IF size_valid(h, x) THEN Minus(@, count) ELSE @]

splice_range(h, f, at, x, first, last, count) ==
    LET back    == prior(h.links, last)
        removed == set_next_child(h.links, child_prior(h.links, first), last)
        joined  == set_next(removed, prior(removed, at), first)
    IN  IF first = last \/ first = at THEN h
        ELSE [h EXCEPT !.links = set_next(joined, back, at), !.size = Recount(h, f, x, count)]

splice(h, f, at, x) ==
    splice_range(h, f, at, x, begin(h.links, x), end(x),
                 IF size_valid(h, x) THEN h.size[x] ELSE 0)

splice_one(h, f, at, x, i) ==
    LET first == leading_of(i)
    IN  splice_range(h, f, at, x, first, child_next(h.links, first),
                     IF has_children(h.links, first) THEN 0 ELSE 1)

insert_parent(h, f, first, last, n) ==
    LET inserted == insert(h, f, last, n)
    IN  IF first = last THEN inserted.heap
        ELSE splice_range(inserted.heap, f, trailing_of(inserted.at), f, first, inserted.at, 0)

\* A copy of the range [first, last) of fullorder positions; fresh are the nodes that are allocated,
\* by what they copy.
insert_range(h, f, at, first, last, fresh) ==
    Loop(LAMBDA s :
            LET i == IF is_leading(s.first) THEN insert(s.heap, f, s.at, fresh[s.first[1]])
                     ELSE [heap |-> s.heap, at |-> s.at]
            IN  [heap  |-> i.heap,
                 at    |-> next(i.heap.links, i.at),
                 first |-> next(i.heap.links, s.first)],
         LAMBDA s : s.first = last, [heap |-> h, at |-> at, first |-> first]).heap

\* Move construction of a local, and move assignment through one.
move(h, f, x) == splice(h, f, end(f), x)

move_assign_Unclear(h, f, x) == move(move(h, "tmp", x), f, "tmp")
move_assign(h, f, x) == move(clear(move(h, "tmp", x), f), f, "tmp")

copy_assign(h, f, x, fresh) ==
    move_assign(insert_range(h, "temp", end("temp"), begin(h.links, x), end(x), fresh), f, "temp")

swap(h, f, x) ==
    move_assign(move_assign(move(h, "temp", f), f, x), x, "temp")

\* A sequence of optional values: what flatten() writes and unflatten() reads.
flatten(h, f) ==
    LET s == Fullorder(h, f)
    IN  [k \in DOMAIN s |-> IF is_leading(s[k]) THEN << Value[s[k][1]] >> ELSE << >>]

\* Inserts at the transcribe_iterator for a value, and passes a trailing edge for none.
transcribe(h, f, values, fresh) ==
    Loop(LAMBDA s :
            LET i == IF values[s.k] # << >> THEN insert(s.heap, f, s.at, fresh[s.k])
                     ELSE [heap |-> s.heap, at |-> trailing_of(s.at)]
            IN  [heap |-> i.heap, at |-> next(i.heap.links, i.at), k |-> s.k + 1],
         LAMBDA s : s.k > Len(values),
         [heap |-> h, at |-> begin(h.links, f), k |-> 1]).heap

-----------------------------------------------------------------------------
(* Comparisons *)

\* The position k steps from begin(), past the end if need be.
Ahead(h, f) ==
    LET i[k \in Nat] == IF k = 1 THEN begin(h.links, f) ELSE next(h.links, i[k - 1]) IN i

equal(h, x, y) ==
    LET s == Fullorder(h, x)
        t == Ahead(h, y)
    IN  /\ size(h, x) = size(h, y)
        /\ \A k \in DOMAIN s : /\ s[k][2] = t[k][2]
                               /\ is_leading(s[k]) => Value[s[k][1]] = Value[t[k][1]]

equal_shape(h, x, y) ==
    /\ ~(size_valid(h, x) /\ size_valid(h, y) /\ h.size[x] # h.size[y])
    /\ LET s == Fullorder(h, x) IN \A k \in DOMAIN s : s[k][2] = Ahead(h, y)[k][2]

-----------------------------------------------------------------------------
(* Actions *)

Free == Nodes \ heap.allocated

NodesIn(s) == {s[k][1] : k \in DOMAIN s}

\* The nodes that copies of these may be given.
Fresh(nodes) ==
    {g \in [nodes -> Free] :
        \A n \in nodes : Value[g[n]] = Value[n] /\ \A m \in nodes : g[m] = g[n] => m = n}

\* A copy of s, by position.
FreshAlong(s) == {[k \in DOMAIN s |-> g[s[k][1]]] : g \in Fresh(NodesIn(s))}

Parents(f)  == {root(f)} \cup {i \in Iterators(heap, f) : is_leading(i)}
Elements(f) == Iterators(heap, f) \ {end(f)}

Between(first, last) == Walk(LAMBDA i : next(heap.links, i), first, last)

\* The positions from first on, end() included.
Positions(first, f) == Append(Between(first, end(f)), end(f))

\* Where siblings [first, last) of x may be moved in f.
Targets(f, x, first, last) ==
    LET s == Between(first, last)
    IN  Iterators(heap, f) \ (IF f = x THEN {s[k] : k \in (DOMAIN s) \ {1}} ELSE {})

Insert(f) ==
    /\ did' = "insert"
    /\ \E at \in Iterators(heap, f), n \in Free : heap' = insert(heap, f, at, n).heap

InsertParent(f) ==
    /\ did' = "insert_parent"
    /\ \E p \in Parents(f), n \in Free : \E r \in ChildRanges(heap.links, p) :
        heap' = insert_parent(heap, f, r[1], r[2], n)

InsertRange(f, x) ==
    /\ did' = "copy"
    /\ x # f
    /\ \E p \in Parents(x) : \E r \in ChildRanges(heap.links, p) :
          \E at \in Iterators(heap, f), fresh \in Fresh(NodesIn(Between(r[1], r[2]))) :
             heap' = insert_range(heap, f, at, r[1], r[2], fresh)

Erase(f) ==
    /\ did' = "erase"
    /\ \E at \in Elements(f) : heap' = erase(heap, f, at).heap

EraseRange(f) ==
    /\ did' = "erase_range"
    /\ \E first, last \in Iterators(heap, f) :
        /\ \E k \in DOMAIN Positions(first, f) : Positions(first, f)[k] = last
        /\ heap' = erase_range(heap, f, first, last)

Clear(f) ==
    /\ did' = "clear"
    /\ heap' = clear(heap, f)

Splice(f, x) ==
    /\ did' = "splice"
    /\ x # f
    /\ \E at \in Iterators(heap, f) : heap' = splice(heap, f, at, x)

SpliceOne(f, x) ==
    /\ did' = "splice"
    /\ \E i \in Elements(x) :
        \E at \in Targets(f, x, leading_of(i), child_next(heap.links, leading_of(i))) :
            heap' = splice_one(heap, f, at, x, i)

SpliceRange(f, x) ==
    /\ did' = "splice"
    /\ \E p \in Parents(x) : \E r \in ChildRanges(heap.links, p) :
        \E at \in Targets(f, x, r[1], r[2]) :
            \E count \in {0, Cardinality(NodesIn(Between(r[1], r[2])))} :
                heap' = splice_range(heap, f, at, x, r[1], r[2], count)

MoveAssign(f, x) ==
    /\ did' = "move"
    /\ heap' = move_assign(heap, f, x)

CopyAssign(f, x) ==
    /\ did' = "assign"
    /\ x # f
    /\ \E fresh \in Fresh(NodesIn(Fullorder(heap, x))) : heap' = copy_assign(heap, f, x, fresh)

Swap(f, x) ==
    /\ did' = "swap"
    /\ heap' = swap(heap, f, x)

Transcribe(f, x) ==
    /\ did' = "copy"
    /\ \E fresh \in FreshAlong(Fullorder(heap, x)) :
        heap' = transcribe(heap, f, flatten(heap, x), fresh)

\* size(), and operator== which asks both for it.
Compare(f, x) ==
    /\ did' = "size"
    /\ heap' = Sized(Sized(heap, f), x)

\* The children of a node as a container.
PushChild(f) ==
    /\ did' = "insert"
    /\ \E p \in Parents(f), n \in Free :
        \E at \in {child_begin(heap.links, p), child_end(p)} : heap' = insert(heap, f, at, n).heap

PopChild(f) ==
    /\ did' = "erase"
    /\ \E p \in {p \in Parents(f) : has_children(heap.links, p)} :
        \E at \in {child_begin(heap.links, p), prior(heap.links, child_end(p))} :
            heap' = erase(heap, f, at).heap

Next ==
    \E f \in Forests :
        \/ Insert(f) \/ InsertParent(f) \/ Erase(f) \/ EraseRange(f) \/ Clear(f)
        \/ PushChild(f) \/ PopChild(f)
        \/ \E x \in Forests :
              \/ InsertRange(f, x) \/ Splice(f, x) \/ SpliceOne(f, x) \/ SpliceRange(f, x)
              \/ MoveAssign(f, x) \/ CopyAssign(f, x) \/ Swap(f, x)
              \/ Transcribe(f, x) \/ Compare(f, x)

Spec == Init /\ [][Next]_vars

-----------------------------------------------------------------------------
(* Correctness *)

\* The forests hold what is allocated, each node once, with links that lead forth and back: around
\* a forest, from root() to end() and on to root() again, a step back undoes a step.
LinksPaired ==
    /\ \A f \in Forests : \A i \in {root(f)} \cup Iterators(heap, f) :
          /\ prior(heap.links, next(heap.links, i)) = i
          /\ next(heap.links, prior(heap.links, i)) = i
    /\ \A n \in Nodes :
          Cardinality({f \in Forests : << n, "leading" >> \in Iterators(heap, f)
                                       /\ << n, "trailing" >> \in Iterators(heap, f)})
            = IF n \in heap.allocated THEN 1 ELSE 0
    /\ \A l \in Locals : heap.links[l] = SelfLinked(l)

\* A size that is cached is the size.
SizeExact ==
    \A f \in Forests : size_valid(heap, f) => heap.size[f] = Cardinality(NodesIn(Fullorder(heap, f)))

\* The forest keeps the order OrderedForest defines, whatever is inserted, moved or erased where.
Order == INSTANCE OrderedForest WITH order <- [f \in Forests |-> Fullorder(heap, f)]
KeepsOrder == Order!Spec

\* Reference definitions on a fullorder sequence: who is above a node, and its parent.
Index(s, i) == CHOOSE k \in DOMAIN s : s[k] = i

Above(s, n) ==
    {m \in NodesIn(s) :
        /\ Index(s, << m, "leading" >>) < Index(s, << n, "leading" >>)
        /\ Index(s, << n, "trailing" >>) < Index(s, << m, "trailing" >>)}

Parent(s, f, n) ==
    IF Above(s, n) = {} THEN f ELSE CHOOSE m \in Above(s, n) : Above(s, n) = Above(s, m) \cup {m}

\* Every iterator adaptor visits what it names, in order, and a step back undoes a step: one edge of
\* every node, the children of a node, the part of the forest that passes a filter, all of it
\* backwards, or with its depth.
EdgesAgree(s, f) ==
    \A e \in {"leading", "trailing"} :
        /\ edge_range(heap.links, f, e) = SelectSeq(s, LAMBDA i : i[2] = e)
        /\ \A k \in DOMAIN s : s[k][2] = e =>
              edge_prior(heap.links, edge_next(heap.links, s[k], e), e) = s[k]

ChildrenAgree(s, f) ==
    \A p \in Parents(f) :
        /\ child_range(heap.links, p)
              = SelectSeq(s, LAMBDA i : is_leading(i) /\ Parent(s, f, i[1]) = p[1])
        /\ \A k \in DOMAIN child_range(heap.links, p) :
              LET i == child_range(heap.links, p)[k]
              IN  /\ child_prior(heap.links, child_next(heap.links, i)) = i
                  /\ find_parent(heap.links, i) = trailing_of(p)

FiltersAgree(s, f) ==
    \A accepted \in SUBSET NodesIn(s) :
        LET first   == begin(heap.links, f)
            passed  == SelectSeq(s, LAMBDA i : Above(s, i[1]) \cup {i[1]} \subseteq accepted)
            step(x) == filter_next(heap.links, x, first, end(f), accepted)
            walked  == Walk(step, filter(heap.links, first, end(f), accepted),
                            filter(heap.links, end(f), end(f), accepted))
        IN  /\ [k \in DOMAIN walked |-> walked[k].at] = passed
            /\ \A k \in DOMAIN walked :
                  filter_prior(heap.links, step(walked[k]), first, end(f), accepted) = walked[k]

ReversedAgree(s, f) ==
    LET walked == reverse_fullorder_range(heap.links, f)
    IN  /\ [k \in DOMAIN walked |-> << walked[k].base[1], walked[k].edge >>]
              = [k \in DOMAIN s |-> pivot_of(s[Len(s) + 1 - k])]
        /\ \A k \in DOMAIN walked :
              reverse_prior(heap.links, reverse_next(heap.links, walked[k])) = walked[k]

DepthsAgree(s, f) ==
    LET x[k \in Nat] == IF k = 1 THEN [at |-> begin(heap.links, f), depth |-> 0]
                        ELSE depth_next(heap.links, x[k - 1])
    IN  \A k \in DOMAIN s :
            /\ x[k] = [at |-> s[k], depth |-> Cardinality(Above(s, s[k][1]))]
            /\ depth_prior(heap.links, depth_next(heap.links, x[k])) = x[k]

IteratorsAgree ==
    \A f \in Forests : \A s \in {Fullorder(heap, f)} :
        EdgesAgree(s, f) /\ ChildrenAgree(s, f) /\ FiltersAgree(s, f)
            /\ ReversedAgree(s, f) /\ DepthsAgree(s, f)

Edges(h, f) == LET s == Fullorder(h, f) IN [k \in DOMAIN s |-> s[k][2]]

\* Forests are equal if flatten() writes the same for both, whether their sizes are known or not;
\* unflatten() makes an equal forest; and equal_shape() compares the edges, if both sizes are known.
EqualExact ==
    \A x \in Forests :
        /\ \A y \in Forests :
              /\ equal(heap, x, y) <=> flatten(heap, x) = flatten(heap, y)
              /\ size_valid(heap, x) /\ size_valid(heap, y) =>
                    (equal_shape(heap, x, y) <=> Edges(heap, x) = Edges(heap, y))
        /\ \A fresh \in FreshAlong(Fullorder(heap, x)) :
              LET h == transcribe(heap, "temp", flatten(heap, x), fresh)
              IN  equal(h, x, "temp") /\ flatten(h, "temp") = flatten(h, x)

=============================================================================
