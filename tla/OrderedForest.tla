--------------------------- MODULE OrderedForest ---------------------------
(***************************************************************************)
(* What a forest promises, with no links and no cached sizes: an ordered   *)
(* sequence of trees, written as its fullorder sequence, in which every    *)
(* node appears at its leading and, after its descendants, at its trailing *)
(* edge.  Nodes keep their identity when they are moved.                   *)
(***************************************************************************)
EXTENDS Naturals, Sequences, FiniteSets

CONSTANTS Forests, Nodes
VARIABLES
    order,       \* the fullorder sequence of each forest
    did          \* the operation that made it so

In(s)       == {s[k][1] : k \in DOMAIN s}
Leading(n)  == << n, "leading" >>
Trailing(n) == << n, "trailing" >>

Paste(s, k, t) == SubSeq(s, 1, k) \o t \o SubSeq(s, k + 1, Len(s))
Cut(s, i, j)   == SubSeq(s, 1, i - 1) \o SubSeq(s, j + 1, Len(s))

\* The segments that are a sequence of siblings with all their descendants.
Siblings(s) ==
    {ij \in (1..Len(s)) \X (1..Len(s)) :
        /\ ij[1] < ij[2]
        /\ \A n \in In(SubSeq(s, ij[1], ij[2])) :
              \A e \in {"leading", "trailing"} : \E k \in ij[1]..ij[2] : s[k] = << n, e >>}

CopyOf(t, s) ==
    /\ Len(t) = Len(s)
    /\ \A k, l \in DOMAIN s : t[k][2] = s[k][2] /\ (t[k][1] = t[l][1] <=> s[k][1] = s[l][1])

Init == order = [f \in Forests |-> << >>] /\ did = "construct"

(***************************************************************************)
(* The operations relate the order before, o, and after, p.                *)
(***************************************************************************)
Unused(o) == Nodes \ UNION {In(o[f]) : f \in Forests}

Insert(o, p, f) ==
    /\ Len(p[f]) = Len(o[f]) + 2
    /\ \E n \in Unused(o) : \E k \in 0..Len(o[f]) :
          p = [o EXCEPT ![f] = Paste(@, k, << Leading(n), Trailing(n) >>)]

\* A new parent for no, one or several siblings.
InsertParent(o, p, f) ==
    /\ Len(p[f]) = Len(o[f]) + 2
    /\ \E n \in Unused(o) :
       \E ij \in Siblings(o[f]) \cup {<< k + 1, k >> : k \in 0..Len(o[f])} :
          p = [o EXCEPT ![f] = Paste(Paste(@, ij[2], << Trailing(n) >>), ij[1] - 1, << Leading(n) >>)]

\* The children of a node that is erased take its place.
Erase(o, p, f) ==
    /\ Len(p[f]) = Len(o[f]) - 2
    /\ \E n \in In(o[f]) : p = [o EXCEPT ![f] = SelectSeq(@, LAMBDA x : x[1] # n)]

\* Of a range the nodes are erased that have both edges in it.
EraseRange(o, p, f) ==
    \E i \in 1..Len(o[f]) + 1 : \E j \in i - 1..Len(o[f]) :
        LET Gone == {n \in In(o[f]) : {Leading(n), Trailing(n)} \subseteq {o[f][k] : k \in i..j}}
        IN  p = [o EXCEPT ![f] = SelectSeq(@, LAMBDA x : x[1] \notin Gone)]

Clear(o, p, f) == p = [o EXCEPT ![f] = << >>]

Move(o, p, f, x) ==
    \E ij \in Siblings(o[x]) :
        LET moved == SubSeq(o[x], ij[1], ij[2])
            rest  == [o EXCEPT ![x] = Cut(@, ij[1], ij[2])]
        IN  /\ x # f => p[x] = rest[x]
            /\ \E k \in 0..Len(rest[f]) : p = [rest EXCEPT ![f] = Paste(@, k, moved)]

Copy(o, p, f, x) ==
    \E ij \in Siblings(o[x]) :
        /\ Len(p[f]) = Len(o[f]) + ij[2] - ij[1] + 1
        /\ \E k \in 0..Len(o[f]) :
              LET copied == SubSeq(p[f], k + 1, k + ij[2] - ij[1] + 1)
              IN  /\ CopyOf(copied, SubSeq(o[x], ij[1], ij[2]))
                  /\ In(copied) \subseteq Unused(o)
                  /\ p = [o EXCEPT ![f] = Paste(@, k, copied)]

Assign(o, p, f, x) ==
    /\ p = [o EXCEPT ![f] = p[f]]
    /\ In(p[f]) \subseteq Unused(o)
    /\ CopyOf(p[f], o[x])

MoveAssign(o, p, f, x) == p = [o EXCEPT ![x] = << >>, ![f] = o[x]]

Swap(o, p, f, x) == p = [o EXCEPT ![f] = o[x], ![x] = o[f]]

Step(o, p) ==
    \E f \in Forests :
        \/ did' = "insert" /\ Insert(o, p, f)
        \/ did' = "insert_parent" /\ InsertParent(o, p, f)
        \/ did' = "erase" /\ Erase(o, p, f)
        \/ did' = "erase_range" /\ EraseRange(o, p, f)
        \/ did' = "clear" /\ Clear(o, p, f)
        \/ \E x \in Forests :
              \/ did' = "splice" /\ Move(o, p, f, x)
              \/ did' = "copy" /\ Copy(o, p, f, x)
              \/ did' = "assign" /\ Assign(o, p, f, x)
              \/ did' = "move" /\ MoveAssign(o, p, f, x)
              \/ did' = "swap" /\ Swap(o, p, f, x)

\* An empty range is moved or copied without effect, and so are sizes computed.
Next ==
    \/ \E o \in {order}, p \in {order'} : Step(o, p)
    \/ did' \in {"splice", "copy", "size"} /\ UNCHANGED order

Spec == Init /\ [][Next]_<< order, did >>
=============================================================================
