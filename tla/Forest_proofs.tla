--------------------------- MODULE Forest_proofs ---------------------------
(***************************************************************************)
(* The links of Forest describe forests, whatever operations are applied,  *)
(* and a size that is cached is the size.                                  *)
(*                                                                         *)
(* The positions of each forest, root() and end() included, are a ring     *)
(* that the links connect, and so are the two of a node that is not        *)
(* allocated.  In a ring everything between the two edges of a node has    *)
(* both its edges there, which is what next and prior need to tell which   *)
(* edge they come to.                                                      *)
(***************************************************************************)
EXTENDS Forest, TLAPS, FiniteSetTheorems, SequenceTheorems, WellFoundedInduction

Edge == {"leading", "trailing"}
Places == Cells \X Edge
LinkType  == [Cells -> [Edge -> [prior : Cells, next : Cells]]]
Trees     == Forests \cup Locals

\* The links lead from position i to j and back.
Linked(links, i, j) == links[i[1]][i[2]].next = j[1] /\ links[j[1]][j[2]].prior = i[1]

\* In c each position has a mate, the other edge of its node; what is between the two is there with
\* its mates.
Mates(c, m) ==
    /\ m \in [1..Len(c) -> 1..Len(c)]
    /\ \A k, l \in 1..Len(c) : c[k] = c[l] => k = l
    /\ \A k \in 1..Len(c) : c[m[k]] = pivot_of(c[k])
    /\ \A k \in 1..Len(c) : is_leading(c[k]) =>
          k < m[k] /\ \A j \in k..m[k] : m[j] \in k..m[k]

Run(links, c) ==
    /\ c \in Seq(Places)
    /\ \E m : Mates(c, m)
    /\ \A k \in 1..Len(c) - 1 : Linked(links, c[k], c[k + 1])

Ring(links, x, c) ==
    /\ Run(links, c) /\ Len(c) >= 2
    /\ c[1] = << x, "leading" >> /\ c[Len(c)] = << x, "trailing" >>
    /\ Linked(links, c[Len(c)], c[1])

\* The positions P are those of the rings, one for each x in R.
Rings(links, c, R, P) ==
    /\ links \in LinkType /\ P \subseteq Places
    /\ DOMAIN c = R
    /\ \A x \in R : Ring(links, x, c[x])
    /\ \A x \in R : \A k \in 1..Len(c[x]) : c[x][k] \in P
    /\ \A i \in P : \E x \in R : \E k \in 1..Len(c[x]) : c[x][k] = i
    /\ \A x, y \in R : \A k \in 1..Len(c[x]), l \in 1..Len(c[y]) : c[x][k] = c[y][l] => x = y

HeapType == [links : LinkType, size : [Trees -> Nat], allocated : SUBSET Nodes]

Owners(h) == Trees \cup (Nodes \ h.allocated)

\* The heap holds the rings c.
Holds(h, c) ==
    /\ h \in HeapType
    /\ Rings(h.links, c, Owners(h), Places)
    /\ \A n \in Nodes \ h.allocated : Len(c[n]) = 2
    /\ \A f \in Trees : h.size[f] # 0 => 2 * h.size[f] + 2 = Len(c[f])

\* Between operations the locals are empty.
Idle(h, c) == Holds(h, c) /\ \A l \in Locals : Len(c[l]) = 2

IInv == \E c : Idle(heap, c)

-----------------------------------------------------------------------------
(***************************************************************************)
(* Places and links.                                                       *)
(***************************************************************************)
\* A place is a cell and an edge; the two places of a cell are each other's pivot.
LEMMA PlaceFacts ==
    /\ \A i \in Places : /\ i[1] \in Cells /\ i[2] \in Edge /\ i = << i[1], i[2] >>
                         /\ pivot_of(i) \in Places /\ pivot_of(i) # i
                         /\ pivot_of(pivot_of(i)) = i
                         /\ pivot_of(i)[1] = i[1] /\ (is_leading(i) <=> ~is_leading(pivot_of(i)))
                         /\ leading_of(i) \in Places /\ trailing_of(i) \in Places
                         /\ IF is_leading(i) THEN leading_of(i) = i /\ trailing_of(i) = pivot_of(i)
                            ELSE leading_of(i) = pivot_of(i) /\ trailing_of(i) = i
    /\ \A i, j \in Places : i = j <=> i[1] = j[1] /\ i[2] = j[2]
    /\ \A i, j \in Places : i[1] = j[1] => i = j \/ i = pivot_of(j)
  <1>1. \A i \in Places : i[1] \in Cells /\ i[2] \in Edge /\ i = << i[1], i[2] >>
    BY DEF Places
  <1>2. \A i \in Places : /\ pivot(i[2]) \in Edge /\ pivot(i[2]) # i[2] /\ pivot(pivot(i[2])) = i[2]
    BY <1>1 DEF Edge, pivot
  <1>3. \A x \in Cells, e \in Edge : << x, e >> \in Places /\ << x, e >>[1] = x /\ << x, e >>[2] = e
    BY DEF Places
  <1>4. "leading" \in Edge /\ "trailing" \in Edge
    BY DEF Edge
  <1>5. ASSUME NEW i \in Places
        PROVE  /\ pivot_of(i) \in Places /\ pivot_of(i)[1] = i[1] /\ pivot_of(i)[2] = pivot(i[2])
               /\ pivot_of(i) # i
               /\ leading_of(i) \in Places /\ trailing_of(i) \in Places
    BY <1>1, <1>2, <1>3, <1>4 DEF pivot_of, leading_of, trailing_of
  <1>6. ASSUME NEW i \in Places PROVE pivot_of(pivot_of(i)) = i
    BY <1>1, <1>2, <1>3 DEF pivot_of
  <1>7. ASSUME NEW i \in Places
        PROVE  /\ is_leading(i) <=> ~is_leading(pivot_of(i))
               /\ IF is_leading(i) THEN leading_of(i) = i /\ trailing_of(i) = pivot_of(i)
                  ELSE leading_of(i) = pivot_of(i) /\ trailing_of(i) = i
    BY <1>1, <1>5 DEF pivot_of, leading_of, trailing_of, is_leading, pivot, Edge
  <1>8. \A i, j \in Places : i = j <=> i[1] = j[1] /\ i[2] = j[2]
    BY <1>1
  <1>9. ASSUME NEW i \in Places, NEW j \in Places, i[1] = j[1] PROVE i = j \/ i = pivot_of(j)
    BY <1>1, <1>5, <1>8, <1>9 DEF pivot, Edge
  <1> QED BY <1>1, <1>5, <1>6, <1>7, <1>8, <1>9

\* A field of a link is changed, the other one is not.
LEMMA Fields ==
    ASSUME NEW S, NEW r \in [prior : S, next : S], NEW x \in S
    PROVE  /\ [r EXCEPT !.next = x] \in [prior : S, next : S]
           /\ [r EXCEPT !.next = x].next = x /\ [r EXCEPT !.next = x].prior = r.prior
           /\ [r EXCEPT !.prior = x] \in [prior : S, next : S]
           /\ [r EXCEPT !.prior = x].prior = x /\ [r EXCEPT !.prior = x].next = r.next
  OBVIOUS

\* What set_next writes, and what it leaves.
LEMMA SetNext ==
    ASSUME NEW links \in LinkType, NEW i \in Places, NEW j \in Places
    PROVE  LET new == set_next(links, i, j)
           IN  /\ new \in LinkType /\ Linked(new, i, j)
               /\ \A p, q \in Places : p # i /\ q # j => (Linked(new, p, q) <=> Linked(links, p, q))
               /\ \A p \in Places : /\ p # i => new[p[1]][p[2]].next = links[p[1]][p[2]].next
                                    /\ p # j => new[p[1]][p[2]].prior = links[p[1]][p[2]].prior
  <1> DEFINE new == set_next(links, i, j)
             mid == [links EXCEPT ![i[1]][i[2]].next = j[1]]
  <1>1. /\ i[1] \in Cells /\ i[2] \in Edge /\ j[1] \in Cells /\ j[2] \in Edge
    BY PlaceFacts
  <1>0. /\ DOMAIN links = Cells
        /\ \A x \in Cells : links[x] \in [Edge -> [prior : Cells, next : Cells]]
        /\ \A x \in Cells, e \in Edge : links[x][e] \in [prior : Cells, next : Cells]
    BY DEF LinkType
  <1>2. /\ mid \in LinkType
        /\ \A x \in Cells, e \in Edge :
              /\ mid[x][e].prior = links[x][e].prior
              /\ mid[x][e].next = IF x = i[1] /\ e = i[2] THEN j[1] ELSE links[x][e].next
    <2> DEFINE cell == [links[i[1]][i[2]] EXCEPT !.next = j[1]]
               node == [links[i[1]] EXCEPT ![i[2]] = cell]
    <2>1. cell \in [prior : Cells, next : Cells] /\ cell.next = j[1] /\ cell.prior = links[i[1]][i[2]].prior
      <3>1. links[i[1]][i[2]] \in [prior : Cells, next : Cells]
        BY <1>0, <1>1
      <3> QED BY <1>1, <3>1, Fields
    <2>2. mid = [links EXCEPT ![i[1]] = node]
      BY <1>0, <1>1
    <2> HIDE DEF cell
    <2>3. node \in [Edge -> [prior : Cells, next : Cells]]
          /\ \A e \in Edge : node[e] = IF e = i[2] THEN cell ELSE links[i[1]][e]
      <3> DEFINE r == links[i[1]]
      <3>1. r \in [Edge -> [prior : Cells, next : Cells]]
        BY <1>0, <1>1
      <3> HIDE DEF r
      <3>2. [r EXCEPT ![i[2]] = cell] \in [Edge -> [prior : Cells, next : Cells]]
            /\ \A e \in Edge : [r EXCEPT ![i[2]] = cell][e] = IF e = i[2] THEN cell ELSE r[e]
        BY <1>1, <2>1, <3>1
      <3> QED BY <3>2 DEF r
    <2> HIDE DEF node, mid
    <2>4. mid \in LinkType /\ \A x \in Cells : mid[x] = IF x = i[1] THEN node ELSE links[x]
      BY <1>0, <1>1, <2>2, <2>3 DEF LinkType
    <2> QED BY <1>0, <1>1, <2>1, <2>3, <2>4
  <1>3. new = [mid EXCEPT ![j[1]][j[2]].prior = i[1]]
    BY DEF set_next
  <1> HIDE DEF mid
  <1>4. /\ new \in LinkType
        /\ \A x \in Cells, e \in Edge :
              /\ new[x][e].prior = IF x = j[1] /\ e = j[2] THEN i[1] ELSE mid[x][e].prior
              /\ new[x][e].next = mid[x][e].next
    <2> DEFINE cell == [mid[j[1]][j[2]] EXCEPT !.prior = i[1]]
               node == [mid[j[1]] EXCEPT ![j[2]] = cell]
    <2>0. /\ DOMAIN mid = Cells
          /\ \A x \in Cells : mid[x] \in [Edge -> [prior : Cells, next : Cells]]
          /\ \A x \in Cells, e \in Edge : mid[x][e] \in [prior : Cells, next : Cells]
      BY <1>2 DEF LinkType
    <2>1. cell \in [prior : Cells, next : Cells] /\ cell.prior = i[1] /\ cell.next = mid[j[1]][j[2]].next
      <3>1. mid[j[1]][j[2]] \in [prior : Cells, next : Cells]
        BY <2>0, <1>1
      <3> QED BY <1>1, <3>1, Fields
    <2>2. new = [mid EXCEPT ![j[1]] = node]
      BY <2>0, <1>1, <1>3
    <2> HIDE DEF cell
    <2>3. node \in [Edge -> [prior : Cells, next : Cells]]
          /\ \A e \in Edge : node[e] = IF e = j[2] THEN cell ELSE mid[j[1]][e]
      <3>1. mid[j[1]] \in [Edge -> [prior : Cells, next : Cells]] /\ j[2] \in Edge
        BY <2>0, <1>1
      <3> QED BY <3>1, <2>1
    <2> HIDE DEF node, new
    <2>4. new \in LinkType /\ \A x \in Cells : new[x] = IF x = j[1] THEN node ELSE mid[x]
      BY <2>0, <1>1, <2>2, <2>3 DEF LinkType
    <2> QED BY <2>0, <1>1, <2>1, <2>3, <2>4
  <1> HIDE DEF new
  <1>5. Linked(new, i, j)
    BY <1>1, <1>2, <1>4 DEF Linked
  <1>6. ASSUME NEW p \in Places
        PROVE  /\ p # i => new[p[1]][p[2]].next = links[p[1]][p[2]].next
               /\ p # j => new[p[1]][p[2]].prior = links[p[1]][p[2]].prior
    BY <1>1, <1>2, <1>4, PlaceFacts
  <1>7. ASSUME NEW p \in Places, NEW q \in Places, p # i, q # j
        PROVE  Linked(new, p, q) <=> Linked(links, p, q)
    BY <1>6, <1>7 DEF Linked
  <1> QED BY <1>4, <1>5, <1>6, <1>7 DEF new

-----------------------------------------------------------------------------
(***************************************************************************)
(* Rings.                                                                  *)
(***************************************************************************)
\* The mate of a position is the other edge of its node, and the mate of that is the position.
LEMMA MateOf ==
    ASSUME NEW c \in Seq(Places), NEW m, Mates(c, m), NEW k \in 1..Len(c)
    PROVE  /\ m[k] \in 1..Len(c) /\ m[m[k]] = k
           /\ c[m[k]] = pivot_of(c[k]) /\ (is_leading(c[k]) <=> ~is_leading(c[m[k]]))
           /\ is_leading(c[k]) <=> k < m[k]
           /\ ~is_leading(c[k]) <=> m[k] < k
           /\ \A l \in 1..Len(c) : c[l][1] = c[k][1] => l = k \/ l = m[k]
           /\ \A l \in 1..Len(c) : c[l] = pivot_of(c[k]) => l = m[k]
  <1>1. \A l \in 1..Len(c) : c[l] \in Places
    OBVIOUS
  <1>2. m[k] \in 1..Len(c) /\ c[m[k]] = pivot_of(c[k])
    BY DEF Mates
  <1>3. c[m[m[k]]] = c[k] /\ m[m[k]] \in 1..Len(c)
    BY <1>1, <1>2, PlaceFacts DEF Mates
  <1>4. m[m[k]] = k
    BY <1>3 DEF Mates
  <1>5. is_leading(c[k]) <=> ~is_leading(c[m[k]])
    BY <1>1, <1>2, PlaceFacts
  <1>6. \A l \in 1..Len(c) : is_leading(c[l]) => l < m[l]
    BY DEF Mates
  <1>7. /\ is_leading(c[k]) => k < m[k]
        /\ ~is_leading(c[k]) => m[k] < k
    BY <1>2, <1>4, <1>5, <1>6
  <1>8. \A l \in 1..Len(c) : c[l] = pivot_of(c[k]) => l = m[k]
    BY <1>2 DEF Mates
  <1>9. \A l \in 1..Len(c) : c[l][1] = c[k][1] => l = k \/ l = m[k]
    BY <1>1, <1>8, PlaceFacts DEF Mates
  <1> QED BY <1>2, <1>4, <1>5, <1>7, <1>8, <1>9

\* Which edges can be next to each other.
LEMMA Neighbours ==
    ASSUME NEW c \in Seq(Places), NEW m, Mates(c, m), NEW k \in 1..Len(c) - 1
    PROVE  /\ is_leading(c[k]) /\ ~is_leading(c[k + 1]) => c[k][1] = c[k + 1][1]
           /\ c[k][1] = c[k + 1][1] => is_leading(c[k]) /\ ~is_leading(c[k + 1])
           /\ ~is_leading(c[k]) /\ ~is_leading(c[k + 1]) /\ m[k + 1] > 1 =>
                c[m[k + 1] - 1][1] # c[k][1]
           /\ is_leading(c[k]) /\ is_leading(c[k + 1]) /\ m[k] < Len(c) =>
                c[m[k] + 1][1] # c[k + 1][1]
  <1>0. Len(c) \in Nat /\ k \in 1..Len(c) /\ k + 1 \in 1..Len(c)
    OBVIOUS
  <1>1. \A l \in 1..Len(c) : /\ m[l] \in 1..Len(c) /\ m[m[l]] = l
                             /\ is_leading(c[l]) <=> l < m[l]
                             /\ ~is_leading(c[l]) <=> m[l] < l
                             /\ \A q \in 1..Len(c) : c[q][1] = c[l][1] => q = l \/ q = m[l]
                             /\ c[m[l]] = pivot_of(c[l]) /\ c[l] \in Places
    BY MateOf
  <1>2. \A l \in 1..Len(c) : l < m[l] => \A j \in l..m[l] : m[j] \in l..m[l]
    BY <1>1 DEF Mates
  <1>3. ASSUME is_leading(c[k]), ~is_leading(c[k + 1]) PROVE c[k][1] = c[k + 1][1]
    <2>1. m[k + 1] < k + 1 /\ k < m[k]
      BY <1>0, <1>1, <1>3
    <2>2. CASE m[k + 1] = k
      BY <2>2, <1>0, <1>1, PlaceFacts
    <2>3. CASE m[k + 1] < k
      <3>1. m[m[k + 1]] = k + 1 /\ k \in m[k + 1]..(k + 1) /\ m[k + 1] \in 1..Len(c)
        BY <1>0, <1>1, <2>3
      <3>2. m[k] \in m[k + 1]..(k + 1)
        BY <1>0, <1>2, <2>1, <3>1
      <3> QED BY <2>1, <3>1, <3>2, <1>0, <1>1, PlaceFacts
    <2> QED BY <1>0, <1>1, <2>1, <2>2, <2>3
  <1>4. ASSUME c[k][1] = c[k + 1][1] PROVE is_leading(c[k]) /\ ~is_leading(c[k + 1])
    BY <1>0, <1>1, <1>4
  <1>5. ASSUME ~is_leading(c[k]), ~is_leading(c[k + 1]), m[k + 1] > 1,
               c[m[k + 1] - 1][1] = c[k][1]
        PROVE  FALSE
    <2> DEFINE p == m[k + 1]
    <2>1. p \in 1..Len(c) /\ p < k + 1 /\ p - 1 \in 1..Len(c) /\ m[p] = k + 1 /\ m[k] < k
      BY <1>0, <1>1, <1>5
    <2> HIDE DEF p
    <2>2. c[p - 1][1] = c[k][1]
      BY <1>5 DEF p
    <2>3. p - 1 = k \/ p - 1 = m[k]
      BY <1>0, <1>1, <2>1, <2>2
    <2>4. p - 1 = m[k] /\ m[p - 1] = k
      BY <1>0, <1>1, <2>1, <2>3
    <2>5. p \in (p - 1)..k
      BY <1>0, <2>1, <2>4
    <2>6. m[p] \in (p - 1)..k
      BY <1>0, <1>2, <2>1, <2>4, <2>5
    <2> QED BY <1>0, <2>1, <2>6
  <1>6. ASSUME is_leading(c[k]), is_leading(c[k + 1]), m[k] < Len(c), c[m[k] + 1][1] = c[k + 1][1]
        PROVE  FALSE
    <2> DEFINE q == m[k]
    <2>1. q \in 1..Len(c) /\ k < q /\ q + 1 \in 1..Len(c) /\ m[q] = k /\ k + 1 < m[k + 1]
      BY <1>0, <1>1, <1>6
    <2>2. c[q + 1][1] = c[k + 1][1]
      BY <1>6
    <2>3. q + 1 = m[k + 1]
      BY <1>0, <1>1, <2>1, <2>2
    <2>4. m[k + 1] \in k..q
      BY <1>0, <1>2, <2>1
    <2> QED BY <1>0, <2>1, <2>3, <2>4
  <1> QED BY <1>3, <1>4, <1>5, <1>6

\* next and prior find their way around a ring.
LEMMA Around ==
    ASSUME NEW links \in LinkType, NEW x \in Cells, NEW c, Ring(links, x, c)
    PROVE  /\ \A k \in 1..Len(c) - 1 : next(links, c[k]) = c[k + 1] /\ prior(links, c[k + 1]) = c[k]
           /\ next(links, c[Len(c)]) = c[1] /\ prior(links, c[1]) = c[Len(c)]
  <1> DEFINE L == Len(c)
  <1>1. c \in Seq(Places) /\ L \in Nat /\ L >= 2
    BY DEF Ring, Run
  <1>2. PICK m : Mates(c, m)
    BY DEF Ring, Run
  <1>3. /\ \A k \in 1..L - 1 : Linked(links, c[k], c[k + 1])
        /\ Linked(links, c[L], c[1]) /\ c[1] = << x, "leading" >> /\ c[L] = << x, "trailing" >>
    BY DEF Ring, Run
  <1>4. \A k \in 1..L : /\ c[k] \in Places /\ c[k][1] \in Cells /\ c[k][2] \in Edge
                        /\ m[k] \in 1..L /\ m[m[k]] = k /\ c[m[k]] = pivot_of(c[k])
                        /\ c[m[k]][1] = c[k][1] /\ (is_leading(c[k]) <=> ~is_leading(c[m[k]]))
                        /\ is_leading(c[k]) <=> k < m[k]
                        /\ ~is_leading(c[k]) <=> m[k] < k
                        /\ \A l \in 1..L : c[l][1] = c[k][1] => l = k \/ l = m[k]
    BY <1>1, <1>2, MateOf, PlaceFacts
  <1>5. next(links, c[L]) = c[1] /\ prior(links, c[1]) = c[L]
    <2>1. c[1][1] = x /\ c[L][1] = x /\ c[1][2] = "leading" /\ c[L][2] = "trailing"
      BY <1>3
    <2> QED BY <1>1, <1>3, <2>1 DEF next, prior, is_leading, Linked
  <1>6. ASSUME NEW k \in 1..L - 1 PROVE next(links, c[k]) = c[k + 1] /\ prior(links, c[k + 1]) = c[k]
    <2>0. k \in 1..L /\ k + 1 \in 1..L
      BY <1>1
    <2>1. /\ links[c[k][1]][c[k][2]].next = c[k + 1][1]
          /\ links[c[k + 1][1]][c[k + 1][2]].prior = c[k][1]
      BY <1>3 DEF Linked
    <2>2. /\ is_leading(c[k]) /\ ~is_leading(c[k + 1]) => c[k][1] = c[k + 1][1]
          /\ c[k][1] = c[k + 1][1] => is_leading(c[k]) /\ ~is_leading(c[k + 1])
          /\ ~is_leading(c[k]) /\ ~is_leading(c[k + 1]) /\ m[k + 1] > 1 =>
                c[m[k + 1] - 1][1] # c[k][1]
          /\ is_leading(c[k]) /\ is_leading(c[k + 1]) /\ m[k] < L =>
                c[m[k] + 1][1] # c[k + 1][1]
      BY <1>1, <1>2, Neighbours
    <2>3. \A l \in 1..L : /\ is_leading(c[l]) => c[l] = << c[l][1], "leading" >> /\ c[l][2] = "leading"
                          /\ ~is_leading(c[l]) => c[l] = << c[l][1], "trailing" >> /\ c[l][2] = "trailing"
      BY <1>4, PlaceFacts DEF is_leading, Edge
    <2>4. ASSUME ~is_leading(c[k]), ~is_leading(c[k + 1])
          PROVE  links[c[k + 1][1]]["leading"].prior # c[k][1]
      <3> DEFINE p == m[k + 1]
      <3>1. p \in 1..L /\ c[p][1] = c[k + 1][1] /\ is_leading(c[p]) /\ p < k + 1
        BY <1>4, <2>0, <2>4
      <3> HIDE DEF p
      <3>2. c[p][2] = "leading"
        BY <2>3, <3>1
      <3>3. CASE p = 1
        <4>1. links[c[k + 1][1]]["leading"].prior = x /\ c[k + 1][1] = x
          BY <1>3, <3>1, <3>2, <3>3 DEF Linked
        <4>2. c[k][1] # x
          BY <2>2, <2>4, <4>1
        <4> QED BY <4>1, <4>2
      <3>4. CASE p > 1
        <4>1. p - 1 \in 1..L - 1 /\ (p - 1) + 1 = p
          BY <1>1, <3>1, <3>4
        <4>2. Linked(links, c[p - 1], c[p])
          BY <1>3, <4>1
        <4> QED BY <2>2, <2>4, <3>1, <3>2, <3>4, <4>2 DEF Linked, p
      <3> QED BY <1>1, <3>1, <3>3, <3>4
    <2>5. ASSUME is_leading(c[k]), is_leading(c[k + 1])
          PROVE  links[c[k][1]]["trailing"].next # c[k + 1][1]
      <3> DEFINE q == m[k]
      <3>1. q \in 1..L /\ c[q][1] = c[k][1] /\ ~is_leading(c[q]) /\ k < q
        BY <1>4, <2>0, <2>5
      <3> HIDE DEF q
      <3>2. c[q][2] = "trailing"
        BY <2>3, <3>1
      <3>3. CASE q = L
        <4>1. links[c[k][1]]["trailing"].next = x /\ c[k][1] = x
          BY <1>3, <3>1, <3>2, <3>3 DEF Linked
        <4> QED BY <2>2, <2>5, <4>1
      <3>4. CASE q < L
        <4>1. Linked(links, c[q], c[q + 1])
          BY <1>1, <1>3, <3>1, <3>4
        <4> QED BY <2>2, <2>5, <3>1, <3>2, <3>4, <4>1 DEF Linked, q
      <3> QED BY <1>1, <3>1, <3>3, <3>4
    <2>6. next(links, c[k]) = c[k + 1]
      <3>1. CASE is_leading(c[k]) /\ is_leading(c[k + 1])
        BY <2>0, <2>1, <2>2, <2>3, <3>1 DEF next
      <3>2. CASE is_leading(c[k]) /\ ~is_leading(c[k + 1])
        BY <2>0, <2>1, <2>2, <2>3, <3>2 DEF next
      <3>3. CASE ~is_leading(c[k]) /\ is_leading(c[k + 1])
        BY <2>0, <2>1, <2>2, <2>3, <3>3 DEF next
      <3>4. CASE ~is_leading(c[k]) /\ ~is_leading(c[k + 1])
        BY <2>0, <2>1, <2>2, <2>3, <2>4, <3>4 DEF next
      <3> QED BY <3>1, <3>2, <3>3, <3>4
    <2>7. prior(links, c[k + 1]) = c[k]
      <3>1. CASE is_leading(c[k]) /\ is_leading(c[k + 1])
        BY <2>0, <2>1, <2>2, <2>3, <2>5, <3>1 DEF prior
      <3>2. CASE is_leading(c[k]) /\ ~is_leading(c[k + 1])
        BY <2>0, <2>1, <2>2, <2>3, <3>2 DEF prior
      <3>3. CASE ~is_leading(c[k]) /\ is_leading(c[k + 1])
        BY <2>0, <2>1, <2>2, <2>3, <3>3 DEF prior
      <3>4. CASE ~is_leading(c[k]) /\ ~is_leading(c[k + 1])
        BY <2>0, <2>1, <2>2, <2>3, <3>4 DEF prior
      <3> QED BY <3>1, <3>2, <3>3, <3>4
    <2> QED BY <2>6, <2>7
  <1> QED BY <1>5, <1>6

\* A function on 1..n is a sequence.
LEMMA MakeSeq ==
    ASSUME NEW S, NEW n \in Nat, NEW g \in [1..n -> S]
    PROVE  g \in Seq(S) /\ Len(g) = n
  BY DEF Seq

\* at[1], at[2] ... at[n] are increasing indices up to L, with their mates.
Thins(at, n, L, m) ==
    /\ n \in Nat /\ at \in [1..n -> 1..L]
    /\ \A k, l \in 1..n : k < l => at[k] < at[l]
    /\ \A k \in 1..n : \E l \in 1..n : at[l] = m[at[k]]

\* The positions of c at these indices.
Along(c, at, n) == [k \in 1..n |-> c[at[k]]]

\* What is left of a sequence has mates, if with a position its mate is left.
LEMMA SubMates ==
    ASSUME NEW c \in Seq(Places), NEW m, Mates(c, m), NEW n, NEW at, Thins(at, n, Len(c), m),
           NEW d, d = Along(c, at, n)
    PROVE  /\ d \in Seq(Places) /\ Len(d) = n
           /\ \E m2 : Mates(d, m2)
  <1> n \in Nat
    BY DEF Thins
  <1> at \in [1..n -> 1..Len(c)]
    BY DEF Thins
  <1>d. d = [k \in 1..n |-> c[at[k]]]
    BY DEF Along
  <1>i. \A k \in 1..n : \E l \in 1..n : at[l] = m[at[k]]
    BY DEF Thins
  <1>j. \A k, l \in 1..n : k < l => at[k] < at[l]
    BY DEF Thins
  <1>0. /\ \A k \in 1..n : at[k] \in 1..Len(c) /\ at[k] \in Nat
        /\ \A k, l \in 1..n : k < l => at[k] < at[l]
    BY <1>j
  <1>1. \A l \in 1..Len(c) : c[l] \in Places
    OBVIOUS
  <1>a. ASSUME NEW k \in 1..n, NEW l \in 1..n, at[k] <= at[l] PROVE k <= l
    <2> SUFFICES ASSUME l < k PROVE FALSE
      OBVIOUS
    <2>1. at[l] < at[k] /\ at[l] \in Nat /\ at[k] \in Nat
      BY <1>0
    <2> QED BY <1>a, <2>1
  <1>b. ASSUME NEW k \in 1..n, NEW l \in 1..n, k <= l PROVE at[k] <= at[l]
    <2>1. k = l \/ k < l
      BY <1>b
    <2>2. at[k] \in Nat /\ at[l] \in Nat
      BY <1>0
    <2>3. CASE k = l
      BY <2>2, <2>3
    <2>4. CASE k < l
      <3>1. at[k] < at[l]
        BY <1>0, <2>4
      <3> QED BY <2>2, <3>1
    <2> QED BY <2>1, <2>3, <2>4
  <1>2. d \in Seq(Places) /\ Len(d) = n
    BY <1>1, <1>d, MakeSeq
  <1> DEFINE m2 == [k \in 1..n |-> CHOOSE l \in 1..n : at[l] = m[at[k]]]
  <1>3. \A k \in 1..n : m2[k] \in 1..n /\ at[m2[k]] = m[at[k]]
    BY <1>i
  <1>4. m2 \in [1..Len(d) -> 1..Len(d)]
    BY <1>2, <1>3
  <1> HIDE DEF m2
  <1>5. \A k, l \in 1..n : d[k] = d[l] => k = l
    <2> SUFFICES ASSUME NEW k \in 1..n, NEW l \in 1..n, d[k] = d[l] PROVE k = l
      OBVIOUS
    <2>1. at[k] \in 1..Len(c) /\ at[l] \in 1..Len(c) /\ c[at[k]] = c[at[l]]
      BY <1>d
    <2>2. at[k] = at[l]
      BY <2>1 DEF Mates
    <2>3. at[k] <= at[l] /\ at[l] <= at[k]
      BY <1>0, <2>2
    <2>4. k <= l /\ l <= k
      BY <1>a, <2>3
    <2> QED BY <2>4
  <1>6. \A k \in 1..n : d[m2[k]] = pivot_of(d[k])
    BY <1>3, <1>d DEF Mates
  <1>7. ASSUME NEW k \in 1..n, is_leading(d[k])
        PROVE  k < m2[k] /\ \A j \in k..m2[k] : m2[j] \in k..m2[k]
    <2>1. at[k] < m[at[k]] /\ at[k] \in 1..Len(c)
      BY <1>7, <1>d DEF Mates
    <2>2. m2[k] \in 1..n /\ at[m2[k]] = m[at[k]]
      BY <1>3
    <2>3. k < m2[k]
      <3> SUFFICES ASSUME ~(k < m2[k]) PROVE FALSE
        OBVIOUS
      <3>1. m2[k] = k \/ m2[k] < k
        BY <2>2
      <3>2. at[m2[k]] \in 1..Len(c) /\ (m2[k] < k => at[m2[k]] < at[k])
        BY <1>0, <2>2
      <3> QED BY <2>1, <2>2, <3>1, <3>2
    <2>4. ASSUME NEW j \in k..m2[k] PROVE m2[j] \in k..m2[k]
      <3>1. j \in 1..n /\ k <= j /\ j <= m2[k]
        BY <2>2
      <3>2. at[k] <= at[j] /\ at[j] <= at[m2[k]] /\ at[j] \in 1..Len(c) /\ at[m2[k]] \in 1..Len(c)
        BY <1>0, <1>b, <2>2, <3>1
      <3>3. at[j] \in at[k]..m[at[k]]
        BY <2>1, <2>2, <3>2
      <3>4. m[at[j]] \in at[k]..m[at[k]]
        BY <1>d, <1>7, <2>1, <3>3 DEF Mates
      <3>5. m2[j] \in 1..n /\ at[m2[j]] = m[at[j]]
        BY <1>3, <3>1
      <3>6. at[k] <= at[m2[j]] /\ at[m2[j]] <= at[m2[k]]
        BY <2>1, <2>2, <3>2, <3>4, <3>5
      <3>7. k <= m2[j] /\ m2[j] <= m2[k]
        BY <1>a, <2>2, <3>5, <3>6
      <3>8. m2[j] \in Nat /\ m2[k] \in Nat /\ k \in Nat
        <4>1. 1..n \subseteq Nat
          OBVIOUS
        <4>2. m2[j] \in 1..n /\ m2[k] \in 1..n
          BY <2>2, <3>5
        <4> QED BY <4>1, <4>2
      <3> QED BY <3>7, <3>8
    <2> QED BY <2>3, <2>4
  <1>8. Mates(d, m2)
    BY <1>2, <1>4, <1>5, <1>6, <1>7 DEF Mates
  <1> QED BY <1>2, <1>8

\* e is put between the k-th and the next position of d.
Pasted(d, k, e) ==
    [j \in 1..Len(d) + Len(e) |->
        IF j <= k THEN d[j] ELSE IF j <= k + Len(e) THEN e[j - k] ELSE d[j - Len(e)]]

\* A sequence with mates that is put inside of another one leaves it with mates.
LEMMA PastedMates ==
    ASSUME NEW d \in Seq(Places), NEW e \in Seq(Places), NEW md, NEW me, Mates(d, md), Mates(e, me),
           \A i \in 1..Len(d), j \in 1..Len(e) : d[i] # e[j],
           NEW k \in 1..Len(d)
    PROVE  /\ Pasted(d, k, e) \in Seq(Places) /\ Len(Pasted(d, k, e)) = Len(d) + Len(e)
           /\ \E m : Mates(Pasted(d, k, e), m)
  <1> DEFINE L == Len(d)
             n == Len(e)
             p == Pasted(d, k, e)
             up(q) == IF q <= k THEN q ELSE q + n
             m == [j \in 1..L + n |-> IF j <= k THEN up(md[j])
                                      ELSE IF j <= k + n THEN me[j - k] + k ELSE up(md[j - n])]
  <1>1. L \in Nat /\ n \in Nat /\ k \in 1..L
    OBVIOUS
  <1>2. /\ \A j \in 1..L : /\ d[j] \in Places /\ md[j] \in 1..L /\ d[md[j]] = pivot_of(d[j])
                           /\ is_leading(d[j]) => j < md[j] /\ \A h \in j..md[j] : md[h] \in j..md[j]
                           /\ \A h \in 1..L : d[j] = d[h] => j = h
        /\ \A j \in 1..n : /\ e[j] \in Places /\ me[j] \in 1..n /\ e[me[j]] = pivot_of(e[j])
                           /\ is_leading(e[j]) => j < me[j] /\ \A h \in j..me[j] : me[h] \in j..me[j]
                           /\ \A h \in 1..n : e[j] = e[h] => j = h
    <2>1. /\ \A j \in 1..L : d[j] \in Places
          /\ \A j \in 1..n : e[j] \in Places
      OBVIOUS
    <2> QED BY <2>1 DEF Mates
  <1>3. \A j \in 1..L + n : p[j] = IF j <= k THEN d[j] ELSE IF j <= k + n THEN e[j - k] ELSE d[j - n]
    BY DEF Pasted
  <1>4. p \in Seq(Places) /\ Len(p) = L + n
    <2>1. \A j \in 1..L + n : /\ j <= k => j \in 1..L
                              /\ j > k /\ j <= k + n => j - k \in 1..n
                              /\ j > k + n => j - n \in 1..L
      BY <1>1
    <2>2. p \in [1..L + n -> Places]
      BY <1>1, <1>2, <2>1 DEF Pasted
    <2> HIDE DEF p
    <2> QED BY <1>1, <2>2, MakeSeq
  <1> HIDE DEF p
  <1> USE DEF up
  <1>5. ASSUME NEW j \in 1..L + n
        PROVE  /\ m[j] \in 1..L + n /\ p[m[j]] = pivot_of(p[j])
    <2>1. CASE j <= k
      <3>1. j \in 1..L /\ md[j] \in 1..L /\ m[j] = up(md[j]) /\ p[j] = d[j]
        BY <1>1, <1>2, <1>3, <2>1
      <3>2. up(md[j]) \in 1..L + n /\ p[up(md[j])] = d[md[j]]
        BY <1>1, <1>3, <3>1
      <3> QED BY <1>2, <3>1, <3>2
    <2>2. CASE j > k /\ j <= k + n
      <3>1. j - k \in 1..n /\ me[j - k] \in 1..n /\ m[j] = me[j - k] + k /\ p[j] = e[j - k]
        BY <1>1, <1>2, <1>3, <2>2
      <3>2. me[j - k] + k \in 1..L + n /\ p[me[j - k] + k] = e[me[j - k]]
        BY <1>1, <1>3, <3>1
      <3> QED BY <1>2, <3>1, <3>2
    <2>3. CASE j > k + n
      <3>1. j - n \in 1..L /\ md[j - n] \in 1..L /\ m[j] = up(md[j - n]) /\ p[j] = d[j - n]
        BY <1>1, <1>2, <1>3, <2>3
      <3>2. up(md[j - n]) \in 1..L + n /\ p[up(md[j - n])] = d[md[j - n]]
        BY <1>1, <1>3, <3>1
      <3> QED BY <1>2, <3>1, <3>2
    <2> QED BY <1>1, <2>1, <2>2, <2>3
  <1>6. ASSUME NEW j \in 1..L + n, NEW h \in 1..L + n, p[j] = p[h] PROVE j = h
    <2>1. \A i \in 1..L + n : \/ i <= k /\ i \in 1..L /\ p[i] = d[i]
                              \/ i > k /\ i <= k + n /\ i - k \in 1..n /\ p[i] = e[i - k]
                              \/ i > k + n /\ i - n \in 1..L /\ p[i] = d[i - n]
      BY <1>1, <1>3
    <2>2. \A i \in 1..L, l \in 1..n : d[i] # e[l]
      OBVIOUS
    <2>3. CASE j > k /\ j <= k + n
      <3>1. j - k \in 1..n /\ p[j] = e[j - k]
        BY <1>1, <1>3, <2>3
      <3>2. h > k /\ h <= k + n /\ h - k \in 1..n /\ p[h] = e[h - k]
        BY <1>6, <2>1, <2>2, <3>1
      <3>3. j - k = h - k
        BY <1>2, <1>6, <3>1, <3>2
      <3> QED BY <1>1, <3>3
    <2>4. CASE ~(j > k /\ j <= k + n)
      <3> DEFINE dn(i) == IF i <= k THEN i ELSE i - n
      <3>1. dn(j) \in 1..L /\ p[j] = d[dn(j)]
        BY <1>1, <1>3, <2>4
      <3>2. ~(h > k /\ h <= k + n)
        <4> SUFFICES ASSUME h > k /\ h <= k + n PROVE FALSE
          OBVIOUS
        <4>1. h - k \in 1..n /\ p[h] = e[h - k]
          BY <1>1, <1>3
        <4> HIDE DEF dn
        <4> QED BY <1>6, <2>2, <3>1, <4>1
      <3>3. dn(h) \in 1..L /\ p[h] = d[dn(h)]
        BY <1>1, <1>3, <3>2
      <3>4. dn(j) = dn(h)
        <4>1. \A i, l \in 1..L : d[i] = d[l] => i = l
          BY <1>2
        <4> HIDE DEF dn
        <4> QED BY <4>1, <1>6, <3>1, <3>3
      <3> QED BY <1>1, <2>4, <3>2, <3>4
    <2> QED BY <2>3, <2>4
  <1>7. ASSUME NEW j \in 1..L + n, is_leading(p[j])
        PROVE  j < m[j] /\ \A h \in j..m[j] : m[h] \in j..m[j]
    <2>1. CASE j <= k
      <3>1. j \in 1..L /\ is_leading(d[j]) /\ md[j] \in 1..L /\ m[j] = up(md[j])
        BY <1>1, <1>2, <1>3, <1>7, <2>1
      <3>2. j < md[j] /\ \A h \in j..md[j] : md[h] \in j..md[j]
        BY <1>2, <3>1
      <3>3. j < m[j]
        BY <1>1, <3>1, <3>2
      <3>4. ASSUME NEW h \in j..m[j] PROVE m[h] \in j..m[j]
        <4>1. CASE h <= k
          <5>1. h \in j..md[j] /\ m[h] = up(md[h]) /\ h \in 1..L
            BY <1>1, <2>1, <3>1, <3>4, <4>1
          <5>2. md[h] \in j..md[j]
            BY <3>2, <5>1
          <5>3. md[h] \in Nat /\ j <= md[h] /\ md[h] <= md[j] /\ md[j] \in Nat
            BY <1>1, <3>1, <5>2
          <5>4. j <= up(md[h]) /\ up(md[h]) <= up(md[j]) /\ up(md[h]) \in Nat
            BY <1>1, <5>3
          <5> QED BY <1>1, <3>1, <5>1, <5>4
        <4>2. CASE h > k /\ h <= k + n
          <5>1. h - k \in 1..n /\ m[h] = me[h - k] + k /\ me[h - k] \in 1..n
            BY <1>1, <1>2, <4>2
          <5>2. md[j] > k
            BY <1>1, <3>1, <3>4, <4>2
          <5> QED BY <1>1, <2>1, <3>1, <5>1, <5>2
        <4>3. CASE h > k + n
          <5>1. md[j] > k /\ h - n \in j..md[j] /\ h - n \in 1..L /\ h \in 1..L + n
            BY <1>1, <2>1, <3>1, <3>4, <4>3
          <5>2. m[h] = up(md[h - n]) /\ md[h - n] \in j..md[j]
            BY <1>1, <3>2, <4>3, <5>1
          <5>3. /\ md[h - n] \in Nat /\ j <= md[h - n] /\ md[h - n] <= md[j] /\ md[j] \in Nat
                /\ up(md[j]) = md[j] + n
            BY <1>1, <3>1, <5>1, <5>2
          <5>4. j <= up(md[h - n]) /\ up(md[h - n]) <= up(md[j]) /\ up(md[h - n]) \in Nat
            BY <1>1, <5>3
          <5> QED BY <1>1, <3>1, <5>2, <5>4
        <4> QED BY <1>1, <3>1, <4>1, <4>2, <4>3
      <3> QED BY <3>3, <3>4
    <2>2. CASE j > k /\ j <= k + n
      <3>1. j - k \in 1..n /\ is_leading(e[j - k]) /\ me[j - k] \in 1..n /\ m[j] = me[j - k] + k
        BY <1>1, <1>2, <1>3, <1>7, <2>2
      <3>2. j - k < me[j - k] /\ \A h \in (j - k)..me[j - k] : me[h] \in (j - k)..me[j - k]
        BY <1>2, <3>1
      <3>3. j < m[j]
        BY <1>1, <3>1, <3>2
      <3>4. ASSUME NEW h \in j..m[j] PROVE m[h] \in j..m[j]
        <4>1. h > k /\ h <= k + n /\ h - k \in (j - k)..me[j - k] /\ h \in 1..L + n
          BY <1>1, <2>2, <3>1, <3>4
        <4>2. m[h] = me[h - k] + k /\ me[h - k] \in (j - k)..me[j - k]
          BY <3>2, <4>1
        <4> QED BY <1>1, <2>2, <3>1, <4>1, <4>2
      <3> QED BY <3>3, <3>4
    <2>3. CASE j > k + n
      <3>1. j - n \in 1..L /\ is_leading(d[j - n]) /\ md[j - n] \in 1..L /\ m[j] = up(md[j - n])
        BY <1>1, <1>2, <1>3, <1>7, <2>3
      <3>2. j - n < md[j - n] /\ \A h \in (j - n)..md[j - n] : md[h] \in (j - n)..md[j - n]
        BY <1>2, <3>1
      <3>3. m[j] = md[j - n] + n /\ j < m[j]
        BY <1>1, <2>3, <3>1, <3>2
      <3>4. ASSUME NEW h \in j..m[j] PROVE m[h] \in j..m[j]
        <4>1. h > k + n /\ h - n \in (j - n)..md[j - n] /\ h \in 1..L + n
          BY <1>1, <2>3, <3>1, <3>3, <3>4
        <4>2. m[h] = up(md[h - n]) /\ md[h - n] \in (j - n)..md[j - n]
          BY <3>2, <4>1, <1>1
        <4> QED BY <1>1, <2>3, <3>1, <3>3, <4>1, <4>2
      <3> QED BY <3>3, <3>4
    <2> QED BY <1>1, <2>1, <2>2, <2>3
  <1>8. m \in [1..L + n -> 1..L + n]
    BY <1>5
  <1> HIDE DEF m
  <1>9. Mates(p, m)
    BY <1>4, <1>5, <1>6, <1>7, <1>8 DEF Mates
  <1> QED BY <1>4, <1>9 DEF p

-----------------------------------------------------------------------------
(***************************************************************************)
(* Cutting a ring and mending it.                                          *)
(***************************************************************************)
\* What is known of one of the rings.
LEMMA RingFacts ==
    ASSUME NEW links, NEW c, NEW R, NEW P, Rings(links, c, R, P), NEW x \in R
    PROVE  /\ Ring(links, x, c[x]) /\ c[x] \in Seq(Places) /\ Len(c[x]) \in Nat /\ Len(c[x]) >= 2
           /\ x \in Cells /\ links \in LinkType /\ P \subseteq Places
           /\ c[x][1] = << x, "leading" >> /\ c[x][Len(c[x])] = << x, "trailing" >>
           /\ \A k \in 1..Len(c[x]) : c[x][k] \in P /\ c[x][k] \in Places
           /\ \A k, l \in 1..Len(c[x]) : c[x][k] = c[x][l] => k = l
  <1>1. /\ Ring(links, x, c[x]) /\ links \in LinkType /\ P \subseteq Places
        /\ \A k \in 1..Len(c[x]) : c[x][k] \in P
    BY DEF Rings
  <1>2. /\ c[x] \in Seq(Places) /\ Len(c[x]) >= 2 /\ c[x][1] = << x, "leading" >>
        /\ c[x][Len(c[x])] = << x, "trailing" >>
        /\ \A k, l \in 1..Len(c[x]) : c[x][k] = c[x][l] => k = l
    BY <1>1 DEF Ring, Run, Mates
  <1>3. Len(c[x]) \in Nat
    BY <1>2
  <1>4. x \in Cells
    <2>1. c[x][1] \in Places
      BY <1>2, <1>3
    <2> QED BY <1>2, <2>1, PlaceFacts
  <1> QED BY <1>1, <1>2, <1>3, <1>4

\* What is known of all of them.
LEMMA AllRings ==
    ASSUME NEW links, NEW c, NEW R, NEW P, Rings(links, c, R, P)
    PROVE  /\ links \in LinkType /\ P \subseteq Places /\ DOMAIN c = R
           /\ \A x \in R : /\ Ring(links, x, c[x]) /\ c[x] \in Seq(Places)
                           /\ Len(c[x]) \in Nat /\ Len(c[x]) >= 2
           /\ \A x \in R : \A k \in 1..Len(c[x]) : c[x][k] \in P /\ c[x][k] \in Places
           /\ \A x, y \in R : \A k \in 1..Len(c[x]), l \in 1..Len(c[y]) : c[x][k] = c[y][l] => x = y
  <1>1. ASSUME NEW x \in R
        PROVE  /\ Ring(links, x, c[x]) /\ c[x] \in Seq(Places)
               /\ Len(c[x]) \in Nat /\ Len(c[x]) >= 2
               /\ \A k \in 1..Len(c[x]) : c[x][k] \in P /\ c[x][k] \in Places
    BY RingFacts
  <1> QED BY <1>1 DEF Rings

\* What is linked along c stays so.
Unspoilt(links, new, c) ==
    \A k, l \in 1..Len(c) : Linked(links, c[k], c[l]) => Linked(new, c[k], c[l])

\* A ring in which no link is changed is still one.
LEMMA RingStays ==
    ASSUME NEW links \in LinkType, NEW new, NEW y, NEW c, Ring(links, y, c), Unspoilt(links, new, c)
    PROVE  Ring(new, y, c)
  <1>1. Len(c) \in Nat /\ Len(c) >= 2
    BY DEF Ring, Run
  <1>2. \A k \in 1..Len(c) - 1 : k \in 1..Len(c) /\ k + 1 \in 1..Len(c)
    BY <1>1
  <1>3. 1 \in 1..Len(c) /\ Len(c) \in 1..Len(c)
    BY <1>1
  <1> QED BY <1>2, <1>3 DEF Ring, Run, Unspoilt

\* What is in e, and what is in c but at none of these indices.
Elems(e) == {e[k] : k \in 1..Len(e)}
Dropped(c, at, n) == {c[k] : k \in {k \in 1..Len(c) : \A l \in 1..n : at[l] # k}}

\* Of a ring some positions are dropped, with their mates; the links mend it.
LEMMA Shrunk ==
    ASSUME NEW links, NEW c, NEW R, NEW P, Rings(links, c, R, P), NEW x \in R, NEW m, Mates(c[x], m),
           NEW n, n >= 2, NEW at, Thins(at, n, Len(c[x]), m), at[1] = 1, at[n] = Len(c[x]),
           NEW d, d = Along(c[x], at, n),
           NEW new \in LinkType,
           \A k \in 1..n - 1 : Linked(new, d[k], d[k + 1]),
           \A y \in R \ {x} : Unspoilt(links, new, c[y]),
           Linked(new, c[x][Len(c[x])], c[x][1]),
           NEW Q, Q = P \ Dropped(c[x], at, n)
    PROVE  Rings(new, [c EXCEPT ![x] = d], R, Q)
  <1> DEFINE b == [c EXCEPT ![x] = d]
  <1>0. n \in Nat /\ at \in [1..n -> 1..Len(c[x])]
    BY DEF Thins
  <1>1. DOMAIN c = R /\ DOMAIN b = R /\ b[x] = d /\ \A y \in R \ {x} : b[y] = c[y]
    BY DEF Rings
  <1>2. /\ \A y \in R : /\ Ring(links, y, c[y]) /\ c[y] \in Seq(Places) /\ Len(c[y]) \in Nat
                        /\ Len(c[y]) >= 2
                        /\ \A k \in 1..Len(c[y]) : c[y][k] \in P /\ c[y][k] \in Places
        /\ \A k, l \in 1..Len(c[x]) : c[x][k] = c[x][l] => k = l
        /\ c[x][1] = << x, "leading" >> /\ c[x][Len(c[x])] = << x, "trailing" >>
        /\ links \in LinkType /\ P \subseteq Places
    BY AllRings, RingFacts
  <1>3. d \in Seq(Places) /\ Len(d) = n /\ \E m2 : Mates(d, m2)
    <2>1. c[x] \in Seq(Places)
      BY <1>2
    <2>2. Thins(at, n, Len(c[x]), m) /\ Mates(c[x], m) /\ d = Along(c[x], at, n)
      OBVIOUS
    <2> HIDE DEF b
    <2> QED BY <2>1, <2>2, SubMates
  <1>4. \A k \in 1..n : d[k] = c[x][at[k]] /\ at[k] \in 1..Len(c[x])
    BY <1>0 DEF Along
  <1>5. d[1] = c[x][1] /\ d[n] = c[x][Len(c[x])]
    <2>1. 1 \in 1..n /\ n \in 1..n
      BY <1>0
    <2> QED BY <1>4, <2>1
  <1>6. Ring(new, x, d)
    BY <1>2, <1>3, <1>5 DEF Ring, Run
  <1>7. ASSUME NEW y \in R \ {x} PROVE Ring(new, y, c[y])
    BY <1>2, RingStays
  <1> HIDE DEF b
  <1>8. \A y \in R : Ring(new, y, b[y])
    BY <1>1, <1>6, <1>7
  <1>9. \A y \in R : \A k \in 1..Len(b[y]) :
            \E l \in 1..Len(c[y]) : b[y][k] = c[y][l] /\ (y = x => at[k] = l /\ k \in 1..n)
    BY <1>1, <1>3, <1>4
  <1>a. \A y, z \in R : \A k \in 1..Len(c[y]), l \in 1..Len(c[z]) : c[y][k] = c[z][l] => y = z
    BY DEF Rings
  <1>b. \A y \in R : \A k \in 1..Len(b[y]) : b[y][k] \in Q
    <2> SUFFICES ASSUME NEW y \in R, NEW k \in 1..Len(b[y]),
                        NEW l \in 1..Len(c[x]), \A h \in 1..n : at[h] # l, b[y][k] = c[x][l]
                 PROVE  FALSE
      <3>1. ASSUME NEW y \in R, NEW k \in 1..Len(b[y]) PROVE b[y][k] \in P
        <4>1. PICK l \in 1..Len(c[y]) : b[y][k] = c[y][l]
          BY <1>9
        <4> QED BY <1>2, <4>1
      <3> QED BY <3>1 DEF Dropped
    <2>1. PICK h \in 1..Len(c[y]) : b[y][k] = c[y][h] /\ (y = x => at[k] = h /\ k \in 1..n)
      BY <1>9
    <2>2. y = x
      BY <1>a, <2>1
    <2>3. h = l
      BY <1>2, <2>1, <2>2
    <2> QED BY <2>1, <2>2, <2>3
  <1>c. \A i \in Q : \E y \in R : \E k \in 1..Len(b[y]) : b[y][k] = i
    <2> SUFFICES ASSUME NEW i \in Q PROVE \E y \in R : \E k \in 1..Len(b[y]) : b[y][k] = i
      OBVIOUS
    <2>0. PICK y \in R : \E l \in 1..Len(c[y]) : c[y][l] = i
      BY DEF Rings
    <2>1. PICK l \in 1..Len(c[y]) : c[y][l] = i
      BY <2>0
    <2>2. CASE y # x
      BY <1>1, <2>1, <2>2
    <2>3. CASE y = x
      <3>1. PICK k \in 1..n : at[k] = l
        BY <2>1, <2>3 DEF Dropped
      <3>2. b[y][k] = i /\ k \in 1..Len(b[y])
        BY <1>1, <1>3, <1>4, <2>1, <2>3, <3>1
      <3> QED BY <3>2
    <2> QED BY <2>2, <2>3
  <1>d. \A y, z \in R : \A k \in 1..Len(b[y]), l \in 1..Len(b[z]) : b[y][k] = b[z][l] => y = z
    <2> SUFFICES ASSUME NEW y \in R, NEW z \in R, NEW k \in 1..Len(b[y]), NEW l \in 1..Len(b[z]),
                        b[y][k] = b[z][l]
                 PROVE  y = z
      OBVIOUS
    <2>1. PICK h \in 1..Len(c[y]) : b[y][k] = c[y][h]
      BY <1>9
    <2>2. PICK i \in 1..Len(c[z]) : b[z][l] = c[z][i]
      BY <1>9
    <2>3. c[y][h] = c[z][i]
      BY <2>1, <2>2
    <2> QED BY <1>a, <2>3
  <1> QED BY <1>1, <1>2, <1>8, <1>b, <1>c, <1>d DEF Rings, b

\* The positions from a to b, and the others.
Segment(c, a, b) == [k \in 1..b - a + 1 |-> c[a + k - 1]]
Without(c, a, b) == [k \in 1..Len(c) - (b - a + 1) |-> IF k < a THEN c[k] ELSE c[k + (b - a + 1)]]

CutCase(links, c, R, P, x, m, a, b, new, d, e) ==
    /\ Rings(links, c, R, P) /\ x \in R /\ Mates(c[x], m)
    /\ a \in Nat /\ b \in Nat /\ 1 < a /\ a <= b /\ b < Len(c[x])
    /\ \A k \in a..b : m[k] \in a..b
    /\ new = set_next(links, c[x][a - 1], c[x][b + 1])
    /\ d = Without(c[x], a, b) /\ e = Segment(c[x], a, b)

CutDone(c, R, P, x, a, b, new, d, e) ==
    /\ Rings(new, [c EXCEPT ![x] = d], R, P \ Elems(e))
    /\ Run(new, e) /\ Len(e) = b - a + 1
    /\ \A k \in 1..Len(e) : e[k] \in P

\* set_next takes what is between two positions out of a ring, if it is closed.
LEMMA Cut ==
    ASSUME NEW links, NEW c, NEW R, NEW P, NEW x, NEW m, NEW a, NEW b, NEW new, NEW d, NEW e,
           CutCase(links, c, R, P, x, m, a, b, new, d, e)
    PROVE  CutDone(c, R, P, x, a, b, new, d, e)
  <1> /\ Rings(links, c, R, P) /\ x \in R /\ Mates(c[x], m)
      /\ a \in Nat /\ b \in Nat /\ 1 < a /\ a <= b /\ b < Len(c[x])
      /\ \A k \in a..b : m[k] \in a..b
      /\ new = set_next(links, c[x][a - 1], c[x][b + 1])
      /\ d = Without(c[x], a, b) /\ e = Segment(c[x], a, b)
    BY DEF CutCase
  <1> DEFINE o == c[x]
             L == Len(o)
             w == b - a + 1
             n == L - w
             at == [k \in 1..n |-> IF k < a THEN k ELSE k + w]
             in == [k \in 1..w |-> a + k - 1]
  <1>1. /\ Ring(links, x, o) /\ o \in Seq(Places) /\ L \in Nat /\ L >= 2
        /\ links \in LinkType /\ P \subseteq Places
        /\ \A k \in 1..L : o[k] \in P /\ o[k] \in Places
        /\ \A k, l \in 1..L : o[k] = o[l] => k = l
    BY RingFacts
  <1>2. w \in Nat /\ w >= 1 /\ n \in Nat /\ n >= 2 /\ n = L - w /\ w = b - a + 1
    BY <1>1
  <1>3. \A k \in 1..L : m[k] \in 1..L /\ m[m[k]] = k
    BY <1>1, MateOf
  <1>4. at \in [1..n -> 1..L] /\ \A k \in 1..n : at[k] = IF k < a THEN k ELSE k + w
    BY <1>1, <1>2
  <1>5. in \in [1..w -> 1..L] /\ \A k \in 1..w : in[k] = a + k - 1 /\ in[k] \in a..b
    BY <1>1, <1>2
  <1>6. d = Along(o, at, n)
    <2>1. \A k \in 1..n : (IF k < a THEN o[k] ELSE o[k + w]) = o[at[k]]
      BY <1>4
    <2> QED BY <2>1 DEF Without, Along
  <1>7. e = Along(o, in, w)
    BY <1>5 DEF Segment, Along
  <1> HIDE DEF at, in, w, n, o, L
  <1>q. /\ L \in Nat /\ w \in Nat /\ w >= 1 /\ n \in Nat /\ n >= 2 /\ n = L - w /\ w = b - a + 1
        /\ a \in Nat /\ b \in Nat /\ 1 < a /\ a <= b /\ b < L
    BY <1>1, <1>2 DEF L, o
  <1>r. \A k \in 1..n : at[k] = IF k < a THEN k ELSE k + w
    BY <1>4
  <1>8. Linked(new, o[a - 1], o[b + 1]) /\ new \in LinkType
        /\ \A p, q \in Places : p # o[a - 1] /\ q # o[b + 1] =>
              (Linked(new, p, q) <=> Linked(links, p, q))
    <2>1. a - 1 \in 1..L /\ b + 1 \in 1..L
      BY <1>1, <1>2 DEF L, o
    <2>2. o[a - 1] \in Places /\ o[b + 1] \in Places
      BY <1>1, <2>1
    <2>3. new = set_next(links, o[a - 1], o[b + 1])
      BY DEF o
    <2>4. links \in LinkType
      BY <1>1
    <2> HIDE DEF o
    <2>5. LET l == set_next(links, o[a - 1], o[b + 1])
          IN  /\ l \in LinkType /\ Linked(l, o[a - 1], o[b + 1])
              /\ \A p, q \in Places : p # o[a - 1] /\ q # o[b + 1] =>
                    (Linked(l, p, q) <=> Linked(links, p, q))
      BY <2>2, <2>4, SetNext
    <2> QED BY <2>3, <2>5
  <1>a. /\ \A k \in 1..L - 1 : Linked(links, o[k], o[k + 1])
        /\ Linked(links, o[L], o[1])
    BY <1>1 DEF Ring, Run, L
  <1>b. b < L /\ 1 < a /\ a <= b /\ m \in [1..L -> 1..L] /\ Mates(o, m)
    BY DEF L, o, Mates
  <1>c. \A k \in 1..L, l \in 1..L : k # a - 1 /\ l # b + 1 =>
            (Linked(links, o[k], o[l]) => Linked(new, o[k], o[l]))
    <2> SUFFICES ASSUME NEW k \in 1..L, NEW l \in 1..L, k # a - 1, l # b + 1, Linked(links, o[k], o[l])
                 PROVE  Linked(new, o[k], o[l])
      OBVIOUS
    <2>1. a - 1 \in 1..L /\ b + 1 \in 1..L
      BY <1>1, <1>b
    <2>2. o[k] # o[a - 1] /\ o[l] # o[b + 1]
      BY <1>1, <2>1
    <2> QED BY <1>1, <1>8, <2>2
  <1>d. \A k \in 1..n - 1 : Linked(new, d[k], d[k + 1])
    <2> SUFFICES ASSUME NEW k \in 1..n - 1 PROVE Linked(new, d[k], d[k + 1])
      OBVIOUS
    <2>1. k \in 1..n /\ k + 1 \in 1..n /\ d[k] = o[at[k]] /\ d[k + 1] = o[at[k + 1]]
      BY <1>2, <1>6 DEF Along
    <2>2. CASE k = a - 1
      <3>1. at[k] = a - 1 /\ at[k + 1] = b + 1
        BY <1>2, <1>4, <2>1, <2>2
      <3> QED BY <1>8, <2>1, <3>1
    <2>3. CASE k # a - 1
      <3>1. /\ at[k + 1] = at[k] + 1 /\ at[k] # a - 1 /\ at[k] + 1 # b + 1
            /\ at[k] \in 1..L - 1 /\ at[k] \in 1..L /\ at[k] + 1 \in 1..L
        <4> DEFINE j == k + 1
        <4>1. k \in 1..n /\ j \in 1..n /\ j = k + 1 /\ k \in Nat /\ k + 1 <= n
          BY <1>q, <2>1
        <4> HIDE DEF j
        <4>2. CASE k < a - 1
          <5>1. at[k] = k /\ at[j] = j
            BY <1>q, <1>r, <4>1, <4>2
          <5>2. k # a - 1 /\ k + 1 # b + 1 /\ k \in 1..L - 1 /\ k \in 1..L /\ k + 1 \in 1..L
            BY <1>q, <4>1, <4>2
          <5> QED BY <4>1, <5>1, <5>2 DEF j
        <4>3. CASE k >= a
          <5>0. ~(k < a) /\ ~(j < a)
            BY <1>q, <4>1, <4>3
          <5>1. at[k] = k + w /\ at[j] = j + w
            BY <1>r, <4>1, <5>0
          <5>2. /\ j + w = (k + w) + 1 /\ k + w # a - 1 /\ (k + w) + 1 # b + 1
                /\ k + w \in 1..L - 1 /\ k + w \in 1..L /\ (k + w) + 1 \in 1..L
            BY <1>q, <4>1, <4>3
          <5> QED BY <5>1, <5>2 DEF j
        <4>4. k < a - 1 \/ k >= a
          BY <1>q, <2>3, <4>1
        <4> QED BY <4>2, <4>3, <4>4
      <3>2. Linked(links, o[at[k]], o[at[k] + 1])
        BY <1>a, <3>1
      <3> QED BY <1>c, <2>1, <3>1, <3>2
    <2> QED BY <2>2, <2>3
  <1>e. Linked(new, o[L], o[1])
    BY <1>1, <1>2, <1>a, <1>b, <1>c
  <1>f. \A y \in R \ {x} : Unspoilt(links, new, c[y])
    <2> SUFFICES ASSUME NEW y \in R \ {x}, NEW k \in 1..Len(c[y]), NEW l \in 1..Len(c[y]),
                        Linked(links, c[y][k], c[y][l])
                 PROVE  Linked(new, c[y][k], c[y][l])
      BY DEF Unspoilt
    <2>1. a - 1 \in 1..L /\ b + 1 \in 1..L
      BY <1>1, <1>b
    <2>0. \A h \in 1..L, i \in 1..Len(c[y]) : o[h] # c[y][i]
      <3>1. \A z \in R : \A h \in 1..Len(c[z]), i \in 1..Len(c[y]) : c[z][h] = c[y][i] => z = y
        BY DEF Rings
      <3> QED BY <3>1 DEF o, L
    <2>2. c[y][k] # o[a - 1] /\ c[y][l] # o[b + 1]
      BY <2>0, <2>1
    <2>3. c[y][k] \in Places /\ c[y][l] \in Places
      BY RingFacts
    <2> QED BY <1>8, <2>2, <2>3
  <1>g. \A k \in 1..n : \E l \in 1..n : at[l] = m[at[k]]
    <2> SUFFICES ASSUME NEW k \in 1..n PROVE \E l \in 1..n : at[l] = m[at[k]]
      OBVIOUS
    <2>1. at[k] \in 1..L /\ ~(at[k] \in a..b)
      BY <1>q, <1>r
    <2>2. m[at[k]] \in 1..L /\ ~(m[at[k]] \in a..b)
      BY <1>3, <2>1
    <2> DEFINE q == m[at[k]]
               l == IF q < a THEN q ELSE q - w
    <2> HIDE DEF q
    <2>3. l \in 1..n /\ at[l] = q
      <3>1. q \in 1..L /\ ~(q \in a..b)
        BY <2>2 DEF q
      <3>2. l \in 1..n /\ l \in Nat /\ (l < a <=> q < a)
        BY <1>q, <3>1
      <3> QED BY <1>q, <1>r, <3>1, <3>2
    <2> QED BY <2>3 DEF q
  <1>h. \A k, l \in 1..n : k < l => at[k] < at[l]
    <2> SUFFICES ASSUME NEW k \in 1..n, NEW l \in 1..n, k < l PROVE at[k] < at[l]
      OBVIOUS
    <2>1. at[k] = (IF k < a THEN k ELSE k + w) /\ at[l] = (IF l < a THEN l ELSE l + w)
      BY <1>r
    <2> QED BY <1>q, <2>1
  <1>i. at[1] = 1 /\ at[n] = L
    <2>1. 1 \in 1..n /\ n \in 1..n /\ ~(n < a)
      BY <1>q
    <2>2. at[1] = (IF 1 < a THEN 1 ELSE 1 + w) /\ at[n] = (IF n < a THEN n ELSE n + w)
      BY <1>r, <2>1
    <2> QED BY <1>q, <2>1, <2>2
  <1>j. \A k \in 1..L : (\A l \in 1..n : at[l] # k) <=> k \in a..b
    <2> SUFFICES ASSUME NEW k \in 1..L PROVE (\A l \in 1..n : at[l] # k) <=> k \in a..b
      OBVIOUS
    <2>1. ASSUME k \in a..b, NEW l \in 1..n PROVE at[l] # k
      BY <1>q, <1>r, <2>1
    <2>2. ASSUME k \notin a..b PROVE \E l \in 1..n : at[l] = k
      <3> DEFINE l == IF k < a THEN k ELSE k - w
      <3>1. l \in 1..n /\ at[l] = k
        BY <1>q, <1>r, <2>2
      <3> QED BY <3>1
    <2> QED BY <2>1, <2>2
  <1>k. Len(e) = w /\ e \in Seq(Places) /\ (\E me : Mates(e, me)) /\ \A k \in 1..w : e[k] = o[in[k]]
    <2>1. \A k, l \in 1..w : k < l => in[k] < in[l]
      BY <1>2, <1>5
    <2>2. \A k \in 1..w : \E l \in 1..w : in[l] = m[in[k]]
      <3> SUFFICES ASSUME NEW k \in 1..w PROVE \E l \in 1..w : in[l] = m[in[k]]
        OBVIOUS
      <3>1. m[in[k]] \in a..b
        BY <1>5
      <3> DEFINE q == m[in[k]]
      <3> HIDE DEF q
      <3>2. q - a + 1 \in 1..w /\ in[q - a + 1] = q
        BY <1>2, <1>5, <3>1 DEF q
      <3> QED BY <3>2 DEF q
    <2>3. /\ e \in Seq(Places) /\ Len(e) = w
          /\ \E me : Mates(e, me)
      <3>1. o \in Seq(Places) /\ Mates(o, m)
        BY <1>1, <1>b
      <3>2. Thins(in, w, Len(o), m)
        BY <1>2, <1>5, <2>1, <2>2 DEF Thins, L
      <3> QED BY <1>7, <3>1, <3>2, SubMates
    <2> QED BY <1>7, <2>3 DEF Along
  <1>l. \A k \in 1..w - 1 : Linked(new, e[k], e[k + 1])
    <2> SUFFICES ASSUME NEW k \in 1..w - 1 PROVE Linked(new, e[k], e[k + 1])
      OBVIOUS
    <2>1. k \in 1..w /\ k + 1 \in 1..w
      BY <1>2
    <2>2. e[k] = o[a + k - 1] /\ e[k + 1] = o[a + k]
      <3> DEFINE h == k + 1
      <3>1. h \in 1..w /\ h = k + 1 /\ a + h - 1 = a + k
        BY <1>2, <2>1
      <3> HIDE DEF h
      <3>2. e[k] = o[in[k]] /\ e[h] = o[in[h]]
        BY <1>k, <2>1, <3>1
      <3>3. in[k] = a + k - 1 /\ in[h] = a + h - 1
        BY <1>5, <2>1, <3>1
      <3> QED BY <3>1, <3>2, <3>3 DEF h
    <2>3. /\ a + k - 1 \in 1..L /\ a + k \in 1..L /\ a + k - 1 \in 1..L - 1
          /\ a + k = (a + k - 1) + 1 /\ a + k - 1 # a - 1 /\ a + k # b + 1
      <3>1. k \in Nat /\ 1 <= k /\ k <= w - 1
        BY <1>q
      <3> QED BY <1>q, <3>1
    <2>4. Linked(links, o[a + k - 1], o[a + k])
      BY <1>a, <2>3
    <2> QED BY <1>c, <2>2, <2>3, <2>4
  <1>m. Dropped(o, at, n) = Elems(e)
    <2> DEFINE T == {k \in 1..L : \A l \in 1..n : at[l] # k}
    <2>1. \A k : k \in T <=> k \in a..b
      <3>1. \A k \in a..b : k \in 1..L
        BY <1>q
      <3> QED BY <1>j, <3>1
    <2> HIDE DEF T
    <2>2. ASSUME NEW k \in a..b PROVE k - a + 1 \in 1..w /\ e[k - a + 1] = o[k]
      <3>1. k - a + 1 \in 1..w /\ a + (k - a + 1) - 1 = k
        BY <1>q
      <3> QED BY <1>5, <1>k, <3>1
    <2>3. \A k \in 1..w : e[k] = o[in[k]] /\ in[k] \in a..b
      BY <1>5, <1>k
    <2>4. ASSUME NEW i PROVE i \in {o[k] : k \in T} <=> i \in {e[k] : k \in 1..w}
      <3>1. ASSUME NEW k \in T, i = o[k] PROVE i \in {e[l] : l \in 1..w}
        BY <2>1, <2>2, <3>1
      <3>2. ASSUME NEW k \in 1..w, i = e[k] PROVE i \in {o[l] : l \in T}
        BY <2>1, <2>3, <3>2
      <3> QED BY <3>1, <3>2
    <2> QED BY <1>k, <2>4 DEF T, Dropped, Elems, L
  <1>n. Rings(new, [c EXCEPT ![x] = d], R, P \ Elems(e))
    <2>1. Thins(at, n, Len(c[x]), m) /\ at[n] = Len(c[x]) /\ at[1] = 1
      BY <1>2, <1>4, <1>g, <1>h, <1>i DEF L, o, Thins
    <2>2. d = Along(c[x], at, n) /\ Linked(new, c[x][Len(c[x])], c[x][1])
      BY <1>6, <1>e DEF L, o
    <2>3. P \ Elems(e)
            = P \ Dropped(c[x], at, n)
      BY <1>m DEF o
    <2>4. n \in Nat /\ n >= 2 /\ new \in LinkType
      BY <1>2, <1>8
    <2> DEFINE Q == P \ Elems(e)
    <2> HIDE DEF Q
    <2>5. Q = P \ Dropped(c[x], at, n)
      BY <2>3 DEF Q
    <2>6. Rings(new, [c EXCEPT ![x] = d], R, Q)
      BY <1>d, <1>f, <2>1, <2>2, <2>4, <2>5, Shrunk
    <2> QED BY <2>6 DEF Q
  <1>o. \A k \in 1..Len(e) : e[k] \in P
    BY <1>1, <1>5, <1>k
  <1>p. Run(new, e)
    BY <1>k, <1>l DEF Run
  <1> QED BY <1>k, <1>n, <1>o, <1>p DEF w, CutDone

\* new has the links, but from i to j.
Relinked(links, new, i, j) ==
    /\ new \in LinkType /\ Linked(new, i, j)
    /\ \A p, q \in Places : p # i /\ q # j => (Linked(new, p, q) <=> Linked(links, p, q))
    /\ \A p \in Places : /\ p # i => new[p[1]][p[2]].next = links[p[1]][p[2]].next
                         /\ p # j => new[p[1]][p[2]].prior = links[p[1]][p[2]].prior

\* set_next changes one link.
LEMMA Relink ==
    ASSUME NEW links \in LinkType, NEW i \in Places, NEW j \in Places,
           NEW new, new = set_next(links, i, j)
    PROVE  Relinked(links, new, i, j)
  <1>1. LET l == set_next(links, i, j)
        IN  /\ l \in LinkType /\ Linked(l, i, j)
            /\ \A p, q \in Places : p # i /\ q # j => (Linked(l, p, q) <=> Linked(links, p, q))
            /\ \A p \in Places : /\ p # i => l[p[1]][p[2]].next = links[p[1]][p[2]].next
                                 /\ p # j => l[p[1]][p[2]].prior = links[p[1]][p[2]].prior
    BY SetNext
  <1> QED BY <1>1 DEF Relinked

\* The others lead where they led.
LEMMA KeptNext ==
    ASSUME NEW links, NEW new, NEW i, NEW j, Relinked(links, new, i, j), NEW p \in Places, p # i
    PROVE  new[p[1]][p[2]].next = links[p[1]][p[2]].next
  BY DEF Relinked

\* The ring of a node that is linked to itself.
Pair(n) == << << n, "leading" >>, << n, "trailing" >> >>

\* A node that is linked to itself is a ring of two positions.
LEMMA PairFacts ==
    ASSUME NEW n \in Cells
    PROVE  /\ Pair(n) \in Seq(Places) /\ Len(Pair(n)) = 2
           /\ Pair(n)[1] = << n, "leading" >> /\ Pair(n)[2] = << n, "trailing" >>
           /\ Elems(Pair(n)) = {<< n, "leading" >>, << n, "trailing" >>}
           /\ \E m : Mates(Pair(n), m)
  <1> DEFINE c == Pair(n)
             m == [k \in 1..2 |-> 3 - k]
  <1>1. << n, "leading" >> \in Places /\ << n, "trailing" >> \in Places
    BY DEF Places, Edge
  <1>2. c \in Seq(Places) /\ Len(c) = 2 /\ c[1] = << n, "leading" >> /\ c[2] = << n, "trailing" >>
    BY <1>1 DEF Pair
  <1> HIDE DEF c
  <1>3. \A k : k \in 1..2 <=> k = 1 \/ k = 2
    OBVIOUS
  <1>4. Elems(c) = {<< n, "leading" >>, << n, "trailing" >>}
    BY <1>2, <1>3 DEF Elems
  <1>5. m \in [1..2 -> 1..2] /\ m[1] = 2 /\ m[2] = 1
    <2>1. \A k \in 1..2 : 3 - k \in 1..2
      OBVIOUS
    <2> QED BY <2>1
  <1> HIDE DEF m
  <1>6. c[1] # c[2] /\ c[2] = pivot_of(c[1]) /\ c[1] = pivot_of(c[2])
        /\ is_leading(c[1]) /\ ~is_leading(c[2])
    BY <1>2 DEF pivot_of, pivot, is_leading
  <1>7. Mates(c, m)
    <2>1. \A k, l \in 1..2 : c[k] = c[l] => k = l
      BY <1>3, <1>6
    <2>2. \A k \in 1..2 : c[m[k]] = pivot_of(c[k])
      BY <1>3, <1>5, <1>6
    <2>3. \A k \in 1..2 : is_leading(c[k]) => k < m[k] /\ \A j \in k..m[k] : m[j] \in k..m[k]
      <3>1. SUFFICES ASSUME NEW k \in 1..2, is_leading(c[k])
                     PROVE  k < m[k] /\ \A j \in k..m[k] : m[j] \in k..m[k]
        OBVIOUS
      <3>2. k = 1
        BY <1>3, <1>6, <3>1
      <3>3. \A j \in 1..2 : m[j] \in 1..2
        BY <1>5
      <3> QED BY <1>5, <3>2, <3>3
    <2> QED BY <1>2, <1>5, <2>1, <2>2, <2>3 DEF Mates
  <1> QED BY <1>2, <1>4, <1>7 DEF c

\* A ring is taken out.
LEMMA Drop ==
    ASSUME NEW links, NEW c, NEW R, NEW P, Rings(links, c, R, P), NEW x \in R
    PROVE  /\ Rings(links, [y \in R \ {x} |-> c[y]], R \ {x}, P \ Elems(c[x]))
           /\ Run(links, c[x])
  <1> DEFINE b == [y \in R \ {x} |-> c[y]]
             Q == P \ Elems(c[x])
  <1>1. /\ links \in LinkType /\ P \subseteq Places
        /\ \A y \in R : Ring(links, y, c[y])
        /\ \A y \in R : \A k \in 1..Len(c[y]) : c[y][k] \in P
        /\ \A y, z \in R : \A k \in 1..Len(c[y]), l \in 1..Len(c[z]) : c[y][k] = c[z][l] => y = z
        /\ \A i \in P : \E y \in R : \E k \in 1..Len(c[y]) : c[y][k] = i
    BY DEF Rings
  <1>2. DOMAIN b = R \ {x} /\ \A y \in R \ {x} : b[y] = c[y]
    OBVIOUS
  <1> HIDE DEF b
  <1>3. ASSUME NEW y \in R \ {x}, NEW k \in 1..Len(b[y]) PROVE b[y][k] \in Q
    <2>1. b[y] = c[y] /\ c[y][k] \in P
      BY <1>1, <1>2, <1>3
    <2>2. ASSUME NEW l \in 1..Len(c[x]), c[x][l] = c[y][k] PROVE FALSE
      BY <1>1, <2>1, <2>2
    <2> QED BY <2>1, <2>2 DEF Elems
  <1>4. ASSUME NEW i \in Q PROVE \E y \in R \ {x} : \E k \in 1..Len(b[y]) : b[y][k] = i
    <2>1. PICK y \in R : \E k \in 1..Len(c[y]) : c[y][k] = i
      BY <1>1
    <2>2. y # x
      BY <2>1 DEF Elems
    <2> QED BY <1>2, <2>1, <2>2
  <1>5. Run(links, c[x])
    BY <1>1 DEF Ring
  <1>6. \A y, z \in R \ {x} : \A k \in 1..Len(b[y]), l \in 1..Len(b[z]) : b[y][k] = b[z][l] => y = z
    BY <1>1, <1>2
  <1>7. \A y \in R \ {x} : Ring(links, y, b[y])
    BY <1>1, <1>2
  <1> HIDE DEF Q
  <1>8. Q \subseteq Places
    BY <1>1 DEF Q
  <1>9. Rings(links, b, R \ {x}, Q)
    BY <1>1, <1>2, <1>3, <1>4, <1>6, <1>7, <1>8 DEF Rings
  <1> QED BY <1>5, <1>9 DEF b, Q

\* A node that is linked to itself is a ring.
AdoptCase(links, c, R, P, n, new, b, Q) ==
    /\ Rings(links, c, R, P) /\ n \in Cells /\ n \notin R
    /\ << n, "leading" >> \notin P /\ << n, "trailing" >> \notin P
    /\ new = [links EXCEPT ![n] = SelfLinked(n)]
    /\ b = [y \in R \cup {n} |-> IF y = n THEN Pair(n) ELSE c[y]]
    /\ Q = P \cup Elems(Pair(n))

\* It can be added to the rings.
LEMMA Adopt ==
    ASSUME NEW links, NEW c, NEW R, NEW P, NEW n, NEW new, NEW b, NEW Q,
           AdoptCase(links, c, R, P, n, new, b, Q)
    PROVE  Rings(new, b, R \cup {n}, Q)
  <1> /\ Rings(links, c, R, P) /\ n \in Cells /\ n \notin R
      /\ << n, "leading" >> \notin P /\ << n, "trailing" >> \notin P
      /\ new = [links EXCEPT ![n] = SelfLinked(n)]
      /\ b = [y \in R \cup {n} |-> IF y = n THEN Pair(n) ELSE c[y]]
      /\ Q = P \cup Elems(Pair(n))
    BY DEF AdoptCase
  <1> DEFINE S == R \cup {n}
  <1>1. /\ links \in LinkType /\ P \subseteq Places
        /\ \A y \in R : Ring(links, y, c[y]) /\ Len(c[y]) \in Nat /\ Len(c[y]) >= 2
        /\ \A y \in R : \A k \in 1..Len(c[y]) : c[y][k] \in P /\ c[y][k] \in Places
        /\ \A y, z \in R : \A k \in 1..Len(c[y]), l \in 1..Len(c[z]) : c[y][k] = c[z][l] => y = z
    BY AllRings
  <1>2. \A i \in P : \E y \in R : \E k \in 1..Len(c[y]) : c[y][k] = i
    BY DEF Rings
  <1>3. DOMAIN b = S /\ b[n] = Pair(n) /\ \A y \in R : b[y] = c[y]
    OBVIOUS
  <1>4. /\ Pair(n) \in Seq(Places) /\ Len(Pair(n)) = 2
        /\ Pair(n)[1] = << n, "leading" >> /\ Pair(n)[2] = << n, "trailing" >>
        /\ Elems(Pair(n)) = {<< n, "leading" >>, << n, "trailing" >>}
        /\ \E m : Mates(Pair(n), m)
        /\ \A k \in 1..2 : k = 1 \/ k = 2
    BY PairFacts
  <1>5. /\ new \in LinkType
        /\ new[n] = SelfLinked(n)
        /\ \A y \in Cells : y # n => new[y] = links[y]
    <2>1. SelfLinked(n) \in [Edge -> [prior : Cells, next : Cells]]
      BY DEF SelfLinked, Edge
    <2> QED BY <1>1, <2>1 DEF LinkType
  <1>6. \A i \in Places : i \in P => i[1] # n /\ i[1] \in Cells
    <2> SUFFICES ASSUME NEW i \in Places, i \in P PROVE i[1] # n /\ i[1] \in Cells
      OBVIOUS
    <2>1. i[1] \in Cells /\ i[2] \in Edge /\ i = << i[1], i[2] >>
      BY PlaceFacts
    <2> QED BY <2>1 DEF Edge
  <1>7. ASSUME NEW y \in R PROVE Ring(new, y, c[y])
    <2>1. ASSUME NEW k \in 1..Len(c[y]), NEW l \in 1..Len(c[y]), Linked(links, c[y][k], c[y][l])
          PROVE  Linked(new, c[y][k], c[y][l])
      <3>1. new[c[y][k][1]] = links[c[y][k][1]] /\ new[c[y][l][1]] = links[c[y][l][1]]
        BY <1>1, <1>5, <1>6
      <3> QED BY <2>1, <3>1 DEF Linked
    <2>2. Unspoilt(links, new, c[y])
      BY <2>1 DEF Unspoilt
    <2> QED BY <1>1, <2>2, RingStays
  <1>8. Ring(new, n, Pair(n))
    <2>1. Linked(new, << n, "leading" >>, << n, "trailing" >>)
          /\ Linked(new, << n, "trailing" >>, << n, "leading" >>)
      BY <1>5 DEF Linked, SelfLinked
    <2>2. \A k \in 1..Len(Pair(n)) - 1 : Linked(new, Pair(n)[k], Pair(n)[k + 1])
      <3>1. \A k \in 1..Len(Pair(n)) - 1 : k = 1 /\ k + 1 = 2
        BY <1>4
      <3> QED BY <1>4, <2>1, <3>1
    <2>3. Run(new, Pair(n))
      BY <1>4, <2>2 DEF Run
    <2> QED BY <1>4, <2>1, <2>3 DEF Ring
  <1> HIDE DEF S
  <1>9. \A y \in S : y \in R \/ y = n
    BY DEF S
  <1>a. \A y \in S : Ring(new, y, b[y])
    BY <1>3, <1>7, <1>8, <1>9
  <1>b. \A y \in S : \A k \in 1..Len(b[y]) : b[y][k] \in Q
    BY <1>1, <1>3, <1>4, <1>9
  <1>c. ASSUME NEW i \in Q PROVE \E y \in S : \E k \in 1..Len(b[y]) : b[y][k] = i
    <2>1. CASE i \in P
      <3>1. PICK y \in R : \E k \in 1..Len(c[y]) : c[y][k] = i
        BY <1>2, <2>1
      <3> QED BY <1>3, <3>1 DEF S
    <2>2. CASE i \in Elems(Pair(n))
      <3>1. PICK k \in 1..Len(Pair(n)) : Pair(n)[k] = i
        BY <2>2 DEF Elems
      <3> QED BY <1>3, <3>1 DEF S
    <2> QED BY <2>1, <2>2
  <1>d. ASSUME NEW y \in S, NEW z \in S, NEW k \in 1..Len(b[y]), NEW l \in 1..Len(b[z]),
               b[y][k] = b[z][l]
        PROVE  y = z
    <2>1. \A u \in R : \A h \in 1..Len(b[u]) : b[u][h] \in P
      BY <1>1, <1>3
    <2>2. \A h \in 1..Len(b[n]) : b[n][h] \notin P
      <3>1. << n, "leading" >> \notin P /\ << n, "trailing" >> \notin P
        BY DEF Edge
      <3>2. \A h \in 1..Len(b[n]) : h = 1 \/ h = 2
        BY <1>3, <1>4
      <3> QED BY <1>3, <1>4, <3>1, <3>2
    <2>3. CASE y = n \/ z = n
      BY <1>9, <1>d, <2>1, <2>2, <2>3
    <2>4. CASE y \in R /\ z \in R
      BY <1>1, <1>3, <1>d, <2>4
    <2> QED BY <1>9, <2>3, <2>4
  <1>e. Q \subseteq Places
    <2>1. << n, "leading" >> \in Places /\ << n, "trailing" >> \in Places
      BY DEF Places, Edge
    <2> QED BY <1>1, <1>4, <2>1
    <1>f. Rings(new, b, S, Q)
    BY <1>3, <1>5, <1>a, <1>b, <1>c, <1>d, <1>e DEF Rings
  <1> QED BY <1>f DEF S

\* What p is, if e of n positions is put between the k-th and the next of the L positions of d.
PastedShape(d, e, L, n, k, p) ==
    /\ p[1] = d[1] /\ p[L + n] = d[L]
    /\ \A h \in 1..L + n - 1 :
          \/ \E g \in 1..L - 1 : g # k /\ p[h] = d[g] /\ p[h + 1] = d[g + 1]
          \/ p[h] = d[k] /\ p[h + 1] = e[1]
          \/ \E g \in 1..n - 1 : p[h] = e[g] /\ p[h + 1] = e[g + 1]
          \/ p[h] = e[n] /\ p[h + 1] = d[k + 1]
    /\ \A h \in 1..L + n : (\E l \in 1..L : p[h] = d[l]) \/ (\E l \in 1..n : p[h] = e[l])
    /\ \A l \in 1..L : \E h \in 1..L + n : p[h] = d[l]
    /\ \A l \in 1..n : \E h \in 1..L + n : p[h] = e[l]

\* What is next to what, once something is put in between.
LEMMA PastedAt ==
    ASSUME NEW d, NEW e, NEW L \in Nat, L = Len(d), NEW n \in Nat, n = Len(e), NEW k \in 1..L - 1, n >= 1,
           NEW p, p = Pasted(d, k, e)
    PROVE  PastedShape(d, e, L, n, k, p)
  <1>1. \A h \in 1..L + n : p[h] = IF h <= k THEN d[h] ELSE IF h <= k + n THEN e[h - k] ELSE d[h - n]
    BY DEF Pasted
  <1>2. \A h \in 1..L + n : h <= k => p[h] = d[h]
    BY <1>1
  <1>3. \A h \in 1..L + n, g \in 1..n : h = g + k => p[h] = e[g]
    <2> SUFFICES ASSUME NEW h \in 1..L + n, NEW g \in 1..n, h = g + k PROVE p[h] = e[g]
      OBVIOUS
    <2>1. ~(h <= k) /\ h <= k + n /\ h - k = g
      OBVIOUS
    <2>2. p[h] = e[h - k]
      BY <1>1, <2>1
    <2> QED BY <2>1, <2>2
  <1>4. \A h \in 1..L + n, g \in k + 1..L : h = g + n => p[h] = d[g]
    <2> SUFFICES ASSUME NEW h \in 1..L + n, NEW g \in k + 1..L, h = g + n PROVE p[h] = d[g]
      OBVIOUS
    <2>1. ~(h <= k) /\ ~(h <= k + n) /\ h - n = g
      OBVIOUS
    <2>2. p[h] = d[h - n]
      BY <1>1, <2>1
    <2> QED BY <2>1, <2>2
  <1> HIDE DEF Pasted
  <1>5. p[1] = d[1] /\ p[L + n] = d[L]
    <2>1. 1 \in 1..L + n /\ 1 <= k /\ L + n \in 1..L + n /\ L \in k + 1..L
      OBVIOUS
    <2> QED BY <1>2, <1>4, <2>1
  <1>6. ASSUME NEW h \in 1..L + n - 1
        PROVE  \/ \E g \in 1..L - 1 : g # k /\ p[h] = d[g] /\ p[h + 1] = d[g + 1]
               \/ p[h] = d[k] /\ p[h + 1] = e[1]
               \/ \E g \in 1..n - 1 : p[h] = e[g] /\ p[h + 1] = e[g + 1]
               \/ p[h] = e[n] /\ p[h + 1] = d[k + 1]
    <2> DEFINE i == h + 1
    <2>0. h \in 1..L + n /\ i \in 1..L + n /\ i = h + 1
      OBVIOUS
    <2> HIDE DEF i
    <2>1. CASE h < k
      <3>1. h <= k /\ i <= k /\ h \in 1..L - 1 /\ h # k
        BY <2>0, <2>1
      <3>2. p[h] = d[h] /\ p[i] = d[i]
        BY <1>2, <2>0, <3>1
      <3> QED BY <2>0, <3>1, <3>2 DEF i
    <2>2. CASE h = k
      <3>1. p[h] = d[k]
        BY <1>2, <2>0, <2>2
      <3>2. 1 \in 1..n /\ i = 1 + k
        BY <2>0, <2>2
      <3>3. p[i] = e[1]
        BY <1>3, <2>0, <3>2
      <3> QED BY <3>1, <3>3 DEF i
    <2>3. CASE h > k /\ h < k + n
      <3> DEFINE g == h - k
      <3>1. g \in 1..n - 1 /\ g \in 1..n /\ g + 1 \in 1..n /\ h = g + k /\ i = (g + 1) + k
        BY <2>0, <2>3
      <3> HIDE DEF g
      <3>2. p[h] = e[g] /\ p[i] = e[g + 1]
        BY <1>3, <2>0, <3>1
      <3> QED BY <3>1, <3>2 DEF i
    <2>4. CASE h = k + n
      <3>1. n \in 1..n /\ h = n + k /\ k + 1 \in k + 1..L /\ i = (k + 1) + n
        BY <2>0, <2>4
      <3>2. p[h] = e[n] /\ p[i] = d[k + 1]
        BY <1>3, <1>4, <2>0, <3>1
      <3> QED BY <3>2 DEF i
    <2>5. CASE h > k + n
      <3> DEFINE g == h - n
      <3>1. /\ g \in 1..L - 1 /\ g \in k + 1..L /\ g + 1 \in k + 1..L /\ g # k
            /\ h = g + n /\ i = (g + 1) + n
        BY <2>0, <2>5
      <3> HIDE DEF g
      <3>2. p[h] = d[g] /\ p[i] = d[g + 1]
        BY <1>4, <2>0, <3>1
      <3> QED BY <3>1, <3>2 DEF i
    <2>6. h < k \/ h = k \/ (h > k /\ h < k + n) \/ h = k + n \/ h > k + n
      OBVIOUS
    <2> QED BY <2>1, <2>2, <2>3, <2>4, <2>5, <2>6
  <1>7. ASSUME NEW h \in 1..L + n
        PROVE  (\E l \in 1..L : p[h] = d[l]) \/ (\E l \in 1..n : p[h] = e[l])
    <2>1. CASE h <= k
      <3>1. h \in 1..L
        BY <2>1
      <3> QED BY <1>2, <2>1, <3>1
    <2>2. CASE ~(h <= k) /\ h <= k + n
      <3>1. h - k \in 1..n /\ h = (h - k) + k
        BY <2>2
      <3> QED BY <1>3, <3>1
    <2>3. CASE ~(h <= k) /\ ~(h <= k + n)
      <3>1. h - n \in 1..L /\ h - n \in k + 1..L /\ h = (h - n) + n
        BY <2>3
      <3> QED BY <1>4, <3>1
    <2> QED BY <2>1, <2>2, <2>3
  <1>8. ASSUME NEW l \in 1..L PROVE \E h \in 1..L + n : p[h] = d[l]
    <2>1. CASE l <= k
      <3>1. l \in 1..L + n
        OBVIOUS
      <3> QED BY <1>2, <2>1, <3>1
    <2>2. CASE ~(l <= k)
      <3>1. l \in k + 1..L /\ l + n \in 1..L + n
        BY <2>2
      <3> QED BY <1>4, <3>1
    <2> QED BY <2>1, <2>2
  <1>9. ASSUME NEW l \in 1..n PROVE \E h \in 1..L + n : p[h] = e[l]
    <2>1. l + k \in 1..L + n
      OBVIOUS
    <2> QED BY <1>3, <2>1
  <1> QED BY <1>5, <1>6, <1>7, <1>8, <1>9 DEF PastedShape

Outside(e, P) == \A k \in 1..Len(e) : e[k] \notin P

\* What is cut is put between two positions of a ring.
PasteCase(links, c, R, P, x, e, k, l, mid, new, Q) ==
    /\ Rings(links, c, R, P) /\ x \in R
    /\ Run(links, e) /\ Len(e) >= 1 /\ Outside(e, P)
    /\ k \in 1..Len(c[x]) - 1 /\ l = k + 1
    /\ mid = set_next(links, c[x][k], e[1]) /\ new = set_next(mid, e[Len(e)], c[x][l])
    /\ Q = P \cup Elems(e)

PasteDone(c, R, x, e, k, new, Q) ==
    /\ Rings(new, [c EXCEPT ![x] = Pasted(c[x], k, e)], R, Q)
    /\ Len(Pasted(c[x], k, e)) = Len(c[x]) + Len(e)

\* Two calls of set_next put a closed sequence into a ring.
LEMMA Paste ==
    ASSUME NEW links, NEW c, NEW R, NEW P, NEW x, NEW e, NEW k, NEW r, NEW mid, NEW new, NEW Q,
           PasteCase(links, c, R, P, x, e, k, r, mid, new, Q)
    PROVE  PasteDone(c, R, x, e, k, new, Q)
  <1> /\ Rings(links, c, R, P) /\ x \in R
      /\ Run(links, e) /\ Len(e) >= 1 /\ Outside(e, P)
      /\ k \in 1..Len(c[x]) - 1 /\ r = k + 1
      /\ mid = set_next(links, c[x][k], e[1]) /\ new = set_next(mid, e[Len(e)], c[x][r])
      /\ Q = P \cup Elems(e)
    BY DEF PasteCase
  <1>0. /\ Ring(links, x, c[x]) /\ c[x] \in Seq(Places) /\ Len(c[x]) \in Nat /\ Len(c[x]) >= 2
        /\ c[x][1] = << x, "leading" >> /\ c[x][Len(c[x])] = << x, "trailing" >>
        /\ \A h \in 1..Len(c[x]) : c[x][h] \in P /\ c[x][h] \in Places
        /\ \A h, l \in 1..Len(c[x]) : c[x][h] = c[x][l] => h = l
    BY RingFacts
  <1> DEFINE o == c[x]
             L == Len(o)
             n == Len(e)
             d == Pasted(o, k, e)
             b == [c EXCEPT ![x] = d]
  <1>1. /\ links \in LinkType /\ P \subseteq Places /\ DOMAIN c = R
        /\ \A y \in R : Ring(links, y, c[y]) /\ Len(c[y]) \in Nat /\ Len(c[y]) >= 2
        /\ \A y \in R : \A h \in 1..Len(c[y]) : c[y][h] \in P /\ c[y][h] \in Places
        /\ \A y, z \in R : \A h \in 1..Len(c[y]), l \in 1..Len(c[z]) : c[y][h] = c[z][l] => y = z
    BY AllRings
  <1>2. \A i \in P : \E y \in R : \E h \in 1..Len(c[y]) : c[y][h] = i
    BY DEF Rings
  <1>3. /\ Ring(links, x, o) /\ o \in Seq(Places) /\ L \in Nat /\ L >= 2
        /\ o[1] = << x, "leading" >> /\ o[L] = << x, "trailing" >>
        /\ \A h \in 1..L : o[h] \in P /\ o[h] \in Places
        /\ \A h, l \in 1..L : o[h] = o[l] => h = l
    BY <1>0
  <1>4. /\ e \in Seq(Places) /\ n \in Nat /\ n >= 1
        /\ \A h \in 1..n - 1 : Linked(links, e[h], e[h + 1])
        /\ \A h, l \in 1..n : e[h] = e[l] => h = l
    BY DEF Run, Mates
  <1>5. \A h \in 1..n : e[h] \in Places /\ e[h] \notin P
    BY <1>4 DEF Outside
  <1>6. /\ \A h \in 1..L - 1 : Linked(links, o[h], o[h + 1])
        /\ Linked(links, o[L], o[1])
    BY <1>3 DEF Ring, Run
  <1>7. /\ d \in Seq(Places) /\ Len(d) = L + n
        /\ \E m : Mates(d, m)
    <2>1. PICK mo : Mates(o, mo)
      BY <1>3 DEF Ring, Run
    <2>2. PICK me : Mates(e, me)
      BY DEF Run
    <2>3. \A h \in 1..L, l \in 1..n : o[h] # e[l]
      BY <1>3, <1>5
    <2>4. k \in 1..L
      BY <1>3
    <2> HIDE DEF o
    <2> QED BY <1>3, <1>4, <2>1, <2>2, <2>3, <2>4, PastedMates DEF L, n
  <1>8. /\ d[1] = o[1] /\ d[L + n] = o[L]
        /\ \A h \in 1..L + n - 1 :
              \/ \E g \in 1..L - 1 : g # k /\ d[h] = o[g] /\ d[h + 1] = o[g + 1]
              \/ d[h] = o[k] /\ d[h + 1] = e[1]
              \/ \E g \in 1..n - 1 : d[h] = e[g] /\ d[h + 1] = e[g + 1]
              \/ d[h] = e[n] /\ d[h + 1] = o[k + 1]
        /\ \A h \in 1..L + n : (\E l \in 1..L : d[h] = o[l]) \/ (\E l \in 1..n : d[h] = e[l])
        /\ \A l \in 1..L : \E h \in 1..L + n : d[h] = o[l]
        /\ \A l \in 1..n : \E h \in 1..L + n : d[h] = e[l]
    <2>1. k \in 1..L - 1 /\ L \in Nat /\ n \in Nat /\ n >= 1 /\ L = Len(o) /\ n = Len(e)
      BY <1>3, <1>4
    <2>2. d = Pasted(o, k, e)
      OBVIOUS
    <2> HIDE DEF L, n, o, d
    <2>3. PastedShape(o, e, L, n, k, d)
      BY <2>1, <2>2, PastedAt
    <2> QED BY <2>3 DEF PastedShape
  <1> DEFINE from == o[k]
             to == o[k + 1]
  <1>9. /\ from \in Places /\ to \in Places /\ from \in P /\ to \in P /\ k \in 1..L /\ k + 1 \in 1..L
        /\ 1 \in 1..n /\ n \in 1..n /\ e[1] \in Places /\ e[n] \in Places
    <2>1. k \in 1..L /\ k + 1 \in 1..L /\ 1 \in 1..n /\ n \in 1..n
      BY <1>3, <1>4
    <2> QED BY <1>3, <1>5, <2>1
  <1> HIDE DEF from, to, d, n, L, o
  <1>a. /\ mid \in LinkType /\ Linked(mid, from, e[1])
        /\ \A p, q \in Places : p # from /\ q # e[1] => (Linked(mid, p, q) <=> Linked(links, p, q))
    <2>1. mid = set_next(links, from, e[1])
      BY DEF from, o
    <2>2. links \in LinkType /\ from \in Places /\ e[1] \in Places
      BY <1>1, <1>9
    <2> DEFINE j == e[1]
    <2> HIDE DEF j
    <2>3. mid = set_next(links, from, j) /\ j \in Places
      BY <2>1, <2>2 DEF j
    <2>4. Relinked(links, mid, from, j)
      BY <2>2, <2>3, Relink
    <2> QED BY <2>4 DEF j, Relinked
  <1>b. /\ new \in LinkType /\ Linked(new, e[n], to)
        /\ \A p, q \in Places : p # e[n] /\ q # to => (Linked(new, p, q) <=> Linked(mid, p, q))
    <2>1. new = set_next(mid, e[n], to)
      BY DEF to, o, n
    <2> DEFINE i == e[n]
    <2> HIDE DEF i
    <2>2. new = set_next(mid, i, to) /\ i \in Places /\ to \in Places /\ mid \in LinkType
      BY <1>9, <1>a, <2>1 DEF i
    <2>3. /\ new \in LinkType /\ Linked(new, i, to)
          /\ \A p, q \in Places : p # i /\ q # to => (Linked(new, p, q) <=> Linked(mid, p, q))
      <3>1. Relinked(mid, new, i, to)
        BY <2>2, Relink
      <3> QED BY <3>1 DEF Relinked
    <2> QED BY <2>3 DEF i
  <1>c. Linked(new, from, e[1]) /\ Linked(new, e[n], to)
    <2>1. from # e[n] /\ e[1] # to
      BY <1>5, <1>9
    <2> QED BY <1>9, <1>a, <1>b, <2>1
  <1>d. \A p, q \in Places : p # from /\ q # e[1] /\ p # e[n] /\ q # to /\ Linked(links, p, q) =>
            Linked(new, p, q)
    BY <1>a, <1>b
  <1>e. ASSUME NEW y \in R \ {x} PROVE Ring(new, y, c[y])
    <2>1. \A h \in 1..Len(c[y]) : /\ c[y][h] \in Places /\ c[y][h] # from /\ c[y][h] # to
                                  /\ c[y][h] # e[1] /\ c[y][h] # e[n]
      <3>1. ASSUME NEW h \in 1..Len(c[y]) PROVE c[y][h] # from /\ c[y][h] # to
        BY <1>1, <1>9 DEF from, to, o, L
      <3> QED BY <1>1, <1>5, <1>9, <3>1
    <2>2. Unspoilt(links, new, c[y])
      BY <1>d, <2>1 DEF Unspoilt
    <2> QED BY <1>1, <2>2, RingStays
  <1>f. \A h \in 1..L + n - 1 : Linked(new, d[h], d[h + 1])
    <2> SUFFICES ASSUME NEW h \in 1..L + n - 1 PROVE Linked(new, d[h], d[h + 1])
      OBVIOUS
    <2>1. ASSUME NEW g \in 1..L - 1, g # k PROVE Linked(new, o[g], o[g + 1])
      <3>1. g \in 1..L /\ g + 1 \in 1..L /\ g + 1 # k + 1
        BY <1>3, <1>9, <2>1
      <3>2. o[g] # from /\ o[g + 1] # to /\ o[g + 1] # e[1] /\ o[g] # e[n]
        BY <1>3, <1>5, <1>9, <2>1, <3>1 DEF from, to
      <3> QED BY <1>3, <1>6, <1>d, <3>1, <3>2
    <2>2. ASSUME NEW g \in 1..n - 1 PROVE Linked(new, e[g], e[g + 1])
      <3>1. g \in 1..n /\ g + 1 \in 1..n /\ g # n /\ g + 1 # 1
        BY <1>4
      <3>2. e[g] # from /\ e[g + 1] # to /\ e[g + 1] # e[1] /\ e[g] # e[n]
        BY <1>4, <1>5, <1>9, <3>1
      <3> QED BY <1>4, <1>5, <1>d, <3>1, <3>2
    <2>3. \/ \E g \in 1..L - 1 : g # k /\ d[h] = o[g] /\ d[h + 1] = o[g + 1]
          \/ d[h] = from /\ d[h + 1] = e[1]
          \/ \E g \in 1..n - 1 : d[h] = e[g] /\ d[h + 1] = e[g + 1]
          \/ d[h] = e[n] /\ d[h + 1] = to
      BY <1>8 DEF from, to
    <2> QED BY <1>c, <2>1, <2>2, <2>3
  <1>g. d[1] = o[1] /\ d[L + n] = o[L]
    BY <1>8
  <1>h. Linked(new, o[L], o[1])
    <2>1. 1 \in 1..L /\ L \in 1..L /\ L # k /\ 1 # k + 1
      BY <1>3, <1>9 DEF L, o
    <2>2. o[L] # from /\ o[1] # to /\ o[L] # e[n] /\ o[1] # e[1]
      BY <1>3, <1>5, <1>9, <2>1 DEF from, to
    <2> QED BY <1>3, <1>6, <1>d, <2>1, <2>2
  <1>i. Ring(new, x, d)
    <2>1. Run(new, d)
      <3>1. \A h \in 1..Len(d) - 1 : Linked(new, d[h], d[h + 1])
        <4>1. Len(d) - 1 = L + n - 1
          BY <1>3, <1>4, <1>7 DEF L, n, o
        <4> QED BY <1>f, <4>1
      <3> QED BY <1>7, <3>1 DEF Run
    <2>2. Len(d) >= 2
      BY <1>3, <1>4, <1>7
    <2> QED BY <1>3, <1>7, <1>g, <1>h, <2>1, <2>2 DEF Ring
  <1>j. DOMAIN b = R /\ b[x] = d /\ \A y \in R \ {x} : b[y] = c[y]
    BY <1>1
  <1> HIDE DEF b
  <1>k. \A y \in R : Ring(new, y, b[y])
    BY <1>e, <1>i, <1>j
  <1>o. ASSUME NEW y \in R, NEW h \in 1..Len(b[y])
        PROVE  (\E l \in 1..Len(c[y]) : b[y][h] = c[y][l]) \/ (y = x /\ b[y][h] \in Elems(e))
    <2>1. CASE y = x
      <3>1. b[y] = d /\ h \in 1..L + n
        BY <1>7, <1>j, <2>1
      <3> QED BY <1>8, <2>1, <3>1 DEF Elems, L, n, o
    <2>2. CASE y # x
      BY <1>j, <2>2
    <2> QED BY <2>1, <2>2
  <1>p. \A y \in R : \A h \in 1..Len(b[y]) : b[y][h] \in Q
    BY <1>1, <1>o
  <1>q. ASSUME NEW i \in Q PROVE \E y \in R : \E h \in 1..Len(b[y]) : b[y][h] = i
    <2>1. CASE i \in P
      <3>1. PICK y \in R : \E l \in 1..Len(c[y]) : c[y][l] = i
        BY <1>2, <2>1
      <3>2. CASE y = x
        <4>1. PICK l \in 1..L : o[l] = i
          BY <3>1, <3>2 DEF o, L
        <4>2. PICK h \in 1..L + n : d[h] = i
          BY <1>8, <4>1
        <4> QED BY <1>7, <1>j, <3>2, <4>2
      <3>3. CASE y # x
        BY <1>j, <3>1, <3>3
      <3> QED BY <3>2, <3>3
    <2>2. CASE i \in Elems(e)
      BY <1>7, <1>8, <1>j, <2>2 DEF Elems, n
    <2> QED BY <2>1, <2>2
  <1>r. ASSUME NEW y \in R, NEW z \in R, NEW h \in 1..Len(b[y]), NEW l \in 1..Len(b[z]),
               b[y][h] = b[z][l]
        PROVE  y = z
    <2>1. \A i \in Elems(e) : i \notin P
      BY <1>5 DEF Elems, n
    <2>2. \A u \in R : \A g \in 1..Len(c[u]) : c[u][g] \in P
      BY <1>1
    <2>3. (\E g \in 1..Len(c[y]) : b[y][h] = c[y][g]) \/ (y = x /\ b[y][h] \in Elems(e))
      BY <1>o
    <2>4. (\E g \in 1..Len(c[z]) : b[z][l] = c[z][g]) \/ (z = x /\ b[z][l] \in Elems(e))
      BY <1>o
    <2>5. CASE y = x /\ z = x
      BY <2>5
    <2>6. CASE (\E g \in 1..Len(c[y]) : b[y][h] = c[y][g]) /\ (\E g \in 1..Len(c[z]) : b[z][l] = c[z][g])
      BY <1>1, <1>r, <2>6
    <2> QED BY <1>r, <2>1, <2>2, <2>3, <2>4, <2>5, <2>6
  <1>s. Q \subseteq Places
    BY <1>1, <1>5 DEF Elems, n
  <1>t. Rings(new, b, R, Q)
    BY <1>b, <1>j, <1>k, <1>p, <1>q, <1>r, <1>s DEF Rings
  <1> QED BY <1>7, <1>t DEF b, d, L, o, n, PasteDone

\* The indices but p and q.
Skips(p, q, n) == [k \in 1..n |-> IF k < p THEN k ELSE IF k < q - 1 THEN k + 1 ELSE k + 2]

\* at are the n indices up to L that are not p and q.
SkipShape(at, n, L, p, q) ==
    /\ n \in Nat /\ n >= 2 /\ at \in [1..n -> 1..L] /\ at[1] = 1 /\ at[n] = L
    /\ \A k, l \in 1..n : k < l => at[k] < at[l]
    /\ \A k \in 1..n : at[k] # p /\ at[k] # q
    /\ \A k \in 1..L : k # p /\ k # q => \E l \in 1..n : at[l] = k
    /\ \A k \in 1..n - 1 : \/ at[k + 1] = at[k] + 1
                           \/ at[k] = p - 1 /\ at[k + 1] = p + 1 /\ q # p + 1
                           \/ at[k] = q - 1 /\ at[k + 1] = q + 1 /\ q # p + 1
                           \/ at[k] = p - 1 /\ at[k + 1] = q + 1 /\ q = p + 1

\* Two positions are skipped, the others keep their order.
LEMMA SkipFacts ==
    ASSUME NEW L \in Nat, NEW p \in Nat, NEW q \in Nat, 1 < p, p < q, q < L,
           NEW n, n = L - 2, NEW at, at = Skips(p, q, n)
    PROVE  SkipShape(at, n, L, p, q)
  <1>1. n \in Nat /\ n >= 2
    OBVIOUS
  <1>2. \A k \in 1..n : at[k] = IF k < p THEN k ELSE IF k < q - 1 THEN k + 1 ELSE k + 2
    BY DEF Skips
  <1>3. \A k \in 1..n : (IF k < p THEN k ELSE IF k < q - 1 THEN k + 1 ELSE k + 2) \in 1..L
    OBVIOUS
  <1>4. at \in [1..n -> 1..L]
    BY <1>3 DEF Skips
  <1> HIDE DEF Skips
  <1>5. at[1] = 1 /\ at[n] = L
    <2>1. 1 \in 1..n /\ n \in 1..n /\ ~(n < p) /\ ~(n < q - 1) /\ n + 2 = L
      OBVIOUS
    <2> QED BY <1>2, <2>1
  <1>6. ASSUME NEW k \in 1..n, NEW l \in 1..n, k < l PROVE at[k] < at[l]
    BY <1>2, <1>6
  <1>7. ASSUME NEW k \in 1..n PROVE at[k] # p /\ at[k] # q
    BY <1>2
  <1>8. ASSUME NEW k \in 1..L, k # p, k # q PROVE \E l \in 1..n : at[l] = k
    <2> DEFINE l == IF k < p THEN k ELSE IF k < q THEN k - 1 ELSE k - 2
    <2>1. l \in 1..n
      BY <1>8
    <2>2. (IF l < p THEN l ELSE IF l < q - 1 THEN l + 1 ELSE l + 2) = k
      BY <1>8
    <2> HIDE DEF l
    <2> QED BY <1>2, <2>1, <2>2
  <1>9. ASSUME NEW k \in 1..n - 1
        PROVE  \/ at[k + 1] = at[k] + 1
               \/ at[k] = p - 1 /\ at[k + 1] = p + 1 /\ q # p + 1
               \/ at[k] = q - 1 /\ at[k + 1] = q + 1 /\ q # p + 1
               \/ at[k] = p - 1 /\ at[k + 1] = q + 1 /\ q = p + 1
    <2> DEFINE i == k + 1
    <2>1. i = k + 1 /\ i \in 1..n /\ k \in 1..n
      OBVIOUS
    <2> HIDE DEF i
    <2>2. /\ at[k] = IF k < p THEN k ELSE IF k < q - 1 THEN k + 1 ELSE k + 2
          /\ at[i] = IF i < p THEN i ELSE IF i < q - 1 THEN i + 1 ELSE i + 2
      BY <1>2, <2>1
    <2>3. \/ at[i] = at[k] + 1
          \/ at[k] = p - 1 /\ at[i] = p + 1 /\ q # p + 1
          \/ at[k] = q - 1 /\ at[i] = q + 1 /\ q # p + 1
          \/ at[k] = p - 1 /\ at[i] = q + 1 /\ q = p + 1
      BY <2>1, <2>2
    <2> QED BY <2>3 DEF i
  <1> QED BY <1>1, <1>4, <1>5, <1>6, <1>7, <1>8, <1>9 DEF SkipShape

\* A node in a ring is unlinked; what is below it takes its place.
UnlinkCase(links, c, R, P, x, m, p, i, new, n, d) ==
    /\ Rings(links, c, R, P) /\ x \in R /\ Mates(c[x], m)
    /\ p \in 2..Len(c[x]) - 1 /\ is_leading(c[x][p])
    /\ i \in Places /\ i[1] = c[x][p][1]
    /\ new = unlink(links, i)
    /\ n = Len(c[x]) - 2 /\ d = Along(c[x], Skips(p, m[p], n), n)

UnlinkDone(c, R, P, x, m, p, i, new, n, d) ==
    /\ Rings(new, [c EXCEPT ![x] = d], R, P \ {<< i[1], "leading" >>, << i[1], "trailing" >>})
    /\ n \in Nat /\ n >= 2 /\ d \in Seq(Places) /\ Len(d) = n
    /\ m[p] \in p + 1..Len(c[x]) - 1

\* unlink() takes a node out of its ring, and leaves what is below it there.
LEMMA Unlinked ==
    ASSUME NEW links, NEW c, NEW R, NEW P, NEW x, NEW m, NEW p, NEW i, NEW new, NEW n, NEW d,
           UnlinkCase(links, c, R, P, x, m, p, i, new, n, d)
    PROVE  UnlinkDone(c, R, P, x, m, p, i, new, n, d)
  <1> /\ Rings(links, c, R, P) /\ x \in R /\ Mates(c[x], m)
      /\ p \in 2..Len(c[x]) - 1 /\ is_leading(c[x][p])
      /\ i \in Places /\ i[1] = c[x][p][1]
      /\ new = unlink(links, i)
      /\ n = Len(c[x]) - 2 /\ d = Along(c[x], Skips(p, m[p], n), n)
    BY DEF UnlinkCase
  <1>0. /\ Ring(links, x, c[x]) /\ c[x] \in Seq(Places) /\ Len(c[x]) \in Nat /\ Len(c[x]) >= 2
        /\ links \in LinkType /\ x \in Cells
        /\ c[x][1] = << x, "leading" >> /\ c[x][Len(c[x])] = << x, "trailing" >>
        /\ \A h \in 1..Len(c[x]) : c[x][h] \in P /\ c[x][h] \in Places
        /\ \A h, l \in 1..Len(c[x]) : c[x][h] = c[x][l] => h = l
    BY RingFacts
  <1> DEFINE o == c[x]
             L == Len(o)
             q == m[p]
             at == Skips(p, q, n)
  <1>1. L \in Nat /\ p \in Nat /\ 1 < p /\ p < L /\ p \in 1..L
    BY <1>0
  <1>2. /\ q \in 1..L /\ m[q] = p /\ p < q
        /\ o[q] = pivot_of(o[p])
        /\ \A l \in 1..L : o[l][1] = o[p][1] => l = p \/ l = q
    BY <1>0, <1>1, MateOf
  <1>3. q < L /\ q \in Nat
    <2>1. 1 \in 1..L /\ L \in 1..L
      BY <1>1
    <2>2. o[1][1] = o[L][1]
      BY <1>0
    <2>3. q # L
      <3> SUFFICES ASSUME q = L PROVE FALSE
        OBVIOUS
      <3>1. o[1][1] = o[L][1] /\ o[L][1] = o[p][1]
        <4>1. o[p] \in Places
          BY <1>0, <1>1
        <4>2. pivot_of(o[p])[1] = o[p][1]
          BY <4>1, PlaceFacts
        <4> QED BY <1>2, <2>2, <4>2
      <3>2. 1 = p \/ 1 = q
        BY <1>2, <2>1, <3>1
      <3> QED BY <1>1, <1>2, <3>2
    <2> QED BY <1>1, <1>2, <2>3
  <1>4. o[p] = << i[1], "leading" >> /\ o[q] = << i[1], "trailing" >>
    <2>1. o[p] \in Places /\ o[p] = << o[p][1], o[p][2] >> /\ o[p][2] = "leading"
      BY <1>0, <1>1, PlaceFacts DEF is_leading
    <2> QED BY <1>2, <2>1 DEF pivot_of, pivot
  <1> DEFINE pp == o[p - 1]
             pn == o[p + 1]
             qp == o[q - 1]
             qn == o[q + 1]
  <1>5. /\ p - 1 \in 1..L /\ p + 1 \in 1..L /\ q - 1 \in 1..L /\ q + 1 \in 1..L
        /\ p - 1 \in 1..L - 1 /\ p \in 1..L - 1 /\ q - 1 \in 1..L - 1 /\ q \in 1..L - 1
    BY <1>1, <1>2, <1>3
  <1>6. /\ prior(links, o[p]) = pp /\ next(links, o[p]) = pn
        /\ prior(links, o[q]) = qp /\ next(links, o[q]) = qn
    <2>1. \A k \in 1..L - 1 : next(links, o[k]) = o[k + 1] /\ prior(links, o[k + 1]) = o[k]
      BY <1>0, Around
    <2>2. (p - 1) + 1 = p /\ (q - 1) + 1 = q
      BY <1>1, <1>3
    <2>3. prior(links, o[(p - 1) + 1]) = o[p - 1] /\ prior(links, o[(q - 1) + 1]) = o[q - 1]
      BY <1>5, <2>1
    <2> QED BY <1>5, <2>1, <2>2, <2>3
  <1>7. /\ pp \in Places /\ pn \in Places /\ qp \in Places /\ qn \in Places
        /\ pp # qp /\ pn # qn
    <2>1. p - 1 # q - 1 /\ p + 1 # q + 1
      BY <1>1, <1>2, <1>3
    <2> QED BY <1>0, <1>5, <2>1
  <1> HIDE DEF pp, pn, qp, qn
  <1>8. leading_of(i) = o[p] /\ trailing_of(i) = o[q]
    BY <1>4 DEF leading_of, trailing_of
  <1>9. has_children(links, i) <=> q # p + 1
    <2>1. has_children(links, i) <=> o[p][1] # pn[1]
      BY <1>6, <1>8 DEF has_children, equal_node
    <2>2. o[p][1] = pn[1] <=> q = p + 1
      <3>1. ASSUME q = p + 1 PROVE o[p][1] = pn[1]
        BY <1>4, <3>1 DEF pn
      <3>2. ASSUME o[p][1] = pn[1] PROVE q = p + 1
        <4>1. p + 1 = p \/ p + 1 = q
          BY <1>2, <1>5, <3>2 DEF pn
        <4> QED BY <1>1, <4>1
      <3> QED BY <3>1, <3>2
    <2> QED BY <2>1, <2>2
  <1>a. IF q # p + 1 THEN new = set_next(set_next(links, pp, pn), qp, qn)
        ELSE new = set_next(links, pp, qn)
    BY <1>6, <1>8, <1>9 DEF unlink
  <1> HIDE DEF o, q
  <1>b. /\ new \in LinkType
        /\ IF q # p + 1 THEN Linked(new, pp, pn) /\ Linked(new, qp, qn) ELSE Linked(new, pp, qn)
        /\ \A a, b \in Places : a # pp /\ a # qp /\ b # pn /\ b # qn /\ Linked(links, a, b) =>
              Linked(new, a, b)
    <2>1. CASE q # p + 1
      <3> DEFINE mid == set_next(links, pp, pn)
      <3>1. mid = set_next(links, pp, pn) /\ new = set_next(mid, qp, qn)
        BY <1>a, <2>1
      <3> HIDE DEF mid
      <3>2. /\ mid \in LinkType /\ Linked(mid, pp, pn)
            /\ \A a, b \in Places : a # pp /\ b # pn => (Linked(mid, a, b) <=> Linked(links, a, b))
        <4>1. Relinked(links, mid, pp, pn)
          BY <1>0, <1>7, <3>1, Relink
        <4> QED BY <4>1 DEF Relinked
      <3>3. /\ new \in LinkType /\ Linked(new, qp, qn)
            /\ \A a, b \in Places : a # qp /\ b # qn => (Linked(new, a, b) <=> Linked(mid, a, b))
        <4>1. Relinked(mid, new, qp, qn)
          BY <1>7, <3>1, <3>2, Relink
        <4> QED BY <4>1 DEF Relinked
      <3>4. Linked(new, pp, pn)
        BY <1>7, <3>2, <3>3
      <3> QED BY <2>1, <3>2, <3>3, <3>4
    <2>2. CASE q = p + 1
      <3>1. new = set_next(links, pp, qn)
        BY <1>a, <2>2
      <3>2. /\ new \in LinkType /\ Linked(new, pp, qn)
            /\ \A a, b \in Places : a # pp /\ b # qn => (Linked(new, a, b) <=> Linked(links, a, b))
        <4>1. Relinked(links, new, pp, qn)
          BY <1>0, <1>7, <3>1, Relink
        <4> QED BY <4>1 DEF Relinked
      <3> QED BY <2>2, <3>2
    <2> QED BY <2>1, <2>2
  <1>c. /\ n \in Nat /\ n >= 2 /\ at \in [1..n -> 1..L] /\ at[1] = 1 /\ at[n] = L
        /\ \A k, l \in 1..n : k < l => at[k] < at[l]
        /\ \A k \in 1..n : at[k] # p /\ at[k] # q
        /\ \A k \in 1..L : k # p /\ k # q => \E l \in 1..n : at[l] = k
        /\ \A k \in 1..n - 1 : \/ at[k + 1] = at[k] + 1
                               \/ at[k] = p - 1 /\ at[k + 1] = p + 1 /\ q # p + 1
                               \/ at[k] = q - 1 /\ at[k + 1] = q + 1 /\ q # p + 1
                               \/ at[k] = p - 1 /\ at[k + 1] = q + 1 /\ q = p + 1
    <2>1. n = L - 2
      BY DEF L, o
    <2>2. L \in Nat /\ p \in Nat /\ q \in Nat /\ 1 < p /\ p < q /\ q < L
      BY <1>1, <1>2, <1>3
    <2>3. at = Skips(p, q, n)
      OBVIOUS
    <2> HIDE DEF L, at
    <2>4. SkipShape(at, n, L, p, q)
      BY <2>1, <2>2, <2>3, SkipFacts
    <2> QED BY <2>4 DEF SkipShape
  <1> HIDE DEF at, L
  <1>d. Thins(at, n, L, m)
    <2>1. ASSUME NEW k \in 1..n PROVE \E l \in 1..n : at[l] = m[at[k]]
      <3>1. at[k] \in 1..L /\ at[k] # p /\ at[k] # q
        BY <1>c
      <3>2. m[at[k]] \in 1..L /\ m[m[at[k]]] = at[k]
        BY <1>0, <3>1, MateOf DEF L, o
      <3>3. m[at[k]] # p /\ m[at[k]] # q
        BY <1>2, <3>1, <3>2 DEF q
      <3> QED BY <1>c, <3>2, <3>3
    <2> QED BY <1>c, <2>1 DEF Thins
  <1>e. /\ \A k \in 1..L - 1 : Linked(links, o[k], o[k + 1])
        /\ Linked(links, o[L], o[1])
    BY <1>0 DEF Ring, Run, L, o
  <1>f. \A k \in 1..n : d[k] = o[at[k]]
    BY DEF Along, o, at, q
  <1>g. \A k, l \in 1..L : k # p - 1 /\ k # q - 1 /\ l # p + 1 /\ l # q + 1 /\ Linked(links, o[k], o[l]) =>
            Linked(new, o[k], o[l])
    <2> SUFFICES ASSUME NEW k \in 1..L, NEW l \in 1..L, k # p - 1, k # q - 1, l # p + 1, l # q + 1,
                        Linked(links, o[k], o[l])
                 PROVE  Linked(new, o[k], o[l])
      OBVIOUS
    <2>1. o[k] \in Places /\ o[l] \in Places
      BY <1>0 DEF L, o
    <2>2. o[k] # pp /\ o[k] # qp /\ o[l] # pn /\ o[l] # qn
      BY <1>0, <1>5 DEF L, o, pp, qp, pn, qn
    <2> QED BY <1>b, <2>1, <2>2
  <1>h. ASSUME NEW k \in 1..n - 1 PROVE Linked(new, d[k], d[k + 1])
    <2>1. k \in 1..n /\ k + 1 \in 1..n
      BY <1>c
    <2>2. d[k] = o[at[k]] /\ d[k + 1] = o[at[k + 1]]
      BY <1>f, <2>1
    <2>3. at[k] \in 1..L /\ at[k + 1] \in 1..L /\ at[k] # p /\ at[k] # q /\ at[k + 1] # p /\ at[k + 1] # q
      BY <1>c, <2>1
    <2>4. CASE at[k + 1] = at[k] + 1
      <3> DEFINE j == at[k]
                 g == at[k + 1]
      <3>1. g = j + 1 /\ j \in 1..L /\ g \in 1..L /\ j # p /\ j # q /\ g # p /\ g # q
        BY <2>3, <2>4
      <3> HIDE DEF j, g
      <3>2. j \in 1..L - 1 /\ j # p - 1 /\ j # q - 1 /\ g # p + 1 /\ g # q + 1
        BY <1>1, <1>3, <3>1
      <3>3. Linked(links, o[j], o[g])
        BY <1>e, <3>1, <3>2
      <3>4. Linked(new, o[j], o[g])
        BY <1>g, <3>1, <3>2, <3>3
      <3> QED BY <2>2, <3>4 DEF j, g
    <2>5. CASE at[k] = p - 1 /\ at[k + 1] = p + 1 /\ q # p + 1
      BY <1>b, <2>2, <2>5 DEF pp, pn
    <2>6. CASE at[k] = q - 1 /\ at[k + 1] = q + 1 /\ q # p + 1
      BY <1>b, <2>2, <2>6 DEF qp, qn
    <2>7. CASE at[k] = p - 1 /\ at[k + 1] = q + 1 /\ q = p + 1
      BY <1>b, <2>2, <2>7 DEF pp, qn
    <2> QED BY <1>c, <2>4, <2>5, <2>6, <2>7
  <1>i. Linked(new, o[L], o[1])
    <2>1. 1 \in 1..L /\ L \in 1..L /\ L # p - 1 /\ L # q - 1 /\ 1 # p + 1 /\ 1 # q + 1
      BY <1>1, <1>2, <1>3
    <2> QED BY <1>e, <1>g, <2>1
  <1>j. ASSUME NEW y \in R \ {x} PROVE Unspoilt(links, new, c[y])
    <2> SUFFICES ASSUME NEW k \in 1..Len(c[y]), NEW l \in 1..Len(c[y]), Linked(links, c[y][k], c[y][l])
                 PROVE  Linked(new, c[y][k], c[y][l])
      BY DEF Unspoilt
    <2>0. \A h \in 1..L, g \in 1..Len(c[y]) : o[h] # c[y][g]
      <3>1. \A z \in R : \A h \in 1..Len(c[z]), g \in 1..Len(c[y]) : c[z][h] = c[y][g] => z = y
        BY DEF Rings
      <3> QED BY <3>1 DEF o, L
    <2>1. /\ c[y][k] # pp /\ c[y][k] # qp /\ c[y][l] # pn /\ c[y][l] # qn
      BY <1>5, <2>0 DEF pp, qp, pn, qn
    <2>2. c[y][k] \in Places /\ c[y][l] \in Places
      BY RingFacts
    <2> QED BY <1>b, <2>1, <2>2
  <1>k. Dropped(o, at, n) = {<< i[1], "leading" >>, << i[1], "trailing" >>}
    <2>1. ASSUME NEW k \in 1..L PROVE (\A l \in 1..n : at[l] # k) <=> k = p \/ k = q
      BY <1>c
    <2> DEFINE T == {k \in 1..L : \A l \in 1..n : at[l] # k}
    <2>2. \A k : k \in T <=> k = p \/ k = q
      BY <1>1, <1>2, <2>1
    <2> HIDE DEF T
    <2>3. {o[k] : k \in T} = {o[p], o[q]}
      BY <2>2
    <2> QED BY <1>4, <2>3 DEF Dropped, T, L
  <1>l. d \in Seq(Places) /\ Len(d) = n
    <2>1. o \in Seq(Places) /\ Mates(o, m) /\ Thins(at, n, Len(o), m)
      BY <1>0, <1>d DEF o, L
    <2>2. d = Along(o, at, n)
      BY DEF o, at, q
    <2> QED BY <2>1, <2>2, SubMates
  <1>m. Rings(new, [c EXCEPT ![x] = d], R, P \ Dropped(o, at, n))
    <2>1. Thins(at, n, Len(c[x]), m) /\ at[n] = Len(c[x]) /\ at[1] = 1 /\ n >= 2
      BY <1>c, <1>d DEF L, o
    <2>2. d = Along(c[x], at, n) /\ Linked(new, c[x][Len(c[x])], c[x][1])
      BY <1>i DEF L, o, at, q
    <2>3. new \in LinkType
      BY <1>b
    <2> DEFINE Q == P \ Dropped(o, at, n)
    <2>4. Q = P \ Dropped(c[x], at, n)
      BY DEF o
    <2> HIDE DEF Q
    <2>5. Rings(new, [c EXCEPT ![x] = d], R, Q)
      BY <1>h, <1>j, <2>1, <2>2, <2>3, <2>4, Shrunk
    <2> QED BY <2>5 DEF Q
  <1>n. m[p] \in p + 1..Len(c[x]) - 1
    BY <1>1, <1>2, <1>3 DEF q, L, o
  <1> QED BY <1>c, <1>k, <1>l, <1>m, <1>n DEF UnlinkDone

-----------------------------------------------------------------------------
(***************************************************************************)
(* Loops.                                                                  *)
(***************************************************************************)
\* A set of natural numbers has a least one.
LEMMA Least ==
    ASSUME NEW T, T \subseteq Nat, T # {}
    PROVE  \E m \in T : \A n \in T : m <= n
  <1>1. PICK m \in T : \A n \in T : << n, m >> \notin OpToRel(<, Nat)
    BY WFMin, NatLessThanWellFounded
  <1>2. \A n \in T : ~(n < m)
    BY <1>1 DEF OpToRel
  <1> QED BY <1>2

\* What is true at first and carries over is true up to the bound.
LEMMA UpTo ==
    ASSUME NEW B \in Nat, NEW T, 0 \in T, \A k \in 0..B - 1 : k \in T => k + 1 \in T
    PROVE  \A k \in 0..B : k \in T
  <1> SUFFICES ASSUME NEW j \in 0..B, j \notin T PROVE FALSE
    OBVIOUS
  <1> DEFINE U == {k \in 0..B : k \notin T}
  <1>1. U \subseteq Nat /\ U # {}
    OBVIOUS
  <1>2. PICK m \in U : \A n \in U : m <= n
    BY <1>1, Least
  <1>3. m \in Nat /\ m \in 0..B /\ m \notin T /\ m # 0
    OBVIOUS
  <1>4. m - 1 \in 0..B /\ m - 1 \in 0..B - 1
    BY <1>3
  <1>5. m - 1 \in T
    <2>1. ~(m <= m - 1)
      BY <1>3
    <2>2. m - 1 \notin U
      BY <1>2, <2>1
    <2> QED BY <1>4, <2>2
  <1>6. (m - 1) + 1 \in T
    BY <1>4, <1>5
  <1>7. (m - 1) + 1 = m
    BY <1>3
  <1> QED BY <1>3, <1>6, <1>7

\* g are the states a loop goes through.
Steps(S, F, start, B, g) ==
    g \in [0..B -> S] /\ g[0] = start /\ \A k \in 0..B - 1 : g[k + 1] = F[g[k]]

\* There are the states a step goes through.
LEMMA Iterate ==
    ASSUME NEW S, NEW F \in [S -> S], NEW start \in S, NEW B \in Nat
    PROVE  \E g : Steps(S, F, start, B, g)
  <1> DEFINE T == {n \in Nat : \E g : Steps(S, F, start, n, g)}
  <1>1. 0 \in T
    <2> DEFINE g == [k \in 0..0 |-> start]
    <2>1. g \in [0..0 -> S] /\ g[0] = start
      OBVIOUS
    <2>2. Steps(S, F, start, 0, g)
      BY <2>1 DEF Steps
    <2> QED BY <2>2
  <1>2. ASSUME NEW n \in 0..B - 1, n \in T PROVE n + 1 \in T
    <2>1. PICK g : Steps(S, F, start, n, g)
      BY <1>2
    <2>2. g \in [0..n -> S] /\ g[0] = start /\ \A k \in 0..n - 1 : g[k + 1] = F[g[k]]
      BY <2>1 DEF Steps
    <2> DEFINE N == n + 1
               h == [k \in 0..N |-> IF k <= n THEN g[k] ELSE F[g[n]]]
    <2>3. n \in Nat /\ N \in Nat /\ N = n + 1
      OBVIOUS
    <2>4. \A k \in 0..N : (IF k <= n THEN g[k] ELSE F[g[n]]) \in S
      BY <2>2, <2>3
    <2>5. h \in [0..N -> S]
      BY <2>4
    <2>6. \A k \in 0..N : (k <= n => h[k] = g[k]) /\ (~(k <= n) => h[k] = F[g[n]])
      OBVIOUS
    <2> HIDE DEF h, N
    <2>7. h[0] = start
      BY <2>2, <2>3, <2>6
    <2>8. ASSUME NEW k \in 0..N - 1 PROVE h[k + 1] = F[h[k]]
      <3> DEFINE j == k + 1
      <3>1. k \in 0..N /\ j \in 0..N /\ k <= n /\ j = k + 1
        BY <2>3
      <3> HIDE DEF j
      <3>2. h[k] = g[k]
        BY <2>6, <3>1
      <3>3. CASE j <= n
        <4>1. h[j] = g[j] /\ k \in 0..n - 1
          BY <2>3, <2>6, <3>1, <3>3
        <4>2. g[k + 1] = F[g[k]]
          BY <2>2, <4>1
        <4> QED BY <3>1, <3>2, <4>1, <4>2
      <3>4. CASE ~(j <= n)
        <4>1. k = n /\ h[j] = F[g[n]]
          BY <2>3, <2>6, <3>1, <3>4
        <4> QED BY <3>1, <3>2, <4>1
      <3> QED BY <3>3, <3>4
    <2>9. Steps(S, F, start, N, h)
      BY <2>5, <2>7, <2>8 DEF Steps
    <2> QED BY <2>3, <2>9 DEF N
  <1> HIDE DEF T
  <1>3. B \in T
    <2>1. B \in 0..B
      OBVIOUS
    <2> QED BY <1>1, <1>2, <2>1, UpTo
  <1> QED BY <1>3 DEF T

\* A loop in which the rank of the states decreases until it is done ends.
LEMMA Ends ==
    ASSUME NEW S, NEW F \in [S -> S], NEW start \in S, NEW B \in Nat, NEW D, NEW rank \in [S -> Nat],
           \A s \in S \cap D : F[s] = s, \A s \in S \ D : rank[F[s]] < rank[s], rank[start] <= B,
           NEW g, Steps(S, F, start, B, g)
    PROVE  g[B] \in S /\ g[B] \in D
  <1>1. g \in [0..B -> S] /\ g[0] = start /\ \A k \in 0..B - 1 : g[k + 1] = F[g[k]]
    BY DEF Steps
  <1> DEFINE T == {k \in 0..B : g[k] \in D \/ rank[g[k]] + k <= rank[start]}
  <1>2. 0 \in T
    BY <1>1
  <1>3. ASSUME NEW k \in 0..B - 1, k \in T PROVE k + 1 \in T
    <2> DEFINE j == k + 1
    <2>1. j \in 0..B /\ k \in 0..B /\ j = k + 1 /\ k \in Nat
      OBVIOUS
    <2>2. g[j] = F[g[k]] /\ g[k] \in S /\ g[j] \in S
      BY <1>1, <2>1
    <2> HIDE DEF j
    <2>3. CASE g[k] \in D
      BY <2>1, <2>2, <2>3 DEF j
    <2>4. CASE g[k] \notin D
      <3>1. rank[g[k]] + k <= rank[start] /\ rank[g[j]] < rank[g[k]]
        BY <1>3, <2>2, <2>4
      <3>2. rank[g[k]] \in Nat /\ rank[g[j]] \in Nat /\ rank[start] \in Nat
        BY <2>2
      <3>3. rank[g[j]] + j <= rank[start]
        BY <2>1, <3>1, <3>2
      <3> QED BY <2>1, <3>3 DEF j
    <2> QED BY <2>3, <2>4
  <1> HIDE DEF T
  <1>4. B \in T
    <2>1. B \in 0..B
      OBVIOUS
    <2> QED BY <1>2, <1>3, <2>1, UpTo
  <1>5. g[B] \in S
    BY <1>1
  <1>6. g[B] \in D
    <2> SUFFICES ASSUME g[B] \notin D PROVE FALSE
      OBVIOUS
    <2>1. rank[g[B]] + B <= rank[start] /\ rank[F[g[B]]] < rank[g[B]]
      BY <1>4, <1>5 DEF T
    <2>2. rank[g[B]] \in Nat /\ rank[F[g[B]]] \in Nat /\ rank[start] \in Nat
      BY <1>5
    <2> QED BY <2>1, <2>2
  <1> QED BY <1>5, <1>6

\* Of one there is but one to choose.
LEMMA Single == \A v : (CHOOSE s \in {v} : TRUE) = v
  OBVIOUS

Follows(S, F, start, B, after) ==
    after[0] = start /\ \A k \in 0..B - 1 : after[k] \in S => after[k + 1] = F[after[k]]

\* A function that goes from state to state like a loop does is the loop.
LEMMA SameSteps ==
    ASSUME NEW S, NEW F, NEW start, NEW B \in Nat, NEW g, Steps(S, F, start, B, g),
           NEW after, Follows(S, F, start, B, after)
    PROVE  after[B] = g[B]
  <1>1. g \in [0..B -> S] /\ g[0] = start /\ \A k \in 0..B - 1 : g[k + 1] = F[g[k]]
    BY DEF Steps
  <1>0. after[0] = start /\ \A k \in 0..B - 1 : after[k] \in S => after[k + 1] = F[after[k]]
    BY DEF Follows
  <1> DEFINE T == {k \in 0..B : after[k] = g[k]}
  <1>2. 0 \in T
    BY <1>0, <1>1
  <1>3. ASSUME NEW k \in 0..B - 1, k \in T PROVE k + 1 \in T
    <2> DEFINE j == k + 1
    <2>1. j \in 0..B /\ k \in 0..B
      OBVIOUS
    <2>2. after[k] = g[k] /\ g[k] \in S
      BY <1>1, <1>3, <2>1
    <2>3. after[j] = F[after[k]] /\ g[j] = F[g[k]]
      BY <1>0, <1>1, <2>2
    <2> HIDE DEF j
    <2> QED BY <2>1, <2>2, <2>3 DEF j
  <1> HIDE DEF T
  <1>4. B \in T
    <2>1. B \in 0..B
      OBVIOUS
    <2> QED BY <1>2, <1>3, <2>1, UpTo
  <1> QED BY <1>4 DEF T

\* The positions [first, last) along next.
Path(links, first, last) == Walk(LAMBDA i : next(links, i), first, last)

\* The walks of the model are along next.
LEMMA Paths ==
    /\ \A h, f : Fullorder(h, f) = Path(h.links, begin(h.links, f), end(f))
    /\ \A first, last : Between(first, last) = Path(heap.links, first, last)
  BY DEF Path, Fullorder, Between, Walk, Loop

\* The bound of the loops.
LEMMA BoundType ==
    /\ Bound \in Nat /\ Bound = 2 * Cardinality(Nodes) + 2
    /\ Cardinality(Nodes) \in Nat /\ SizeMax \in Nat /\ Cardinality(Nodes) <= SizeMax /\ IsFiniteSet(Nodes)
  BY ForestAssumption, FS_CardinalityType DEF Bound

SegmentShape(o, a, b) ==
    /\ Segment(o, a, a - 1) = << >>
    /\ \A k \in a..b : /\ Segment(o, a, k) \in Seq(Places) /\ Len(Segment(o, a, k)) = k - a + 1
                       /\ Append(Segment(o, a, k - 1), o[k]) = Segment(o, a, k)
                       /\ Len(Segment(o, a, k - 1)) = k - a

\* A segment grows by one position at a time.
LEMMA SegmentFacts ==
    ASSUME NEW o, Len(o) \in Nat, o \in Seq(Places), NEW a \in Nat, NEW b \in Nat, 1 <= a, a <= b, b <= Len(o)
    PROVE  SegmentShape(o, a, b)
  <1>1. Segment(o, a, a - 1) = << >>
    <2>1. (a - 1) - a + 1 = 0
      OBVIOUS
    <2>2. 1..0 = {}
      OBVIOUS
    <2> QED BY <2>1, <2>2 DEF Segment
  <1>2. ASSUME NEW k \in Int, a - 1 <= k, k <= b
        PROVE  Segment(o, a, k) \in Seq(Places) /\ Len(Segment(o, a, k)) = k - a + 1
    <2> DEFINE n == k - a + 1
    <2>1. n \in Nat /\ n = k - a + 1
      BY <1>2
    <2>2. \A j \in 1..n : a + j - 1 \in 1..Len(o)
      BY <1>2
    <2>3. \A j \in 1..n : o[a + j - 1] \in Places
      <3>1. \A l \in 1..Len(o) : o[l] \in Places
        OBVIOUS
      <3> QED BY <2>2, <3>1
    <2> HIDE DEF n
    <2>4. Segment(o, a, k) = [j \in 1..n |-> o[a + j - 1]]
      BY DEF Segment, n
    <2>5. Segment(o, a, k) \in [1..n -> Places]
      BY <2>3, <2>4
    <2> QED BY <2>1, <2>5, MakeSeq
  <1>3. ASSUME NEW k \in a..b PROVE Append(Segment(o, a, k - 1), o[k]) = Segment(o, a, k)
    <2> DEFINE s == Segment(o, a, k - 1)
               t == Segment(o, a, k)
               n == k - a
    <2>1. /\ s \in Seq(Places) /\ Len(s) = n /\ t \in Seq(Places) /\ Len(t) = n + 1 /\ n \in Nat
          /\ o[k] \in Places
      <3>1. k - 1 \in Int /\ a - 1 <= k - 1 /\ k - 1 <= b /\ k \in Int /\ a - 1 <= k /\ k <= b
            /\ (k - 1) - a + 1 = k - a /\ k - a + 1 = (k - a) + 1 /\ k - a \in Nat /\ k \in 1..Len(o)
        OBVIOUS
      <3>2. s \in Seq(Places) /\ Len(s) = (k - 1) - a + 1
        BY <1>2, <3>1
      <3>3. t \in Seq(Places) /\ Len(t) = k - a + 1
        BY <1>2, <3>1
      <3>4. o[k] \in Places
        BY <3>1
      <3> HIDE DEF s, t
      <3> QED BY <3>1, <3>2, <3>3, <3>4
    <2>2. \A j \in 1..n : s[j] = o[a + j - 1]
      <3>1. (k - 1) - a + 1 = n
        OBVIOUS
      <3> QED BY <3>1 DEF Segment
    <2>3. \A j \in 1..n + 1 : t[j] = o[a + j - 1]
      <3>1. k - a + 1 = n + 1
        OBVIOUS
      <3> QED BY <3>1 DEF Segment
    <2>4. a + (n + 1) - 1 = k
      OBVIOUS
    <2> HIDE DEF s, t, n
    <2> DEFINE u == Append(s, o[k])
    <2>5. u \in Seq(Places) /\ Len(u) = n + 1 /\ u[n + 1] = o[k] /\ \A j \in 1..n : u[j] = s[j]
      BY <2>1, AppendProperties
    <2> HIDE DEF u
    <2>6. \A j \in 1..n + 1 : u[j] = t[j]
      <3> SUFFICES ASSUME NEW j \in 1..n + 1 PROVE u[j] = t[j]
        OBVIOUS
      <3>1. CASE j \in 1..n
        BY <2>2, <2>3, <2>5, <3>1
      <3>2. CASE j = n + 1
        BY <2>3, <2>4, <2>5, <3>2
      <3> QED BY <2>1, <3>1, <3>2
    <2>7. u = t
      BY <2>1, <2>5, <2>6, SeqEqual
    <2> QED BY <2>7 DEF u, s, t
  <1>4. ASSUME NEW k \in a..b
        PROVE  /\ Segment(o, a, k) \in Seq(Places) /\ Len(Segment(o, a, k)) = k - a + 1
               /\ Len(Segment(o, a, k - 1)) = k - a
    <2>1. k - 1 \in Int /\ a - 1 <= k - 1 /\ k - 1 <= b /\ k \in Int /\ a - 1 <= k /\ k <= b
            /\ (k - 1) - a + 1 = k - a
      OBVIOUS
    <2> QED BY <1>2, <2>1
  <1> QED BY <1>1, <1>3, <1>4 DEF SegmentShape

\* A walk from one position to another sees those in between.
LEMMA PathIs ==
    ASSUME NEW links, NEW o \in Seq(Places), NEW L, L = Len(o),
           \A k \in 1..L - 1 : next(links, o[k]) = o[k + 1],
           \A k, l \in 1..L : o[k] = o[l] => k = l,
           NEW a \in Nat, NEW b \in Nat, 1 <= a, a <= b, b <= L, b - a <= Bound
    PROVE  Path(links, o[a], o[b]) = Segment(o, a, b - 1)
  <1> DEFINE St(k) == [at |-> o[k], seen |-> Segment(o, a, k - 1)]
             S == {St(k) : k \in a..b}
             done(s) == s.at = o[b]
             step(s) == [at |-> next(links, s.at), seen |-> Append(s.seen, s.at)]
             F == [s \in S |-> IF done(s) THEN s ELSE step(s)]
             rank == [s \in S |-> (b - a) - Len(s.seen)]
             start == [at |-> o[a], seen |-> << >>]
             Body(g) == [k \in 0..Bound |->
                            IF k = 0 THEN start
                            ELSE CHOOSE s \in {IF done(s) THEN s ELSE step(s) : s \in {g[k - 1]}} : TRUE]
             after == CHOOSE g : g = Body(g)
  <1>0. L \in Nat /\ Bound \in Nat
    BY BoundType
  <1>1. /\ Segment(o, a, a - 1) = << >>
        /\ \A k \in a..b : /\ Append(Segment(o, a, k - 1), o[k]) = Segment(o, a, k)
                           /\ Len(Segment(o, a, k - 1)) = k - a
    <2>1. SegmentShape(o, a, b)
      BY <1>0, SegmentFacts
    <2> QED BY <2>1 DEF SegmentShape
  <1>2. \A k \in a..b : k \in 1..L
    BY <1>0
  <1>3. Path(links, o[a], o[b]) = after[Bound].seen
    BY DEF Path, Walk, Loop
  <1> HIDE DEF after
  <1>4. start = St(a) /\ a \in a..b /\ b \in a..b
    <2>1. start = St(a)
      BY <1>1
    <2>2. a \in a..b /\ b \in a..b
      OBVIOUS
    <2> QED BY <2>1, <2>2
  <1>5. ASSUME NEW k \in a..b PROVE St(k).at = o[k] /\ Len(St(k).seen) = k - a
    BY <1>1
  <1>6. ASSUME NEW k \in a..b, k # b PROVE ~done(St(k)) /\ step(St(k)) = St(k + 1) /\ k + 1 \in a..b
    <2>1. k + 1 \in a..b /\ k \in 1..L - 1 /\ k \in 1..L /\ b \in 1..L
      BY <1>0, <1>6
    <2>2. (k + 1) - 1 = k
      OBVIOUS
    <2>3. o[k] # o[b]
      BY <1>6, <2>1
    <2> QED BY <1>1, <2>1, <2>2, <2>3
  <1>7. done(St(b))
    OBVIOUS
  <1> HIDE DEF St, done, step, start
  <1>8. F \in [S -> S]
    <2>1. ASSUME NEW s \in S PROVE (IF done(s) THEN s ELSE step(s)) \in S
      <3>1. PICK k \in a..b : s = St(k)
        OBVIOUS
      <3>2. CASE k = b
        BY <1>7, <3>1, <3>2
      <3>3. CASE k # b
        BY <1>6, <3>1, <3>3
      <3> QED BY <3>2, <3>3
    <2> QED BY <2>1
  <1>9. ASSUME NEW s \in S PROVE \E k \in a..b : s = St(k) /\ rank[s] = b - k
    <2>1. PICK k \in a..b : s = St(k)
      OBVIOUS
    <2>2. rank[s] = (b - a) - (k - a)
      BY <1>5, <2>1
    <2>3. (b - a) - (k - a) = b - k
      OBVIOUS
    <2> QED BY <2>1, <2>2, <2>3
  <1>a. rank \in [S -> Nat]
    <2>1. \A k \in a..b : b - k \in Nat
      OBVIOUS
    <2>2. \A s \in S : rank[s] \in Nat
      BY <1>9, <2>1
    <2> QED BY <2>2
  <1>b. rank[start] <= Bound /\ start \in S
    BY <1>4, <1>5, <1>9
  <1> DEFINE D == {St(b)}
  <1>c. ASSUME NEW s \in S \ D PROVE rank[F[s]] < rank[s]
    <2>1. PICK k \in a..b : s = St(k) /\ rank[s] = b - k
      BY <1>9
    <2>2. k # b
      BY <2>1
    <2>3. F[s] = St(k + 1) /\ k + 1 \in a..b
      BY <1>6, <2>1, <2>2
    <2>4. rank[St(k + 1)] = (b - a) - ((k + 1) - a)
      BY <1>5, <2>3
    <2>5. (b - a) - ((k + 1) - a) < b - k
      OBVIOUS
    <2> HIDE DEF F, rank
    <2> QED BY <2>1, <2>3, <2>4, <2>5
  <1>d. \A s \in S \cap D : F[s] = s
    BY <1>7
  <1>e. PICK g : Steps(S, F, start, Bound, g)
    <2> HIDE DEF S, F
    <2> QED BY <1>0, <1>8, <1>b, Iterate
  <1>f. g[Bound] = St(b)
    <2> HIDE DEF S, F, rank, D
    <2>1. g[Bound] \in D
      BY <1>0, <1>8, <1>a, <1>b, <1>c, <1>d, <1>e, Ends
    <2> QED BY <2>1 DEF D
  <1>g. \A v \in S : (CHOOSE s \in {IF done(s) THEN s ELSE step(s) : s \in {v}} : TRUE) = F[v]
    <2> SUFFICES ASSUME NEW v \in S
                 PROVE  (CHOOSE s \in {IF done(s) THEN s ELSE step(s) : s \in {v}} : TRUE) = F[v]
      OBVIOUS
    <2>1. {IF done(s) THEN s ELSE step(s) : s \in {v}} = {F[v]}
      BY DEF F
    <2> HIDE DEF F
    <2> QED BY <2>1, Single
  <1>h. g = Body(g)
    <2>1. g \in [0..Bound -> S] /\ g[0] = start /\ \A k \in 0..Bound - 1 : g[k + 1] = F[g[k]]
      BY <1>e DEF Steps
    <2> HIDE DEF F, S
    <2>2. ASSUME NEW k \in 0..Bound PROVE g[k] = Body(g)[k]
      <3>1. CASE k = 0
        BY <2>1, <3>1
      <3>2. CASE k # 0
        <4>1. k - 1 \in 0..Bound - 1 /\ k - 1 \in 0..Bound /\ (k - 1) + 1 = k
          BY <1>0, <3>2
        <4>2. g[k - 1] \in S /\ g[k] = F[g[k - 1]]
          BY <2>1, <4>1
        <4> QED BY <1>g, <3>2, <4>2
      <3> QED BY <3>1, <3>2
    <2> QED BY <2>1, <2>2
  <1>i. after = Body(after)
    <2> HIDE DEF Body
    <2> QED BY <1>h DEF after
  <1>j. after[0] = start /\ \A k \in 0..Bound - 1 : after[k] \in S => after[k + 1] = F[after[k]]
    <2> HIDE DEF F, S
    <2>1. 0 \in 0..Bound
      BY <1>0
    <2>2. \A k \in 0..Bound : after[k] = Body(after)[k]
      BY <1>i
    <2> HIDE DEF after
    <2>3. after[0] = start
      BY <2>1, <2>2
    <2>4. ASSUME NEW k \in 0..Bound - 1, after[k] \in S PROVE after[k + 1] = F[after[k]]
      <3> DEFINE j == k + 1
      <3>1. j \in 0..Bound /\ j # 0 /\ j - 1 = k
        BY <1>0
      <3> HIDE DEF j
      <3>2. after[j] = CHOOSE s \in {IF done(s) THEN s ELSE step(s) : s \in {after[j - 1]}} : TRUE
        BY <2>2, <3>1
      <3>3. (CHOOSE s \in {IF done(s) THEN s ELSE step(s) : s \in {after[k]}} : TRUE) = F[after[k]]
        BY <1>g, <2>4
      <3>4. after[j] = F[after[k]]
        BY <3>1, <3>2, <3>3
      <3> QED BY <3>4 DEF j
    <2> QED BY <2>3, <2>4
  <1>k. after[Bound] = St(b)
    <2> HIDE DEF S, F
    <2>1. Follows(S, F, start, Bound, after)
      BY <1>j DEF Follows
    <2>2. after[Bound] = g[Bound]
      BY <1>0, <1>e, <2>1, SameSteps
    <2> QED BY <1>f, <2>2
  <1> QED BY <1>3, <1>k DEF St

\* A node has two edges: there are half as many nodes, and leading edges, as positions.
LEMMA EdgeCount ==
    ASSUME NEW e \in Seq(Places), NEW m, Mates(e, m)
    PROVE  /\ IsFiniteSet(NodesIn(e)) /\ Cardinality(NodesIn(e)) \in Nat /\ 2 * Cardinality(NodesIn(e)) = Len(e)
           /\ 2 * Cardinality({k \in 1..Len(e) : is_leading(e[k])}) = Len(e)
  <1> DEFINE n == Len(e)
             A == {k \in 1..n : is_leading(e[k])}
             B == {k \in 1..n : ~is_leading(e[k])}
             N == NodesIn(e)
             f == [k \in A |-> e[k][1]]
             g == [k \in A |-> m[k]]
  <1>1. n \in Nat
    OBVIOUS
  <1>2. ASSUME NEW k \in 1..n
        PROVE  /\ m[k] \in 1..n /\ m[m[k]] = k
               /\ is_leading(e[k]) <=> ~is_leading(e[m[k]])
               /\ \A l \in 1..n : e[l][1] = e[k][1] => l = k \/ l = m[k]
               /\ e[m[k]][1] = e[k][1]
    <2>1. /\ m[k] \in 1..n /\ m[m[k]] = k /\ e[m[k]] = pivot_of(e[k])
          /\ is_leading(e[k]) <=> ~is_leading(e[m[k]])
          /\ \A l \in 1..n : e[l][1] = e[k][1] => l = k \/ l = m[k]
      BY MateOf
    <2>2. e[k] \in Places
      OBVIOUS
    <2>3. pivot_of(e[k])[1] = e[k][1]
      BY <2>2, PlaceFacts
    <2> QED BY <2>1, <2>3
  <1>3. DOMAIN e = 1..n
    OBVIOUS
  <1>4. /\ IsFiniteSet(1..n) /\ Cardinality(1..n) = n
        /\ IsFiniteSet(A) /\ IsFiniteSet(B) /\ Cardinality(A) \in Nat /\ Cardinality(B) \in Nat
    <2>1. IsFiniteSet(1..n) /\ Cardinality(1..n) = n
      BY <1>1, FS_Interval
    <2>2. A \in SUBSET (1..n) /\ B \in SUBSET (1..n)
      OBVIOUS
    <2> HIDE DEF A, B
    <2> QED BY <2>1, <2>2, FS_Subset, FS_CardinalityType
  <1> HIDE DEF n
  <1>5. Cardinality(A) + Cardinality(B) = n
    <2>1. A \cup B = 1..n /\ A \cap B = {}
      OBVIOUS
    <2> HIDE DEF A, B
    <2>2. Cardinality(A \cup B) = Cardinality(A) + Cardinality(B) - Cardinality(A \cap B)
      BY <1>4, FS_Union
    <2>3. Cardinality(A \cap B) = 0
      BY <2>1, FS_EmptySet
    <2>4. Cardinality(A \cup B) = n
      BY <1>4, <2>1
    <2>5. n \in Nat /\ Cardinality(A) \in Nat /\ Cardinality(B) \in Nat
      BY <1>1, <1>4 DEF n
    <2> QED BY <2>2, <2>3, <2>4, <2>5
  <1>6. Cardinality(B) = Cardinality(A)
    <2>1. g \in [A -> B]
      BY <1>2
    <2>2. \A k, l \in A : g[k] = g[l] => k = l
      <3> SUFFICES ASSUME NEW k \in A, NEW l \in A, g[k] = g[l] PROVE k = l
        OBVIOUS
      <3>1. m[m[k]] = k /\ m[m[l]] = l
        BY <1>2
      <3> QED BY <3>1
    <2>3. \A t \in B : \E k \in A : g[k] = t
      <3> SUFFICES ASSUME NEW t \in B PROVE \E k \in A : g[k] = t
        OBVIOUS
      <3>1. m[t] \in A /\ m[m[t]] = t
        BY <1>2
      <3> QED BY <3>1
    <2> HIDE DEF g, A, B
    <2>4. g \in Bijection(A, B)
      BY <2>1, <2>2, <2>3 DEF Bijection, Injection, Surjection, IsInjective
    <2>5. ExistsBijection(A, B)
      BY <2>4 DEF ExistsBijection
    <2> QED BY <1>4, <2>5, FS_Bijection
  <1>7. IsFiniteSet(N) /\ Cardinality(N) = Cardinality(A)
    <2>1. f \in [A -> N]
      BY <1>3 DEF NodesIn
    <2>2. \A k, l \in A : f[k] = f[l] => k = l
      <3> SUFFICES ASSUME NEW k \in A, NEW l \in A, f[k] = f[l] PROVE k = l
        OBVIOUS
      <3>1. e[l][1] = e[k][1] /\ k \in 1..n /\ l \in 1..n /\ is_leading(e[k]) /\ is_leading(e[l])
        OBVIOUS
      <3>2. l = k \/ l = m[k]
        BY <1>2, <3>1
      <3> QED BY <1>2, <3>1, <3>2
    <2>3. \A t \in N : \E k \in A : f[k] = t
      <3> SUFFICES ASSUME NEW t \in N PROVE \E k \in A : f[k] = t
        OBVIOUS
      <3>1. PICK k \in 1..n : t = e[k][1]
        BY <1>3 DEF NodesIn
      <3>2. CASE k \in A
        BY <3>1, <3>2
      <3>3. CASE k \notin A
        <4>1. m[k] \in A /\ e[m[k]][1] = e[k][1]
          BY <1>2, <3>3
        <4> QED BY <3>1, <4>1
      <3> QED BY <3>2, <3>3
    <2> HIDE DEF f, A, N
    <2>4. f \in Bijection(A, N)
      BY <2>1, <2>2, <2>3 DEF Bijection, Injection, Surjection, IsInjective
    <2>5. ExistsBijection(A, N)
      BY <2>4 DEF ExistsBijection
    <2> QED BY <1>4, <2>5, FS_Bijection
  <1> HIDE DEF A, B, N
  <1>8. 2 * Cardinality(N) = n /\ Cardinality(N) \in Nat /\ 2 * Cardinality(A) = n
    BY <1>4, <1>5, <1>6, <1>7
  <1>9. Cardinality({k \in 1..Len(e) : is_leading(e[k])}) = Cardinality(A)
    BY DEF A, n
  <1> QED BY <1>7, <1>8, <1>9 DEF n, N

\* The nodes are half as many as their edges.
LEMMA NodeCount ==
    ASSUME NEW e \in Seq(Places), NEW m, Mates(e, m)
    PROVE  IsFiniteSet(NodesIn(e)) /\ Cardinality(NodesIn(e)) \in Nat /\ 2 * Cardinality(NodesIn(e)) = Len(e)
  BY EdgeCount

\* What is between the root and the end of a tree: allocated nodes, with their mates.
LEMMA Inside ==
    ASSUME NEW h, NEW c, Holds(h, c), NEW x \in Owners(h), NEW k \in 1..Len(c[x])
    PROVE  /\ c[x][k][1] \in (Nodes \cap h.allocated) \cup {x}
           /\ k # 1 /\ k # Len(c[x]) => c[x][k][1] \in Nodes \cap h.allocated
  <1>1. Rings(h.links, c, Owners(h), Places)
    BY DEF Holds
  <1>2. \A y \in Owners(h) :
            /\ c[y] \in Seq(Places) /\ Len(c[y]) \in Nat /\ Len(c[y]) >= 2 /\ y \in Cells
            /\ c[y][1] = << y, "leading" >> /\ c[y][Len(c[y])] = << y, "trailing" >>
            /\ \A j \in 1..Len(c[y]) : c[y][j] \in Places
            /\ \A j, l \in 1..Len(c[y]) : c[y][j] = c[y][l] => j = l
    BY <1>1, RingFacts
  <1>3. \A y, z \in Owners(h) : \A j \in 1..Len(c[y]), l \in 1..Len(c[z]) : c[y][j] = c[z][l] => y = z
    BY <1>1, AllRings
  <1> DEFINE y == c[x][k][1]
  <1>4. c[x][k] \in Places
    BY <1>2
  <1>5. y \in Cells /\ c[x][k] \in {<< y, "leading" >>, << y, "trailing" >>}
    BY <1>4 DEF Places, Edge
  <1> HIDE DEF y
  <1>6. ASSUME y \in Owners(h) PROVE y = x /\ (k = 1 \/ k = Len(c[x]))
    <2>1. 1 \in 1..Len(c[y]) /\ Len(c[y]) \in 1..Len(c[y])
      BY <1>2, <1>6
    <2>2. c[x][k] = c[y][1] \/ c[x][k] = c[y][Len(c[y])]
      BY <1>2, <1>5, <1>6
    <2>3. y = x
      BY <1>3, <1>6, <2>1, <2>2
    <2> QED BY <1>2, <2>1, <2>2, <2>3
  <1>7. y \notin Owners(h) => y \in Nodes \cap h.allocated
    BY <1>5 DEF Owners, Cells, Trees
  <1> QED BY <1>6, <1>7 DEF y

\* A ring has two positions and those of the nodes in it, fewer than a loop may take.
LEMMA LenBound ==
    ASSUME NEW h, NEW c, Holds(h, c), NEW x \in Owners(h)
    PROVE  /\ Len(c[x]) \in Nat /\ Len(c[x]) >= 2 /\ Len(c[x]) <= Bound
           /\ \E s \in Nat : Len(c[x]) = 2 * s + 2 /\ s <= SizeMax
  <1>1. Rings(h.links, c, Owners(h), Places)
    BY DEF Holds
  <1>2. Ring(h.links, x, c[x]) /\ c[x] \in Seq(Places) /\ Len(c[x]) \in Nat /\ Len(c[x]) >= 2
    BY <1>1, RingFacts
  <1>3. PICK m : Mates(c[x], m)
    BY <1>2 DEF Ring, Run
  <1> DEFINE N == NodesIn(c[x])
  <1>4. IsFiniteSet(N) /\ Cardinality(N) \in Nat /\ 2 * Cardinality(N) = Len(c[x])
    BY <1>2, <1>3, NodeCount
  <1>5. N \subseteq Nodes \cup {x}
    <2>1. DOMAIN c[x] = 1..Len(c[x])
      BY <1>2
    <2> QED BY <2>1, Inside DEF NodesIn
  <1> HIDE DEF N
  <1>6. IsFiniteSet(Nodes \cup {x}) /\ Cardinality(Nodes \cup {x}) <= Cardinality(Nodes) + 1
        /\ Cardinality(Nodes \cup {x}) \in Nat
    <2>1. IsFiniteSet(Nodes \cup {x}) /\ Cardinality(Nodes \cup {x}) =
             IF x \in Nodes THEN Cardinality(Nodes) ELSE Cardinality(Nodes) + 1
      BY BoundType, FS_AddElement
    <2> QED BY <2>1, BoundType
  <1>7. Cardinality(N) <= Cardinality(Nodes \cup {x})
    BY <1>5, <1>6, FS_Subset
  <1>8. Cardinality(N) <= Cardinality(Nodes) + 1
    BY <1>4, <1>6, <1>7, BoundType
  <1> DEFINE s == Cardinality(N) - 1
  <1>9. s \in Nat /\ Len(c[x]) = 2 * s + 2 /\ s <= SizeMax
    BY <1>2, <1>4, <1>8, BoundType
  <1> QED BY <1>2, <1>4, <1>8, <1>9, BoundType

-----------------------------------------------------------------------------
(***************************************************************************)
(* Operations on a heap.                                                   *)
(***************************************************************************)
\* What a heap that holds the rings c is like at x.
Tour(h, c, x) ==
    /\ c[x] \in Seq(Places) /\ Len(c[x]) \in Nat /\ Len(c[x]) >= 2 /\ x \in Cells
    /\ c[x][1] = << x, "leading" >> /\ c[x][Len(c[x])] = << x, "trailing" >>
    /\ \A k \in 1..Len(c[x]) : c[x][k] \in Places
    /\ \A k, l \in 1..Len(c[x]) : c[x][k] = c[x][l] => k = l
    /\ \A k \in 1..Len(c[x]) - 1 : next(h.links, c[x][k]) = c[x][k + 1] /\ prior(h.links, c[x][k + 1]) = c[x][k]
    /\ next(h.links, c[x][Len(c[x])]) = c[x][1] /\ prior(h.links, c[x][1]) = c[x][Len(c[x])]
    /\ \E m : Mates(c[x], m)

\* The links lead around each ring, forth and back.
LEMMA Toured ==
    ASSUME NEW h, NEW c, Holds(h, c), NEW x \in Owners(h)
    PROVE  Tour(h, c, x)
  <1>1. Rings(h.links, c, Owners(h), Places)
    BY DEF Holds
  <1>2. /\ Ring(h.links, x, c[x]) /\ c[x] \in Seq(Places) /\ Len(c[x]) \in Nat /\ Len(c[x]) >= 2
        /\ x \in Cells /\ h.links \in LinkType
        /\ c[x][1] = << x, "leading" >> /\ c[x][Len(c[x])] = << x, "trailing" >>
        /\ \A k \in 1..Len(c[x]) : c[x][k] \in Places
        /\ \A k, l \in 1..Len(c[x]) : c[x][k] = c[x][l] => k = l
    BY <1>1, RingFacts
  <1>3. /\ \A k \in 1..Len(c[x]) - 1 : next(h.links, c[x][k]) = c[x][k + 1] /\ prior(h.links, c[x][k + 1]) = c[x][k]
        /\ next(h.links, c[x][Len(c[x])]) = c[x][1] /\ prior(h.links, c[x][1]) = c[x][Len(c[x])]
    BY <1>2, Around
  <1>4. \E m : Mates(c[x], m)
    BY <1>2 DEF Ring, Run
  <1> QED BY <1>2, <1>3, <1>4 DEF Tour

\* Nodes, forests and locals are different.
LEMMA Kinds ==
    /\ Nodes \cap Trees = {} /\ Forests \cap Locals = {}
    /\ \A h : Trees \subseteq Owners(h)
    /\ \A h : \A n \in Nodes : n \in Owners(h) <=> n \notin h.allocated
    /\ \A h : Owners(h) \subseteq Cells
  BY ForestAssumption DEF Trees, Owners, Cells

\* What a size that is cached is, and when it is.
LEMMA SizeFacts ==
    ASSUME NEW h, NEW c, Holds(h, c), NEW f \in Trees
    PROVE  /\ h.size[f] \in Nat
           /\ size_valid(h, f) => 2 * h.size[f] + 2 = Len(c[f]) /\ h.size[f] <= SizeMax
           /\ ~size_valid(h, f) => h.size[f] = 0
           /\ root(f) = c[f][1] /\ end(f) = c[f][Len(c[f])] /\ begin(h.links, f) = c[f][2]
           /\ empty(h.links, f) <=> Len(c[f]) = 2
  <1>1. f \in Owners(h)
    BY Kinds
  <1>2. Tour(h, c, f)
    BY <1>1, Toured
  <1>3. /\ Len(c[f]) \in Nat /\ Len(c[f]) >= 2
        /\ c[f][1] = << f, "leading" >> /\ c[f][Len(c[f])] = << f, "trailing" >>
        /\ \A k, l \in 1..Len(c[f]) : c[f][k] = c[f][l] => k = l
        /\ \A k \in 1..Len(c[f]) - 1 : next(h.links, c[f][k]) = c[f][k + 1]
    BY <1>2 DEF Tour
  <1>4. root(f) = c[f][1] /\ end(f) = c[f][Len(c[f])] /\ begin(h.links, f) = c[f][2]
    <2>1. 1 \in 1..Len(c[f]) - 1 /\ 1 + 1 = 2
      BY <1>3
    <2>2. next(h.links, c[f][1]) = c[f][1 + 1]
      BY <1>3, <2>1
    <2> QED BY <1>3, <2>1, <2>2 DEF root, end, begin
  <1>5. empty(h.links, f) <=> Len(c[f]) = 2
    <2>1. 2 \in 1..Len(c[f]) /\ Len(c[f]) \in 1..Len(c[f])
      BY <1>3
    <2> QED BY <1>3, <1>4, <2>1 DEF empty
  <1>6. h.size[f] \in Nat /\ (h.size[f] # 0 => 2 * h.size[f] + 2 = Len(c[f]))
    BY DEF Holds, HeapType
  <1>7. PICK s \in Nat : Len(c[f]) = 2 * s + 2 /\ s <= SizeMax
    BY <1>1, LenBound
  <1>8. size_valid(h, f) => 2 * h.size[f] + 2 = Len(c[f])
    <2>1. CASE h.size[f] # 0
      BY <1>6, <2>1
    <2>2. CASE h.size[f] = 0 /\ Len(c[f]) = 2
      BY <2>2
    <2>3. CASE h.size[f] = 0 /\ Len(c[f]) # 2
      BY <1>5, <2>3 DEF size_valid
    <2> QED BY <2>1, <2>2, <2>3
  <1>9. ~size_valid(h, f) => h.size[f] = 0
    BY <1>6 DEF size_valid
  <1>a. size_valid(h, f) => h.size[f] <= SizeMax
    BY <1>6, <1>7, <1>8
  <1> QED BY <1>4, <1>5, <1>6, <1>8, <1>9, <1>a

\* n is put before the t-th position of f.
Inserted(h, c, f, t, n, new, d) ==
    /\ Holds(new, d) /\ new.allocated = h.allocated \cup {n}
    /\ Len(d[f]) = Len(c[f]) + 2
    /\ d[f][t] = << n, "leading" >> /\ d[f][t + 1] = << n, "trailing" >>
    /\ \A k \in 1..t - 1 : d[f][k] = c[f][k]
    /\ \A k \in t..Len(c[f]) : d[f][k + 2] = c[f][k]
    /\ \A y \in Owners(new) \ {f} : d[y] = c[y]

InsertDone(h, c, f, t, n, at) ==
    /\ insert(h, f, at, n).at = << n, "leading" >>
    /\ \E d : Inserted(h, c, f, t, n, insert(h, f, at, n).heap, d)

\* insert() puts a node before a position.
LEMMA Inserting ==
    ASSUME NEW h, NEW c, Holds(h, c), NEW f \in Trees, NEW t \in 2..Len(c[f]),
           NEW n \in Nodes \ h.allocated, NEW at, at = c[f][t]
    PROVE  InsertDone(h, c, f, t, n, at)
  <1> DEFINE new == insert(h, f, at, n).heap
             links == h.links
             R == Owners(h) \ {n}
             b == [y \in R |-> c[y]]
             e == c[n]
             P == Places \ Elems(e)
             k == t - 1
             mid == set_next(links, c[f][k], e[1])
             linked == set_next(mid, e[Len(e)], c[f][t])
             d == [b EXCEPT ![f] = Pasted(b[f], k, e)]
  <1>1. f \in Owners(h) /\ n \in Owners(h) /\ n # f /\ f \in R
    BY Kinds
  <1>2. Tour(h, c, f) /\ Tour(h, c, n) /\ Len(c[n]) = 2
    BY <1>1, Toured DEF Holds
  <1>3. /\ Rings(links, c, Owners(h), Places) /\ h \in HeapType /\ links \in LinkType
        /\ \A g \in Trees : h.size[g] # 0 => 2 * h.size[g] + 2 = Len(c[g])
        /\ \A i \in Nodes \ h.allocated : Len(c[i]) = 2
        /\ h.size \in [Trees -> Nat] /\ h.allocated \subseteq Nodes
    BY DEF Holds, HeapType
  <1>4. /\ Len(c[f]) \in Nat /\ Len(c[f]) >= 2 /\ k \in 1..Len(c[f]) - 1 /\ t = k + 1 /\ k \in 1..Len(c[f])
        /\ t \in Nat
    BY <1>2 DEF Tour
  <1>5. /\ Len(e) = 2 /\ e[1] = << n, "leading" >> /\ e[2] = << n, "trailing" >>
        /\ e[1] \in Places /\ e[2] \in Places
    <2>1. 1 \in 1..2 /\ 2 \in 1..2
      OBVIOUS
    <2> QED BY <1>2, <2>1 DEF Tour
  <1>6. c[f][k] \in Places /\ c[f][t] \in Places /\ prior(links, at) = c[f][k]
    BY <1>2, <1>4 DEF Tour
  <1>7. Rings(links, b, R, P) /\ Run(links, e)
    <2> HIDE DEF R, P
    <2>1. /\ Rings(links, [y \in Owners(h) \ {n} |-> c[y]], Owners(h) \ {n}, Places \ Elems(c[n]))
          /\ Run(links, c[n])
      BY <1>1, <1>3, Drop
    <2> QED BY <2>1 DEF R, P
  <1>8. b[f] = c[f] /\ DOMAIN b = R /\ \A y \in R : b[y] = c[y]
    BY <1>1
  <1>9. c[f][k] # e[1]
    <2>1. \A y, z \in Owners(h) : \A j \in 1..Len(c[y]), l \in 1..Len(c[z]) : c[y][j] = c[z][l] => y = z
      BY <1>3, AllRings
    <2>2. 1 \in 1..Len(c[n]) /\ k \in 1..Len(c[f])
      BY <1>4, <1>5
    <2> QED BY <1>1, <2>1, <2>2
  <1>a. insert(h, f, at, n).at = << n, "leading" >> /\ new.links = linked
    <2>1. mid[n]["leading"].next = n
      <3>1. e[1] # c[f][k]
        BY <1>9
      <3>2. links[n]["leading"].next = n
        <4>1. Linked(links, e[1], e[1 + 1])
          <5>1. \A j \in 1..Len(e) - 1 : Linked(links, e[j], e[j + 1])
            BY <1>7 DEF Run
          <5>2. 1 \in 1..Len(e) - 1
            BY <1>5
          <5> QED BY <5>1, <5>2
        <4> QED BY <1>5, <4>1 DEF Linked
      <3>3. mid[e[1][1]][e[1][2]].next = links[e[1][1]][e[1][2]].next
        <4> DEFINE i == c[f][k]
                   j == e[1]
        <4>1. i \in Places /\ j \in Places /\ links \in LinkType /\ j # i
          BY <1>3, <1>5, <1>6, <3>1
        <4> HIDE DEF i, j
        <4>3. mid = set_next(links, i, j)
          BY DEF i, j
        <4> HIDE DEF mid
        <4>2. Relinked(links, mid, i, j)
          BY <4>1, <4>3, Relink
        <4>4. mid[j[1]][j[2]].next = links[j[1]][j[2]].next
          BY <4>1, <4>2, KeptNext
        <4> QED BY <4>4 DEF j
      <3> HIDE DEF mid
      <3> QED BY <1>5, <3>2, <3>3
    <2>2. mid = set_next(links, prior(links, at), << n, "leading" >>)
      BY <1>5, <1>6
    <2> HIDE DEF mid
    <2>3. next(mid, << n, "leading" >>) = << n, "trailing" >>
      BY <2>1 DEF next, is_leading
    <2>4. new.links = set_next(mid, << n, "trailing" >>, at)
      BY <2>2, <2>3 DEF insert
    <2> QED BY <1>5, <2>4 DEF insert
  <1>b. Rings(linked, d, R, Places) /\ Len(Pasted(c[f], k, e)) = Len(c[f]) + 2
    <2>1. Outside(e, P)
      BY DEF Elems, Outside
    <2>2. k \in 1..Len(b[f]) - 1 /\ Len(e) >= 1
      BY <1>4, <1>5, <1>8
    <2>3. Places = P \cup Elems(e)
      <3>1. \A j \in 1..Len(e) : e[j] \in Places
        BY <1>2 DEF Tour
      <3> QED BY <3>1 DEF Elems
    <2>4. mid = set_next(links, b[f][k], e[1]) /\ linked = set_next(mid, e[Len(e)], b[f][t])
          /\ t = k + 1
      BY <1>4, <1>8
    <2> HIDE DEF mid, linked, b, P, R, e
    <2>5. /\ Rings(linked, [b EXCEPT ![f] = Pasted(b[f], k, e)], R, Places)
          /\ Len(Pasted(b[f], k, e)) = Len(b[f]) + Len(e)
      <3> HIDE DEF k
      <3>1. PasteCase(links, b, R, P, f, e, k, t, mid, linked, Places)
        BY <1>1, <1>7, <2>1, <2>2, <2>3, <2>4 DEF PasteCase
      <3>2. PasteDone(b, R, f, e, k, linked, Places)
        BY <3>1, Paste
      <3> QED BY <3>2 DEF PasteDone
    <2> QED BY <1>5, <1>8, <2>5
  <1>c. d[f] = Pasted(c[f], k, e) /\ \A y \in R \ {f} : d[y] = c[y]
    BY <1>1, <1>8
  <1>d. Owners(new) = R /\ new.allocated = h.allocated \cup {n}
    <2>1. new.allocated = h.allocated \cup {n}
      BY DEF insert
    <2> QED BY <2>1, Kinds DEF Owners
  <1>e. /\ new.size \in [Trees -> Nat]
        /\ \A g \in Trees : new.size[g] # 0 => 2 * new.size[g] + 2 = IF g = f THEN Len(c[f]) + 2 ELSE Len(c[g])
    <2> DEFINE v == IF size_valid(h, f) THEN h.size[f] + 1 ELSE h.size[f]
    <2>1. new.size = [h.size EXCEPT ![f] = v]
      BY DEF insert
    <2>2. /\ h.size[f] \in Nat
          /\ size_valid(h, f) => 2 * h.size[f] + 2 = Len(c[f])
          /\ ~size_valid(h, f) => h.size[f] = 0
      BY SizeFacts
    <2>3. v \in Nat /\ (v # 0 => 2 * v + 2 = Len(c[f]) + 2)
      <3>1. CASE size_valid(h, f)
        <4> DEFINE s == h.size[f]
                   l == Len(c[f])
        <4>1. v = s + 1 /\ s \in Nat /\ l = 2 * s + 2
          BY <2>2, <3>1
        <4> HIDE DEF v, s, l
        <4>2. v \in Nat /\ 2 * v + 2 = l + 2
          BY <4>1
        <4> QED BY <4>2 DEF l
      <3>2. CASE ~size_valid(h, f)
        BY <2>2, <3>2
      <3> QED BY <3>1, <3>2
    <2> HIDE DEF v
    <2> QED BY <1>3, <2>1, <2>3
  <1>f. new \in HeapType
    <2>1. new.links \in LinkType
      BY <1>a, <1>b DEF Rings
    <2>2. new.allocated \subseteq Nodes
      BY <1>3, <1>d
    <2>3. new = [links |-> new.links, size |-> new.size, allocated |-> new.allocated]
      BY DEF insert
    <2> HIDE DEF new
    <2> QED BY <1>e, <2>1, <2>2, <2>3 DEF HeapType
  <1> HIDE DEF d, new, linked, mid, b, P, R
  <1>g. Holds(new, d)
    <2>1. Rings(new.links, d, Owners(new), Places)
      BY <1>a, <1>b, <1>d
    <2>2. ASSUME NEW i \in Nodes \ new.allocated PROVE Len(d[i]) = 2
      <3>1. i \in R /\ i # f /\ i \in Nodes \ h.allocated
        BY <1>1, <1>d, Kinds
      <3> QED BY <1>3, <1>c, <3>1
    <2>3. ASSUME NEW g \in Trees, new.size[g] # 0 PROVE 2 * new.size[g] + 2 = Len(d[g])
      <3>1. CASE g = f
        BY <1>b, <1>c, <1>e, <2>3, <3>1
      <3>2. CASE g # f
        <4>1. g \in R
          BY <1>d, Kinds
        <4> QED BY <1>c, <1>e, <2>3, <3>2, <4>1
      <3> QED BY <3>1, <3>2
    <2> QED BY <1>f, <2>1, <2>2, <2>3 DEF Holds
  <1>h. /\ d[f][t] = << n, "leading" >> /\ d[f][t + 1] = << n, "trailing" >>
        /\ \A j \in 1..t - 1 : d[f][j] = c[f][j]
        /\ \A j \in t..Len(c[f]) : d[f][j + 2] = c[f][j]
    <2> DEFINE L == Len(c[f])
               p == Pasted(c[f], k, e)
    <2>1. \A j \in 1..L + 2 : p[j] = IF j <= k THEN c[f][j] ELSE IF j <= k + 2 THEN e[j - k] ELSE c[f][j - 2]
      BY <1>5 DEF Pasted
    <2>2. L \in Nat /\ k \in 1..L - 1 /\ t = k + 1
      BY <1>4
    <2> HIDE DEF L, p, k
    <2>3. p[t] = e[1]
      <3>1. t \in 1..L + 2 /\ ~(t <= k) /\ t <= k + 2 /\ t - k = 1
        BY <2>2
      <3> QED BY <2>1, <3>1
    <2>4. p[t + 1] = e[2]
      <3> DEFINE j == t + 1
      <3>1. j \in 1..L + 2 /\ ~(j <= k) /\ j <= k + 2 /\ j - k = 2
        BY <2>2
      <3> HIDE DEF j
      <3>2. p[j] = e[j - k]
        BY <2>1, <3>1
      <3> QED BY <3>1, <3>2 DEF j
    <2>5. \A j \in 1..t - 1 : p[j] = c[f][j]
      <3>1. \A j \in 1..t - 1 : j \in 1..L + 2 /\ j <= k
        BY <2>2
      <3> QED BY <2>1, <3>1
    <2>6. ASSUME NEW j \in t..L PROVE p[j + 2] = c[f][j]
      <3> DEFINE i == j + 2
      <3>1. i \in 1..L + 2 /\ ~(i <= k) /\ ~(i <= k + 2) /\ i - 2 = j
        BY <2>2
      <3> HIDE DEF i
      <3>2. p[i] = c[f][i - 2]
        BY <2>1, <3>1
      <3> QED BY <3>1, <3>2 DEF i
    <2> QED BY <1>5, <1>c, <2>3, <2>4, <2>5, <2>6 DEF p, L
  <1>i. \A y \in Owners(new) \ {f} : d[y] = c[y]
    BY <1>c, <1>d
  <1>j. Len(d[f]) = Len(c[f]) + 2
    BY <1>b, <1>c
  <1>k. Inserted(h, c, f, t, n, new, d)
    BY <1>d, <1>g, <1>h, <1>i, <1>j DEF Inserted
  <1> QED BY <1>a, <1>k DEF new, InsertDone

\* A size that is not exceeded does not wrap around.
LEMMA MinusFacts ==
    ASSUME NEW a \in 0..SizeMax, NEW b \in 0..a
    PROVE  Minus(a, b) = a - b
  <1>1. SizeMax \in Nat
    BY ForestAssumption
  <1> QED BY <1>1 DEF Minus

\* The k-th position of a tree is a node of it, with its leading edge at p and its trailing one at q.
Marks(h, c, f, k, m, p, q) ==
    /\ Mates(c[f], m) /\ p \in 2..Len(c[f]) - 1 /\ is_leading(c[f][p]) /\ q = m[p]
    /\ k \in 2..Len(c[f]) - 1 /\ c[f][k][1] = c[f][p][1] /\ (k = p \/ k = q)
    /\ (is_leading(c[f][k]) <=> k = p)
    /\ c[f][k] \in Places /\ c[f][k][1] \in Nodes \cap h.allocated

\* Between root() and end() there are both edges of allocated nodes.
LEMMA Marked ==
    ASSUME NEW h, NEW c, Holds(h, c), NEW f \in Trees, NEW k \in 2..Len(c[f]) - 1
    PROVE  \E m, p, q : Marks(h, c, f, k, m, p, q)
  <1> DEFINE o == c[f]
             L == Len(o)
  <1>1. f \in Owners(h) /\ Tour(h, c, f)
    BY Kinds, Toured
  <1>2. /\ o \in Seq(Places) /\ L \in Nat /\ L >= 2 /\ o[1] = << f, "leading" >> /\ o[L] = << f, "trailing" >>
        /\ \A l \in 1..L : o[l] \in Places
        /\ \E m : Mates(o, m)
    BY <1>1 DEF Tour
  <1>3. k \in 1..L /\ 1 \in 1..L /\ L \in 1..L /\ k # 1 /\ k # L
    BY <1>2
  <1>4. o[k][1] \in Nodes \cap h.allocated
    BY <1>1, <1>3, Inside
  <1>5. PICK m : Mates(o, m)
    BY <1>2
  <1>6. /\ m[k] \in 1..L /\ m[m[k]] = k /\ o[m[k]] = pivot_of(o[k])
        /\ is_leading(o[k]) <=> ~is_leading(o[m[k]])
    BY <1>2, <1>3, <1>5, MateOf
  <1>7. o[m[k]][1] = o[k][1]
    BY <1>2, <1>3, <1>6, PlaceFacts
  <1>8. m[k] # 1 /\ m[k] # L
    <2>1. o[1][1] \notin Nodes /\ o[L][1] \notin Nodes
      BY <1>2, Kinds
    <2> QED BY <1>4, <1>7, <2>1
  <1>9. m[k] \in 2..L - 1 /\ k \in 2..L - 1
    BY <1>2, <1>6, <1>8
  <1> HIDE DEF L
  <1>a. CASE is_leading(o[k])
    <2>1. Marks(h, c, f, k, m, k, m[k])
      BY <1>2, <1>3, <1>4, <1>5, <1>9, <1>a DEF Marks, L
    <2> QED BY <2>1
  <1>b. CASE ~is_leading(o[k])
    <2>1. m[k] # k
      BY <1>6, <1>b
    <2>2. Marks(h, c, f, k, m, m[k], k)
      BY <1>2, <1>3, <1>4, <1>5, <1>6, <1>7, <1>9, <1>b, <2>1 DEF Marks, L
    <2> QED BY <2>2
  <1> QED BY <1>a, <1>b

\* The node at the k-th position of f is erased.  What follows its trailing edge is two places nearer.
Erased(h, c, f, k, new, d) ==
    /\ Holds(new, d) /\ new.allocated = h.allocated \ {c[f][k][1]}
    /\ Len(d[f]) = Len(c[f]) - 2
    /\ \A y \in Owners(h) \ {f} : d[y] = c[y]
    /\ ~is_leading(c[f][k]) =>
          \A l \in k + 1..Len(c[f]), j \in 1..Len(d[f]) : j = l - 2 => d[f][j] = c[f][l]

EraseDone(h, c, f, k, at) ==
    /\ ~is_leading(at) => erase(h, f, at).at = c[f][k + 1]
    /\ \E d : Erased(h, c, f, k, erase(h, f, at).heap, d)

\* erase() takes out a node, which is linked to itself again.
LEMMA Erasing ==
    ASSUME NEW h, NEW c, Holds(h, c), NEW f \in Trees, NEW k \in 2..Len(c[f]) - 1,
           NEW at, at = c[f][k]
    PROVE  EraseDone(h, c, f, k, at)
  <1> DEFINE new == erase(h, f, at).heap
             o == c[f]
             L == Len(o)
             node == at[1]
             R == Owners(h)
             P == Places \ {<< node, "leading" >>, << node, "trailing" >>}
             linked == unlink(h.links, at)
             n == L - 2
  <1>1. f \in R /\ Tour(h, c, f)
    BY Kinds, Toured
  <1>2. /\ Rings(h.links, c, R, Places) /\ h \in HeapType
        /\ \A g \in Trees : h.size[g] # 0 => 2 * h.size[g] + 2 = Len(c[g])
        /\ \A i \in Nodes \ h.allocated : Len(c[i]) = 2
        /\ h.size \in [Trees -> Nat] /\ h.allocated \subseteq Nodes
    BY DEF Holds, HeapType
  <1>3. /\ o \in Seq(Places) /\ L \in Nat /\ L >= 2
        /\ \A j \in 1..L - 1 : next(h.links, o[j]) = o[j + 1]
    BY <1>1 DEF Tour
  <1>4. PICK m, p, q : Marks(h, c, f, k, m, p, q)
    BY Marked
  <1> DEFINE at2 == Skips(p, q, n)
             d0 == Along(o, at2, n)
             b == [c EXCEPT ![f] = d0]
             d == [y \in R \cup {node} |-> IF y = node THEN Pair(node) ELSE b[y]]
  <1>5. /\ Mates(o, m) /\ p \in 2..L - 1 /\ is_leading(o[p]) /\ q = m[p]
        /\ at \in Places /\ node = o[p][1] /\ node \in Nodes \cap h.allocated
        /\ k = p \/ k = q
        /\ is_leading(at) <=> k = p
        /\ k \in 1..L - 1 /\ k \in Nat
    BY <1>3, <1>4 DEF Marks
  <1>6. node \notin R /\ node # f /\ node \in Cells
    BY <1>5, Kinds DEF Cells
  <1>7. /\ Rings(linked, b, R, P)
        /\ n \in Nat /\ n >= 2 /\ d0 \in Seq(Places) /\ Len(d0) = n
        /\ q \in p + 1..L - 1
    <2> DEFINE i == at
    <2>1. at[1] = c[f][p][1] /\ d0 = Along(c[f], Skips(p, m[p], n), n) /\ n = Len(c[f]) - 2
          /\ linked = unlink(h.links, at) /\ Mates(c[f], m) /\ is_leading(c[f][p]) /\ p \in 2..Len(c[f]) - 1
      BY <1>5
    <2> HIDE DEF n, d0, linked
    <2>2. /\ Rings(linked, [c EXCEPT ![f] = d0], R, Places \ {<< at[1], "leading" >>, << at[1], "trailing" >>})
          /\ n \in Nat /\ n >= 2 /\ d0 \in Seq(Places) /\ Len(d0) = n
          /\ m[p] \in p + 1..Len(c[f]) - 1
      <3>1. UnlinkCase(h.links, c, R, Places, f, m, p, at, linked, n, d0)
        BY <1>1, <1>2, <1>5, <2>1 DEF UnlinkCase
      <3>2. UnlinkDone(c, R, Places, f, m, p, at, linked, n, d0)
        BY <3>1, Unlinked
      <3> QED BY <3>2 DEF UnlinkDone
    <2> QED BY <1>5, <2>2
  <1>8. Rings(new.links, d, R \cup {node}, Places)
    <2>1. new.links = [linked EXCEPT ![node] = SelfLinked(node)]
      BY DEF erase
    <2>2. << node, "leading" >> \notin P /\ << node, "trailing" >> \notin P
      OBVIOUS
    <2>3. P \cup Elems(Pair(node)) = Places
      <3>1. Elems(Pair(node)) = {<< node, "leading" >>, << node, "trailing" >>}
        BY <1>6, PairFacts
      <3>2. << node, "leading" >> \in Places /\ << node, "trailing" >> \in Places
        BY <1>6 DEF Places, Edge
      <3> QED BY <3>1, <3>2
    <2>4. AdoptCase(linked, b, R, P, node, new.links, d, Places)
      <3> HIDE DEF new, linked, b, P, R
      <3> QED BY <1>6, <1>7, <2>1, <2>2, <2>3 DEF AdoptCase
    <2> HIDE DEF new, linked, b, P, R, d
    <2> QED BY <2>4, Adopt
  <1>9. /\ d[f] = d0 /\ d[node] = Pair(node)
        /\ \A y \in R \ {f} : d[y] = c[y]
        /\ f \in DOMAIN c
    <2>1. DOMAIN c = R
      BY <1>2, AllRings
    <2>2. b[f] = d0 /\ \A y \in R \ {f} : b[y] = c[y]
      BY <1>1, <2>1
    <2> HIDE DEF b
    <2> QED BY <1>1, <1>6, <2>1, <2>2
  <1>a. /\ new.allocated = h.allocated \ {node} /\ Owners(new) = R \cup {node}
        /\ Nodes \ new.allocated = (Nodes \ h.allocated) \cup {node}
    <2>1. new.allocated = h.allocated \ {node}
      BY DEF erase
    <2> HIDE DEF new
    <2> QED BY <1>5, <2>1 DEF Owners
  <1>b. /\ new.size \in [Trees -> Nat]
        /\ \A g \in Trees : new.size[g] # 0 => 2 * new.size[g] + 2 = IF g = f THEN L - 2 ELSE Len(c[g])
    <2>1. new.size = IF size_valid(h, f) THEN [h.size EXCEPT ![f] = Minus(h.size[f], 1)] ELSE h.size
      BY DEF erase
    <2>2. /\ h.size[f] \in Nat
          /\ size_valid(h, f) => 2 * h.size[f] + 2 = L /\ h.size[f] <= SizeMax
          /\ ~size_valid(h, f) => h.size[f] = 0
      BY SizeFacts
    <2>3. CASE size_valid(h, f)
      <3>1. h.size[f] >= 1 /\ 2 * (h.size[f] - 1) + 2 = L - 2
        <4> DEFINE s == h.size[f]
        <4>1. s \in Nat /\ 2 * s + 2 = L /\ L >= 3
          BY <1>3, <1>5, <2>2, <2>3
        <4> HIDE DEF s, L
        <4>2. s >= 1 /\ 2 * (s - 1) + 2 = L - 2
          BY <4>1
        <4> QED BY <4>2 DEF s
      <3>2. Minus(h.size[f], 1) = h.size[f] - 1
        <4>1. h.size[f] \in 0..SizeMax /\ 1 \in 0..h.size[f]
          <5> DEFINE s == h.size[f]
          <5>1. s \in Nat /\ s >= 1 /\ s <= SizeMax
            BY <2>2, <2>3, <3>1
          <5> HIDE DEF s
          <5>2. s \in 0..SizeMax /\ 1 \in 0..s
            BY <5>1
          <5> QED BY <5>2 DEF s
        <4> QED BY <4>1, MinusFacts
      <3> HIDE DEF new, L
      <3> QED BY <1>2, <2>1, <2>2, <2>3, <3>1, <3>2
    <2>4. CASE ~size_valid(h, f)
      BY <1>2, <2>1, <2>2, <2>4
    <2> QED BY <2>3, <2>4
  <1>c. new \in HeapType
    <2>1. new.links \in LinkType
      BY <1>8 DEF Rings
    <2>2. new.allocated \subseteq Nodes
      BY <1>2, <1>a
    <2>3. new = [links |-> new.links, size |-> new.size, allocated |-> new.allocated]
      BY DEF erase
    <2> HIDE DEF new
    <2> QED BY <1>b, <2>1, <2>2, <2>3 DEF HeapType
  <1>d. ~is_leading(at) => erase(h, f, at).at = c[f][k + 1]
    BY <1>3, <1>5 DEF erase
  <1>e. SkipShape(at2, n, L, p, q)
    <2>1. L \in Nat /\ p \in Nat /\ q \in Nat /\ 1 < p /\ p < q /\ q < L
      BY <1>3, <1>5, <1>7
    <2> HIDE DEF L
    <2> QED BY <2>1, SkipFacts
  <1>f. ASSUME NEW l \in k + 1..L, NEW j \in 1..n, j = l - 2, ~is_leading(at) PROVE d0[j] = o[l]
    <2>1. k = q
      BY <1>5, <1>f
    <2>2. d0[j] = o[at2[j]]
      BY DEF Along
    <2>3. at2[j] = l
      <3>1. ~(j < p) /\ ~(j < q - 1) /\ j + 2 = l
        <4>1. k \in Nat /\ p \in Nat /\ q \in Nat /\ p < q /\ l >= q + 1 /\ l \in Int
          BY <1>3, <1>5, <1>7, <2>1
        <4> QED BY <1>f, <4>1
      <3> QED BY <3>1 DEF Skips
    <2> QED BY <2>2, <2>3
  <1> HIDE DEF d, new, linked, b, d0, P, R, L
  <1>g. Holds(new, d)
    <2>1. Rings(new.links, d, Owners(new), Places)
      BY <1>8, <1>a
    <2>2. ASSUME NEW i \in Nodes \ new.allocated PROVE Len(d[i]) = 2
      <3>1. CASE i = node
        BY <1>6, <1>9, <3>1, PairFacts
      <3>2. CASE i # node
        <4>1. i \in Nodes \ h.allocated /\ i \in R /\ i # f
          BY <1>a, <3>2, Kinds DEF R
        <4> QED BY <1>2, <1>9, <4>1
      <3> QED BY <3>1, <3>2
    <2>3. ASSUME NEW g \in Trees, new.size[g] # 0 PROVE 2 * new.size[g] + 2 = Len(d[g])
      <3>1. CASE g = f
        BY <1>7, <1>9, <1>b, <2>3, <3>1
      <3>2. CASE g # f
        <4>1. g \in R
          BY Kinds DEF R
        <4> QED BY <1>9, <1>b, <2>3, <3>2, <4>1
      <3> QED BY <3>1, <3>2
    <2> QED BY <1>c, <2>1, <2>2, <2>3 DEF Holds
  <1>h. Erased(h, c, f, k, new, d)
    BY <1>7, <1>9, <1>a, <1>f, <1>g DEF Erased, L, R
  <1> QED BY <1>d, <1>h DEF new, EraseDone

\* [first, last) are the positions a to b of x, and at is the t-th position of f.
SpliceCase(h, c, f, x, t, a, b, m, at, first, last, count) ==
    /\ Holds(h, c) /\ f \in Trees /\ x \in Trees /\ Mates(c[x], m)
    /\ t \in 2..Len(c[f]) /\ at = c[f][t]
    /\ a \in 2..Len(c[x]) /\ b \in a - 1..Len(c[x]) - 1
    /\ \A k \in a..b : m[k] \in a..b
    /\ first = c[x][a] /\ last = c[x][b + 1]
    /\ f = x => t \notin a + 1..b
    /\ count \in Nat /\ (count = 0 \/ 2 * count = b - a + 1)

\* w positions go from x to f.
Spliced(h, c, f, x, w, new, d) ==
    /\ Holds(new, d) /\ new.allocated = h.allocated
    /\ \A y \in Owners(h) \ {f, x} : d[y] = c[y]
    /\ f # x => Len(d[x]) = Len(c[x]) - w /\ Len(d[f]) = Len(c[f]) + w

\* The links a splice makes.
Joined(c, R, f, x, w, linked, d) ==
    /\ Rings(linked, d, R, Places)
    /\ \A y \in R \ {f, x} : d[y] = c[y]
    /\ IF f = x THEN Len(d[f]) = Len(c[f])
       ELSE Len(d[x]) = Len(c[x]) - w /\ Len(d[f]) = Len(c[f]) + w

\* splice() closes the gap at one place and opens one at another.
LEMMA Joining ==
    ASSUME NEW h, NEW c, NEW f, NEW x, NEW t, NEW a, NEW b, NEW m, NEW at, NEW first, NEW last,
           NEW count, SpliceCase(h, c, f, x, t, a, b, m, at, first, last, count),
           first # last, first # at,
           NEW new, new = splice_range(h, f, at, x, first, last, count)
    PROVE  \E d : Joined(c, Owners(h), f, x, b - a + 1, new.links, d)
  <1> DEFINE R == Owners(h)
             links == h.links
             o == c[x]
             L == Len(o)
             w == b - a + 1
             e == Segment(o, a, b)
             d0 == Without(o, a, b)
             from == o[a - 1]
             back == o[b]
             removed == set_next(links, from, last)
             c1 == [c EXCEPT ![x] = d0]
             P == Places \ Elems(e)
             u == IF f = x /\ t > b THEN t - w ELSE t
             k == u - 1
             joined == set_next(removed, c1[f][k], e[1])
             linked == set_next(joined, e[Len(e)], c1[f][u])
             d == [c1 EXCEPT ![f] = Pasted(c1[f], k, e)]
  <1>1. /\ Holds(h, c) /\ f \in Trees /\ x \in Trees /\ Mates(o, m)
        /\ t \in 2..Len(c[f]) /\ at = c[f][t]
        /\ a \in 2..L /\ b \in a - 1..L - 1
        /\ \A j \in a..b : m[j] \in a..b
        /\ first = o[a] /\ last = o[b + 1]
        /\ f = x => t \notin a + 1..b
    BY DEF SpliceCase
  <1>2. f \in R /\ x \in R /\ Tour(h, c, f) /\ Tour(h, c, x) /\ Rings(links, c, R, Places)
    BY <1>1, Kinds, Toured DEF Holds
  <1>3. /\ o \in Seq(Places) /\ L \in Nat /\ \A j \in 1..L : o[j] \in Places
        /\ \A j \in 1..L - 1 : prior(links, o[j + 1]) = o[j]
        /\ Len(c[f]) \in Nat
    BY <1>2 DEF Tour
  <1>4. /\ a \in Nat /\ b \in Nat /\ 1 < a /\ a <= b /\ b < L /\ b + 1 \in 1..L
        /\ a - 1 \in 1..L - 1 /\ (a - 1) + 1 = a /\ b \in 1..L - 1 /\ a - 1 \in 1..L /\ w \in Nat /\ w >= 1
        /\ t \in Nat /\ t >= 2
    <2>1. b + 1 # a /\ a \in 2..L /\ b \in a - 1..L - 1 /\ L \in Nat
      BY <1>1, <1>3
    <2>2. t \in Nat /\ t >= 2
      BY <1>1, <1>3
    <2> HIDE DEF L
    <2> QED BY <2>1, <2>2
  <1>5. prior(links, first) = from /\ prior(links, last) = back /\ from \in Places /\ last \in Places
    <2>1. prior(links, o[(a - 1) + 1]) = o[a - 1] /\ prior(links, o[b + 1]) = o[b]
      BY <1>3, <1>4
    <2> QED BY <1>1, <1>3, <1>4, <2>1
  <1>6. set_next_child(links, child_prior(links, first), last) = removed
    <2>1. pivot_of(pivot_of(from)) = from
      BY <1>5, PlaceFacts
    <2> QED BY <1>5, <2>1 DEF set_next_child, child_prior
  <1>7. CutDone(c, R, Places, x, a, b, removed, d0, e)
    <2>1. removed = set_next(links, c[x][a - 1], c[x][b + 1])
      BY <1>1
    <2> HIDE DEF removed, d0, e, R
    <2>2. CutCase(links, c, R, Places, x, m, a, b, removed, d0, e)
      BY <1>1, <1>2, <1>4, <2>1 DEF CutCase, d0, e
    <2> QED BY <2>2, Cut
  <1>8. Rings(removed, c1, R, P) /\ Run(removed, e) /\ Len(e) = w /\ Len(d0) = L - w
    <2>1. Len(d0) = L - w
      BY <1>3, <1>4 DEF Without
    <2> HIDE DEF removed, d0, e
    <2> QED BY <1>7, <2>1 DEF CutDone
  <1>9. e[1] = first /\ e[Len(e)] = back
    <2>1. 1 \in 1..w /\ w \in 1..w /\ a + 1 - 1 = a /\ a + w - 1 = b
      BY <1>4
    <2>2. \A j \in 1..w : e[j] = o[a + j - 1]
      BY DEF Segment
    <2> HIDE DEF e, w
    <2>3. e[1] = o[a + 1 - 1] /\ e[w] = o[a + w - 1]
      BY <2>1, <2>2
    <2> QED BY <1>1, <1>8, <2>1, <2>3
  <1>a. /\ c1[x] = d0 /\ (f # x => c1[f] = c[f]) /\ DOMAIN c1 = R
        /\ \A y \in R \ {f, x} : c1[y] = c[y]
    BY <1>2, AllRings
  <1>b. /\ u \in 2..Len(c1[f]) /\ c1[f][u] = at /\ k \in 1..Len(c1[f]) - 1 /\ u = k + 1
    <2>1. CASE f # x
      <3> HIDE DEF c1, L
      <3>1. c1[f] = c[f] /\ u = t
        BY <1>a, <2>1
      <3>2. t \in 2..Len(c[f]) /\ Len(c[f]) \in Nat /\ at = c[f][t]
        BY <1>1, <1>3
      <3> HIDE DEF u
      <3>3. k \in 1..Len(c[f]) - 1 /\ u = k + 1
        BY <3>1, <3>2
      <3> QED BY <3>1, <3>2, <3>3
    <2>2. CASE f = x
      <3> HIDE DEF c1
      <3>0. c1[f] = d0 /\ Len(d0) = L - w
        BY <1>8, <1>a, <2>2
      <3>1. t # a
        BY <1>1, <2>2
      <3>2. t < a \/ t > b
        BY <1>1, <1>4, <2>2, <3>1
      <3>3. \A j \in 1..L - w : d0[j] = IF j < a THEN o[j] ELSE o[j + w]
        BY DEF Without
      <3>4. t <= L
        BY <1>1, <2>2
      <3>5. CASE t < a
        <4>1. u = t /\ t \in 1..L - w
          BY <1>3, <1>4, <3>5
        <4> HIDE DEF d0, u, w
        <4>2. d0[t] = o[t]
          BY <3>3, <3>5, <4>1
        <4>3. u \in 2..L - w /\ L - w \in Nat
          BY <1>3, <1>4, <4>1
        <4> QED BY <1>1, <2>2, <3>0, <4>1, <4>2, <4>3
      <3>6. CASE t > b
        <4>1. u = t - w /\ u \in 1..L - w /\ ~(u < a) /\ u + w = t /\ u \in 2..L - w /\ L - w \in Nat
          BY <1>3, <1>4, <2>2, <3>4, <3>6
        <4> HIDE DEF d0, u, w
        <4>2. d0[u] = o[u + w]
          BY <3>3, <4>1
        <4> QED BY <1>1, <2>2, <3>0, <4>1, <4>2
      <3> QED BY <3>2, <3>5, <3>6
    <2> QED BY <2>1, <2>2
  <1> HIDE DEF removed, c1, d0, e, P, u, k, R
  <1>c. prior(removed, at) = c1[f][k]
    <2>1. /\ Ring(removed, f, c1[f]) /\ removed \in LinkType /\ f \in Cells
      BY <1>2, <1>8, RingFacts
    <2>2. \A j \in 1..Len(c1[f]) - 1 : prior(removed, c1[f][j + 1]) = c1[f][j]
      BY <2>1, Around
    <2> QED BY <1>b, <2>2
  <1>d. new.links = linked
    <2>1. new = [h EXCEPT !.links = set_next(set_next(removed, prior(removed, at), first), back, at),
                          !.size = Recount(h, f, x, count)]
      BY <1>5, <1>6 DEF splice_range
    <2>2. set_next(set_next(removed, prior(removed, at), first), back, at) = linked
      BY <1>9, <1>b, <1>c
    <2> HIDE DEF linked
    <2>3. h \in HeapType
      BY <1>1 DEF Holds
    <2> QED BY <2>1, <2>2, <2>3 DEF HeapType
  <1>e. /\ Rings(linked, d, R, Places)
        /\ Len(Pasted(c1[f], k, e)) = Len(c1[f]) + w
    <2>1. Outside(e, P) /\ Len(e) >= 1
      BY <1>4, <1>8 DEF Outside, Elems, P
    <2>2. Places = P \cup Elems(e)
      <3>1. \A j \in 1..Len(e) : e[j] \in Places
        BY <1>7 DEF CutDone
      <3> QED BY <3>1 DEF Elems, P
    <2> HIDE DEF joined, linked
    <2>3. PasteCase(removed, c1, R, P, f, e, k, u, joined, linked, Places)
      BY <1>2, <1>8, <1>b, <2>1, <2>2 DEF PasteCase, joined, linked
    <2>5. PasteDone(c1, R, f, e, k, linked, Places)
      BY <2>3, Paste
    <2>4. /\ Rings(linked, [c1 EXCEPT ![f] = Pasted(c1[f], k, e)], R, Places)
          /\ Len(Pasted(c1[f], k, e)) = Len(c1[f]) + Len(e)
      BY <2>5 DEF PasteDone
    <2> QED BY <1>8, <2>4
  <1>f. d[f] = Pasted(c1[f], k, e) /\ \A y \in R \ {f} : d[y] = c1[y]
    BY <1>2, <1>a
  <1> HIDE DEF linked, d
  <1>g. /\ IF f = x THEN Len(d[f]) = Len(c[f])
           ELSE Len(d[x]) = Len(c[x]) - w /\ Len(d[f]) = Len(c[f]) + w
    <2>1. CASE f = x
      <3>1. Len(d[f]) = (L - w) + w
        BY <1>8, <1>a, <1>e, <1>f, <2>1
      <3>2. (L - w) + w = L
        <4>1. L \in Nat /\ w \in Nat
          BY <1>3, <1>4
        <4> HIDE DEF L, w
        <4> QED BY <4>1
      <3> QED BY <2>1, <3>1, <3>2
    <2>2. CASE f # x
      BY <1>2, <1>8, <1>a, <1>e, <1>f, <2>2
    <2> QED BY <2>1, <2>2
  <1>h. Joined(c, R, f, x, w, new.links, d)
    BY <1>a, <1>d, <1>e, <1>f, <1>g DEF Joined
  <1> QED BY <1>h DEF R

\* What splice() does to the rings and to the sizes, with a count or without.
LEMMA Splicing ==
    ASSUME NEW h, NEW c, NEW f, NEW x, NEW t, NEW a, NEW b, NEW m, NEW at, NEW first, NEW last,
           NEW count, SpliceCase(h, c, f, x, t, a, b, m, at, first, last, count),
           NEW new, new = splice_range(h, f, at, x, first, last, count)
    PROVE  \E d : Spliced(h, c, f, x, b - a + 1, new, d)
  <1> DEFINE w == b - a + 1
             R == Owners(h)
             u == IF size_valid(h, f) THEN h.size[f] + count ELSE h.size[f]
             v == IF size_valid(h, x) THEN Minus(h.size[x], count) ELSE h.size[x]
  <1>1. /\ Holds(h, c) /\ f \in Trees /\ x \in Trees /\ Mates(c[x], m)
        /\ t \in 2..Len(c[f]) /\ at = c[f][t]
        /\ a \in 2..Len(c[x]) /\ b \in a - 1..Len(c[x]) - 1
        /\ first = c[x][a] /\ last = c[x][b + 1]
        /\ count \in Nat /\ (count = 0 \/ 2 * count = w)
    BY DEF SpliceCase
  <1>2. f \in R /\ x \in R /\ Rings(h.links, c, R, Places) /\ Len(c[f]) \in Nat /\ Len(c[x]) \in Nat
    BY <1>1, Kinds, AllRings DEF Holds
  <1>3. w \in Nat /\ w <= Len(c[x]) - 2
    <2> DEFINE L == Len(c[x])
    <2>1. L \in Nat /\ a \in 2..L /\ b \in a - 1..L - 1
      BY <1>1, <1>2
    <2> HIDE DEF L
    <2>2. w \in Nat /\ w <= L - 2
      BY <2>1
    <2> QED BY <2>2 DEF L
  <1>4. CASE first = last \/ first = at
    <2>1. new = h
      BY <1>4 DEF splice_range
    <2>2. f # x => w = 0
      <3>1. \A y, z \in R : \A k \in 1..Len(c[y]), l \in 1..Len(c[z]) : c[y][k] = c[z][l] => y = z
        BY <1>2, AllRings
      <3>2. a \in 1..Len(c[x]) /\ t \in 1..Len(c[f])
        BY <1>1, <1>2
      <3>3. first = at => f = x
        BY <1>1, <1>2, <3>1, <3>2
      <3>4. first = last => w = 0
        <4>1. b + 1 \in 1..Len(c[x]) /\ a \in Nat /\ b \in Int
          BY <1>1, <1>2
        <4>2. \A k, l \in 1..Len(c[x]) : c[x][k] = c[x][l] => k = l
          BY <1>2, RingFacts
        <4>3. first = last => a = b + 1
          BY <1>1, <3>2, <4>1, <4>2
        <4> QED BY <4>1, <4>3
      <3> QED BY <1>4, <3>3, <3>4
    <2>3. Spliced(h, c, f, x, w, new, c)
      <3>1. f # x => Len(c[x]) = Len(c[x]) - w /\ Len(c[f]) = Len(c[f]) + w
        BY <1>2, <2>2
      <3> QED BY <1>1, <2>1, <3>1 DEF Spliced
    <2> QED BY <2>3
  <1>5. CASE first # last /\ first # at
    <2>1. PICK d : Joined(c, R, f, x, w, new.links, d)
      BY <1>5, Joining
    <2>2. new = [h EXCEPT !.links = new.links, !.size = Recount(h, f, x, count)]
      <3>1. h = [links |-> h.links, size |-> h.size, allocated |-> h.allocated]
        BY <1>1 DEF Holds, HeapType
      <3>2. \E l : new = [h EXCEPT !.links = l, !.size = Recount(h, f, x, count)]
        BY <1>5 DEF splice_range
      <3>3. PICK l : new = [h EXCEPT !.links = l, !.size = Recount(h, f, x, count)]
        BY <3>2
      <3>4. new.links = l
        BY <3>1, <3>3
      <3> QED BY <3>3, <3>4
    <2>3. /\ h \in HeapType /\ h.size \in [Trees -> Nat]
          /\ \A g \in Trees : h.size[g] # 0 => 2 * h.size[g] + 2 = Len(c[g])
          /\ \A i \in Nodes \ h.allocated : Len(c[i]) = 2
      BY <1>1 DEF Holds, HeapType
    <2>4. new.allocated = h.allocated /\ new.size = Recount(h, f, x, count)
      BY <2>2, <2>3 DEF HeapType
    <2>5. /\ Rings(new.links, d, R, Places)
          /\ \A y \in R \ {f, x} : d[y] = c[y]
          /\ IF f = x THEN Len(d[f]) = Len(c[f])
             ELSE Len(d[x]) = Len(c[x]) - w /\ Len(d[f]) = Len(c[f]) + w
      BY <2>1 DEF Joined
    <2>6. /\ Recount(h, f, x, count) \in [Trees -> Nat]
          /\ \A g \in Trees : Recount(h, f, x, count)[g] # 0 => 2 * Recount(h, f, x, count)[g] + 2 = Len(d[g])
      <3> DEFINE r == Recount(h, f, x, count)
      <3>0. \A g \in Trees : g # f /\ g # x => d[g] = c[g]
        BY <2>5, Kinds
      <3>1. CASE f = x
        <4>1. r = h.size
          BY <3>1 DEF Recount
        <4>2. \A g \in Trees : Len(d[g]) = Len(c[g])
          BY <2>5, <3>0, <3>1
        <4> QED BY <2>3, <4>1, <4>2
      <3>2. CASE f # x /\ count = 0
        <4>1. r = [h.size EXCEPT ![f] = 0, ![x] = 0]
          BY <3>2 DEF Recount
        <4>2. r \in [Trees -> Nat] /\ r[f] = 0 /\ r[x] = 0
              /\ \A g \in Trees : g # f /\ g # x => r[g] = h.size[g]
          <5> DEFINE s == h.size
          <5>1. s \in [Trees -> Nat] /\ r = [s EXCEPT ![f] = 0, ![x] = 0] /\ f \in Trees /\ x \in Trees
            BY <1>1, <2>3, <4>1
          <5> HIDE DEF s, r
          <5>2. r \in [Trees -> Nat] /\ r[f] = 0 /\ r[x] = 0 /\ \A g \in Trees : g # f /\ g # x => r[g] = s[g]
            BY <5>1
          <5> QED BY <5>2 DEF s
        <4> HIDE DEF r
        <4>3. \A g \in Trees : r[g] # 0 => 2 * r[g] + 2 = Len(d[g])
          BY <2>3, <3>0, <4>2
        <4> QED BY <4>2, <4>3 DEF r
      <3>3. CASE f # x /\ count # 0
        <4>1. r = [h.size EXCEPT ![f] = u, ![x] = v]
          BY <1>1, <3>3 DEF Recount
        <4>2. u \in Nat /\ (u # 0 => 2 * u + 2 = Len(c[f]) + w)
          <5> DEFINE s == h.size[f]
                     L == Len(c[f])
          <5>1. s \in Nat /\ (size_valid(h, f) => 2 * s + 2 = L) /\ (~size_valid(h, f) => s = 0) /\ L \in Nat
            BY <1>1, <1>2, SizeFacts
          <5>2. 2 * count = w /\ count \in Nat
            BY <1>1, <3>3
          <5> HIDE DEF s, L, w
          <5>3. CASE size_valid(h, f)
            <6>1. u = s + count
              BY <5>3 DEF s
            <6> HIDE DEF u
            <6> QED BY <5>1, <5>2, <5>3, <6>1 DEF L
          <5>4. CASE ~size_valid(h, f)
            BY <5>1, <5>4 DEF s
          <5> QED BY <5>3, <5>4
        <4>3. v \in Nat /\ (v # 0 => 2 * v + 2 = Len(c[x]) - w)
          <5> DEFINE s == h.size[x]
                     L == Len(c[x])
          <5>1. s \in Nat /\ (size_valid(h, x) => 2 * s + 2 = L /\ s <= SizeMax) /\ (~size_valid(h, x) => s = 0) /\ L \in Nat
            BY <1>1, <1>2, SizeFacts
          <5>2. 2 * count = w /\ count \in Nat /\ w <= L - 2
            BY <1>1, <1>3, <3>3
          <5> HIDE DEF s, L, w
          <5>3. CASE size_valid(h, x)
            <6>1. v = Minus(s, count)
              BY <5>3 DEF s
            <6>2. s \in 0..SizeMax /\ count \in 0..s
              BY <5>1, <5>2, <5>3
            <6>3. v = s - count
              BY <6>1, <6>2, MinusFacts
            <6> HIDE DEF v
            <6> QED BY <5>1, <5>2, <5>3, <6>2, <6>3 DEF L
          <5>4. CASE ~size_valid(h, x)
            BY <5>1, <5>4 DEF s
          <5> QED BY <5>3, <5>4
        <4> HIDE DEF u, v, w
        <4>4. r \in [Trees -> Nat] /\ r[f] = u /\ r[x] = v
              /\ \A g \in Trees : g # f /\ g # x => r[g] = h.size[g]
          BY <1>1, <2>3, <3>3, <4>1, <4>2, <4>3
        <4> HIDE DEF r
        <4>5. ASSUME NEW g \in Trees, r[g] # 0 PROVE 2 * r[g] + 2 = Len(d[g])
          <5>1. CASE g = f
            BY <2>5, <3>3, <4>2, <4>4, <4>5, <5>1
          <5>2. CASE g = x
            BY <2>5, <3>3, <4>3, <4>4, <4>5, <5>2
          <5>3. CASE g # f /\ g # x
            BY <2>3, <3>0, <4>4, <4>5, <5>3
          <5> QED BY <5>1, <5>2, <5>3
        <4> QED BY <4>4, <4>5 DEF r
      <3> QED BY <3>1, <3>2, <3>3
    <2>7. new \in HeapType
      <3>1. new.links \in LinkType
        BY <2>5 DEF Rings
      <3>2. new = [links |-> new.links, size |-> new.size, allocated |-> new.allocated]
        BY <2>2, <2>3 DEF HeapType
      <3>3. h.allocated \subseteq Nodes
        BY <2>3 DEF HeapType
      <3> QED BY <2>4, <2>6, <3>1, <3>2, <3>3 DEF HeapType
    <2>8. Owners(new) = R
      BY <2>4 DEF Owners
    <2>9. \A i \in Nodes \ new.allocated : Len(d[i]) = 2
      <3> SUFFICES ASSUME NEW i \in Nodes \ h.allocated PROVE Len(d[i]) = 2
        BY <2>4
      <3>1. i \in R /\ i # f /\ i # x
        BY <1>1, Kinds
      <3> QED BY <2>3, <2>5, <3>1
    <2>a. Holds(new, d)
      BY <2>4, <2>5, <2>6, <2>7, <2>8, <2>9 DEF Holds
    <2>b. Spliced(h, c, f, x, w, new, d)
      <3> HIDE DEF w
      <3> QED BY <2>4, <2>5, <2>a DEF Spliced
    <2> QED BY <2>b
  <1> QED BY <1>4, <1>5

-----------------------------------------------------------------------------
(***************************************************************************)
(* Positions.                                                              *)
(***************************************************************************)
\* The elements of a segment.
LEMMA SegmentIs ==
    ASSUME NEW o, NEW a \in Nat, NEW b \in Int, a - 1 <= b
    PROVE  /\ DOMAIN Segment(o, a, b) = 1..b - a + 1
           /\ \A k \in 1..b - a + 1 : Segment(o, a, b)[k] = o[a + k - 1]
           /\ \A k \in a..b : k - a + 1 \in 1..b - a + 1 /\ Segment(o, a, b)[k - a + 1] = o[k]
  <1>1. \A k \in 1..b - a + 1 : Segment(o, a, b)[k] = o[a + k - 1]
    BY DEF Segment
  <1>2. ASSUME NEW k \in a..b
        PROVE  k - a + 1 \in 1..b - a + 1 /\ Segment(o, a, b)[k - a + 1] = o[k]
    <2> DEFINE j == k - a + 1
    <2>1. j \in 1..b - a + 1 /\ a + j - 1 = k
      OBVIOUS
    <2> HIDE DEF j
    <2>2. Segment(o, a, b)[j] = o[a + j - 1]
      BY <1>1, <2>1
    <2> QED BY <2>1, <2>2 DEF j
  <1>3. DOMAIN Segment(o, a, b) = 1..b - a + 1
    BY DEF Segment
  <1> QED BY <1>1, <1>2, <1>3

\* A walk from the a-th position of a ring to the b-th.
LEMMA PathAlong ==
    ASSUME NEW h, NEW c, Holds(h, c), NEW x \in Owners(h),
           NEW a \in 1..Len(c[x]), NEW b \in a..Len(c[x]), NEW first, first = c[x][a], NEW last, last = c[x][b]
    PROVE  Path(h.links, first, last) = Segment(c[x], a, b - 1)
  <1> DEFINE o == c[x]
             L == Len(o)
  <1>1. Tour(h, c, x)
    BY Toured
  <1>2. /\ o \in Seq(Places) /\ L \in Nat
        /\ \A k, l \in 1..L : o[k] = o[l] => k = l
        /\ \A k \in 1..L - 1 : next(h.links, o[k]) = o[k + 1]
    BY <1>1 DEF Tour
  <1>3. L <= Bound /\ Bound \in Nat
    BY LenBound, BoundType
  <1>4. a \in Nat /\ b \in Nat /\ 1 <= a /\ a <= b /\ b <= L /\ b - a <= Bound
    <2>1. a \in 1..L /\ b \in a..L
      OBVIOUS
    <2> HIDE DEF L
    <2> QED BY <1>2, <1>3, <2>1
  <1>5. L = Len(o)
    OBVIOUS
  <1> HIDE DEF o, L
  <1>6. Path(h.links, o[a], o[b]) = Segment(o, a, b - 1)
    BY <1>2, <1>4, <1>5, PathIs
  <1> QED BY <1>6 DEF o

\* The fullorder range of a tree is its ring without root() and end().
LEMMA FullorderIs ==
    ASSUME NEW h, NEW c, Holds(h, c), NEW f \in Trees
    PROVE  /\ Fullorder(h, f) = Segment(c[f], 2, Len(c[f]) - 1)
           /\ Iterators(h, f) = {c[f][k] : k \in 2..Len(c[f])}
  <1> DEFINE L == Len(c[f])
  <1>1. /\ root(f) = c[f][1] /\ end(f) = c[f][L] /\ begin(h.links, f) = c[f][2]
    BY SizeFacts
  <1>2. f \in Owners(h) /\ Tour(h, c, f)
    BY Kinds, Toured
  <1>3. L \in Nat /\ L >= 2 /\ 2 \in 1..L /\ L \in 2..L
    BY <1>2 DEF Tour
  <1>4. Fullorder(h, f) = Segment(c[f], 2, L - 1)
    <2>1. Path(h.links, begin(h.links, f), end(f)) = Segment(c[f], 2, L - 1)
      BY <1>1, <1>2, <1>3, PathAlong
    <2> QED BY <2>1, Paths
  <1> DEFINE s == Segment(c[f], 2, L - 1)
  <1>5. /\ DOMAIN s = 1..L - 1 - 2 + 1
        /\ \A k \in 1..L - 1 - 2 + 1 : s[k] = c[f][2 + k - 1]
        /\ \A k \in 2..L - 1 : k - 2 + 1 \in 1..L - 1 - 2 + 1 /\ s[k - 2 + 1] = c[f][k]
    <2>1. L - 1 \in Int /\ 2 - 1 <= L - 1
      BY <1>3
    <2> HIDE DEF L
    <2> QED BY <2>1, SegmentIs
  <1>6. Iterators(h, f) = {s[k] : k \in DOMAIN s} \cup {c[f][L]}
    BY <1>1, <1>4 DEF Iterators
  <1> HIDE DEF s, L
  <1>7. ASSUME NEW k \in DOMAIN s PROVE \E l \in 2..L : s[k] = c[f][l]
    <2>1. 2 + k - 1 \in 2..L
      BY <1>3, <1>5
    <2> QED BY <1>5, <2>1
  <1>8. ASSUME NEW l \in 2..L PROVE c[f][l] = c[f][L] \/ \E k \in DOMAIN s : s[k] = c[f][l]
    <2>1. l = L \/ l \in 2..L - 1
      BY <1>3
    <2> QED BY <1>5, <2>1
  <1>9. {s[k] : k \in DOMAIN s} \cup {c[f][L]} = {c[f][k] : k \in 2..L}
    BY <1>3, <1>7, <1>8
  <1> QED BY <1>4, <1>6, <1>9 DEF s, L

\* [first, last) are the positions a to b of x, with both edges of each node.
Closed(h, c, x, m, a, b, first, last) ==
    /\ Mates(c[x], m) /\ a \in 2..Len(c[x]) /\ b \in a - 1..Len(c[x]) - 1
    /\ \A k \in a..b : m[k] \in a..b
    /\ first = c[x][a] /\ last = c[x][b + 1]

\* A closed range is a segment of the ring.
LEMMA BetweenIs ==
    ASSUME NEW c, Holds(heap, c), NEW x \in Trees, NEW m, NEW a, NEW b, NEW first, NEW last,
           Closed(heap, c, x, m, a, b, first, last)
    PROVE  Between(first, last) = Segment(c[x], a, b)
  <1>1. x \in Owners(heap) /\ Tour(heap, c, x)
    BY Kinds, Toured
  <1>2. Len(c[x]) \in Nat
    BY <1>1 DEF Tour
  <1>3. a \in 1..Len(c[x]) /\ b + 1 \in a..Len(c[x]) /\ first = c[x][a] /\ last = c[x][b + 1] /\ (b + 1) - 1 = b
    <2> DEFINE L == Len(c[x])
    <2>1. L \in Nat /\ a \in 2..L /\ b \in a - 1..L - 1
      BY <1>2 DEF Closed
    <2> HIDE DEF L
    <2>2. a \in 1..L /\ b + 1 \in a..L /\ (b + 1) - 1 = b
      BY <2>1
    <2> QED BY <2>2 DEF L, Closed
  <1> DEFINE l == b + 1
  <1> HIDE DEF l
  <1>4. Path(heap.links, first, last) = Segment(c[x], a, l - 1)
    BY <1>1, <1>3, PathAlong DEF l
  <1> QED BY <1>3, <1>4, Paths DEF l

\* It is not moved to a place inside of it.
LEMMA TargetIs ==
    ASSUME NEW c, Holds(heap, c), NEW f \in Trees, NEW x \in Trees, NEW m, NEW a, NEW b, NEW first, NEW last,
           Closed(heap, c, x, m, a, b, first, last), NEW at \in Targets(f, x, first, last)
    PROVE  \E t \in 2..Len(c[f]) : at = c[f][t] /\ (f = x => t \notin a + 1..b)
  <1> DEFINE s == Segment(c[x], a, b)
  <1>1. at \in Iterators(heap, f) \ (IF f = x THEN {s[k] : k \in (DOMAIN s) \ {1}} ELSE {})
    BY BetweenIs DEF Targets
  <1>2. PICK t \in 2..Len(c[f]) : at = c[f][t]
    BY <1>1, FullorderIs
  <1>3. /\ DOMAIN s = 1..b - a + 1
        /\ \A k \in a..b : k - a + 1 \in 1..b - a + 1 /\ s[k - a + 1] = c[x][k]
        /\ a \in Nat
    <2>1. Len(c[x]) \in Nat
      BY Kinds, Toured DEF Tour
    <2>2. a \in Nat /\ b \in Int /\ a - 1 <= b
      BY <2>1 DEF Closed
    <2> QED BY <2>2, SegmentIs
  <1> HIDE DEF s
  <1>4. ASSUME f = x, t \in a + 1..b PROVE FALSE
    <2>1. t \in a..b /\ t - a + 1 # 1
      BY <1>3, <1>4
    <2>2. s[t - a + 1] = at /\ t - a + 1 \in (DOMAIN s) \ {1}
      BY <1>2, <1>3, <1>4, <2>1
    <2> QED BY <1>1, <1>4, <2>2
  <1> QED BY <1>2, <1>4

-----------------------------------------------------------------------------
(***************************************************************************)
(* Moving.                                                                 *)
(***************************************************************************)
\* [a, b] is closed: with an edge the other edge of the node is there.
Sealed(o, m, a, b) ==
    /\ o \in Seq(Places) /\ Mates(o, m) /\ a \in 2..Len(o) /\ b \in a - 1..Len(o) - 1
    /\ \A k \in a..b : m[k] \in a..b

\* All of a tree is closed.
LEMMA Whole ==
    ASSUME NEW h, NEW c, Holds(h, c), NEW x \in Trees
    PROVE  \E m : Sealed(c[x], m, 2, Len(c[x]) - 1)
  <1> DEFINE L == Len(c[x])
             b == L - 1
  <1>1. Tour(h, c, x) /\ L \in Nat /\ L >= 2
    BY Kinds, Toured DEF Tour
  <1>2. PICK m : Mates(c[x], m)
    BY <1>1 DEF Tour
  <1>3. ASSUME NEW k \in 2..b PROVE m[k] \in 2..b
    <2>1. PICK m2, p, q : Marks(h, c, x, k, m2, p, q)
      BY <1>3, Marked
    <2>2. m2 = m
      <3>1. /\ c[x] \in Seq(Places) /\ Mates(c[x], m2)
            /\ m \in [1..L -> 1..L] /\ m2 \in [1..L -> 1..L]
            /\ \A l, j \in 1..L : c[x][l] = c[x][j] => l = j
            /\ \A j \in 1..L : c[x][m[j]] = pivot_of(c[x][j])
            /\ \A j \in 1..L : c[x][m2[j]] = pivot_of(c[x][j])
        BY <1>1, <1>2, <2>1 DEF Marks, Mates, Tour
      <3>2. ASSUME NEW j \in 1..L PROVE m2[j] = m[j]
        <4>1. m[j] \in 1..L /\ m2[j] \in 1..L /\ c[x][m2[j]] = c[x][m[j]]
          BY <3>1
        <4> QED BY <3>1, <4>1
      <3> QED BY <3>1, <3>2
    <2>3. /\ p \in 2..b /\ q = m[p] /\ (k = p \/ k = q) /\ is_leading(c[x][p]) /\ c[x] \in Seq(Places)
      BY <1>1, <2>1, <2>2 DEF Marks, Tour
    <2>4. /\ m[p] \in 1..L /\ m[m[p]] = p /\ p < m[p] /\ p \in 1..L
      <3>1. p \in 1..L
        BY <1>1, <2>3
      <3> QED BY <1>2, <2>3, <3>1, MateOf
    <2>5. m[p] # L
      <3>1. 1 \in 1..L /\ L \in 1..L /\ 1 # p
        BY <1>1, <2>3
      <3>2. c[x][m[L]] = pivot_of(c[x][L]) /\ m[L] \in 1..L
        BY <1>2, <3>1 DEF Mates
      <3>3. c[x][1] = pivot_of(c[x][L])
        BY <1>1 DEF Tour, pivot_of, pivot
      <3>4. m[L] = 1
        BY <1>1, <3>1, <3>2, <3>3 DEF Tour
      <3> QED BY <2>4, <3>1, <3>4
    <2>6. m[p] \in 2..b
      BY <1>1, <2>3, <2>4, <2>5
    <2> QED BY <2>3, <2>4, <2>6
  <1>4. 2 \in 2..L /\ b \in 2 - 1..L - 1
    <2> HIDE DEF L
    <2> QED BY <1>1
  <1>5. c[x] \in Seq(Places)
    BY <1>1 DEF Tour
  <1>6. Sealed(c[x], m, 2, b)
    BY <1>2, <1>3, <1>4, <1>5 DEF Sealed
  <1> QED BY <1>6

\* All of x goes to f.
LEMMA SplicingAll ==
    ASSUME NEW h, NEW c, Holds(h, c), NEW f \in Trees, NEW x \in Trees, f # x,
           NEW t \in 2..Len(c[f]), NEW at, at = c[f][t]
    PROVE  \E d : Spliced(h, c, f, x, Len(c[x]) - 2, splice(h, f, at, x), d)
  <1> DEFINE L == Len(c[x])
             b == L - 1
             count == IF size_valid(h, x) THEN h.size[x] ELSE 0
  <1>1. Tour(h, c, x) /\ L \in Nat /\ L >= 2
    BY Kinds, Toured DEF Tour
  <1>2. PICK m : Sealed(c[x], m, 2, L - 1)
    BY Whole
  <1>3. Mates(c[x], m) /\ \A k \in 2..b : m[k] \in 2..b
    BY <1>2 DEF Sealed
  <1>4. count \in Nat /\ (count = 0 \/ 2 * count = L - 2)
    <2> DEFINE s == h.size[x]
    <2>1. s \in Nat /\ (size_valid(h, x) => 2 * s + 2 = L)
      BY SizeFacts
    <2> HIDE DEF s, L
    <2>2. count = IF size_valid(h, x) THEN s ELSE 0
      BY DEF s
    <2> HIDE DEF count
    <2>3. 2 * s + 2 = L => 2 * s = L - 2
      BY <1>1, <2>1
    <2> QED BY <2>1, <2>2, <2>3
  <1>5. begin(h.links, x) = c[x][2] /\ end(x) = c[x][b + 1] /\ b - 2 + 1 = L - 2
        /\ 2 \in 2..L /\ b \in 2 - 1..L - 1
    <2>1. begin(h.links, x) = c[x][2] /\ end(x) = c[x][L]
      BY SizeFacts
    <2> HIDE DEF L
    <2>2. b + 1 = L /\ b - 2 + 1 = L - 2 /\ 2 \in 2..L /\ b \in 2 - 1..L - 1
      BY <1>1
    <2> QED BY <2>1, <2>2
  <1>6. splice(h, f, at, x) = splice_range(h, f, at, x, begin(h.links, x), end(x), count)
    BY DEF splice
  <1> HIDE DEF b, count
  <1>7. SpliceCase(h, c, f, x, t, 2, b, m, at, begin(h.links, x), end(x), count)
    BY <1>3, <1>4, <1>5 DEF SpliceCase
  <1>8. \E d : Spliced(h, c, f, x, b - 2 + 1, splice(h, f, at, x), d)
    BY <1>6, <1>7, Splicing
  <1> QED BY <1>5, <1>8

\* x is left empty.
Moved(h, c, f, x, new, d) ==
    /\ Holds(new, d) /\ new.allocated = h.allocated
    /\ \A y \in Owners(h) \ {f, x} : d[y] = c[y]
    /\ Len(d[x]) = 2

\* A move leaves the forest it is from empty.
LEMMA Moving ==
    ASSUME NEW h, NEW c, Holds(h, c), NEW f \in Trees, NEW x \in Trees, f # x
    PROVE  \E d : Moved(h, c, f, x, move(h, f, x), d)
  <1>1. Tour(h, c, f) /\ Tour(h, c, x)
    BY Kinds, Toured
  <1>2. Len(c[f]) \in 2..Len(c[f]) /\ end(f) = c[f][Len(c[f])] /\ Len(c[x]) \in Nat
    BY <1>1, SizeFacts DEF Tour
  <1> DEFINE at == end(f)
             t == Len(c[f])
  <1> HIDE DEF at, t
  <1>3. t \in 2..Len(c[f]) /\ at = c[f][t]
    BY <1>2 DEF at, t
  <1>4. PICK d : Spliced(h, c, f, x, Len(c[x]) - 2, splice(h, f, at, x), d)
    BY <1>3, SplicingAll
  <1>5. Len(d[x]) = 2
    BY <1>2, <1>4 DEF Spliced
  <1>6. Moved(h, c, f, x, move(h, f, x), d)
    BY <1>4, <1>5 DEF Spliced, Moved, move, at
  <1> QED BY <1>6

\* The node at the k-th position of x, and what is below it.
LEMMA SplicingOne ==
    ASSUME NEW h, NEW c, Holds(h, c), NEW x \in Trees, NEW k \in 2..Len(c[x]) - 1, NEW i, i = c[x][k]
    PROVE  \E m, a, b : /\ Closed(h, c, x, m, a, b, leading_of(i), child_next(h.links, leading_of(i)))
                        /\ ~has_children(h.links, leading_of(i)) => b - a + 1 = 2
  <1> DEFINE o == c[x]
             L == Len(o)
             links == h.links
  <1>1. PICK m, p, q : Marks(h, c, x, k, m, p, q)
    BY Marked
  <1>2. /\ Tour(h, c, x) /\ o \in Seq(Places) /\ L \in Nat /\ \A l \in 1..L : o[l] \in Places
        /\ \A l \in 1..L - 1 : next(links, o[l]) = o[l + 1]
    BY Kinds, Toured DEF Tour
  <1>3. /\ Mates(o, m) /\ p \in 2..L - 1 /\ is_leading(o[p]) /\ q = m[p] /\ i[1] = o[p][1]
        /\ p \in 1..L - 1 /\ p \in 1..L /\ p \in Nat
    <2>1. p \in 2..L - 1
      BY <1>1 DEF Marks
    <2> HIDE DEF L
    <2>2. p \in 1..L - 1 /\ p \in 1..L /\ p \in Nat
      BY <1>2, <2>1
    <2> QED BY <1>1, <2>1, <2>2 DEF Marks, L
  <1>4. /\ q \in 1..L /\ p < q /\ o[q] = pivot_of(o[p]) /\ m[q] = p
        /\ \A l \in 1..L : o[l][1] = o[p][1] => l = p \/ l = q
    BY <1>2, <1>3, MateOf
  <1>5. q # L
    <2>1. o[L][1] \notin Nodes
      BY <1>2, Kinds DEF Tour
    <2>2. i[1] \in Nodes
      BY <1>1 DEF Marks
    <2>3. o[q][1] = i[1]
      BY <1>2, <1>3, <1>4, PlaceFacts
    <2> QED BY <2>1, <2>2, <2>3
  <1>6. leading_of(i) = o[p]
    <2>1. leading_of(o[p]) = o[p]
      BY <1>2, <1>3, PlaceFacts
    <2> QED BY <1>3, <2>1 DEF leading_of
  <1>7. q \in 1..L - 1 /\ q \in p - 1..L - 1 /\ q \in Nat
    <2> HIDE DEF L
    <2> QED BY <1>2, <1>3, <1>4, <1>5
  <1>8. child_next(links, leading_of(i)) = o[q + 1]
    BY <1>2, <1>4, <1>6, <1>7 DEF child_next
  <1>9. \A j \in p..q : m[j] \in p..q
    BY <1>3 DEF Mates
  <1>a. Closed(h, c, x, m, p, q, leading_of(i), child_next(links, leading_of(i)))
    <2>1. p \in 2..L
      BY <1>3
    <2> QED BY <1>3, <1>6, <1>7, <1>8, <1>9, <2>1 DEF Closed
  <1>b. ~has_children(links, leading_of(i)) => q - p + 1 = 2
    <2>1. leading_of(leading_of(i)) = leading_of(i)
      BY DEF leading_of
    <2>2. ~has_children(links, leading_of(i)) => o[p][1] = o[p + 1][1]
      BY <1>2, <1>3, <1>6, <2>1 DEF has_children, equal_node
    <2>3. p + 1 \in 1..L
      BY <1>2, <1>3
    <2>4. o[p + 1][1] = o[p][1] => p + 1 = p \/ p + 1 = q
      BY <1>4, <2>3
    <2>5. p + 1 = p \/ p + 1 = q => q - p + 1 = 2
      BY <1>3, <1>7
    <2> QED BY <2>2, <2>4, <2>5
  <1> QED BY <1>a, <1>b

\* [first, last) is put below a new node.
LEMMA InsertingParent ==
    ASSUME NEW h, NEW c, Holds(h, c), NEW f \in Trees, NEW n \in Nodes \ h.allocated,
           NEW m, NEW a, NEW b, NEW first, NEW last, Closed(h, c, f, m, a, b, first, last),
           NEW new, new = insert_parent(h, f, first, last, n)
    PROVE  \E d : /\ Holds(new, d) /\ new.allocated = h.allocated \cup {n}
                  /\ \A y \in Owners(new) \ {f} : d[y] = c[y]
  <1> DEFINE o == c[f]
             L == Len(o)
             t == b + 1
             mid == insert(h, f, last, n).heap
             at == insert(h, f, last, n).at
  <1>1. /\ Mates(o, m) /\ a \in 2..L /\ b \in a - 1..L - 1
        /\ \A k \in a..b : m[k] \in a..b
        /\ first = o[a] /\ last = o[t]
    BY DEF Closed
  <1>2. Tour(h, c, f) /\ o \in Seq(Places) /\ L \in Nat /\ \A k, l \in 1..L : o[k] = o[l] => k = l
    BY Kinds, Toured DEF Tour
  <1>3. t \in 2..L /\ a \in Nat /\ b \in Nat /\ t \in Nat /\ t = b + 1 /\ t <= L /\ a <= t /\ a >= 2
    <2>1. a \in 2..L /\ b \in a - 1..L - 1
      BY <1>1
    <2> HIDE DEF L
    <2> QED BY <1>2, <2>1
  <1>4. at = << n, "leading" >> /\ \E d : Inserted(h, c, f, t, n, mid, d)
    <2>1. t \in 2..Len(c[f]) /\ last = c[f][t]
      BY <1>1, <1>3
    <2> HIDE DEF t
    <2>2. InsertDone(h, c, f, t, n, last)
      BY <2>1, Inserting
    <2> QED BY <2>2 DEF InsertDone
  <1>5. PICK d : Inserted(h, c, f, t, n, mid, d)
    BY <1>4
  <1>6. /\ Holds(mid, d) /\ mid.allocated = h.allocated \cup {n}
        /\ Len(d[f]) = L + 2
        /\ d[f][t] = << n, "leading" >> /\ d[f][t + 1] = << n, "trailing" >>
        /\ \A k \in 1..t - 1 : d[f][k] = o[k]
        /\ \A y \in Owners(mid) \ {f} : d[y] = c[y]
    BY <1>5 DEF Inserted
  <1>7. CASE first = last
    <2>1. new = mid
      BY <1>7 DEF insert_parent
    <2> QED BY <1>6, <2>1
  <1>8. CASE first # last
    <2>1. new = splice_range(mid, f, trailing_of(at), f, first, at, 0)
      BY <1>8 DEF insert_parent
    <2>2. a # t
      BY <1>1, <1>8
    <2>3. Tour(mid, d, f) /\ d[f] \in Seq(Places) /\ \A k, l \in 1..L + 2 : d[f][k] = d[f][l] => k = l
      BY <1>6, Kinds, Toured DEF Tour
    <2>4. PICK m2 : Mates(d[f], m2)
      BY <2>3 DEF Tour
    <2> HIDE DEF mid, at, t, L
    <2>5. ASSUME NEW k \in a..b PROVE m2[k] \in a..b
      <3>1. k \in 1..t - 1 /\ m[k] \in 1..t - 1 /\ k \in 1..L /\ k \in 1..L + 2 /\ m[k] \in 1..L + 2 /\ m[k] \in a..b
        <4>1. m[k] \in a..b
          BY <1>1
        <4> QED BY <1>2, <1>3, <4>1
      <3>2. o[m[k]] = pivot_of(o[k])
        BY <1>1, <3>1 DEF Mates, L
      <3>3. d[f][m2[k]] = pivot_of(d[f][k]) /\ m2[k] \in 1..L + 2
        BY <1>6, <2>4, <3>1 DEF Mates
      <3>4. d[f][m2[k]] = d[f][m[k]]
        BY <1>6, <3>1, <3>2, <3>3
      <3>5. m2[k] = m[k]
        BY <2>3, <3>1, <3>3, <3>4
      <3> QED BY <3>1, <3>5
    <2>6. first = d[f][a] /\ at = d[f][b + 1] /\ trailing_of(at) = d[f][t + 1]
      <3>1. a \in 1..t - 1
        BY <1>3, <2>2
      <3> QED BY <1>1, <1>3, <1>4, <1>6, <3>1 DEF trailing_of
    <2>7. a \in 2..Len(d[f]) /\ b \in a - 1..Len(d[f]) - 1 /\ t + 1 \in 2..Len(d[f]) /\ t + 1 \notin a + 1..b
          /\ 0 \in Nat
      BY <1>2, <1>3, <1>6
    <2> DEFINE u == t + 1
               back == trailing_of(at)
    <2> HIDE DEF u, back
    <2>8. SpliceCase(mid, d, f, f, u, a, b, m2, back, first, at, 0)
      BY <1>6, <2>4, <2>5, <2>6, <2>7 DEF SpliceCase, u, back
    <2>9. new = splice_range(mid, f, back, f, first, at, 0)
      BY <2>1 DEF back
    <2>a. PICK e : Spliced(mid, d, f, f, b - a + 1, new, e)
      BY <2>8, <2>9, Splicing
    <2>b. /\ Holds(new, e) /\ new.allocated = mid.allocated
          /\ \A y \in Owners(mid) \ {f} : e[y] = d[y]
      BY <2>a DEF Spliced
    <2>c. Owners(new) = Owners(mid)
      BY <2>b DEF Owners
    <2> QED BY <1>6, <2>b, <2>c
  <1> QED BY <1>7, <1>8

\* The loop of erase_range is at the k-th position of f, and ends at the l-th.
Erasure(c, f, last, s, d, k, l) ==
    /\ Holds(s.heap, d) /\ \A y \in Trees \ {f} : d[y] = c[y]
    /\ l \in 2..Len(d[f]) /\ k \in 2..l
    /\ s.at = d[f][k] /\ last = d[f][l]

ErasureType == [heap : HeapType, at : Places, depth : Nat]

ErasingStep(f, s) ==
    IF is_leading(s.at)
    THEN [heap |-> s.heap, at |-> next(s.heap.links, s.at), depth |-> s.depth + 1]
    ELSE LET e == erase(s.heap, f, s.at)
         IN  IF s.depth > 0 THEN [heap |-> e.heap, at |-> e.at, depth |-> s.depth - 1]
             ELSE [s EXCEPT !.at = next(s.heap.links, @)]

\* Each step of erase_range leaves rings, and is nearer to the end.
LEMMA ErasureStep ==
    ASSUME NEW c, NEW f \in Trees, NEW last, NEW s \in ErasureType, NEW d, NEW k, NEW l,
           Erasure(c, f, last, s, d, k, l), s.at # last
    PROVE  \E d2, k2, l2 : /\ Erasure(c, f, last, ErasingStep(f, s), d2, k2, l2)
                           /\ ErasingStep(f, s) \in ErasureType
  <1> DEFINE o == d[f]
             L == Len(o)
             t == ErasingStep(f, s)
             e == erase(s.heap, f, s.at)
  <1>1. /\ Holds(s.heap, d) /\ \A y \in Trees \ {f} : d[y] = c[y]
        /\ l \in 2..L /\ k \in 2..l
        /\ s.at = o[k] /\ last = o[l]
    BY DEF Erasure
  <1>2. /\ Tour(s.heap, d, f) /\ L \in Nat
        /\ \A j \in 1..L : o[j] \in Places
        /\ \A j \in 1..L - 1 : next(s.heap.links, o[j]) = o[j + 1]
    <2>1. Tour(s.heap, d, f)
      BY <1>1, Kinds, Toured
    <2> QED BY <2>1 DEF Tour
  <1>3. /\ s.heap \in HeapType /\ s.depth \in Nat /\ s = [heap |-> s.heap, at |-> s.at, depth |-> s.depth]
    BY DEF ErasureType
  <1>4. k # l
    BY <1>1
  <1> HIDE DEF L
  <1>5. /\ k \in 2..L - 1 /\ k \in 1..L - 1 /\ k + 1 \in 2..l /\ k + 1 \in 1..L /\ k \in Nat /\ l \in Nat /\ k < l
        /\ l <= L
    BY <1>1, <1>2, <1>4
  <1>6. next(s.heap.links, s.at) = o[k + 1] /\ o[k + 1] \in Places
    BY <1>1, <1>2, <1>5
  <1>7. CASE is_leading(s.at)
    <2>1. t = [heap |-> s.heap, at |-> o[k + 1], depth |-> s.depth + 1]
      BY <1>6, <1>7 DEF ErasingStep
    <2>2. Erasure(c, f, last, t, d, k + 1, l)
      BY <1>1, <1>5, <2>1 DEF Erasure, L
    <2>3. t \in ErasureType
      <3>1. s.depth + 1 \in Nat
        BY <1>3
      <3> QED BY <1>3, <1>6, <2>1, <3>1 DEF ErasureType
    <2> QED BY <2>2, <2>3
  <1>8. CASE ~is_leading(s.at) /\ ~(s.depth > 0)
    <2>1. t = [s EXCEPT !.at = o[k + 1]]
      BY <1>6, <1>8 DEF ErasingStep
    <2>2. t = [heap |-> s.heap, at |-> o[k + 1], depth |-> s.depth]
      BY <1>3, <2>1
    <2>3. Erasure(c, f, last, t, d, k + 1, l)
      BY <1>1, <1>5, <2>2 DEF Erasure, L
    <2>4. t \in ErasureType
      BY <1>3, <1>6, <2>2 DEF ErasureType
    <2> QED BY <2>3, <2>4
  <1>9. CASE ~is_leading(s.at) /\ s.depth > 0
    <2> DEFINE i == s.at
               hp == s.heap
    <2>0. i = d[f][k] /\ k \in 2..Len(d[f]) - 1 /\ Holds(hp, d)
      BY <1>1, <1>5 DEF L
    <2> HIDE DEF i, hp
    <2>1. EraseDone(hp, d, f, k, i)
      BY <2>0, Erasing
    <2>2. PICK d2 : Erased(hp, d, f, k, erase(hp, f, i).heap, d2)
      BY <2>1 DEF EraseDone
    <2>3. erase(hp, f, i).at = o[k + 1]
      BY <1>9, <2>1 DEF EraseDone, i
    <2>4. t = [heap |-> e.heap, at |-> o[k + 1], depth |-> s.depth - 1]
      BY <1>9, <2>3 DEF ErasingStep, i, hp
    <2>5. /\ Holds(e.heap, d2) /\ Len(d2[f]) = L - 2
          /\ \A y \in Owners(s.heap) \ {f} : d2[y] = d[y]
          /\ \A n \in k + 1..L, j \in 1..L - 2 : j = n - 2 => d2[f][j] = o[n]
      BY <1>9, <2>2, <2>0 DEF Erased, i, hp, L
    <2>6. k >= 3
      <3>1. PICK m, p, q : Marks(s.heap, d, f, k, m, p, q)
        BY <1>1, <1>5, Marked DEF L
      <3>2. /\ Mates(o, m) /\ p \in 2..L - 1 /\ is_leading(o[p]) /\ q = m[p] /\ (k = p \/ k = q)
            /\ k # p /\ p \in 1..L
        <4>1. p \in 2..L - 1
          BY <3>1 DEF Marks, L
        <4>2. p \in 1..L
          BY <1>2, <4>1
        <4> QED BY <1>1, <1>9, <3>1, <4>1, <4>2 DEF Marks
      <3>3. p < m[p]
        <4>1. o \in Seq(Places)
          BY <1>2 DEF Tour
        <4> QED BY <3>2, <4>1, MateOf DEF L
      <3> QED BY <1>2, <1>5, <3>2, <3>3
    <2>7. /\ l - 2 \in 2..L - 2 /\ k - 1 \in 2..l - 2 /\ d2[f][k - 1] = o[k + 1] /\ d2[f][l - 2] = o[l]
      <3> DEFINE x == k - 1
                 y == l - 2
                 z == k + 1
      <3>1. /\ z \in k + 1..L /\ l \in k + 1..L /\ x \in 1..L - 2 /\ y \in 1..L - 2 /\ x = z - 2 /\ y = l - 2
            /\ y \in 2..L - 2 /\ x \in 2..y
        BY <1>2, <1>5, <2>6
      <3> HIDE DEF x, y, z
      <3>2. d2[f][x] = o[z] /\ d2[f][y] = o[l]
        BY <2>5, <3>1
      <3> QED BY <3>1, <3>2 DEF x, y, z
    <2>8. \A y \in Trees \ {f} : d2[y] = c[y]
      BY <1>1, <2>5, Kinds
    <2>9. Erasure(c, f, last, t, d2, k - 1, l - 2)
      <3> HIDE DEF t
      <3> QED BY <1>1, <2>4, <2>5, <2>7, <2>8 DEF Erasure
    <2>a. t \in ErasureType
      <3>1. s.depth - 1 \in Nat /\ e.heap \in HeapType
        BY <1>3, <1>9, <2>5 DEF Holds
      <3> QED BY <1>6, <2>4, <3>1 DEF ErasureType
    <2> QED BY <2>9, <2>a
  <1> QED BY <1>7, <1>8, <1>9

\* No tree but f is different.
OnlyIn(c, f, new, d) == Holds(new, d) /\ \A y \in Trees \ {f} : d[y] = c[y]

\* erase_range leaves rings, and the other trees alone.
LEMMA ErasingRange ==
    ASSUME NEW h, NEW c, Holds(h, c), NEW f \in Trees, NEW l \in 2..Len(c[f]), NEW k \in 2..l,
           NEW first, first = c[f][k], NEW last, last = c[f][l]
    PROVE  \E d : OnlyIn(c, f, erase_range(h, f, first, last), d)
  <1> DEFINE S == {s \in ErasureType : \E d, i, j : Erasure(c, f, last, s, d, i, j)}
             done(s) == s.at = last
             step(s) == IF is_leading(s.at)
                        THEN [heap |-> s.heap, at |-> next(s.heap.links, s.at), depth |-> s.depth + 1]
                        ELSE LET e == erase(s.heap, f, s.at)
                             IN  IF s.depth > 0 THEN [heap |-> e.heap, at |-> e.at, depth |-> s.depth - 1]
                                 ELSE [s EXCEPT !.at = next(s.heap.links, @)]
             F == [s \in S |-> IF done(s) THEN s ELSE step(s)]
             start == [heap |-> h, at |-> first, depth |-> 0]
             Body(g) == [n \in 0..Bound |->
                            IF n = 0 THEN start
                            ELSE CHOOSE s \in {IF done(s) THEN s ELSE step(s) : s \in {g[n - 1]}} : TRUE]
             after == CHOOSE g : g = Body(g)
  <1>0. Bound \in Nat
    BY BoundType
  <1>3. erase_range(h, f, first, last) = after[Bound].heap
    BY DEF erase_range, Loop
  <1> HIDE DEF after
  <1>1. \A s : step(s) = ErasingStep(f, s)
    BY DEF ErasingStep
  <1>2. start \in S
    <2>1. Tour(h, c, f)
      BY Kinds, Toured
    <2>2. k \in 1..Len(c[f])
      BY <2>1 DEF Tour
    <2>3. first \in Places /\ h \in HeapType
      BY <2>1, <2>2 DEF Tour, Holds
    <2>4. Erasure(c, f, last, start, c, k, l)
      BY DEF Erasure
    <2> QED BY <2>3, <2>4 DEF ErasureType
  <1> HIDE DEF done, step, start
  <1>8. F \in [S -> S]
    <2>1. ASSUME NEW s \in S PROVE (IF done(s) THEN s ELSE step(s)) \in S
      <3>1. CASE ~done(s)
        <4>1. PICK d, i, j : Erasure(c, f, last, s, d, i, j)
          OBVIOUS
        <4>2. s.at # last
          BY <3>1 DEF done
        <4>3. \E d2, k2, l2 : /\ Erasure(c, f, last, ErasingStep(f, s), d2, k2, l2)
                              /\ ErasingStep(f, s) \in ErasureType
          BY <4>1, <4>2, ErasureStep
        <4> QED BY <1>1, <3>1, <4>3
      <3> QED BY <3>1
    <2> QED BY <2>1
  <1>b. start \in S
    BY <1>2
  <1>e. PICK g : Steps(S, F, start, Bound, g)
    <2> HIDE DEF S, F
    <2> QED BY <1>0, <1>8, <1>b, Iterate
  <1>g. \A v \in S : (CHOOSE s \in {IF done(s) THEN s ELSE step(s) : s \in {v}} : TRUE) = F[v]
    <2> SUFFICES ASSUME NEW v \in S
                 PROVE  (CHOOSE s \in {IF done(s) THEN s ELSE step(s) : s \in {v}} : TRUE) = F[v]
      OBVIOUS
    <2>1. {IF done(s) THEN s ELSE step(s) : s \in {v}} = {F[v]}
      BY DEF F
    <2> HIDE DEF F
    <2> QED BY <2>1, Single
  <1>h. g = Body(g)
    <2>1. g \in [0..Bound -> S] /\ g[0] = start /\ \A i \in 0..Bound - 1 : g[i + 1] = F[g[i]]
      BY <1>e DEF Steps
    <2> HIDE DEF F, S
    <2>2. ASSUME NEW i \in 0..Bound PROVE g[i] = Body(g)[i]
      <3>1. CASE i = 0
        BY <2>1, <3>1
      <3>2. CASE i # 0
        <4>1. i - 1 \in 0..Bound - 1 /\ i - 1 \in 0..Bound /\ (i - 1) + 1 = i
          BY <1>0, <3>2
        <4>2. g[i - 1] \in S /\ g[i] = F[g[i - 1]]
          BY <2>1, <4>1
        <4> QED BY <1>g, <3>2, <4>2
      <3> QED BY <3>1, <3>2
    <2> QED BY <2>1, <2>2
  <1>i. after = Body(after)
    <2> HIDE DEF Body
    <2> QED BY <1>h DEF after
  <1>j. Follows(S, F, start, Bound, after)
    <2> HIDE DEF F, S
    <2>1. 0 \in 0..Bound
      BY <1>0
    <2>2. \A i \in 0..Bound : after[i] = Body(after)[i]
      BY <1>i
    <2> HIDE DEF after
    <2>3. after[0] = start
      BY <2>1, <2>2
    <2>4. ASSUME NEW i \in 0..Bound - 1, after[i] \in S PROVE after[i + 1] = F[after[i]]
      <3> DEFINE j == i + 1
      <3>1. j \in 0..Bound /\ j # 0 /\ j - 1 = i
        BY <1>0
      <3> HIDE DEF j
      <3>2. after[j] = CHOOSE s \in {IF done(s) THEN s ELSE step(s) : s \in {after[j - 1]}} : TRUE
        BY <2>2, <3>1
      <3>3. (CHOOSE s \in {IF done(s) THEN s ELSE step(s) : s \in {after[i]}} : TRUE) = F[after[i]]
        BY <1>g, <2>4
      <3>4. after[j] = F[after[i]]
        BY <3>1, <3>2, <3>3
      <3> QED BY <3>4 DEF j
    <2> QED BY <2>3, <2>4 DEF Follows
  <1>k. after[Bound] \in S
    <2> HIDE DEF S, F
    <2>1. after[Bound] = g[Bound]
      BY <1>0, <1>e, <1>j, SameSteps
    <2> QED BY <1>0, <1>e, <2>1 DEF Steps
  <1> QED BY <1>3, <1>k DEF OnlyIn, Erasure

-----------------------------------------------------------------------------
(***************************************************************************)
(* Copying.                                                                *)
(***************************************************************************)
\* The positions from a on whose mates do not come before q.
Open(m, a, q) == {i \in a..q - 1 : m[i] >= q}

\* A leading edge opens a node, a trailing edge closes the one it opened.
LEMMA OpenSteps ==
    ASSUME NEW o, NEW m, NEW a, NEW b, Sealed(o, m, a, b), NEW q \in a..b
    PROVE  IF is_leading(o[q]) THEN q \notin Open(m, a, q) /\ Open(m, a, q + 1) = Open(m, a, q) \cup {q}
           ELSE m[q] \in Open(m, a, q) /\ Open(m, a, q + 1) = Open(m, a, q) \ {m[q]}
  <1> DEFINE L == Len(o)
  <1>1. o \in Seq(Places) /\ Mates(o, m) /\ a \in 2..L /\ b \in a - 1..L - 1 /\ L \in Nat
        /\ \A k \in a..b : m[k] \in a..b
    BY DEF Sealed
  <1>2. \A k \in 1..L : m[k] \in 1..L /\ m[m[k]] = k /\ (is_leading(o[k]) <=> k < m[k])
                        /\ (~is_leading(o[k]) <=> m[k] < k)
    BY <1>1, MateOf
  <1> HIDE DEF L
  <1>3. q \in Nat /\ a \in Nat /\ b \in Nat /\ q \in 1..L /\ m[q] \in a..b /\ m[q] \in Nat /\ m[m[q]] = q
    BY <1>1, <1>2
  <1>4. \A i \in a..q : i \in 1..L /\ m[i] \in Nat
    BY <1>1, <1>2, <1>3
  <1>5. \A i \in Nat : i \in a..(q + 1) - 1 <=> i \in a..q - 1 \/ i = q
    BY <1>3
  <1>6. q \notin a..q - 1
    BY <1>3
  <1>7. CASE is_leading(o[q])
    <2>1. q < m[q]
      BY <1>2, <1>3, <1>7
    <2>2. ASSUME NEW i \in a..q - 1 PROVE m[i] >= q <=> m[i] >= q + 1
      <3>1. i \in 1..L /\ m[i] \in Nat /\ i < q
        BY <1>3, <1>4
      <3>2. m[i] # q
        BY <1>2, <1>3, <2>1, <3>1
      <3> QED BY <1>3, <3>1, <3>2
    <2>3. m[q] >= q + 1
      BY <1>3, <2>1
    <2>4. \A i : i \in Open(m, a, q + 1) <=> i \in Open(m, a, q) \cup {q}
      <3> SUFFICES ASSUME NEW i PROVE i \in Open(m, a, q + 1) <=> i \in Open(m, a, q) \cup {q}
        OBVIOUS
      <3>1. CASE i \in a..q - 1
        <4>1. i # q /\ i \in a..(q + 1) - 1
          BY <1>3, <3>1
        <4> QED BY <2>2, <3>1, <4>1 DEF Open
      <3>2. CASE i = q
        <4>1. q \in a..(q + 1) - 1
          BY <1>3
        <4> QED BY <2>3, <3>2, <4>1 DEF Open
      <3>3. CASE i \notin a..q - 1 /\ i # q
        <4>1. i \notin a..(q + 1) - 1
          BY <1>3, <3>3
        <4> QED BY <3>3, <4>1 DEF Open
      <3> QED BY <3>1, <3>2, <3>3
    <2> QED BY <1>6, <1>7, <2>4 DEF Open
  <1>8. CASE ~is_leading(o[q])
    <2>1. m[q] < q /\ m[q] \in a..q - 1
      BY <1>2, <1>3, <1>8
    <2>2. ASSUME NEW i \in a..q - 1 PROVE m[i] >= q + 1 <=> m[i] >= q /\ i # m[q]
      <3>1. i \in 1..L /\ m[i] \in Nat /\ i < q
        BY <1>3, <1>4
      <3>2. m[i] = q <=> i = m[q]
        BY <1>2, <1>3, <3>1
      <3> QED BY <1>3, <3>1, <3>2
    <2>3. m[q] \in Open(m, a, q)
      BY <1>3, <2>1 DEF Open
    <2>4. \A i : i \in Open(m, a, q + 1) <=> i \in Open(m, a, q) \ {m[q]}
      <3> SUFFICES ASSUME NEW i PROVE i \in Open(m, a, q + 1) <=> i \in Open(m, a, q) \ {m[q]}
        OBVIOUS
      <3>1. CASE i \in a..q - 1
        <4>1. i # q /\ i \in a..(q + 1) - 1
          BY <1>3, <3>1
        <4> QED BY <2>2, <3>1, <4>1 DEF Open
      <3>2. CASE i = q
        <4>1. ~(m[q] >= q + 1)
          BY <1>3, <2>1
        <4> QED BY <1>6, <3>2, <4>1 DEF Open
      <3>3. CASE i \notin a..q - 1 /\ i # q
        <4>1. i \notin a..(q + 1) - 1
          BY <1>3, <3>3
        <4> QED BY <3>3, <4>1 DEF Open
      <3> QED BY <3>1, <3>2, <3>3
    <2> QED BY <1>8, <2>3, <2>4
  <1> QED BY <1>7, <1>8

\* How many there are.
OpenNumber(o, m, a, q, n, n2) ==
    /\ n \in Nat /\ n = Cardinality(Open(m, a, q)) /\ n2 \in Nat /\ n2 = Cardinality(Open(m, a, q + 1))
    /\ IF is_leading(o[q]) THEN n2 = n + 1 ELSE n >= 1 /\ n2 = n - 1

\* So their number goes up and down.
LEMMA OpenCount ==
    ASSUME NEW o, NEW m, NEW a, NEW b, Sealed(o, m, a, b), NEW q \in a..b
    PROVE  \E n, n2 : OpenNumber(o, m, a, q, n, n2)
  <1> DEFINE T == Open(m, a, q)
             U == Open(m, a, q + 1)
             n == Cardinality(T)
             n2 == Cardinality(U)
  <1>1. IF is_leading(o[q]) THEN q \notin T /\ U = T \cup {q} ELSE m[q] \in T /\ U = T \ {m[q]}
    BY OpenSteps
  <1>2. a \in Int /\ q - 1 \in Int
    BY DEF Sealed
  <1>3. IsFiniteSet(T)
    <2>1. IsFiniteSet(a..q - 1)
      BY <1>2, FS_Interval
    <2>2. T \subseteq a..q - 1
      BY DEF Open
    <2> HIDE DEF T
    <2> QED BY <2>1, <2>2, FS_Subset
  <1>4. n \in Nat
    BY <1>3, FS_CardinalityType
  <1> HIDE DEF T, U
  <1>5. CASE is_leading(o[q])
    <2>1. n2 = n + 1
      BY <1>1, <1>3, <1>5, FS_AddElement
    <2>2. OpenNumber(o, m, a, q, n, n2)
      BY <1>4, <1>5, <2>1 DEF OpenNumber, T, U
    <2> QED BY <2>2
  <1>6. CASE ~is_leading(o[q])
    <2>1. n2 = n - 1
      BY <1>1, <1>3, <1>6, FS_RemoveElement
    <2>2. n # 0
      BY <1>1, <1>3, <1>6, FS_EmptySet
    <2>3. OpenNumber(o, m, a, q, n, n2)
      <3> HIDE DEF n, n2
      <3>1. n >= 1 /\ n2 \in Nat
        BY <1>4, <2>1, <2>2
      <3> QED BY <1>4, <1>6, <2>1, <3>1 DEF OpenNumber, T, U, n, n2
    <2> QED BY <2>3
  <1> QED BY <1>5, <1>6

\* None is open at the start.
LEMMA OpenNone ==
    ASSUME NEW m, NEW a \in Int
    PROVE  Cardinality(Open(m, a, a)) = 0
  <1>1. Open(m, a, a) = {}
    <2>1. \A i \in Int : i \notin a..a - 1
      OBVIOUS
    <2> QED BY <2>1 DEF Open
  <1> QED BY <1>1, FS_EmptySet

\* The nodes fr are fresh, one for each leading edge.
FreshFor(h, o, a, b, fr) ==
    \A i \in a..b : is_leading(o[i]) =>
        /\ fr[i] \in Nodes \ h.allocated
        /\ \A j \in a..b : is_leading(o[j]) /\ fr[i] = fr[j] => i = j

Used(o, a, q, fr) == {fr[i] : i \in {i \in a..q - 1 : is_leading(o[i])}}

\* [a, q) of o is copied to f, before the t-th position; the trailing edges of what is open follow.
Copied(h0, c, f, o, m, a, q, fr, h, d, t) ==
    /\ Holds(h, d) /\ \A y \in Trees \ {f} : d[y] = c[y]
    /\ h.allocated = h0.allocated \cup Used(o, a, q, fr)
    /\ t \in 2..Len(d[f]) /\ Len(d[f]) - t >= Cardinality(Open(m, a, q))
    /\ \A j \in t..t + Cardinality(Open(m, a, q)) - 1 : ~is_leading(d[f][j])

\* A leading edge uses a node.
LEMMA UsedNext ==
    ASSUME NEW o, NEW a \in Int, NEW q \in Int, a <= q, NEW fr
    PROVE  Used(o, a, q + 1, fr) = IF is_leading(o[q]) THEN Used(o, a, q, fr) \cup {fr[q]} ELSE Used(o, a, q, fr)
  <1>1. \A i \in Int : i \in a..(q + 1) - 1 <=> i \in a..q - 1 \/ i = q
    OBVIOUS
  <1>2. {i \in a..(q + 1) - 1 : is_leading(o[i])}
          = {i \in a..q - 1 : is_leading(o[i])} \cup (IF is_leading(o[q]) THEN {q} ELSE {})
    BY <1>1
  <1> QED BY <1>2 DEF Used

\* A trailing edge is passed: it is one that the copy has opened.
LEMMA CopyTrailing ==
    ASSUME NEW h0, NEW c, NEW f \in Trees, NEW o, NEW m, NEW a, NEW b, Sealed(o, m, a, b), NEW q \in a..b, NEW fr,
           NEW h, NEW d, NEW t, Copied(h0, c, f, o, m, a, q, fr, h, d, t), ~is_leading(o[q])
    PROVE  /\ Copied(h0, c, f, o, m, a, q + 1, fr, h, d, t + 1)
           /\ ~is_leading(d[f][t]) /\ next(h.links, d[f][t]) = d[f][t + 1]
  <1> DEFINE L == Len(d[f])
  <1>1. PICK n, n2 : OpenNumber(o, m, a, q, n, n2)
    BY OpenCount
  <1>2. /\ n \in Nat /\ n = Cardinality(Open(m, a, q)) /\ n2 \in Nat /\ n2 = Cardinality(Open(m, a, q + 1))
        /\ n >= 1 /\ n2 = n - 1
    BY <1>1 DEF OpenNumber
  <1>3. /\ Holds(h, d) /\ \A y \in Trees \ {f} : d[y] = c[y]
        /\ h.allocated = h0.allocated \cup Used(o, a, q, fr)
        /\ t \in 2..L /\ L - t >= n
        /\ \A j \in t..t + n - 1 : ~is_leading(d[f][j])
    BY <1>2 DEF Copied
  <1>4. Tour(h, d, f)
    BY <1>3, Kinds, Toured
  <1>5. L \in Nat /\ \A k \in 1..L - 1 : next(h.links, d[f][k]) = d[f][k + 1]
    BY <1>4 DEF Tour
  <1> HIDE DEF L
  <1>6. /\ t \in 1..L - 1 /\ t + 1 \in 2..L /\ L - (t + 1) >= n2 /\ t \in t..t + n - 1
        /\ \A j \in t + 1..(t + 1) + n2 - 1 : j \in t..t + n - 1
    BY <1>2, <1>3, <1>5
  <1>7. Used(o, a, q + 1, fr) = Used(o, a, q, fr)
    <2>1. a \in Int /\ q \in Int /\ a <= q
      BY DEF Sealed
    <2> QED BY <2>1, UsedNext
  <1>8. Copied(h0, c, f, o, m, a, q + 1, fr, h, d, t + 1)
    BY <1>2, <1>3, <1>6, <1>7 DEF Copied, L
  <1> QED BY <1>3, <1>5, <1>6, <1>8

\* A leading edge has a node inserted.
LEMMA CopyLeading ==
    ASSUME NEW h0, NEW c, NEW f \in Trees, NEW o, NEW m, NEW a, NEW b, Sealed(o, m, a, b), NEW q \in a..b, NEW fr,
           NEW h, NEW d, NEW t, Copied(h0, c, f, o, m, a, q, fr, h, d, t), is_leading(o[q]),
           FreshFor(h0, o, a, b, fr),
           NEW at, at = d[f][t], NEW r, r = insert(h, f, at, fr[q])
    PROVE  \E d2 : /\ Copied(h0, c, f, o, m, a, q + 1, fr, r.heap, d2, t + 1)
                   /\ next(r.heap.links, r.at) = d2[f][t + 1]
  <1> DEFINE L == Len(d[f])
             node == fr[q]
             new == r.heap
             u == t + 1
  <1>1. PICK n, n2 : OpenNumber(o, m, a, q, n, n2)
    BY OpenCount
  <1>2. /\ n \in Nat /\ n = Cardinality(Open(m, a, q)) /\ n2 \in Nat /\ n2 = Cardinality(Open(m, a, q + 1))
        /\ n2 = n + 1
    BY <1>1 DEF OpenNumber
  <1>3. /\ Holds(h, d) /\ \A y \in Trees \ {f} : d[y] = c[y]
        /\ h.allocated = h0.allocated \cup Used(o, a, q, fr)
        /\ t \in 2..L /\ L - t >= n
        /\ \A j \in t..t + n - 1 : ~is_leading(d[f][j])
    BY <1>2 DEF Copied
  <1>4. L \in Nat /\ a \in Int /\ q \in Int /\ a <= q /\ q <= b /\ b \in Int
    <2>1. Tour(h, d, f)
      BY <1>3, Kinds, Toured
    <2>2. L \in Nat
      BY <2>1 DEF Tour
    <2>3. a \in Int /\ b \in Int
      BY DEF Sealed
    <2> HIDE DEF L
    <2> QED BY <2>2, <2>3
  <1>5. node \in Nodes \ h.allocated
    <2>1. ASSUME node \in Used(o, a, q, fr) PROVE FALSE
      <3>1. PICK i \in a..q - 1 : is_leading(o[i]) /\ fr[i] = node
        BY <2>1 DEF Used
      <3>2. i \in a..b /\ i # q
        BY <1>4
      <3> QED BY <3>1, <3>2 DEF FreshFor
    <2> QED BY <1>3, <2>1 DEF FreshFor
  <1>6. InsertDone(h, d, f, t, node, at)
    <2> HIDE DEF node
    <2> QED BY <1>3, <1>5, Inserting
  <1>7. PICK d2 : Inserted(h, d, f, t, node, new, d2)
    BY <1>6 DEF InsertDone
  <1>8. /\ Holds(new, d2) /\ new.allocated = h.allocated \cup {node}
        /\ Len(d2[f]) = L + 2
        /\ d2[f][t] = << node, "leading" >> /\ d2[f][t + 1] = << node, "trailing" >>
        /\ \A k \in t..L : d2[f][k + 2] = d[f][k]
        /\ \A y \in Owners(new) \ {f} : d2[y] = d[y]
    BY <1>7 DEF Inserted
  <1>9. next(new.links, r.at) = d2[f][t + 1]
    <2>1. r.at = d2[f][t]
      BY <1>6, <1>8 DEF InsertDone
    <2>2. Tour(new, d2, f)
      BY <1>8, Kinds, Toured
    <2>3. t \in 1..Len(d2[f]) - 1
      <3> HIDE DEF L
      <3> QED BY <1>3, <1>4, <1>8
    <2> QED BY <2>1, <2>2, <2>3 DEF Tour
  <1> HIDE DEF L, new, node
  <1>a. u \in 2..L + 2 /\ (L + 2) - u >= n2
    BY <1>2, <1>3, <1>4
  <1>b. ASSUME NEW j \in u..u + n2 - 1 PROVE ~is_leading(d2[f][j])
    <2>1. CASE j = t + 1
      BY <1>8, <2>1 DEF is_leading
    <2>2. CASE j # t + 1
      <3> DEFINE k == j - 2
      <3>1. k \in t..t + n - 1 /\ k \in t..L /\ j = k + 2
        BY <1>2, <1>3, <1>4, <2>2
      <3> HIDE DEF k
      <3> QED BY <1>3, <1>8, <3>1
    <2> QED BY <2>1, <2>2
  <1>c. Used(o, a, q + 1, fr) = Used(o, a, q, fr) \cup {node}
    BY <1>4, UsedNext DEF node
  <1>d. \A y \in Trees \ {f} : d2[y] = c[y]
    BY <1>3, <1>8, Kinds
  <1>e. Copied(h0, c, f, o, m, a, q + 1, fr, new, d2, u)
    <2> HIDE DEF u
    <2> QED BY <1>2, <1>3, <1>8, <1>a, <1>b, <1>c, <1>d DEF Copied
  <1> QED BY <1>9, <1>e DEF new

\* The loop of insert_range is at the q-th position of x and the t-th of f.
Ranged(h0, c, f, x, m, a, b, fr, s, d, t, q) ==
    /\ Copied(h0, c, f, c[x], m, a, q, fr, s.heap, d, t) /\ q \in a..b + 1
    /\ s.at = d[f][t] /\ s.first = c[x][q]

RangedType == [heap : HeapType, at : Places, first : Places]

RangedStep(f, fresh, s) ==
    LET i == IF is_leading(s.first) THEN insert(s.heap, f, s.at, fresh[s.first[1]])
             ELSE [heap |-> s.heap, at |-> s.at]
    IN  [heap  |-> i.heap,
         at    |-> next(i.heap.links, i.at),
         first |-> next(i.heap.links, s.first)]

RangedCase(h0, c, f, x, m, a, b, fr, fresh, last) ==
    /\ f \in Trees /\ x \in Trees /\ f # x /\ c[x] \in Seq(Places)
    /\ Sealed(c[x], m, a, b) /\ last = c[x][b + 1]
    /\ FreshFor(h0, c[x], a, b, fr)
    /\ \A i \in a..b : is_leading(c[x][i]) => fr[i] = fresh[c[x][i][1]]

\* Where the loops are.
LEMMA PositionIn ==
    ASSUME NEW h, NEW d, Holds(h, d), NEW f \in Trees, NEW t \in 1..Len(d[f])
    PROVE  h \in HeapType /\ d[f][t] \in Places
  <1>1. Tour(h, d, f)
    BY Kinds, Toured
  <1> QED BY <1>1 DEF Tour, Holds

\* Each step of the copying insert() copies one position.
LEMMA RangedSteps ==
    ASSUME NEW h0, NEW c, NEW f, NEW x, NEW m, NEW a, NEW b, NEW fr, NEW fresh, NEW last,
           RangedCase(h0, c, f, x, m, a, b, fr, fresh, last),
           NEW s \in RangedType, NEW d, NEW t, NEW q, Ranged(h0, c, f, x, m, a, b, fr, s, d, t, q),
           s.first # last
    PROVE  \E d2, t2, q2 : /\ Ranged(h0, c, f, x, m, a, b, fr, RangedStep(f, fresh, s), d2, t2, q2)
                           /\ RangedStep(f, fresh, s) \in RangedType
  <1> DEFINE o == c[x]
             new == RangedStep(f, fresh, s)
             L == Len(o)
  <1>1. /\ f \in Trees /\ x \in Trees /\ f # x /\ Sealed(o, m, a, b) /\ last = o[b + 1]
        /\ FreshFor(h0, o, a, b, fr)
        /\ \A i \in a..b : is_leading(o[i]) => fr[i] = fresh[o[i][1]]
        /\ o \in Seq(Places)
    BY DEF RangedCase
  <1>2. /\ Copied(h0, c, f, o, m, a, q, fr, s.heap, d, t) /\ q \in a..b + 1
        /\ s.at = d[f][t] /\ s.first = o[q]
    BY DEF Ranged
  <1>3. q \in a..b /\ q + 1 \in a..b + 1 /\ q \in 1..L - 1 /\ q + 1 \in 1..L
    <2>1. q # b + 1
      BY <1>1, <1>2
    <2>2. a \in 2..L /\ b \in a - 1..L - 1 /\ L \in Nat
      BY <1>1 DEF Sealed
    <2> HIDE DEF L
    <2> QED BY <1>2, <2>1, <2>2
  <1>4. ASSUME NEW h, NEW e, NEW u, Copied(h0, c, f, o, m, a, q + 1, fr, h, e, u)
        PROVE  /\ next(h.links, s.first) = o[q + 1] /\ o[q + 1] \in Places
               /\ h \in HeapType /\ e[f][u] \in Places
    <2>1. Holds(h, e) /\ (\A y \in Trees \ {f} : e[y] = c[y]) /\ u \in 2..Len(e[f])
      BY <1>4 DEF Copied
    <2>2. e[x] = o
      BY <1>1, <2>1
    <2>3. Tour(h, e, x)
      BY <1>1, <2>1, Kinds, Toured
    <2>4. next(h.links, s.first) = o[q + 1] /\ o[q + 1] \in Places
      BY <1>2, <1>3, <2>2, <2>3 DEF Tour
    <2>5. u \in 1..Len(e[f])
      <3>1. Tour(h, e, f)
        BY <1>1, <2>1, Kinds, Toured
      <3>2. Len(e[f]) \in Nat
        BY <3>1 DEF Tour
      <3> QED BY <2>1, <3>2
    <2> QED BY <1>1, <2>1, <2>4, <2>5, PositionIn
  <1> HIDE DEF L
  <1>5. CASE is_leading(s.first)
    <2> DEFINE r == insert(s.heap, f, s.at, fr[q])
    <2>1. is_leading(o[q]) /\ fr[q] = fresh[s.first[1]]
      BY <1>1, <1>2, <1>3, <1>5
    <2>2. new = [heap |-> r.heap, at |-> next(r.heap.links, r.at), first |-> next(r.heap.links, s.first)]
      BY <1>5, <2>1 DEF RangedStep
    <2> HIDE DEF r
    <2>3. PICK d2 : /\ Copied(h0, c, f, o, m, a, q + 1, fr, r.heap, d2, t + 1)
                    /\ next(r.heap.links, r.at) = d2[f][t + 1]
      <3> DEFINE i == s.at
      <3>1. i = d[f][t] /\ r = insert(s.heap, f, i, fr[q])
        BY <1>2 DEF r
      <3> HIDE DEF i
      <3> QED BY <1>1, <1>2, <1>3, <2>1, <3>1, CopyLeading
    <2>4. /\ next(r.heap.links, s.first) = o[q + 1] /\ o[q + 1] \in Places
          /\ r.heap \in HeapType /\ d2[f][t + 1] \in Places
      BY <1>4, <2>3
    <2>5. new = [heap |-> r.heap, at |-> d2[f][t + 1], first |-> o[q + 1]]
      BY <2>2, <2>3, <2>4
    <2> HIDE DEF new
    <2>6. new \in RangedType
      BY <2>4, <2>5 DEF RangedType
    <2>7. Ranged(h0, c, f, x, m, a, b, fr, new, d2, t + 1, q + 1)
      BY <1>3, <2>3, <2>5 DEF Ranged
    <2> QED BY <2>6, <2>7 DEF new
  <1>6. CASE ~is_leading(s.first)
    <2>1. new = [heap |-> s.heap, at |-> next(s.heap.links, s.at), first |-> next(s.heap.links, s.first)]
      BY <1>6 DEF RangedStep
    <2>2. /\ Copied(h0, c, f, o, m, a, q + 1, fr, s.heap, d, t + 1)
          /\ next(s.heap.links, d[f][t]) = d[f][t + 1]
      <3> DEFINE h == s.heap
      <3>1. Copied(h0, c, f, o, m, a, q, fr, h, d, t) /\ ~is_leading(o[q])
        BY <1>2, <1>6
      <3> HIDE DEF h
      <3>2. /\ Copied(h0, c, f, o, m, a, q + 1, fr, h, d, t + 1)
            /\ ~is_leading(d[f][t]) /\ next(h.links, d[f][t]) = d[f][t + 1]
        BY <1>1, <1>3, <3>1, CopyTrailing
      <3> QED BY <3>2 DEF h
    <2>3. /\ next(s.heap.links, s.first) = o[q + 1] /\ o[q + 1] \in Places
          /\ s.heap \in HeapType /\ d[f][t + 1] \in Places
      BY <1>4, <2>2
    <2>4. new = [heap |-> s.heap, at |-> d[f][t + 1], first |-> o[q + 1]]
      BY <1>2, <2>1, <2>2, <2>3
    <2> HIDE DEF new
    <2>5. new \in RangedType
      BY <2>3, <2>4 DEF RangedType
    <2>6. Ranged(h0, c, f, x, m, a, b, fr, new, d, t + 1, q + 1)
      BY <1>3, <2>2, <2>4 DEF Ranged
    <2> QED BY <2>5, <2>6 DEF new
  <1> QED BY <1>5, <1>6

\* The copying insert() leaves rings, and the other trees alone.
LEMMA InsertingRange ==
    ASSUME NEW h, NEW c, Holds(h, c), NEW f, NEW x, NEW m, NEW a, NEW b, NEW fr, NEW fresh, NEW last,
           RangedCase(h, c, f, x, m, a, b, fr, fresh, last), NEW first, first = c[x][a],
           NEW t \in 2..Len(c[f]), NEW at, at = c[f][t]
    PROVE  \E d : OnlyIn(c, f, insert_range(h, f, at, first, last, fresh), d)
  <1> DEFINE S == {s \in RangedType : \E d, u, q : Ranged(h, c, f, x, m, a, b, fr, s, d, u, q)}
             done(s) == s.first = last
             step(s) == LET i == IF is_leading(s.first) THEN insert(s.heap, f, s.at, fresh[s.first[1]])
                                 ELSE [heap |-> s.heap, at |-> s.at]
                        IN  [heap  |-> i.heap,
                             at    |-> next(i.heap.links, i.at),
                             first |-> next(i.heap.links, s.first)]
             F == [s \in S |-> IF done(s) THEN s ELSE step(s)]
             start == [heap |-> h, at |-> at, first |-> first]
             Body(g) == [n \in 0..Bound |->
                            IF n = 0 THEN start
                            ELSE CHOOSE s \in {IF done(s) THEN s ELSE step(s) : s \in {g[n - 1]}} : TRUE]
             after == CHOOSE g : g = Body(g)
  <1>0. Bound \in Nat
    BY BoundType
  <1>3. insert_range(h, f, at, first, last, fresh) = after[Bound].heap
    BY DEF insert_range, Loop
  <1> HIDE DEF after
  <1>1. \A s : step(s) = RangedStep(f, fresh, s)
    BY DEF RangedStep
  <1>2. start \in S
    <2>1. f \in Trees /\ x \in Trees /\ Sealed(c[x], m, a, b)
      BY DEF RangedCase
    <2>2. Len(c[f]) \in Nat /\ Len(c[x]) \in Nat
      BY <2>1, Kinds, Toured DEF Tour
    <2>3. t \in 1..Len(c[f]) /\ a \in 1..Len(c[x]) /\ a \in a..b + 1 /\ a \in Int
      <3> DEFINE L == Len(c[x])
      <3>1. L \in Nat /\ a \in 2..L /\ b \in a - 1..L - 1
        BY <2>1, <2>2 DEF Sealed
      <3> HIDE DEF L
      <3>2. a \in 1..L /\ a \in a..b + 1 /\ a \in Int
        BY <3>1
      <3> QED BY <2>2, <3>2 DEF L
    <2>4. start \in RangedType
      <3>1. h \in HeapType /\ at \in Places /\ first \in Places
        BY <2>1, <2>3, PositionIn
      <3> QED BY <3>1 DEF RangedType
    <2>5. Copied(h, c, f, c[x], m, a, a, fr, h, c, t)
      <3>1. Cardinality(Open(m, a, a)) = 0
        BY <2>3, OpenNone
      <3>2. Used(c[x], a, a, fr) = {}
        <4>1. \A i \in Int : i \notin a..a - 1
          BY <2>3
        <4> QED BY <4>1 DEF Used
      <3>3. \A j \in t..t + 0 - 1 : FALSE
        BY <2>3
      <3>4. Len(c[f]) - t >= 0
        BY <2>2
      <3> QED BY <3>1, <3>2, <3>3, <3>4 DEF Copied
    <2>6. Ranged(h, c, f, x, m, a, b, fr, start, c, t, a)
      BY <2>3, <2>5 DEF Ranged
    <2> HIDE DEF start
    <2> QED BY <2>4, <2>6
  <1> HIDE DEF done, step, start
  <1>8. F \in [S -> S]
    <2>1. ASSUME NEW s \in S PROVE (IF done(s) THEN s ELSE step(s)) \in S
      <3>1. CASE ~done(s)
        <4>1. PICK d, u, q : Ranged(h, c, f, x, m, a, b, fr, s, d, u, q)
          OBVIOUS
        <4>2. s.first # last
          BY <3>1 DEF done
        <4>3. \E d2, t2, q2 : /\ Ranged(h, c, f, x, m, a, b, fr, RangedStep(f, fresh, s), d2, t2, q2)
                              /\ RangedStep(f, fresh, s) \in RangedType
          BY <4>1, <4>2, RangedSteps
        <4> QED BY <1>1, <3>1, <4>3
      <3> QED BY <3>1
    <2> QED BY <2>1
  <1>b. start \in S
    BY <1>2
  <1>e. PICK g : Steps(S, F, start, Bound, g)
    <2> HIDE DEF S, F
    <2> QED BY <1>0, <1>8, <1>b, Iterate
  <1>g. \A v \in S : (CHOOSE s \in {IF done(s) THEN s ELSE step(s) : s \in {v}} : TRUE) = F[v]
    <2> SUFFICES ASSUME NEW v \in S
                 PROVE  (CHOOSE s \in {IF done(s) THEN s ELSE step(s) : s \in {v}} : TRUE) = F[v]
      OBVIOUS
    <2>1. {IF done(s) THEN s ELSE step(s) : s \in {v}} = {F[v]}
      BY DEF F
    <2> HIDE DEF F
    <2> QED BY <2>1, Single
  <1>h. g = Body(g)
    <2>1. g \in [0..Bound -> S] /\ g[0] = start /\ \A k \in 0..Bound - 1 : g[k + 1] = F[g[k]]
      BY <1>e DEF Steps
    <2> HIDE DEF F, S
    <2>2. ASSUME NEW k \in 0..Bound PROVE g[k] = Body(g)[k]
      <3>1. CASE k = 0
        BY <2>1, <3>1
      <3>2. CASE k # 0
        <4>1. k - 1 \in 0..Bound - 1 /\ k - 1 \in 0..Bound /\ (k - 1) + 1 = k
          BY <1>0, <3>2
        <4>2. g[k - 1] \in S /\ g[k] = F[g[k - 1]]
          BY <2>1, <4>1
        <4> QED BY <1>g, <3>2, <4>2
      <3> QED BY <3>1, <3>2
    <2> QED BY <2>1, <2>2
  <1>i. after = Body(after)
    <2> HIDE DEF Body
    <2> QED BY <1>h DEF after
  <1>j. Follows(S, F, start, Bound, after)
    <2> HIDE DEF F, S
    <2>1. 0 \in 0..Bound
      BY <1>0
    <2>2. \A k \in 0..Bound : after[k] = Body(after)[k]
      BY <1>i
    <2> HIDE DEF after
    <2>3. after[0] = start
      BY <2>1, <2>2
    <2>4. ASSUME NEW k \in 0..Bound - 1, after[k] \in S PROVE after[k + 1] = F[after[k]]
      <3> DEFINE j == k + 1
      <3>1. j \in 0..Bound /\ j # 0 /\ j - 1 = k
        BY <1>0
      <3> HIDE DEF j
      <3>2. after[j] = CHOOSE s \in {IF done(s) THEN s ELSE step(s) : s \in {after[j - 1]}} : TRUE
        BY <2>2, <3>1
      <3>3. (CHOOSE s \in {IF done(s) THEN s ELSE step(s) : s \in {after[k]}} : TRUE) = F[after[k]]
        BY <1>g, <2>4
      <3>4. after[j] = F[after[k]]
        BY <3>1, <3>2, <3>3
      <3> QED BY <3>4 DEF j
    <2> QED BY <2>3, <2>4 DEF Follows
  <1>k. after[Bound] \in S
    <2> HIDE DEF S, F
    <2>1. after[Bound] = g[Bound]
      BY <1>0, <1>e, <1>j, SameSteps
    <2> QED BY <1>0, <1>e, <2>1 DEF Steps
  <1> QED BY <1>3, <1>k DEF OnlyIn, Ranged, Copied

\* The loop of transcribe has come to the k-th value, and is at the t-th position of f.
Transcribed(h0, c, f, o, m, b, fr, s, d, t) ==
    /\ Copied(h0, c, f, o, m, 2, s.k + 1, fr, s.heap, d, t) /\ s.k \in 1..b
    /\ s.at = d[f][t]

TranscribedType == [heap : HeapType, at : Places, k : Nat]

TranscribedStep(f, values, fresh, s) ==
    LET i == IF values[s.k] # << >> THEN insert(s.heap, f, s.at, fresh[s.k])
             ELSE [heap |-> s.heap, at |-> trailing_of(s.at)]
    IN  [heap |-> i.heap, at |-> next(i.heap.links, i.at), k |-> s.k + 1]

\* The values tell the leading from the trailing edges of o.
TranscribedCase(h0, f, o, m, b, fr, values, fresh) ==
    /\ f \in Trees /\ Sealed(o, m, 2, b) /\ b \in Nat /\ Len(values) = b - 1
    /\ FreshFor(h0, o, 2, b, fr)
    /\ \A k \in 1..b - 1, i \in 2..b : i = k + 1 =>
          (values[k] # << >> <=> is_leading(o[i])) /\ (is_leading(o[i]) => fr[i] = fresh[k])

\* Each step of a transcription takes one value.
LEMMA TranscribedSteps ==
    ASSUME NEW h0, NEW c, NEW f, NEW o, NEW m, NEW b, NEW fr, NEW values, NEW fresh,
           TranscribedCase(h0, f, o, m, b, fr, values, fresh),
           NEW s \in TranscribedType, NEW d, NEW t, Transcribed(h0, c, f, o, m, b, fr, s, d, t),
           ~(s.k > Len(values))
    PROVE  \E d2, t2 : /\ Transcribed(h0, c, f, o, m, b, fr, TranscribedStep(f, values, fresh, s), d2, t2)
                       /\ TranscribedStep(f, values, fresh, s) \in TranscribedType
  <1> DEFINE new == TranscribedStep(f, values, fresh, s)
             q == s.k + 1
  <1>1. /\ f \in Trees /\ Sealed(o, m, 2, b) /\ b \in Nat /\ Len(values) = b - 1
        /\ FreshFor(h0, o, 2, b, fr)
        /\ \A k \in 1..b - 1, i \in 2..b : i = k + 1 =>
              (values[k] # << >> <=> is_leading(o[i])) /\ (is_leading(o[i]) => fr[i] = fresh[k])
    BY DEF TranscribedCase
  <1>2. Copied(h0, c, f, o, m, 2, q, fr, s.heap, d, t) /\ s.k \in 1..b /\ s.at = d[f][t]
    BY DEF Transcribed
  <1>3. q \in 2..b /\ s.k \in 1..b - 1 /\ q = s.k + 1 /\ s.k + 1 \in 1..b /\ s.k + 1 \in Nat
    BY <1>1, <1>2
  <1> HIDE DEF q
  <1>4. ASSUME NEW h, NEW e, NEW u, Copied(h0, c, f, o, m, 2, q + 1, fr, h, e, u)
        PROVE  h \in HeapType /\ e[f][u] \in Places
    <2>1. Holds(h, e) /\ u \in 2..Len(e[f])
      BY <1>4 DEF Copied
    <2>2. u \in 1..Len(e[f])
      <3>1. Tour(h, e, f)
        BY <1>1, <2>1, Kinds, Toured
      <3>2. Len(e[f]) \in Nat
        BY <3>1 DEF Tour
      <3> QED BY <2>1, <3>2
    <2> QED BY <1>1, <2>1, <2>2, PositionIn
  <1>5. CASE is_leading(o[q])
    <2> DEFINE r == insert(s.heap, f, s.at, fr[q])
    <2>1. values[s.k] # << >> /\ fr[q] = fresh[s.k]
      BY <1>1, <1>3, <1>5
    <2>2. new = [heap |-> r.heap, at |-> next(r.heap.links, r.at), k |-> s.k + 1]
      BY <2>1 DEF TranscribedStep
    <2> HIDE DEF r
    <2>3. PICK d2 : /\ Copied(h0, c, f, o, m, 2, q + 1, fr, r.heap, d2, t + 1)
                    /\ next(r.heap.links, r.at) = d2[f][t + 1]
      <3> DEFINE i == s.at
      <3>1. i = d[f][t] /\ r = insert(s.heap, f, i, fr[q])
        BY <1>2 DEF r
      <3> HIDE DEF i
      <3> DEFINE a == 2
      <3>2. Sealed(o, m, a, b) /\ Copied(h0, c, f, o, m, a, q, fr, s.heap, d, t) /\ FreshFor(h0, o, a, b, fr) /\ q \in a..b
        BY <1>1, <1>2, <1>3
      <3> HIDE DEF a
      <3>3. \E d2 : /\ Copied(h0, c, f, o, m, a, q + 1, fr, r.heap, d2, t + 1)
                    /\ next(r.heap.links, r.at) = d2[f][t + 1]
        BY <1>1, <1>5, <3>1, <3>2, CopyLeading
      <3> QED BY <3>3 DEF a
    <2>4. r.heap \in HeapType /\ d2[f][t + 1] \in Places
      BY <1>4, <2>3
    <2>5. new = [heap |-> r.heap, at |-> d2[f][t + 1], k |-> s.k + 1]
      BY <2>2, <2>3
    <2> HIDE DEF new
    <2>6. new \in TranscribedType
      BY <1>3, <2>4, <2>5 DEF TranscribedType
    <2>7. Transcribed(h0, c, f, o, m, b, fr, new, d2, t + 1)
      BY <1>3, <2>3, <2>5 DEF Transcribed
    <2> QED BY <2>6, <2>7 DEF new
  <1>6. CASE ~is_leading(o[q])
    <2>1. ~(values[s.k] # << >>)
      BY <1>1, <1>3, <1>6
    <2>2. new = [heap |-> s.heap, at |-> next(s.heap.links, trailing_of(s.at)), k |-> s.k + 1]
      BY <2>1 DEF TranscribedStep
    <2>3. /\ Copied(h0, c, f, o, m, 2, q + 1, fr, s.heap, d, t + 1)
          /\ ~is_leading(d[f][t]) /\ next(s.heap.links, d[f][t]) = d[f][t + 1]
      <3> DEFINE h == s.heap
      <3>1. Copied(h0, c, f, o, m, 2, q, fr, h, d, t)
        BY <1>2
      <3> HIDE DEF h
      <3> DEFINE a == 2
      <3>2. Sealed(o, m, a, b) /\ Copied(h0, c, f, o, m, a, q, fr, h, d, t) /\ q \in a..b
        BY <1>1, <1>3, <3>1
      <3> HIDE DEF a
      <3>3. /\ Copied(h0, c, f, o, m, a, q + 1, fr, h, d, t + 1)
            /\ ~is_leading(d[f][t]) /\ next(h.links, d[f][t]) = d[f][t + 1]
        BY <1>1, <1>6, <3>2, CopyTrailing
      <3> QED BY <3>3 DEF a, h
    <2>4. trailing_of(s.at) = s.at
      <3>1. s.at \in Places
        BY DEF TranscribedType
      <3> QED BY <1>2, <2>3, <3>1, PlaceFacts
    <2>5. s.heap \in HeapType /\ d[f][t + 1] \in Places
      BY <1>4, <2>3
    <2>6. new = [heap |-> s.heap, at |-> d[f][t + 1], k |-> s.k + 1]
      BY <1>2, <2>2, <2>3, <2>4
    <2> HIDE DEF new
    <2>7. new \in TranscribedType
      BY <1>3, <2>5, <2>6 DEF TranscribedType
    <2>8. Transcribed(h0, c, f, o, m, b, fr, new, d, t + 1)
      BY <1>3, <2>3, <2>6 DEF Transcribed
    <2> QED BY <2>7, <2>8 DEF new
  <1> QED BY <1>5, <1>6

\* A transcription leaves rings, and the other trees alone.
LEMMA Transcribing ==
    ASSUME NEW h, NEW c, Holds(h, c), NEW f, NEW o, NEW m, NEW b, b >= 1, NEW fr, NEW values, NEW fresh,
           TranscribedCase(h, f, o, m, b, fr, values, fresh)
    PROVE  \E d : OnlyIn(c, f, transcribe(h, f, values, fresh), d)
  <1> DEFINE S == {s \in TranscribedType : \E d, u : Transcribed(h, c, f, o, m, b, fr, s, d, u)}
             done(s) == s.k > Len(values)
             step(s) == LET i == IF values[s.k] # << >> THEN insert(s.heap, f, s.at, fresh[s.k])
                                 ELSE [heap |-> s.heap, at |-> trailing_of(s.at)]
                        IN  [heap |-> i.heap, at |-> next(i.heap.links, i.at), k |-> s.k + 1]
             F == [s \in S |-> IF done(s) THEN s ELSE step(s)]
             start == [heap |-> h, at |-> begin(h.links, f), k |-> 1]
             Body(g) == [n \in 0..Bound |->
                            IF n = 0 THEN start
                            ELSE CHOOSE s \in {IF done(s) THEN s ELSE step(s) : s \in {g[n - 1]}} : TRUE]
             after == CHOOSE g : g = Body(g)
  <1>0. Bound \in Nat
    BY BoundType
  <1>3. transcribe(h, f, values, fresh) = after[Bound].heap
    BY DEF transcribe, Loop
  <1> HIDE DEF after
  <1>1. \A s : step(s) = TranscribedStep(f, values, fresh, s)
    BY DEF TranscribedStep
  <1>2. start \in S
    <2>1. f \in Trees /\ b \in Nat
      BY DEF TranscribedCase
    <2>2. Tour(h, c, f) /\ Len(c[f]) \in Nat /\ Len(c[f]) >= 2 /\ 2 \in 1..Len(c[f]) /\ 2 \in 2..Len(c[f])
      <3>1. Tour(h, c, f)
        BY <2>1, Kinds, Toured
      <3> QED BY <3>1 DEF Tour
    <2>3. begin(h.links, f) = c[f][2]
      BY <2>1, SizeFacts
    <2>4. start \in TranscribedType
      <3>1. h \in HeapType /\ c[f][2] \in Places
        BY <2>1, <2>2, PositionIn
      <3> QED BY <2>3, <3>1 DEF TranscribedType
    <2>5. Copied(h, c, f, o, m, 2, 2, fr, h, c, 2)
      <3>1. Cardinality(Open(m, 2, 2)) = 0
        BY OpenNone
      <3>2. Used(o, 2, 2, fr) = {}
        <4>1. \A i \in Int : i \notin 2..2 - 1
          OBVIOUS
        <4> QED BY <4>1 DEF Used
      <3>3. \A j \in 2..2 + 0 - 1 : FALSE
        OBVIOUS
      <3>4. Len(c[f]) - 2 >= 0
        BY <2>2
      <3> QED BY <2>2, <3>1, <3>2, <3>3, <3>4 DEF Copied
    <2>6. Transcribed(h, c, f, o, m, b, fr, start, c, 2)
      <3>1. 1 \in 1..b /\ 1 + 1 = 2
        BY <2>1
      <3> QED BY <2>3, <2>5, <3>1 DEF Transcribed
    <2> HIDE DEF start
    <2> QED BY <2>4, <2>6
  <1> HIDE DEF done, step, start
  <1>8. F \in [S -> S]
    <2>1. ASSUME NEW s \in S PROVE (IF done(s) THEN s ELSE step(s)) \in S
      <3>1. CASE ~done(s)
        <4>1. PICK d, u : Transcribed(h, c, f, o, m, b, fr, s, d, u)
          OBVIOUS
        <4>2. ~(s.k > Len(values))
          BY <3>1 DEF done
        <4>3. \E d2, t2 : /\ Transcribed(h, c, f, o, m, b, fr, TranscribedStep(f, values, fresh, s), d2, t2)
                          /\ TranscribedStep(f, values, fresh, s) \in TranscribedType
          BY <4>1, <4>2, TranscribedSteps
        <4> QED BY <1>1, <3>1, <4>3
      <3> QED BY <3>1
    <2> QED BY <2>1
  <1>b. start \in S
    BY <1>2
  <1>e. PICK g : Steps(S, F, start, Bound, g)
    <2> HIDE DEF S, F
    <2> QED BY <1>0, <1>8, <1>b, Iterate
  <1>g. \A v \in S : (CHOOSE s \in {IF done(s) THEN s ELSE step(s) : s \in {v}} : TRUE) = F[v]
    <2> SUFFICES ASSUME NEW v \in S
                 PROVE  (CHOOSE s \in {IF done(s) THEN s ELSE step(s) : s \in {v}} : TRUE) = F[v]
      OBVIOUS
    <2>1. {IF done(s) THEN s ELSE step(s) : s \in {v}} = {F[v]}
      BY DEF F
    <2> HIDE DEF F
    <2> QED BY <2>1, Single
  <1>h. g = Body(g)
    <2>1. g \in [0..Bound -> S] /\ g[0] = start /\ \A k \in 0..Bound - 1 : g[k + 1] = F[g[k]]
      BY <1>e DEF Steps
    <2> HIDE DEF F, S
    <2>2. ASSUME NEW k \in 0..Bound PROVE g[k] = Body(g)[k]
      <3>1. CASE k = 0
        BY <2>1, <3>1
      <3>2. CASE k # 0
        <4>1. k - 1 \in 0..Bound - 1 /\ k - 1 \in 0..Bound /\ (k - 1) + 1 = k
          BY <1>0, <3>2
        <4>2. g[k - 1] \in S /\ g[k] = F[g[k - 1]]
          BY <2>1, <4>1
        <4> QED BY <1>g, <3>2, <4>2
      <3> QED BY <3>1, <3>2
    <2> QED BY <2>1, <2>2
  <1>i. after = Body(after)
    <2> HIDE DEF Body
    <2> QED BY <1>h DEF after
  <1>j. Follows(S, F, start, Bound, after)
    <2> HIDE DEF F, S
    <2>1. 0 \in 0..Bound
      BY <1>0
    <2>2. \A k \in 0..Bound : after[k] = Body(after)[k]
      BY <1>i
    <2> HIDE DEF after
    <2>3. after[0] = start
      BY <2>1, <2>2
    <2>4. ASSUME NEW k \in 0..Bound - 1, after[k] \in S PROVE after[k + 1] = F[after[k]]
      <3> DEFINE j == k + 1
      <3>1. j \in 0..Bound /\ j # 0 /\ j - 1 = k
        BY <1>0
      <3> HIDE DEF j
      <3>2. after[j] = CHOOSE s \in {IF done(s) THEN s ELSE step(s) : s \in {after[j - 1]}} : TRUE
        BY <2>2, <3>1
      <3>3. (CHOOSE s \in {IF done(s) THEN s ELSE step(s) : s \in {after[k]}} : TRUE) = F[after[k]]
        BY <1>g, <2>4
      <3>4. after[j] = F[after[k]]
        BY <3>1, <3>2, <3>3
      <3> QED BY <3>4 DEF j
    <2> QED BY <2>3, <2>4 DEF Follows
  <1>k. after[Bound] \in S
    <2> HIDE DEF S, F
    <2>1. after[Bound] = g[Bound]
      BY <1>0, <1>e, <1>j, SameSteps
    <2> QED BY <1>0, <1>e, <2>1 DEF Steps
  <1> QED BY <1>3, <1>k DEF OnlyIn, Transcribed, Copied

-----------------------------------------------------------------------------
(***************************************************************************)
(* Children.                                                               *)
(***************************************************************************)
\* Where a child of the node with the edges p and e may begin, or where its children end.
Cuts(m, p, e) == {k \in p + 1..e : \A j \in k..e - 1 : m[j] \in k..e - 1}

ParentAt(h, c, f, m, p, e, i) ==
    /\ Holds(h, c) /\ f \in Trees /\ Mates(c[f], m) /\ p \in 1..Len(c[f]) - 1 /\ is_leading(c[f][p])
    /\ e = m[p] /\ i = c[f][p]

\* From one place where a child may begin, the next is after the mate.
LEMMA CutFacts ==
    ASSUME NEW o \in Seq(Places), NEW m, Mates(o, m), NEW p \in 1..Len(o) - 1, is_leading(o[p]), NEW e, e = m[p]
    PROVE  /\ e \in p + 1..Len(o) /\ p + 1 \in Cuts(m, p, e) /\ e \in Cuts(m, p, e)
           /\ \A k \in Cuts(m, p, e) : k # e =>
                /\ is_leading(o[k]) /\ m[k] \in k + 1..e - 1 /\ m[k] + 1 \in Cuts(m, p, e)
           /\ \A k, l \in Cuts(m, p, e) : k <= l => \A j \in k..l - 1 : m[j] \in k..l - 1
  <1> DEFINE L == Len(o)
             T == Cuts(m, p, e)
  <1>1. p \in 1..L /\ p \in Nat /\ L \in Nat
    OBVIOUS
  <1>2. \A k \in 1..L : m[k] \in 1..L /\ m[m[k]] = k /\ (is_leading(o[k]) <=> k < m[k])
    BY MateOf
  <1>3. \A k \in 1..L : is_leading(o[k]) => \A j \in k..m[k] : m[j] \in k..m[k]
    BY DEF Mates
  <1> HIDE DEF L
  <1>4. e \in p + 1..L /\ m[e] = p /\ e \in Nat
    BY <1>1, <1>2
  <1>5. p + 1 \in T
    <2>1. ASSUME NEW j \in p + 1..e - 1 PROVE m[j] \in p + 1..e - 1
      <3>1. j \in p..m[p] /\ j \in 1..L
        BY <1>1, <1>4
      <3>2. m[j] \in p..e
        BY <1>1, <1>3, <3>1
      <3>3. m[j] # p /\ m[j] # e
        BY <1>1, <1>2, <1>4, <3>1
      <3> QED BY <1>1, <1>4, <3>2, <3>3
    <2>2. p + 1 \in p + 1..e
      BY <1>1, <1>4
    <2> QED BY <2>1, <2>2 DEF Cuts
  <1>6. e \in T
    <2>1. e \in p + 1..e /\ \A j \in e..e - 1 : FALSE
      BY <1>1, <1>4
    <2> QED BY <2>1 DEF Cuts
  <1>7. ASSUME NEW k \in T PROVE k \in p + 1..e /\ k \in 1..L /\ k \in Nat /\ \A j \in k..e - 1 : m[j] \in k..e - 1
    <2>1. k \in p + 1..e /\ \A j \in k..e - 1 : m[j] \in k..e - 1
      BY DEF Cuts
    <2> HIDE DEF T
    <2> QED BY <1>1, <1>4, <2>1
  <1> HIDE DEF T
  <1>8. ASSUME NEW k \in T, k # e
        PROVE  is_leading(o[k]) /\ m[k] \in k + 1..e - 1 /\ m[k] + 1 \in T
    <2>1. k \in 1..L /\ k \in k..e - 1 /\ k \in p + 1..e /\ k \in Nat
      BY <1>1, <1>4, <1>7, <1>8
    <2>2. m[k] \in k..e - 1
      BY <1>7, <2>1
    <2>3. m[k] # k
      <3>1. o[m[k]] = pivot_of(o[k]) /\ o[k] \in Places
        BY <2>1 DEF Mates, L
      <3> QED BY <3>1, PlaceFacts
    <2>4. is_leading(o[k]) /\ m[k] \in k + 1..e - 1
      BY <1>2, <1>4, <2>1, <2>2, <2>3
    <2> DEFINE n == m[k] + 1
    <2>5. n \in p + 1..e /\ n \in Nat /\ m[k] \in Nat /\ n > k
      BY <1>1, <1>4, <2>1, <2>4
    <2>6. ASSUME NEW j \in n..e - 1 PROVE m[j] \in n..e - 1
      <3>0. k \in Nat /\ k >= 1 /\ e \in Nat /\ e <= L /\ m[k] \in Nat /\ m[k] >= k
        BY <1>1, <1>4, <2>1, <2>4, <2>5
      <3>1. j \in k..e - 1 /\ j \in 1..L /\ j \notin k..m[k]
        BY <1>1, <2>6, <3>0
      <3>2. m[j] \in k..e - 1
        BY <1>7, <3>1
      <3>3. m[j] \notin k..m[k]
        <4>1. m[j] \in k..m[k] => m[m[j]] \in k..m[k]
          BY <1>3, <2>1, <2>4
        <4> QED BY <1>2, <3>1, <4>1
      <3> QED BY <1>4, <2>1, <2>5, <3>2, <3>3
    <2>7. n \in T
      <3> HIDE DEF n
      <3> QED BY <2>5, <2>6 DEF T, Cuts
    <2> QED BY <2>4, <2>7
  <1>9. ASSUME NEW k \in T, NEW l \in T, k <= l, NEW j \in k..l - 1 PROVE m[j] \in k..l - 1
    <2>1. k \in Nat /\ l \in Nat /\ j \in k..e - 1 /\ j \in 1..L /\ l \in p + 1..e
      BY <1>1, <1>4, <1>7
    <2>2. m[j] \in k..e - 1
      BY <1>7, <2>1
    <2>3. m[j] \notin l..e - 1
      <3>1. m[j] \in l..e - 1 => m[m[j]] \in l..e - 1
        BY <1>7
      <3>2. j \notin l..e - 1
        BY <2>1
      <3> QED BY <1>2, <2>1, <3>1, <3>2
    <2> QED BY <1>4, <2>1, <2>2, <2>3
  <1> QED BY <1>4, <1>5, <1>6, <1>8, <1>9 DEF T, L

\* The walk over children is at the k-th position, and has seen those at the indices K.
Walked(o, m, p, e, s, k, K) ==
    /\ k \in Cuts(m, p, e) /\ s.at = o[k]
    /\ K \in Seq(Cuts(m, p, e)) /\ Len(K) = Len(s.seen)
    /\ \A j \in 1..Len(K) : K[j] < k /\ s.seen[j] = o[K[j]]
    /\ \A j, l \in 1..Len(K) : j < l => K[j] < K[l]

WalkType == [at : Places, seen : Seq(Places)]
Walking(o, m, p, e, s) == s \in WalkType /\ \E k, K : Walked(o, m, p, e, s, k, K)

\* A step of the walk over children goes from one child to the next.
LEMMA WalkedStep ==
    ASSUME NEW h, NEW c, NEW f, NEW m, NEW p, NEW e, NEW i, ParentAt(h, c, f, m, p, e, i),
           NEW s \in WalkType, NEW k, NEW K, Walked(c[f], m, p, e, s, k, K), s.at # c[f][e],
           NEW new, new = [at |-> child_next(h.links, s.at), seen |-> Append(s.seen, s.at)]
    PROVE  Walking(c[f], m, p, e, new)
  <1> DEFINE o == c[f]
             L == Len(o)
             T == Cuts(m, p, e)
             n == Len(K)
             K2 == Append(K, k)
             k2 == m[k] + 1
  <1>1. /\ Holds(h, c) /\ f \in Trees /\ Mates(o, m) /\ p \in 1..L - 1 /\ is_leading(o[p]) /\ e = m[p]
    BY DEF ParentAt
  <1>2. /\ o \in Seq(Places) /\ L \in Nat /\ \A j \in 1..L : o[j] \in Places
        /\ \A j \in 1..L - 1 : next(h.links, o[j]) = o[j + 1]
    <2>1. Tour(h, c, f)
      BY <1>1, Kinds, Toured
    <2> QED BY <2>1 DEF Tour
  <1>3. /\ k \in T /\ s.at = o[k] /\ K \in Seq(T) /\ Len(K) = Len(s.seen)
        /\ \A j \in 1..Len(K) : K[j] < k /\ s.seen[j] = o[K[j]]
        /\ \A j, l \in 1..Len(K) : j < l => K[j] < K[l]
    BY DEF Walked
  <1>4. /\ e \in p + 1..L
        /\ \A l \in T : l # e => is_leading(o[l]) /\ m[l] \in l + 1..e - 1 /\ m[l] + 1 \in T
    BY <1>1, <1>2, CutFacts
  <1>5. k # e /\ s.at \in Places /\ s.seen \in Seq(Places)
    BY <1>3 DEF WalkType
  <1>6. T \subseteq Nat /\ \A l \in T : l \in p + 1..e
    <2>1. p \in Nat /\ e \in Nat
      BY <1>1, <1>2, <1>4
    <2> QED BY <2>1 DEF Cuts
  <1> HIDE DEF T
  <1>7. k2 \in T /\ k < k2 /\ m[k] \in 1..L - 1 /\ k \in 1..L /\ k2 \in 1..L /\ k \in Nat
    <2>1. m[k] \in k + 1..e - 1 /\ k \in Nat /\ k \in p + 1..e
      BY <1>3, <1>4, <1>5, <1>6
    <2> HIDE DEF L
    <2>2. p \in Nat /\ p >= 1 /\ e \in Nat /\ e <= L /\ L \in Nat
      BY <1>1, <1>2, <1>4
    <2>3. m[k] \in Nat /\ m[k] > k /\ m[k] < e /\ k >= 1
      BY <2>1, <2>2
    <2>4. k2 \in T
      BY <1>3, <1>4, <1>5
    <2>5. k < k2 /\ m[k] \in 1..L - 1 /\ k \in 1..L /\ k2 \in 1..L
      BY <2>1, <2>2, <2>3
    <2> QED BY <2>1, <2>4, <2>5
  <1>8. child_next(h.links, s.at) = o[k2] /\ o[k2] \in Places
    <2>1. o[m[k]] = pivot_of(o[k])
      BY <1>1, <1>7 DEF Mates
    <2> QED BY <1>2, <1>3, <1>7, <2>1 DEF child_next
  <1>9. new = [at |-> o[k2], seen |-> Append(s.seen, s.at)]
    BY <1>8
  <1>a. new \in WalkType
    <2>1. Append(s.seen, s.at) \in Seq(Places)
      BY <1>5, AppendProperties
    <2> QED BY <1>8, <1>9, <2>1 DEF WalkType
  <1>b. /\ K2 \in Seq(T) /\ Len(K2) = n + 1 /\ K2[n + 1] = k /\ (\A j \in 1..n : K2[j] = K[j]) /\ n \in Nat
    BY <1>3, AppendProperties
  <1>c. /\ Len(new.seen) = n + 1 /\ new.seen[n + 1] = o[k] /\ \A j \in 1..n : new.seen[j] = s.seen[j]
    <2>1. new.seen = Append(s.seen, s.at)
      BY <1>9
    <2> QED BY <1>3, <1>5, <2>1, AppendProperties
  <1> HIDE DEF K2, k2, n
  <1>d. ASSUME NEW j \in 1..n + 1 PROVE K2[j] < k2 /\ new.seen[j] = o[K2[j]]
    <2>1. CASE j \in 1..n
      <3>0. j \in 1..Len(K) /\ K[j] \in T
        BY <1>3, <2>1, ElementOfSeq DEF n
      <3>1. K2[j] = K[j] /\ K[j] < k /\ K[j] \in Nat
        BY <1>3, <1>6, <1>b, <2>1, <3>0
      <3>2. k2 \in Nat
        BY <1>6, <1>7
      <3>3. K2[j] \in Nat /\ K2[j] < k /\ k \in Nat /\ k < k2
        BY <1>7, <3>1
      <3>4. K2[j] < k2
        BY <3>2, <3>3
      <3>5. new.seen[j] = s.seen[j] /\ s.seen[j] = o[K[j]]
        BY <1>3, <1>c, <2>1 DEF n
      <3> QED BY <3>1, <3>4, <3>5
    <2>2. CASE j = n + 1
      BY <1>7, <1>b, <1>c, <2>2
    <2>3. j \in 1..n \/ j = n + 1
      BY <1>b
    <2> QED BY <2>1, <2>2, <2>3
  <1>e. ASSUME NEW j \in 1..n + 1, NEW l \in 1..n + 1, j < l PROVE K2[j] < K2[l]
    <2>1. j \in 1..n
      BY <1>b, <1>e
    <2>2. CASE l \in 1..n
      BY <1>3, <1>b, <1>e, <2>1, <2>2 DEF n
    <2>3. CASE l = n + 1
      BY <1>3, <1>b, <2>1, <2>3 DEF n
    <2> QED BY <1>b, <2>2, <2>3
  <1>f. Walked(o, m, p, e, new, k2, K2)
    <2>1. new.at = o[k2]
      BY <1>9
    <2> QED BY <1>7, <1>b, <1>c, <1>d, <1>e, <2>1 DEF Walked, T
  <1> QED BY <1>a, <1>f DEF Walking

\* The walk over children starts at the first, ends at the parent's trailing edge, and sees children only.
LEMMA Children ==
    ASSUME NEW h, NEW c, NEW f, NEW m, NEW p, NEW e, NEW i, ParentAt(h, c, f, m, p, e, i)
    PROVE  /\ child_begin(h.links, i) = c[f][p + 1] /\ child_end(i) = c[f][e]
           /\ p + 1 \in 1..Len(c[f]) /\ c[f][p + 1] \in Places
           /\ \E k, K : /\ Walked(c[f], m, p, e, [at |-> c[f][k], seen |-> child_range(h.links, i)], k, K)
                        /\ child_range(h.links, i) \in Seq(Places)
  <1> DEFINE o == c[f]
             links == h.links
             last == child_end(i)
             first == child_begin(links, i)
             S == {s \in WalkType : \E k, K : Walked(o, m, p, e, s, k, K)}
             done(s) == s.at = last
             step(s) == [at |-> child_next(links, s.at), seen |-> Append(s.seen, s.at)]
             F == [s \in S |-> IF done(s) THEN s ELSE step(s)]
             start == [at |-> first, seen |-> << >>]
             Body(g) == [n \in 0..Bound |->
                            IF n = 0 THEN start
                            ELSE CHOOSE s \in {IF done(s) THEN s ELSE step(s) : s \in {g[n - 1]}} : TRUE]
             after == CHOOSE g : g = Body(g)
  <1>0. Bound \in Nat
    BY BoundType
  <1>3. child_range(links, i) = after[Bound].seen
    BY DEF child_range, Walk, Loop
  <1> HIDE DEF after
  <1>4. /\ Holds(h, c) /\ f \in Trees /\ Mates(o, m) /\ p \in 1..Len(o) - 1 /\ is_leading(o[p]) /\ e = m[p]
        /\ i = o[p]
    BY DEF ParentAt
  <1>5. /\ o \in Seq(Places) /\ Len(o) \in Nat /\ \A j \in 1..Len(o) : o[j] \in Places
        /\ \A j \in 1..Len(o) - 1 : next(links, o[j]) = o[j + 1]
    <2>1. Tour(h, c, f)
      BY <1>4, Kinds, Toured
    <2> QED BY <2>1 DEF Tour
  <1>6. e \in p + 1..Len(o) /\ p + 1 \in Cuts(m, p, e)
    BY <1>4, <1>5, CutFacts
  <1>7. p \in 1..Len(o) /\ p + 1 \in 1..Len(o)
    BY <1>4, <1>5
  <1>1. first = o[p + 1] /\ last = o[e]
    <2>1. i \in Places /\ leading_of(i) = i /\ trailing_of(i) = pivot_of(i)
      BY <1>4, <1>5, <1>7, PlaceFacts
    <2>2. o[m[p]] = pivot_of(o[p])
      BY <1>4, <1>7 DEF Mates
    <2> QED BY <1>4, <1>5, <2>1, <2>2 DEF child_begin, child_end
  <1>2. start \in S
    <2>1. start \in WalkType
      BY <1>1, <1>5, <1>7, EmptySeq DEF WalkType
    <2>2. Walked(o, m, p, e, start, p + 1, << >>)
      <3>1. << >> \in Seq(Cuts(m, p, e)) /\ Len(<< >>) = 0
        OBVIOUS
      <3>2. \A j \in 1..0 : FALSE
        OBVIOUS
      <3> QED BY <1>1, <1>6, <3>1, <3>2 DEF Walked
    <2> HIDE DEF start
    <2> QED BY <2>1, <2>2
  <1>9. \A s : ~done(s) => s.at # c[f][e]
    BY <1>1
  <1> HIDE DEF done, start
  <1>8. F \in [S -> S]
    <2>1. ASSUME NEW s \in S PROVE (IF done(s) THEN s ELSE step(s)) \in S
      <3>1. CASE ~done(s)
        <4>1. PICK k, K : Walked(c[f], m, p, e, s, k, K)
          OBVIOUS
        <4>2. s.at # c[f][e]
          BY <1>9, <3>1
        <4> DEFINE new == step(s)
        <4>3. new = [at |-> child_next(h.links, s.at), seen |-> Append(s.seen, s.at)]
          OBVIOUS
        <4> HIDE DEF new
        <4>5. s \in WalkType
          OBVIOUS
        <4> HIDE DEF S, F, Body
        <4>4. Walking(c[f], m, p, e, new)
          BY <4>1, <4>2, <4>3, <4>5, WalkedStep
        <4> QED BY <3>1, <4>4 DEF new, Walking, S
      <3> QED BY <3>1
    <2> QED BY <2>1
  <1> HIDE DEF step
  <1>b. start \in S
    BY <1>2
  <1>e. PICK g : Steps(S, F, start, Bound, g)
    <2> HIDE DEF S, F
    <2> QED BY <1>0, <1>8, <1>b, Iterate
  <1>g. \A v \in S : (CHOOSE s \in {IF done(s) THEN s ELSE step(s) : s \in {v}} : TRUE) = F[v]
    <2> SUFFICES ASSUME NEW v \in S
                 PROVE  (CHOOSE s \in {IF done(s) THEN s ELSE step(s) : s \in {v}} : TRUE) = F[v]
      OBVIOUS
    <2>1. {IF done(s) THEN s ELSE step(s) : s \in {v}} = {F[v]}
      BY DEF F
    <2> HIDE DEF F
    <2> QED BY <2>1, Single
  <1>h. g = Body(g)
    <2>1. g \in [0..Bound -> S] /\ g[0] = start /\ \A k \in 0..Bound - 1 : g[k + 1] = F[g[k]]
      BY <1>e DEF Steps
    <2> HIDE DEF F, S
    <2>2. ASSUME NEW k \in 0..Bound PROVE g[k] = Body(g)[k]
      <3>1. CASE k = 0
        BY <2>1, <3>1
      <3>2. CASE k # 0
        <4>1. k - 1 \in 0..Bound - 1 /\ k - 1 \in 0..Bound /\ (k - 1) + 1 = k
          BY <1>0, <3>2
        <4>2. g[k - 1] \in S /\ g[k] = F[g[k - 1]]
          BY <2>1, <4>1
        <4> QED BY <1>g, <3>2, <4>2
      <3> QED BY <3>1, <3>2
    <2> QED BY <2>1, <2>2
  <1>i. after = Body(after)
    <2> HIDE DEF Body
    <2> QED BY <1>h DEF after
  <1>j. Follows(S, F, start, Bound, after)
    <2> HIDE DEF F, S
    <2>1. 0 \in 0..Bound
      BY <1>0
    <2>2. \A k \in 0..Bound : after[k] = Body(after)[k]
      BY <1>i
    <2> HIDE DEF after
    <2>3. after[0] = start
      BY <2>1, <2>2
    <2>4. ASSUME NEW k \in 0..Bound - 1, after[k] \in S PROVE after[k + 1] = F[after[k]]
      <3> DEFINE j == k + 1
      <3>1. j \in 0..Bound /\ j # 0 /\ j - 1 = k
        BY <1>0
      <3> HIDE DEF j
      <3>2. after[j] = CHOOSE s \in {IF done(s) THEN s ELSE step(s) : s \in {after[j - 1]}} : TRUE
        BY <2>2, <3>1
      <3>3. (CHOOSE s \in {IF done(s) THEN s ELSE step(s) : s \in {after[k]}} : TRUE) = F[after[k]]
        BY <1>g, <2>4
      <3>4. after[j] = F[after[k]]
        BY <3>1, <3>2, <3>3
      <3> QED BY <3>4 DEF j
    <2> QED BY <2>3, <2>4 DEF Follows
  <1>k. after[Bound] \in S
    <2> HIDE DEF S, F
    <2>1. after[Bound] = g[Bound]
      BY <1>0, <1>e, <1>j, SameSteps
    <2> QED BY <1>0, <1>e, <2>1 DEF Steps
  <1>l. \E k, K : /\ Walked(o, m, p, e, [at |-> o[k], seen |-> child_range(links, i)], k, K)
                 /\ child_range(links, i) \in Seq(Places)
    <2> DEFINE s == after[Bound]
    <2> HIDE DEF s
    <2>1. s \in WalkType /\ \E k, K : Walked(o, m, p, e, s, k, K)
      BY <1>k DEF s
    <2>2. PICK k, K : Walked(o, m, p, e, s, k, K)
      BY <2>1
    <2>3. s = [at |-> o[k], seen |-> s.seen] /\ s.seen \in Seq(Places)
      <3>1. s.at = o[k]
        BY <2>2 DEF Walked
      <3> QED BY <2>1, <3>1 DEF WalkType
    <2>4. child_range(links, i) = s.seen
      BY <1>3 DEF s
    <2> QED BY <2>2, <2>3, <2>4
  <1> QED BY <1>1, <1>5, <1>7, <1>l

\* A range of children has with an edge the other edge of the node.
LEMMA ChildRangeIs ==
    ASSUME NEW h, NEW c, NEW f, NEW m, NEW p, NEW e, NEW i, ParentAt(h, c, f, m, p, e, i),
           NEW r \in ChildRanges(h.links, i)
    PROVE  \E a, b : Closed(h, c, f, m, a, b, r[1], r[2])
  <1> DEFINE o == c[f]
             L == Len(o)
             T == Cuts(m, p, e)
             s == child_range(h.links, i)
             n == Len(s)
             all == s \o << child_end(i) >>
  <1>1. PICK x \in DOMAIN all, y \in DOMAIN all : x <= y /\ r = << all[x], all[y] >>
    BY DEF ChildRanges
  <1>2. /\ Mates(o, m) /\ p \in 1..L - 1 /\ is_leading(o[p]) /\ e = m[p]
        /\ o \in Seq(Places) /\ L \in Nat
    <2>1. Holds(h, c) /\ f \in Trees
      BY DEF ParentAt
    <2>2. Tour(h, c, f)
      BY <2>1, Kinds, Toured
    <2> QED BY <2>2 DEF Tour, ParentAt
  <1>3. PICK k, K : Walked(o, m, p, e, [at |-> o[k], seen |-> s], k, K) /\ s \in Seq(Places)
    BY Children
  <1>4. child_end(i) = o[e]
    BY Children
  <1>5. /\ e \in T /\ e \in p + 1..L
        /\ \A g, l \in T : g <= l => \A j \in g..l - 1 : m[j] \in g..l - 1
    BY <1>2, CutFacts
  <1>6. p \in Nat /\ p >= 1 /\ e \in Nat /\ e <= L
    BY <1>2, <1>5
  <1>7. \A g \in T : g \in Nat /\ p + 1 <= g /\ g <= e
    BY <1>6 DEF Cuts
  <1> HIDE DEF T, s
  <1>8. /\ K \in Seq(T) /\ Len(K) = n /\ n \in Nat
        /\ \A j \in 1..n : s[j] = o[K[j]]
        /\ \A j, l \in 1..n : j < l => K[j] < K[l]
    BY <1>3 DEF Walked, T
  <1>9. \A j \in 1..n : K[j] \in T
    BY <1>8, ElementOfSeq
  <1>a. DOMAIN all = 1..n + 1 /\ (\A j \in 1..n : all[j] = s[j]) /\ all[n + 1] = o[e]
    <2>1. << child_end(i) >> = << o[e] >>
      BY <1>4
    <2> QED BY <1>3, <1>8, <2>1
  <1> HIDE DEF all, n, L
  <1>b. \A j \in 1..n + 1 : \E g \in T : /\ all[j] = o[g] /\ (j \in 1..n => g = K[j])
                                         /\ (j = n + 1 => g = e)
    <2> SUFFICES ASSUME NEW j \in 1..n + 1
                 PROVE  \E g \in T : /\ all[j] = o[g] /\ (j \in 1..n => g = K[j])
                                     /\ (j = n + 1 => g = e)
      OBVIOUS
    <2>1. CASE j \in 1..n
      <3>1. j # n + 1
        BY <1>8, <2>1
      <3> QED BY <1>8, <1>9, <1>a, <2>1, <3>1
    <2>2. CASE j = n + 1
      <3>1. j \notin 1..n
        BY <1>8, <2>2
      <3> QED BY <1>5, <1>a, <2>2, <3>1
    <2> QED BY <1>8, <2>1, <2>2
  <1>c. PICK a \in T : all[x] = o[a] /\ (x \in 1..n => a = K[x]) /\ (x = n + 1 => a = e)
    BY <1>1, <1>a, <1>b
  <1>d. PICK z \in T : all[y] = o[z] /\ (y \in 1..n => z = K[y]) /\ (y = n + 1 => z = e)
    BY <1>1, <1>a, <1>b
  <1>e. a <= z
    <2>1. x \in 1..n + 1 /\ y \in 1..n + 1
      BY <1>1, <1>a
    <2>2. CASE y = n + 1
      BY <1>7, <1>d, <2>2
    <2>3. CASE y # n + 1
      <3>1. x \in 1..n /\ y \in 1..n
        BY <1>1, <1>8, <2>1, <2>3
      <3>2. CASE x = y
        BY <1>7, <1>c, <1>d, <3>1, <3>2
      <3>3. CASE x < y
        BY <1>7, <1>8, <1>c, <1>d, <3>1, <3>3
      <3>4. x = y \/ x < y
        BY <1>1, <3>1
      <3> QED BY <3>2, <3>3, <3>4
    <2> QED BY <2>2, <2>3
  <1>f. /\ a \in Nat /\ z \in Nat /\ p + 1 <= a /\ z <= e
    BY <1>7
  <1> DEFINE b == z - 1
  <1>g. a \in 2..L /\ b \in a - 1..L - 1 /\ b + 1 = z
    BY <1>2, <1>6, <1>e, <1>f
  <1>h. \A j \in a..b : m[j] \in a..b
    BY <1>5, <1>e
  <1> HIDE DEF b
  <1>i. r[1] = o[a] /\ r[2] = o[b + 1]
    BY <1>1, <1>c, <1>d, <1>g
  <1> QED BY <1>2, <1>g, <1>h, <1>i DEF Closed, L

\* Every parent of the model is such a node.
LEMMA ParentIs ==
    ASSUME NEW c, Holds(heap, c), NEW f \in Trees, NEW i \in Parents(f)
    PROVE  \E m, p, e : ParentAt(heap, c, f, m, p, e, i)
  <1>1. Tour(heap, c, f)
    BY Kinds, Toured
  <1>2. PICK m : Mates(c[f], m)
    BY <1>1 DEF Tour
  <1>3. \E p \in 1..Len(c[f]) - 1 : is_leading(c[f][p]) /\ i = c[f][p]
    <2>1. /\ Len(c[f]) \in Nat /\ Len(c[f]) >= 2 /\ c[f][1] = << f, "leading" >>
          /\ c[f][Len(c[f])] = << f, "trailing" >>
      BY <1>1 DEF Tour
    <2>2. CASE i = root(f)
      <3>1. 1 \in 1..Len(c[f]) - 1 /\ i = c[f][1] /\ is_leading(c[f][1])
        BY <2>1, <2>2 DEF root, is_leading
      <3> QED BY <3>1
    <2>3. CASE i \in Iterators(heap, f) /\ is_leading(i)
      <3>1. Iterators(heap, f) = {c[f][k] : k \in 2..Len(c[f])}
        BY FullorderIs
      <3>2. PICK p \in 2..Len(c[f]) : i = c[f][p]
        BY <2>3, <3>1
      <3>3. p # Len(c[f])
        BY <2>1, <2>3, <3>2 DEF is_leading
      <3>4. p \in 1..Len(c[f]) - 1
        BY <2>1, <3>2, <3>3
      <3> QED BY <2>3, <3>2, <3>4
    <2>4. i = root(f) \/ (i \in Iterators(heap, f) /\ is_leading(i))
      BY DEF Parents
    <2> QED BY <2>2, <2>3, <2>4
  <1> QED BY <1>2, <1>3 DEF ParentAt

-----------------------------------------------------------------------------
(***************************************************************************)
(* Counting.                                                               *)
(***************************************************************************)
\* The links lead along o to a leading edge.
Track(links, o, L) ==
    /\ o \in Seq(Places) /\ L = Len(o) /\ L \in Nat /\ L >= 1 /\ L <= Bound
    /\ \A k \in 1..L - 1 : next(links, o[k]) = o[k + 1]
    /\ \A k, l \in 1..L : o[k] = o[l] => k = l
    /\ \A k \in 1..L : o[k] \in Places
    /\ is_leading(o[L])

\* The j-th position of o has the first leading edge from the k-th on.
First(o, L, k, j) ==
    j \in k..L /\ is_leading(o[j]) /\ \A i \in k..j - 1 : ~is_leading(o[i])

\* find_edge finds the first leading edge.
LEMMA FirstIs ==
    ASSUME NEW links, NEW o, NEW L, Track(links, o, L), NEW k \in 1..L
    PROVE  \E j : First(o, L, k, j) /\ find_edge(links, o[k], "leading") = o[j]
  <1>1. /\ L \in Nat /\ L <= Bound /\ is_leading(o[L]) /\ k \in Nat /\ k >= 1 /\ k <= L
        /\ \A i \in 1..L - 1 : next(links, o[i]) = o[i + 1]
        /\ \A i, l \in 1..L : o[i] = o[l] => i = l
    BY DEF Track
  <1>2. \E j : First(o, L, k, j)
    <2> DEFINE T == {j \in k..L : is_leading(o[j])}
    <2>1. T \subseteq Nat /\ L \in T
      BY <1>1
    <2>2. PICK j \in T : \A i \in T : j <= i
      <3> HIDE DEF T
      <3> QED BY <2>1, Least
    <2>3. ASSUME NEW i \in k..j - 1 PROVE ~is_leading(o[i])
      <3>1. i \in k..L /\ i < j /\ i \in Nat /\ j \in Nat
        BY <1>1
      <3>2. ~(j <= i)
        BY <3>1
      <3> QED BY <2>2, <3>1, <3>2
    <2> QED BY <2>3 DEF First
  <1>3. PICK b : First(o, L, k, b)
    BY <1>2
  <1>4. /\ b \in k..L /\ b \in Nat /\ b <= L /\ k <= b /\ is_leading(o[b])
        /\ \A i \in k..b - 1 : ~is_leading(o[i])
    BY <1>1, <1>3 DEF First
  <1>5. \A i \in k..b : i \in 1..L /\ i \in Nat /\ (i # b => i \in k..b - 1 /\ i \in 1..L - 1 /\ i + 1 \in k..b)
    BY <1>1, <1>4
  <1> DEFINE S == {o[i] : i \in k..b}
             done(s) == s[2] = "leading"
             step(s) == next(links, s)
             F == [s \in S |-> IF done(s) THEN s ELSE step(s)]
             pos(s) == CHOOSE i \in k..b : s = o[i]
             rank == [s \in S |-> b - pos(s)]
             D == {o[b]}
             start == o[k]
             Body(g) == [n \in 0..Bound |->
                            IF n = 0 THEN start
                            ELSE CHOOSE s \in {IF done(s) THEN s ELSE step(s) : s \in {g[n - 1]}} : TRUE]
             after == CHOOSE g : g = Body(g)
  <1>0. Bound \in Nat
    BY BoundType
  <1>6. find_edge(links, o[k], "leading") = after[Bound]
    BY DEF find_edge, Loop
  <1> HIDE DEF after
  <1>7. ASSUME NEW i \in k..b PROVE pos(o[i]) = i
    <2>1. \A l \in k..b : o[i] = o[l] => l = i
      BY <1>1, <1>5
    <2> QED BY <2>1
  <1>9. ASSUME NEW s \in S
        PROVE  \E i \in k..b : /\ s = o[i] /\ rank[s] = b - i
                               /\ IF i = b THEN F[s] = s
                                  ELSE F[s] = o[i + 1] /\ i + 1 \in k..b /\ rank[F[s]] = b - (i + 1)
    <2>1. PICK i \in k..b : s = o[i]
      OBVIOUS
    <2>2. rank[s] = b - i
      BY <1>7, <2>1
    <2>3. CASE i = b
      <3>1. done(s)
        BY <1>4, <2>1, <2>3 DEF is_leading
      <3> QED BY <2>1, <2>2, <2>3, <3>1
    <2>4. CASE i # b
      <3>1. ~done(s)
        BY <1>4, <1>5, <2>1, <2>4 DEF is_leading
      <3>2. F[s] = o[i + 1] /\ i + 1 \in k..b
        BY <1>1, <1>5, <2>1, <2>4, <3>1
      <3>3. rank[F[s]] = b - (i + 1)
        <4> HIDE DEF pos, F
        <4> QED BY <1>7, <3>2
      <3> HIDE DEF rank, F, S
      <3> QED BY <2>1, <2>2, <2>4, <3>2, <3>3
    <2> QED BY <2>3, <2>4
  <1> HIDE DEF done, step, pos, rank
  <1>8. F \in [S -> S]
    <2>1. \A s \in S : F[s] \in S
      <3> HIDE DEF F
      <3> QED BY <1>9
    <2> QED BY <2>1
  <1>a. rank \in [S -> Nat]
    <2>1. ASSUME NEW s \in S PROVE rank[s] \in Nat
      <3>1. PICK i \in k..b : rank[s] = b - i
        BY <1>9
      <3>2. i \in Nat /\ i <= b
        BY <1>1
      <3> QED BY <1>4, <3>1, <3>2
    <2> QED BY <2>1 DEF rank
  <1>b. start \in S /\ rank[start] <= Bound
    <2>1. start \in S
      BY <1>1, <1>4
    <2>2. PICK i \in k..b : rank[start] = b - i
      BY <1>9, <2>1
    <2>3. i \in Nat /\ b - i <= Bound
      BY <1>0, <1>1, <1>4
    <2> QED BY <2>1, <2>2, <2>3
  <1>c. \A s \in S \ D : rank[F[s]] < rank[s]
    <2> SUFFICES ASSUME NEW s \in S \ D PROVE rank[F[s]] < rank[s]
      OBVIOUS
    <2>1. PICK i \in k..b : /\ s = o[i] /\ rank[s] = b - i
                            /\ i # b => rank[F[s]] = b - (i + 1)
      BY <1>9
    <2>2. i # b
      BY <2>1
    <2> HIDE DEF F
    <2> QED BY <1>1, <1>4, <2>1, <2>2
  <1>d. \A s \in S \cap D : F[s] = s
    <2> SUFFICES ASSUME NEW s \in S \cap D PROVE F[s] = s
      OBVIOUS
    <2>1. PICK i \in k..b : s = o[i] /\ (i = b => F[s] = s)
      BY <1>9
    <2>2. o[i] = o[b]
      BY <2>1
    <2>3. i = b
      BY <1>1, <1>4, <1>5, <2>2
    <2> QED BY <2>1, <2>3
  <1>e. PICK g : Steps(S, F, start, Bound, g)
    <2> HIDE DEF S, F
    <2> QED BY <1>0, <1>8, <1>b, Iterate
  <1>g. \A v \in S : (CHOOSE s \in {IF done(s) THEN s ELSE step(s) : s \in {v}} : TRUE) = F[v]
    <2> SUFFICES ASSUME NEW v \in S
                 PROVE  (CHOOSE s \in {IF done(s) THEN s ELSE step(s) : s \in {v}} : TRUE) = F[v]
      OBVIOUS
    <2>1. {IF done(s) THEN s ELSE step(s) : s \in {v}} = {F[v]}
      BY DEF F
    <2> HIDE DEF F
    <2> QED BY <2>1, Single
  <1>h. g = Body(g)
    <2>1. g \in [0..Bound -> S] /\ g[0] = start /\ \A i \in 0..Bound - 1 : g[i + 1] = F[g[i]]
      BY <1>e DEF Steps
    <2> HIDE DEF F, S
    <2>2. ASSUME NEW i \in 0..Bound PROVE g[i] = Body(g)[i]
      <3>1. CASE i = 0
        BY <2>1, <3>1
      <3>2. CASE i # 0
        <4>1. i - 1 \in 0..Bound - 1 /\ i - 1 \in 0..Bound /\ (i - 1) + 1 = i
          BY <1>0, <3>2
        <4>2. g[i - 1] \in S /\ g[i] = F[g[i - 1]]
          BY <2>1, <4>1
        <4> QED BY <1>g, <3>2, <4>2
      <3> QED BY <3>1, <3>2
    <2> QED BY <2>1, <2>2
  <1>i. after = Body(after)
    <2> HIDE DEF Body
    <2> QED BY <1>h DEF after
  <1>j. Follows(S, F, start, Bound, after)
    <2> HIDE DEF F, S
    <2>1. 0 \in 0..Bound
      BY <1>0
    <2>2. \A i \in 0..Bound : after[i] = Body(after)[i]
      BY <1>i
    <2> HIDE DEF after
    <2>3. after[0] = start
      BY <2>1, <2>2
    <2>4. ASSUME NEW i \in 0..Bound - 1, after[i] \in S PROVE after[i + 1] = F[after[i]]
      <3> DEFINE j == i + 1
      <3>1. j \in 0..Bound /\ j # 0 /\ j - 1 = i
        BY <1>0
      <3> HIDE DEF j
      <3>2. after[j] = CHOOSE s \in {IF done(s) THEN s ELSE step(s) : s \in {after[j - 1]}} : TRUE
        BY <2>2, <3>1
      <3>3. (CHOOSE s \in {IF done(s) THEN s ELSE step(s) : s \in {after[i]}} : TRUE) = F[after[i]]
        BY <1>g, <2>4
      <3>4. after[j] = F[after[i]]
        BY <3>1, <3>2, <3>3
      <3> QED BY <3>4 DEF j
    <2> QED BY <2>3, <2>4 DEF Follows
  <1>k. after[Bound] \in S /\ after[Bound] \in D
    <2> HIDE DEF S, F, rank, D
    <2>1. g[Bound] \in S /\ g[Bound] \in D
      BY <1>0, <1>8, <1>a, <1>b, <1>c, <1>d, <1>e, Ends
    <2>2. after[Bound] = g[Bound]
      BY <1>0, <1>e, <1>j, SameSteps
    <2> QED BY <2>1, <2>2
  <1>l. after[Bound] = o[b]
    BY <1>k DEF D
  <1> QED BY <1>3, <1>6, <1>l

\* The leading edges before the k-th position.
Leads(o, k) == {i \in 1..k - 1 : is_leading(o[i])}

\* How many leading edges there are before a position.
LEMMA LeadsFacts ==
    ASSUME NEW o, NEW L \in Nat, NEW k \in 1..L
    PROVE  /\ IsFiniteSet(Leads(o, k)) /\ Cardinality(Leads(o, k)) \in Nat
           /\ \A j \in k + 1..L : is_leading(o[k]) /\ (\A i \in k + 1..j - 1 : ~is_leading(o[i])) =>
                Cardinality(Leads(o, j)) = Cardinality(Leads(o, k)) + 1
           /\ (\A i \in 1..k - 1 : ~is_leading(o[i])) => Cardinality(Leads(o, k)) = 0
  <1>1. ASSUME NEW j \in 1..L PROVE IsFiniteSet(Leads(o, j)) /\ Cardinality(Leads(o, j)) \in Nat
    <2>1. Leads(o, j) \in SUBSET (1..j - 1) /\ IsFiniteSet(1..j - 1)
      BY FS_Interval DEF Leads
    <2> QED BY <2>1, FS_Subset, FS_CardinalityType
  <1>2. ASSUME NEW j \in k + 1..L, is_leading(o[k]), \A i \in k + 1..j - 1 : ~is_leading(o[i])
        PROVE  Cardinality(Leads(o, j)) = Cardinality(Leads(o, k)) + 1
    <2>1. Leads(o, j) = Leads(o, k) \cup {k}
      <3>1. ASSUME NEW i \in Leads(o, j) PROVE i \in Leads(o, k) \cup {k}
        <4>1. i \in 1..j - 1 /\ is_leading(o[i]) /\ i \notin k + 1..j - 1
          BY <1>2 DEF Leads
        <4>2. i \in 1..k - 1 \/ i = k
          BY <4>1
        <4> QED BY <4>1, <4>2 DEF Leads
      <3>2. ASSUME NEW i \in Leads(o, k) \cup {k} PROVE i \in Leads(o, j)
        <4>1. is_leading(o[i]) /\ (i \in 1..k - 1 \/ i = k)
          BY <1>2 DEF Leads
        <4>2. i \in 1..j - 1
          BY <4>1
        <4> QED BY <4>1, <4>2 DEF Leads
      <3> QED BY <3>1, <3>2
    <2>2. k \notin Leads(o, k)
      BY DEF Leads
    <2> QED BY <1>1, <2>1, <2>2, FS_AddElement
  <1>3. ASSUME \A i \in 1..k - 1 : ~is_leading(o[i]) PROVE Cardinality(Leads(o, k)) = 0
    <2>1. Leads(o, k) = {}
      BY <1>3 DEF Leads
    <2> QED BY <2>1, FS_EmptySet
  <1> QED BY <1>1, <1>2, <1>3

\* The walk over leading edges is at the k-th position.
Counted(o, L, s, k) ==
    k \in 1..L /\ s.at = o[k] /\ is_leading(o[k]) /\ Len(s.seen) = Cardinality(Leads(o, k))

CountingStep(links, s) == [at |-> edge_next(links, s.at, "leading"), seen |-> Append(s.seen, s.at)]

\* A step of the edge range passes one leading edge.
LEMMA CountedStep ==
    ASSUME NEW links, NEW o, NEW L, Track(links, o, L), NEW s \in WalkType, NEW k, Counted(o, L, s, k), k # L
    PROVE  \E j : /\ Counted(o, L, CountingStep(links, s), j) /\ j \in k + 1..L
                  /\ CountingStep(links, s) \in WalkType
  <1>1. /\ L \in Nat /\ k \in 1..L /\ s.at = o[k] /\ is_leading(o[k])
        /\ Len(s.seen) = Cardinality(Leads(o, k))
        /\ \A i \in 1..L - 1 : next(links, o[i]) = o[i + 1]
        /\ \A i \in 1..L : o[i] \in Places
    BY DEF Track, Counted
  <1> DEFINE n == k + 1
  <1>2. n \in 1..L /\ k \in 1..L - 1 /\ k \in Nat
    BY <1>1
  <1>3. next(links, s.at) = o[n]
    BY <1>1, <1>2
  <1> HIDE DEF n
  <1>4. PICK j : First(o, L, n, j) /\ find_edge(links, o[n], "leading") = o[j]
    BY <1>2, FirstIs
  <1>5. j \in n..L /\ is_leading(o[j]) /\ \A i \in n..j - 1 : ~is_leading(o[i])
    BY <1>4 DEF First
  <1> DEFINE t == CountingStep(links, s)
  <1>6. t.at = o[j] /\ t.seen = Append(s.seen, s.at) /\ t = [at |-> o[j], seen |-> Append(s.seen, s.at)]
    BY <1>3, <1>4 DEF CountingStep, edge_next
  <1>7. j \in k + 1..L /\ j \in 1..L
    BY <1>2, <1>5 DEF n
  <1>8. Cardinality(Leads(o, j)) = Cardinality(Leads(o, k)) + 1
    BY <1>1, <1>5, <1>7, LeadsFacts DEF n
  <1>9. s.seen \in Seq(Places) /\ s.at \in Places
    BY DEF WalkType
  <1>a. Len(t.seen) = Len(s.seen) + 1 /\ t.seen \in Seq(Places)
    BY <1>6, <1>9, AppendProperties
  <1>b. t \in WalkType
    BY <1>1, <1>6, <1>7, <1>a DEF WalkType
  <1>c. Counted(o, L, t, j)
    BY <1>1, <1>5, <1>6, <1>7, <1>8, <1>a DEF Counted
  <1> QED BY <1>7, <1>b, <1>c

\* The range of leading edges has them all, once around.
LEMMA EdgeRangeLength ==
    ASSUME NEW links, NEW o, NEW L, Track(links, o, L),
           NEW f, begin(links, f) = o[1], find_edge(links, end(f), "leading") = o[L]
    PROVE  Len(edge_range(links, f, "leading")) = Cardinality(Leads(o, L))
  <1>1. /\ L \in Nat /\ L >= 1 /\ L <= Bound /\ is_leading(o[L]) /\ 1 \in 1..L
        /\ \A i, l \in 1..L : o[i] = o[l] => i = l
        /\ \A i \in 1..L : o[i] \in Places
    BY DEF Track
  <1>2. PICK a : First(o, L, 1, a) /\ find_edge(links, o[1], "leading") = o[a]
    BY <1>1, FirstIs
  <1>3. a \in 1..L /\ is_leading(o[a]) /\ \A i \in 1..a - 1 : ~is_leading(o[i])
    BY <1>2 DEF First
  <1> DEFINE S == {s \in WalkType : \E k : Counted(o, L, s, k)}
             last == find_edge(links, end(f), "leading")
             first == find_edge(links, begin(links, f), "leading")
             done(s) == s.at = last
             step(s) == [at |-> edge_next(links, s.at, "leading"), seen |-> Append(s.seen, s.at)]
             F == [s \in S |-> IF done(s) THEN s ELSE step(s)]
             pos(s) == CHOOSE k : Counted(o, L, s, k)
             rank == [s \in S |-> L - pos(s)]
             D == {s \in S : Counted(o, L, s, L)}
             start == [at |-> first, seen |-> << >>]
             Body(g) == [n \in 0..Bound |->
                            IF n = 0 THEN start
                            ELSE CHOOSE s \in {IF done(s) THEN s ELSE step(s) : s \in {g[n - 1]}} : TRUE]
             after == CHOOSE g : g = Body(g)
  <1>0. Bound \in Nat
    BY BoundType
  <1>4. edge_range(links, f, "leading") = after[Bound].seen
    BY DEF edge_range, Walk, Loop
  <1> HIDE DEF after
  <1>5. last = o[L] /\ first = o[a]
    BY <1>2
  <1>6. ASSUME NEW s, NEW k, Counted(o, L, s, k) PROVE pos(s) = k /\ (done(s) <=> k = L)
    <2>1. k \in 1..L /\ s.at = o[k]
      BY <1>6 DEF Counted
    <2>2. ASSUME NEW l, Counted(o, L, s, l) PROVE l = k
      BY <1>1, <2>1, <2>2 DEF Counted
    <2>3. pos(s) = k
      BY <1>6, <2>2
    <2>4. L \in 1..L
      BY <1>1
    <2>5. done(s) <=> k = L
      BY <1>1, <1>5, <2>1, <2>4
    <2> QED BY <2>3, <2>5
  <1>7. ASSUME NEW s \in S
        PROVE  \E k : /\ Counted(o, L, s, k) /\ k \in 1..L /\ rank[s] = L - k
                      /\ IF k = L THEN F[s] = s
                         ELSE F[s] \in S /\ \E j : j \in k + 1..L /\ rank[F[s]] = L - j
    <2>1. PICK k : Counted(o, L, s, k)
      OBVIOUS
    <2>2. k \in 1..L
      BY <2>1 DEF Counted
    <2>3. rank[s] = L - k
      <3> HIDE DEF pos, S
      <3> QED BY <1>6, <2>1
    <2>4. CASE k = L
      <3>1. F[s] = s
        <4> HIDE DEF done, S
        <4> QED BY <1>6, <2>1, <2>4
      <3> QED BY <2>1, <2>2, <2>3, <2>4, <3>1
    <2>5. CASE k # L
      <3> DEFINE t == CountingStep(links, s)
      <3>1. ~done(s)
        <4> HIDE DEF done
        <4> QED BY <1>6, <2>1, <2>5
      <3>2. F[s] = t
        <4> HIDE DEF done, S
        <4> QED BY <3>1 DEF CountingStep
      <3>3. s \in WalkType
        OBVIOUS
      <3>4. PICK j : Counted(o, L, t, j) /\ j \in k + 1..L /\ t \in WalkType
        <4> HIDE DEF S, F, rank, D, Body, done, t
        <4>1. \E j : /\ Counted(o, L, CountingStep(links, s), j) /\ j \in k + 1..L
                     /\ CountingStep(links, s) \in WalkType
          BY <2>1, <2>5, <3>3, CountedStep
        <4> QED BY <4>1 DEF t
      <3> HIDE DEF t
      <3>5. t \in S
        BY <3>4
      <3>6. rank[t] = L - j
        <4> HIDE DEF pos, S
        <4> QED BY <1>6, <3>4, <3>5
      <3> HIDE DEF S, F, rank
      <3> QED BY <2>1, <2>2, <2>3, <2>5, <3>2, <3>4, <3>5, <3>6
    <2> QED BY <2>4, <2>5
  <1> HIDE DEF done, step, pos, rank
  <1>8. F \in [S -> S]
    <2>1. \A s \in S : F[s] \in S
      <3> HIDE DEF F, S
      <3> QED BY <1>7
    <2> QED BY <2>1
  <1>a. rank \in [S -> Nat]
    <2>1. ASSUME NEW s \in S PROVE rank[s] \in Nat
      <3>1. PICK k \in 1..L : rank[s] = L - k
        <4> HIDE DEF S
        <4> QED BY <1>7
      <3> QED BY <1>1, <3>1
    <2> QED BY <2>1 DEF rank
  <1>b. start \in S /\ rank[start] <= Bound
    <2>1. start \in S
      <3>1. start \in WalkType
        BY <1>1, <1>3, <1>5, EmptySeq DEF WalkType
      <3>2. Len(start.seen) = 0 /\ start.at = o[a]
        BY <1>5
      <3>3. Cardinality(Leads(o, a)) = 0
        BY <1>1, <1>3, LeadsFacts
      <3>4. Counted(o, L, start, a)
        BY <1>3, <3>2, <3>3 DEF Counted
      <3> HIDE DEF start
      <3> QED BY <3>1, <3>4
    <2>2. PICK k \in 1..L : rank[start] = L - k
      <3> HIDE DEF S, start
      <3> QED BY <1>7, <2>1
    <2>3. L - k <= Bound
      BY <1>0, <1>1
    <2> QED BY <2>1, <2>2, <2>3
  <1>c. \A s \in S \ D : rank[F[s]] < rank[s]
    <2> SUFFICES ASSUME NEW s \in S \ D PROVE rank[F[s]] < rank[s]
      OBVIOUS
    <2>0. s \in S /\ ~Counted(o, L, s, L)
      OBVIOUS
    <2> HIDE DEF S, D, F
    <2>1. PICK k : /\ Counted(o, L, s, k) /\ k \in 1..L /\ rank[s] = L - k
                   /\ k # L => \E j : j \in k + 1..L /\ rank[F[s]] = L - j
      BY <1>7, <2>0
    <2>2. k # L
      BY <2>0, <2>1
    <2>3. PICK j : j \in k + 1..L /\ rank[F[s]] = L - j
      BY <2>1, <2>2
    <2>4. L - j < L - k
      BY <1>1, <2>1, <2>3
    <2> QED BY <2>1, <2>3, <2>4
  <1>d. \A s \in S \cap D : F[s] = s
    <2> SUFFICES ASSUME NEW s \in S \cap D PROVE F[s] = s
      OBVIOUS
    <2>0. s \in S /\ Counted(o, L, s, L)
      OBVIOUS
    <2> HIDE DEF S, D, F
    <2>1. PICK k : Counted(o, L, s, k) /\ (k = L => F[s] = s)
      BY <1>7, <2>0
    <2>2. k = L
      BY <1>6, <2>0, <2>1
    <2> QED BY <2>1, <2>2
  <1>e. PICK g : Steps(S, F, start, Bound, g)
    <2> HIDE DEF S, F
    <2> QED BY <1>0, <1>8, <1>b, Iterate
  <1>g. \A v \in S : (CHOOSE s \in {IF done(s) THEN s ELSE step(s) : s \in {v}} : TRUE) = F[v]
    <2> SUFFICES ASSUME NEW v \in S
                 PROVE  (CHOOSE s \in {IF done(s) THEN s ELSE step(s) : s \in {v}} : TRUE) = F[v]
      OBVIOUS
    <2>1. {IF done(s) THEN s ELSE step(s) : s \in {v}} = {F[v]}
      BY DEF F
    <2> HIDE DEF F
    <2> QED BY <2>1, Single
  <1>h. g = Body(g)
    <2>1. g \in [0..Bound -> S] /\ g[0] = start /\ \A k \in 0..Bound - 1 : g[k + 1] = F[g[k]]
      BY <1>e DEF Steps
    <2> HIDE DEF F, S
    <2>2. ASSUME NEW k \in 0..Bound PROVE g[k] = Body(g)[k]
      <3>1. CASE k = 0
        BY <2>1, <3>1
      <3>2. CASE k # 0
        <4>1. k - 1 \in 0..Bound - 1 /\ k - 1 \in 0..Bound /\ (k - 1) + 1 = k
          BY <1>0, <3>2
        <4>2. g[k - 1] \in S /\ g[k] = F[g[k - 1]]
          BY <2>1, <4>1
        <4> QED BY <1>g, <3>2, <4>2
      <3> QED BY <3>1, <3>2
    <2> QED BY <2>1, <2>2
  <1>i. after = Body(after)
    <2> HIDE DEF Body
    <2> QED BY <1>h DEF after
  <1>j. Follows(S, F, start, Bound, after)
    <2> HIDE DEF F, S
    <2>1. 0 \in 0..Bound
      BY <1>0
    <2>2. \A k \in 0..Bound : after[k] = Body(after)[k]
      BY <1>i
    <2> HIDE DEF after
    <2>3. after[0] = start
      BY <2>1, <2>2
    <2>4. ASSUME NEW k \in 0..Bound - 1, after[k] \in S PROVE after[k + 1] = F[after[k]]
      <3> DEFINE j == k + 1
      <3>1. j \in 0..Bound /\ j # 0 /\ j - 1 = k
        BY <1>0
      <3> HIDE DEF j
      <3>2. after[j] = CHOOSE s \in {IF done(s) THEN s ELSE step(s) : s \in {after[j - 1]}} : TRUE
        BY <2>2, <3>1
      <3>3. (CHOOSE s \in {IF done(s) THEN s ELSE step(s) : s \in {after[k]}} : TRUE) = F[after[k]]
        BY <1>g, <2>4
      <3>4. after[j] = F[after[k]]
        BY <3>1, <3>2, <3>3
      <3> QED BY <3>4 DEF j
    <2> QED BY <2>3, <2>4 DEF Follows
  <1>k. after[Bound] \in S /\ after[Bound] \in D
    <2> HIDE DEF S, F, rank, D
    <2>1. g[Bound] \in S /\ g[Bound] \in D
      BY <1>0, <1>8, <1>a, <1>b, <1>c, <1>d, <1>e, Ends
    <2>2. after[Bound] = g[Bound]
      BY <1>0, <1>e, <1>j, SameSteps
    <2> QED BY <2>1, <2>2
  <1>l. Len(after[Bound].seen) = Cardinality(Leads(o, L))
    BY <1>k DEF D, Counted
  <1> QED BY <1>4, <1>l

\* From begin() around to root().
Onward(o, L) == [k \in 1..L |-> IF k < L THEN o[k + 1] ELSE o[1]]

\* Beyond end() the edge range comes to root(), a leading edge.
LEMMA AroundFacts ==
    ASSUME NEW h, NEW c, Holds(h, c), NEW f \in Trees, NEW L, L = Len(c[f]), NEW o, o = Onward(c[f], L)
    PROVE  /\ Track(h.links, o, L) /\ begin(h.links, f) = o[1]
           /\ find_edge(h.links, end(f), "leading") = o[L]
  <1>1. /\ c[f] \in Seq(Places) /\ L \in Nat /\ L >= 2
        /\ c[f][1] = << f, "leading" >> /\ c[f][L] = << f, "trailing" >>
        /\ \A k \in 1..L : c[f][k] \in Places
        /\ \A k, l \in 1..L : c[f][k] = c[f][l] => k = l
        /\ \A k \in 1..L - 1 : next(h.links, c[f][k]) = c[f][k + 1]
        /\ next(h.links, c[f][L]) = c[f][1]
    <2>1. Tour(h, c, f)
      BY Kinds, Toured
    <2> QED BY <2>1 DEF Tour
  <1>2. L <= Bound
    BY Kinds, LenBound
  <1>3. /\ \A k \in 1..L : o[k] = IF k < L THEN c[f][k + 1] ELSE c[f][1]
        /\ 1 \in 1..L /\ L \in 1..L
    BY <1>1 DEF Onward
  <1>4. \A k \in 1..L - 1 : /\ k \in 1..L /\ k < L /\ k + 1 \in 1..L /\ k + 1 \in 2..L /\ o[k] = c[f][k + 1]
                            /\ (k + 1 < L => k + 1 \in 1..L - 1)
    BY <1>1, <1>3
  <1>5. o[L] = c[f][1] /\ \A k \in 1..L : k = L \/ k \in 1..L - 1
    BY <1>1, <1>3
  <1>6. \A k \in 1..L : o[k] \in Places
    <2>1. \A k \in 1..L - 1 : o[k] \in Places
      BY <1>1, <1>4
    <2>2. o[L] \in Places
      BY <1>1, <1>3, <1>5
    <2> QED BY <1>5, <2>1, <2>2
  <1>7. o \in Seq(Places) /\ Len(o) = L
    <2>1. o \in [1..L -> Places]
      BY <1>6 DEF Onward
    <2> QED BY <1>1, <2>1, MakeSeq
  <1>8. \A k \in 1..L - 1 : next(h.links, o[k]) = o[k + 1]
    <2> SUFFICES ASSUME NEW k \in 1..L - 1 PROVE next(h.links, o[k]) = o[k + 1]
      OBVIOUS
    <2> DEFINE n == k + 1
    <2>1. o[k] = c[f][n] /\ n \in 1..L /\ n \in 2..L
      BY <1>4
    <2> HIDE DEF n
    <2>2. CASE n = L
      BY <1>1, <1>5, <2>1, <2>2 DEF n
    <2>3. CASE n # L
      <3>1. n \in 1..L - 1
        BY <1>5, <2>1, <2>3
      <3>2. next(h.links, c[f][n]) = c[f][n + 1] /\ o[n] = c[f][n + 1]
        BY <1>1, <1>4, <3>1
      <3> QED BY <2>1, <3>2 DEF n
    <2> QED BY <2>2, <2>3
  <1>9. \A k, l \in 1..L : o[k] = o[l] => k = l
    <2> SUFFICES ASSUME NEW k \in 1..L, NEW l \in 1..L, o[k] = o[l] PROVE k = l
      OBVIOUS
    <2>1. CASE k = L /\ l = L
      BY <2>1
    <2>2. CASE k # L /\ l # L
      <3>1. c[f][k + 1] = c[f][l + 1] /\ k + 1 \in 1..L /\ l + 1 \in 1..L
        BY <1>4, <1>5, <2>2
      <3>2. k + 1 = l + 1
        BY <1>1, <3>1
      <3> QED BY <3>2
    <2>3. ASSUME NEW i \in 1..L - 1 PROVE o[i] # o[L]
      <3>1. o[i] = c[f][i + 1] /\ i + 1 \in 1..L /\ i + 1 # 1
        BY <1>1, <1>4
      <3> QED BY <1>1, <1>3, <1>5, <3>1
    <2>4. CASE k = L /\ l # L
      BY <1>5, <2>3, <2>4
    <2>5. CASE k # L /\ l = L
      BY <1>5, <2>3, <2>5
    <2> QED BY <2>1, <2>2, <2>4, <2>5
  <1>a. is_leading(o[L])
    BY <1>1, <1>5 DEF is_leading
  <1>b. Track(h.links, o, L)
    BY <1>1, <1>2, <1>6, <1>7, <1>8, <1>9, <1>a DEF Track
  <1>c. begin(h.links, f) = o[1]
    <2>1. 1 \in 1..L - 1 /\ o[1] = c[f][1 + 1] /\ next(h.links, c[f][1]) = c[f][1 + 1]
      <3>1. 1 \in 1..L - 1
        BY <1>1
      <3> QED BY <1>1, <1>4, <3>1
    <2> QED BY <1>1, <2>1 DEF begin, root
  <1>d. find_edge(h.links, end(f), "leading") = o[L]
    <2> DEFINE n == L - 1
    <2>1. n \in 1..L /\ n \in 1..L - 1 /\ n + 1 = L
      BY <1>1
    <2>2. o[n] = end(f)
      BY <1>1, <1>4, <2>1 DEF end
    <2> HIDE DEF n
    <2>3. PICK j : First(o, L, n, j) /\ find_edge(h.links, o[n], "leading") = o[j]
      BY <1>b, <2>1, FirstIs
    <2>4. ~is_leading(o[n])
      BY <2>2 DEF end, is_leading
    <2>5. j \in n..L /\ j # n
      BY <2>3, <2>4 DEF First
    <2>6. j = L
      BY <1>1, <2>1, <2>5
    <2> QED BY <2>2, <2>3, <2>6
  <1> QED BY <1>b, <1>c, <1>d

\* In between there is one leading edge for each node.
LEMMA AroundCount ==
    ASSUME NEW h, NEW c, Holds(h, c), NEW f \in Trees, NEW L, L = Len(c[f]), NEW o, o = Onward(c[f], L)
    PROVE  Cardinality(Leads(o, L)) \in Nat /\ 2 * Cardinality(Leads(o, L)) + 2 = L
  <1>1. /\ c[f] \in Seq(Places) /\ L \in Nat /\ L >= 2 /\ is_leading(c[f][1])
        /\ \E m : Mates(c[f], m)
    <2>1. Tour(h, c, f)
      BY Kinds, Toured
    <2> QED BY <2>1 DEF Tour, is_leading
  <1> DEFINE A == {k \in 1..L : is_leading(c[f][k])}
             B == Leads(o, L)
             g == [k \in B |-> k + 1]
  <1>2. 2 * Cardinality(A) = L
    <2>1. PICK m : Mates(c[f], m)
      BY <1>1
    <2>2. 2 * Cardinality({k \in 1..Len(c[f]) : is_leading(c[f][k])}) = Len(c[f])
      BY <1>1, <2>1, EdgeCount
    <2> QED BY <2>2
  <1>3. B = {k \in 1..L - 1 : is_leading(c[f][k + 1])}
    <2>1. \A k \in 1..L - 1 : o[k] = c[f][k + 1]
      BY <1>1 DEF Onward
    <2> QED BY <2>1 DEF Leads
  <1>4. IsFiniteSet(B) /\ Cardinality(B) \in Nat
    <2>1. L \in 1..L
      BY <1>1
    <2> QED BY <1>1, <2>1, LeadsFacts
  <1>5. IsFiniteSet(A) /\ Cardinality(A) \in Nat /\ 1 \in A
    <2>1. IsFiniteSet(1..L) /\ A \in SUBSET (1..L)
      BY <1>1, FS_Interval
    <2>2. 1 \in A
      BY <1>1
    <2> HIDE DEF A
    <2> QED BY <2>1, <2>2, FS_Subset, FS_CardinalityType
  <1>6. Cardinality(A \ {1}) = Cardinality(B)
    <2>1. g \in [B -> A \ {1}]
      <3>1. ASSUME NEW k \in B PROVE k + 1 \in A \ {1}
        BY <1>1, <1>3
      <3> QED BY <3>1
    <2>2. \A k, l \in B : g[k] = g[l] => k = l
      <3>1. \A k \in B : k \in Int
        BY <1>3
      <3> QED BY <3>1
    <2>3. \A t \in A \ {1} : \E k \in B : g[k] = t
      <3> SUFFICES ASSUME NEW t \in A \ {1} PROVE \E k \in B : g[k] = t
        OBVIOUS
      <3> DEFINE n == t - 1
      <3>1. n \in 1..L - 1 /\ n + 1 = t
        BY <1>1
      <3> HIDE DEF n
      <3>2. n \in B
        BY <1>3, <3>1
      <3> QED BY <3>1, <3>2
    <2> HIDE DEF g, A, B
    <2>4. g \in Bijection(B, A \ {1})
      BY <2>1, <2>2, <2>3 DEF Bijection, Injection, Surjection, IsInjective
    <2>5. ExistsBijection(B, A \ {1})
      BY <2>4 DEF ExistsBijection
    <2> QED BY <1>4, <2>5, FS_Bijection
  <1> HIDE DEF A, B
  <1>7. Cardinality(A \ {1}) = Cardinality(A) - 1
    BY <1>5, FS_RemoveElement
  <1>8. Cardinality(B) \in Nat /\ 2 * Cardinality(B) + 2 = L
    BY <1>1, <1>2, <1>4, <1>5, <1>6, <1>7
  <1> QED BY <1>8 DEF B

\* What size() returns, cached or counted.
LEMMA SizeIs ==
    ASSUME NEW h, NEW c, Holds(h, c), NEW f \in Trees
    PROVE  size(h, f) \in Nat /\ 2 * size(h, f) + 2 = Len(c[f])
  <1>1. CASE size_valid(h, f)
    BY <1>1, SizeFacts DEF size
  <1>2. CASE ~size_valid(h, f)
    <2> DEFINE L == Len(c[f])
               o == Onward(c[f], L)
               n == Cardinality(Leads(o, L))
    <2>1. size(h, f) = Len(edge_range(h.links, f, "leading"))
      BY <1>2 DEF size
    <2> HIDE DEF L, o
    <2>2. /\ Track(h.links, o, L) /\ begin(h.links, f) = o[1]
          /\ find_edge(h.links, end(f), "leading") = o[L]
      BY AroundFacts DEF L, o
    <2>3. Len(edge_range(h.links, f, "leading")) = n
      BY <2>2, EdgeRangeLength
    <2>4. n \in Nat /\ 2 * n + 2 = L
      BY AroundCount DEF L, o
    <2> QED BY <2>1, <2>3, <2>4 DEF L
  <1> QED BY <1>1, <1>2

\* size() caches what it counts.
LEMMA Sizing ==
    ASSUME NEW h, NEW c, Holds(h, c), NEW f \in Trees
    PROVE  Holds(Sized(h, f), c)
  <1> DEFINE new == Sized(h, f)
  <1>1. /\ h \in HeapType /\ Rings(h.links, c, Owners(h), Places)
        /\ \A n \in Nodes \ h.allocated : Len(c[n]) = 2
        /\ \A x \in Trees : h.size[x] # 0 => 2 * h.size[x] + 2 = Len(c[x])
    BY DEF Holds
  <1>2. size(h, f) \in Nat /\ 2 * size(h, f) + 2 = Len(c[f])
    BY SizeIs
  <1>3. new = [h EXCEPT !.size[f] = size(h, f)]
    BY DEF Sized
  <1> HIDE DEF new
  <1>4. /\ new.links = h.links /\ new.allocated = h.allocated
        /\ new.size = [h.size EXCEPT ![f] = size(h, f)]
        /\ new \in HeapType
    BY <1>1, <1>2, <1>3 DEF HeapType
  <1>5. Owners(new) = Owners(h)
    BY <1>4 DEF Owners
  <1>6. \A x \in Trees : new.size[x] = IF x = f THEN size(h, f) ELSE h.size[x]
    <2>1. h.size \in [Trees -> Nat]
      BY <1>1 DEF HeapType
    <2> QED BY <1>4, <2>1
  <1>7. \A x \in Trees : new.size[x] # 0 => 2 * new.size[x] + 2 = Len(c[x])
    BY <1>1, <1>2, <1>6
  <1> QED BY <1>1, <1>4, <1>5, <1>7 DEF Holds, new

-----------------------------------------------------------------------------
(***************************************************************************)
(* Assigning.                                                              *)
(***************************************************************************)
\* The two locals.
LEMMA TreeFacts ==
    /\ "tmp" \in Trees /\ "temp" \in Trees /\ "tmp" # "temp" /\ Forests \subseteq Trees
    /\ \A f \in Forests : f # "tmp" /\ f # "temp" /\ f \notin Locals
    /\ Locals = {"tmp", "temp"}
  BY Kinds DEF Trees, Locals

\* Where a tree begins and ends.
LEMMA Ended ==
    ASSUME NEW h, NEW c, Holds(h, c), NEW f \in Trees
    PROVE  /\ end(f) = c[f][Len(c[f])] /\ begin(h.links, f) = c[f][2]
           /\ Len(c[f]) \in 2..Len(c[f]) /\ 2 \in 2..Len(c[f])
  <1>1. Tour(h, c, f)
    BY Kinds, Toured
  <1>2. Len(c[f]) \in Nat /\ Len(c[f]) >= 2
    BY <1>1 DEF Tour
  <1> QED BY <1>2, SizeFacts

\* clear() leaves rings, and the other trees alone.
LEMMA Clearing ==
    ASSUME NEW h, NEW c, Holds(h, c), NEW f \in Trees
    PROVE  \E d : OnlyIn(c, f, clear(h, f), d)
  <1> DEFINE l == Len(c[f])
             k == 2
             first == begin(h.links, f)
             last == end(f)
  <1>1. l \in 2..Len(c[f]) /\ k \in 2..l /\ first = c[f][k] /\ last = c[f][l]
    BY Ended
  <1>2. clear(h, f) = erase_range(h, f, first, last)
    BY DEF clear
  <1> HIDE DEF l, k, first, last
  <1> QED BY <1>1, <1>2, ErasingRange

\* Of a move, what it leaves empty and what it leaves alone.
LEMMA MovingAway ==
    ASSUME NEW h, NEW c, Holds(h, c), NEW f \in Trees, NEW x \in Trees, f # x
    PROVE  \E d : /\ Holds(move(h, f, x), d) /\ Len(d[x]) = 2
                  /\ \A y \in Trees \ {f, x} : d[y] = c[y]
  <1>1. PICK d : Moved(h, c, f, x, move(h, f, x), d)
    BY Moving
  <1> QED BY <1>1, Kinds DEF Moved

\* x is moved to f, through tmp.
Assigned(c, f, x, new, d) ==
    /\ Holds(new, d) /\ Len(d["tmp"]) = 2
    /\ \A y \in Trees \ {f, x, "tmp"} : d[y] = c[y]
    /\ f # x => Len(d[x]) = 2

\* Move assignment leaves both the local and the forest it is from empty, if it is not its own.
LEMMA Assigning ==
    ASSUME NEW h, NEW c, Holds(h, c), NEW f \in Trees, NEW x \in Trees, f # "tmp", x # "tmp"
    PROVE  \E d : Assigned(c, f, x, move_assign(h, f, x), d)
  <1> DEFINE tmp == "tmp"
             h1 == move(h, tmp, x)
             h2 == clear(h1, f)
             h3 == move(h2, f, tmp)
  <1>1. tmp \in Trees /\ tmp # f /\ tmp # x
    BY TreeFacts
  <1>2. move_assign(h, f, x) = h3
    BY DEF move_assign
  <1> HIDE DEF tmp, h1, h2, h3
  <1>3. PICK d1 : /\ Holds(h1, d1) /\ Len(d1[x]) = 2
                  /\ \A y \in Trees \ {tmp, x} : d1[y] = c[y]
    BY <1>1, MovingAway DEF h1
  <1>4. PICK d2 : OnlyIn(d1, f, h2, d2)
    BY <1>3, Clearing DEF h2
  <1>5. Holds(h2, d2) /\ \A y \in Trees \ {f} : d2[y] = d1[y]
    BY <1>4 DEF OnlyIn
  <1>6. PICK d3 : /\ Holds(h3, d3) /\ Len(d3[tmp]) = 2
                  /\ \A y \in Trees \ {f, tmp} : d3[y] = d2[y]
    BY <1>1, <1>5, MovingAway DEF h3
  <1>7. \A y \in Trees \ {f, x, tmp} : d3[y] = c[y]
    BY <1>3, <1>5, <1>6
  <1>8. f # x => Len(d3[x]) = 2
    BY <1>1, <1>3, <1>5, <1>6
  <1>9. Assigned(c, f, x, h3, d3)
    BY <1>6, <1>7, <1>8 DEF Assigned, tmp
  <1> QED BY <1>2, <1>9

\* What changes one forest only leaves the locals empty.
LEMMA IdleStill ==
    ASSUME NEW h, NEW c, Idle(h, c), NEW f \in Forests, NEW new, \E d : OnlyIn(c, f, new, d)
    PROVE  \E d : Idle(new, d)
  <1>1. PICK d : Holds(new, d) /\ \A y \in Trees \ {f} : d[y] = c[y]
    BY DEF OnlyIn
  <1>2. \A l \in Locals : l \in Trees \ {f}
    BY TreeFacts
  <1> QED BY <1>1, <1>2 DEF Idle

\* swap() leaves the locals empty, though it moves through one that the assignments move through another.
LEMMA Swapping ==
    ASSUME NEW h, NEW c, Idle(h, c), NEW f \in Forests, NEW x \in Forests
    PROVE  \E d : Idle(swap(h, f, x), d)
  <1> DEFINE temp == "temp"
             h1 == move(h, temp, f)
             h2 == move_assign(h1, f, x)
             h3 == move_assign(h2, x, temp)
  <1>1. /\ f \in Trees /\ x \in Trees /\ temp \in Trees /\ f # "tmp" /\ x # "tmp" /\ temp # "tmp"
        /\ temp # f /\ temp # x /\ Locals = {"tmp", temp}
    BY TreeFacts
  <1>2. swap(h, f, x) = h3
    BY DEF swap
  <1>3. Holds(h, c)
    BY DEF Idle
  <1> HIDE DEF temp, h1, h2, h3
  <1>4. PICK d1 : Holds(h1, d1)
    BY <1>1, <1>3, MovingAway DEF h1
  <1>5. PICK d2 : Assigned(d1, f, x, h2, d2)
    BY <1>1, <1>4, Assigning DEF h2
  <1>6. Holds(h2, d2)
    BY <1>5 DEF Assigned
  <1>7. PICK d3 : Assigned(d2, x, temp, h3, d3)
    BY <1>1, <1>6, Assigning DEF h3
  <1>8. Holds(h3, d3) /\ Len(d3["tmp"]) = 2 /\ Len(d3[temp]) = 2
    BY <1>1, <1>7 DEF Assigned
  <1> QED BY <1>1, <1>2, <1>8 DEF Idle

-----------------------------------------------------------------------------
\* The copies of different nodes are different.
LEMMA FreshAlongRange ==
    ASSUME NEW c, Holds(heap, c), NEW x \in Trees, NEW m, NEW a, NEW b, Sealed(c[x], m, a, b),
           NEW fresh \in Fresh(NodesIn(Segment(c[x], a, b))),
           NEW fr, fr = [i \in a..b |-> fresh[c[x][i][1]]]
    PROVE  FreshFor(heap, c[x], a, b, fr)
  <1> DEFINE o == c[x]
             s == Segment(o, a, b)
             N == NodesIn(s)
  <1>1. /\ o \in Seq(Places) /\ a \in 2..Len(o) /\ b \in a - 1..Len(o) - 1 /\ Len(o) \in Nat
        /\ \A k, l \in 1..Len(o) : o[k] = o[l] => k = l
    BY DEF Sealed, Mates
  <1>2. \A i \in a..b : i \in 1..Len(o) /\ o[i] \in Places
    BY <1>1
  <1>3. \A i \in a..b : o[i][1] \in N
    <2>1. a \in Nat /\ b \in Int /\ a - 1 <= b
      BY <1>1
    <2>2. /\ DOMAIN s = 1..b - a + 1
          /\ \A i \in a..b : i - a + 1 \in 1..b - a + 1 /\ s[i - a + 1] = o[i]
      BY <2>1, SegmentIs
    <2> HIDE DEF s
    <2> QED BY <2>2 DEF NodesIn
  <1>4. /\ \A n \in N : fresh[n] \in Nodes \ heap.allocated
        /\ \A n, k \in N : fresh[k] = fresh[n] => k = n
    <2>1. fresh \in [N -> Free] /\ \A n \in N : \A k \in N : fresh[k] = fresh[n] => k = n
      BY DEF Fresh
    <2> HIDE DEF N
    <2> QED BY <2>1 DEF Free
  <1> HIDE DEF o, N
  <1>5. \A i \in a..b : fr[i] = fresh[o[i][1]]
    BY DEF o
  <1>6. ASSUME NEW i \in a..b, NEW j \in a..b, is_leading(o[i]), is_leading(o[j]), fr[i] = fr[j]
        PROVE  i = j
    <2>1. o[i][1] = o[j][1]
      BY <1>3, <1>4, <1>5, <1>6
    <2>2. o[i][2] = o[j][2]
      BY <1>6 DEF is_leading
    <2>3. o[i] = o[j]
      BY <1>2, <2>1, <2>2, PlaceFacts
    <2> QED BY <1>1, <1>2, <2>3 DEF o
  <1>7. ASSUME NEW i \in a..b PROVE fr[i] \in Nodes \ heap.allocated
    BY <1>3, <1>4, <1>5
  <1> QED BY <1>6, <1>7 DEF FreshFor, o

\* A range of siblings is copied to another tree.
LEMMA CopyingRange ==
    ASSUME NEW c, Holds(heap, c), NEW f \in Trees, NEW x \in Trees, f # x,
           NEW m, NEW a, NEW b, Sealed(c[x], m, a, b),
           NEW fresh \in Fresh(NodesIn(Segment(c[x], a, b))),
           NEW first, first = c[x][a], NEW last, last = c[x][b + 1],
           NEW t \in 2..Len(c[f]), NEW at, at = c[f][t]
    PROVE  \E d : OnlyIn(c, f, insert_range(heap, f, at, first, last, fresh), d)
  <1> DEFINE fr == [i \in a..b |-> fresh[c[x][i][1]]]
  <1>1. FreshFor(heap, c[x], a, b, fr)
    BY FreshAlongRange
  <1>2. \A i \in a..b : is_leading(c[x][i]) => fr[i] = fresh[c[x][i][1]]
    OBVIOUS
  <1> HIDE DEF fr
  <1>3. RangedCase(heap, c, f, x, m, a, b, fr, fresh, last)
    <2>1. c[x] \in Seq(Places)
      BY DEF Sealed
    <2> QED BY <1>1, <1>2, <2>1 DEF RangedCase
  <1> QED BY <1>3, InsertingRange

\* Copy assignment leaves the locals empty.
LEMMA CopyingAssign ==
    ASSUME NEW c, Idle(heap, c), NEW f \in Forests, NEW x \in Forests,
           NEW fresh \in Fresh(NodesIn(Fullorder(heap, x)))
    PROVE  \E d : Idle(copy_assign(heap, f, x, fresh), d)
  <1> DEFINE temp == "temp"
             first == begin(heap.links, x)
             last == end(x)
             at == end(temp)
             a == 2
             b == Len(c[x]) - 1
             t == Len(c[temp])
             h1 == insert_range(heap, temp, at, first, last, fresh)
             h2 == move_assign(h1, f, temp)
  <1>1. /\ f \in Trees /\ x \in Trees /\ temp \in Trees /\ f # "tmp" /\ temp # "tmp"
        /\ temp # f /\ temp # x /\ Locals = {"tmp", temp}
    BY TreeFacts
  <1>2. copy_assign(heap, f, x, fresh) = h2
    BY DEF copy_assign
  <1>3. Holds(heap, c)
    BY DEF Idle
  <1> HIDE DEF temp
  <1>4. /\ first = c[x][a] /\ last = c[x][b + 1] /\ at = c[temp][t] /\ t \in 2..Len(c[temp])
    <2>1. /\ last = c[x][Len(c[x])] /\ first = c[x][2] /\ at = c[temp][Len(c[temp])]
          /\ Len(c[temp]) \in 2..Len(c[temp]) /\ Len(c[x]) \in 2..Len(c[x])
      BY <1>1, <1>3, Ended
    <2>2. b + 1 = Len(c[x])
      BY <2>1
    <2> QED BY <2>1, <2>2
  <1>5. PICK m : Sealed(c[x], m, a, b)
    BY <1>1, <1>3, Whole
  <1>6. fresh \in Fresh(NodesIn(Segment(c[x], a, b)))
    <2>1. Fullorder(heap, x) = Segment(c[x], a, b)
      BY <1>1, <1>3, FullorderIs
    <2> QED BY <2>1
  <1> HIDE DEF first, last, at, a, b, t, h1, h2
  <1>7. PICK d1 : OnlyIn(c, temp, h1, d1)
    BY <1>1, <1>3, <1>4, <1>5, <1>6, CopyingRange DEF h1
  <1>8. Holds(h1, d1)
    BY <1>7 DEF OnlyIn
  <1>9. PICK d2 : Assigned(d1, f, temp, h2, d2)
    BY <1>1, <1>8, Assigning DEF h2
  <1>a. Holds(h2, d2) /\ Len(d2["tmp"]) = 2 /\ Len(d2[temp]) = 2
    BY <1>1, <1>9 DEF Assigned
  <1> QED BY <1>1, <1>2, <1>a DEF Idle

\* flatten() writes what transcribes to a forest, be it the same one.
LEMMA TranscribingForest ==
    ASSUME NEW c, Holds(heap, c), NEW f \in Trees, NEW x \in Trees,
           NEW fresh \in FreshAlong(Fullorder(heap, x))
    PROVE  \E d : OnlyIn(c, f, transcribe(heap, f, flatten(heap, x), fresh), d)
  <1> DEFINE o == c[x]
             L == Len(o)
             b == L - 1
             s == Fullorder(heap, x)
             values == flatten(heap, x)
  <1>1. L \in Nat /\ L >= 2 /\ o \in Seq(Places)
    <2>1. Tour(heap, c, x)
      BY Kinds, Toured
    <2> QED BY <2>1 DEF Tour
  <1>2. s = Segment(o, 2, b)
    BY FullorderIs
  <1>3. b \in Nat /\ b >= 1 /\ b \in Int /\ 2 - 1 <= b /\ b - 2 + 1 = b - 1
    BY <1>1
  <1>4. /\ DOMAIN s = 1..b - 1 /\ \A k \in 1..b - 1 : s[k] = o[2 + k - 1]
    <2> DEFINE a == 2
    <2>1. a \in Nat /\ b \in Int /\ a - 1 <= b /\ b - a + 1 = b - 1
      BY <1>3
    <2> HIDE DEF a, b, s, o
    <2>2. DOMAIN Segment(o, a, b) = 1..b - a + 1 /\ \A k \in 1..b - a + 1 : Segment(o, a, b)[k] = o[a + k - 1]
      <3>1. a \in Nat /\ b \in Int /\ a - 1 <= b
        BY <2>1
      <3> QED BY <3>1, SegmentIs
    <2> QED BY <1>2, <2>1, <2>2 DEF a
  <1>5. PICK m : Sealed(o, m, 2, b)
    BY Whole
  <1>6. PICK g \in Fresh(NodesIn(s)) : fresh = [k \in DOMAIN s |-> g[s[k][1]]]
    BY DEF FreshAlong
  <1> DEFINE fr == [i \in 2..b |-> g[o[i][1]]]
  <1>7. FreshFor(heap, o, 2, b, fr)
    <2> DEFINE a == 2
    <2>1. Sealed(c[x], m, a, b) /\ g \in Fresh(NodesIn(Segment(c[x], a, b))) /\ fr = [i \in a..b |-> g[c[x][i][1]]]
      BY <1>2, <1>5
    <2> HIDE DEF a, b, fr, s
    <2>2. FreshFor(heap, c[x], a, b, fr)
      BY <2>1, FreshAlongRange
    <2> QED BY <2>2 DEF a
  <1>8. values = [k \in DOMAIN s |-> IF is_leading(s[k]) THEN << Value[s[k][1]] >> ELSE << >>]
    BY DEF flatten
  <1> HIDE DEF s, values, b, o
  <1>9. Len(values) = b - 1
    BY <1>3, <1>4, <1>8
  <1>a. ASSUME NEW k \in 1..b - 1, NEW i \in 2..b, i = k + 1
        PROVE  (values[k] # << >> <=> is_leading(o[i])) /\ (is_leading(o[i]) => fr[i] = fresh[k])
    <2>1. s[k] = o[i]
      <3>1. 2 + k - 1 = i
        BY <1>a
      <3> QED BY <1>4, <3>1
    <2>2. values[k] = IF is_leading(s[k]) THEN << Value[s[k][1]] >> ELSE << >>
      BY <1>4, <1>8
    <2>3. << Value[s[k][1]] >> # << >>
      OBVIOUS
    <2>4. fresh[k] = g[s[k][1]] /\ fr[i] = g[o[i][1]]
      BY <1>4, <1>6
    <2> QED BY <2>1, <2>2, <2>3, <2>4
  <1> HIDE DEF fr
  <1>b. TranscribedCase(heap, f, o, m, b, fr, values, fresh)
    BY <1>3, <1>5, <1>7, <1>9, <1>a DEF TranscribedCase
  <1>c. \E d : OnlyIn(c, f, transcribe(heap, f, values, fresh), d)
    BY <1>3, <1>b, Transcribing
  <1> QED BY <1>c DEF values

-----------------------------------------------------------------------------
(***************************************************************************)
(* Operations on forests, while the locals are empty.                      *)
(***************************************************************************)
\* A closed range has half as many nodes as positions: the count a caller gives.
LEMMA SealedCount ==
    ASSUME NEW o, NEW m, NEW a, NEW b, Sealed(o, m, a, b), NEW s, s = Segment(o, a, b)
    PROVE  Cardinality(NodesIn(s)) \in Nat /\ 2 * Cardinality(NodesIn(s)) = b - a + 1
  <1> DEFINE w == b - a + 1
             at == [k \in 1..w |-> a + k - 1]
  <1>1. /\ o \in Seq(Places) /\ Mates(o, m) /\ a \in 2..Len(o) /\ b \in a - 1..Len(o) - 1 /\ Len(o) \in Nat
        /\ \A k \in a..b : m[k] \in a..b
    BY DEF Sealed
  <1>2. w \in Nat /\ \A k \in 1..w : a + k - 1 \in a..b /\ a + k - 1 \in 1..Len(o)
    BY <1>1
  <1>3. /\ at \in [1..w -> 1..Len(o)]
        /\ \A k \in 1..w : at[k] = a + k - 1 /\ at[k] \in a..b
        /\ \A k, l \in 1..w : k < l => at[k] < at[l]
    BY <1>1, <1>2
  <1>4. \A k \in 1..w : \E l \in 1..w : at[l] = m[at[k]]
    <2> SUFFICES ASSUME NEW k \in 1..w PROVE \E l \in 1..w : at[l] = m[at[k]]
      OBVIOUS
    <2> DEFINE q == m[at[k]]
    <2>1. q \in a..b
      BY <1>1, <1>3
    <2> HIDE DEF q, at
    <2>2. q - a + 1 \in 1..w /\ at[q - a + 1] = q
      BY <1>1, <1>3, <2>1
    <2> QED BY <2>2 DEF q
  <1> HIDE DEF w, at
  <1>5. Thins(at, w, Len(o), m)
    BY <1>2, <1>3, <1>4 DEF Thins
  <1>6. Along(o, at, w) = s
    <2>1. s = [k \in 1..w |-> o[a + k - 1]]
      BY DEF Segment, w
    <2>2. Along(o, at, w) = [k \in 1..w |-> o[at[k]]]
      BY DEF Along
    <2> QED BY <1>3, <2>1, <2>2
  <1>7. s \in Seq(Places) /\ Len(s) = w /\ \E k : Mates(s, k)
    BY <1>1, <1>5, <1>6, SubMates
  <1>8. PICK k : Mates(s, k)
    BY <1>7
  <1>9. Cardinality(NodesIn(s)) \in Nat /\ 2 * Cardinality(NodesIn(s)) = Len(s)
    BY <1>7, <1>8, NodeCount
  <1> QED BY <1>7, <1>9 DEF w

\* What is known while the locals are empty.
LEMMA IdleFacts ==
    ASSUME NEW h, NEW c, Idle(h, c)
    PROVE  /\ Holds(h, c) /\ Forests \subseteq Trees
           /\ \A f \in Forests, x \in Forests, l \in Locals :
                /\ Len(c[l]) = 2 /\ l \in Trees \ {f, x} /\ l \in Trees \ {f}
                /\ \A g : l \in Owners(g) \ {f} /\ l \in Owners(g) \ {f, x}
  BY TreeFacts, Kinds DEF Idle

\* insert() leaves the locals empty.
LEMMA InsertKeeps ==
    ASSUME NEW h, NEW c, Idle(h, c), NEW f \in Forests, NEW t \in 2..Len(c[f]), NEW at, at = c[f][t],
           NEW n \in Nodes \ h.allocated
    PROVE  \E d : Idle(insert(h, f, at, n).heap, d)
  <1>1. InsertDone(h, c, f, t, n, at)
    BY IdleFacts, Inserting
  <1>2. PICK d : Inserted(h, c, f, t, n, insert(h, f, at, n).heap, d)
    BY <1>1 DEF InsertDone
  <1> QED BY <1>2, IdleFacts DEF Inserted, Idle

\* erase() does.
LEMMA EraseKeeps ==
    ASSUME NEW h, NEW c, Idle(h, c), NEW f \in Forests, NEW k \in 2..Len(c[f]) - 1, NEW at, at = c[f][k]
    PROVE  \E d : Idle(erase(h, f, at).heap, d)
  <1>1. EraseDone(h, c, f, k, at)
    BY IdleFacts, Erasing
  <1>2. PICK d : Erased(h, c, f, k, erase(h, f, at).heap, d)
    BY <1>1 DEF EraseDone
  <1> QED BY <1>2, IdleFacts DEF Erased, Idle

\* splice() between forests does.
LEMMA SpliceKeeps ==
    ASSUME NEW h, NEW c, Idle(h, c), NEW f \in Forests, NEW x \in Forests, NEW w, NEW new,
           \E d : Spliced(h, c, f, x, w, new, d)
    PROVE  \E d : Idle(new, d)
  <1>1. PICK d : Spliced(h, c, f, x, w, new, d)
    OBVIOUS
  <1> QED BY <1>1, IdleFacts DEF Spliced, Idle

\* A range of siblings is moved, the caller knowing its count or not.
LEMMA ClosedSplice ==
    ASSUME NEW c, Idle(heap, c), NEW f \in Forests, NEW x \in Forests,
           NEW m, NEW a, NEW b, NEW first, NEW last, Closed(heap, c, x, m, a, b, first, last),
           NEW at \in Targets(f, x, first, last), NEW count \in Nat, count = 0 \/ 2 * count = b - a + 1
    PROVE  \E d : Idle(splice_range(heap, f, at, x, first, last, count), d)
  <1>1. Holds(heap, c) /\ f \in Trees /\ x \in Trees
    BY IdleFacts
  <1>2. PICK t \in 2..Len(c[f]) : at = c[f][t] /\ (f = x => t \notin a + 1..b)
    BY <1>1, TargetIs
  <1>3. SpliceCase(heap, c, f, x, t, a, b, m, at, first, last, count)
    BY <1>1, <1>2 DEF SpliceCase, Closed
  <1>4. \E d : Spliced(heap, c, f, x, b - a + 1, splice_range(heap, f, at, x, first, last, count), d)
    BY <1>3, Splicing
  <1> QED BY <1>4, SpliceKeeps

\* A range of siblings is closed, and what a walk over it sees.
LEMMA ClosedSealed ==
    ASSUME NEW c, Holds(heap, c), NEW x \in Trees, NEW m, NEW a, NEW b, NEW first, NEW last,
           Closed(heap, c, x, m, a, b, first, last)
    PROVE  Sealed(c[x], m, a, b) /\ first = c[x][a] /\ last = c[x][b + 1]
                /\ Between(first, last) = Segment(c[x], a, b)
  <1>1. Tour(heap, c, x)
    BY Kinds, Toured
  <1>2. Between(first, last) = Segment(c[x], a, b)
    BY BetweenIs
  <1>3. c[x] \in Seq(Places)
    BY <1>1 DEF Tour
  <1> QED BY <1>2, <1>3 DEF Closed, Sealed

\* Which positions the actions use.
LEMMA PositionAt ==
    ASSUME NEW c, Idle(heap, c), NEW f \in Forests
    PROVE  /\ \A at \in Iterators(heap, f) : \E t \in 2..Len(c[f]) : at = c[f][t]
           /\ \A at \in Elements(f) : \E k \in 2..Len(c[f]) - 1 : at = c[f][k]
  <1>1. Holds(heap, c) /\ f \in Trees
    BY IdleFacts
  <1>2. /\ Iterators(heap, f) = {c[f][k] : k \in 2..Len(c[f])} /\ end(f) = c[f][Len(c[f])]
        /\ Len(c[f]) \in 2..Len(c[f])
    BY <1>1, Ended, FullorderIs
  <1>3. ASSUME NEW at \in Elements(f) PROVE \E k \in 2..Len(c[f]) - 1 : at = c[f][k]
    <2>1. PICK k \in 2..Len(c[f]) : at = c[f][k] /\ at # end(f)
      BY <1>2 DEF Elements
    <2>2. k \in 2..Len(c[f]) - 1
      BY <1>2, <2>1
    <2> QED BY <2>1, <2>2
  <1> QED BY <1>2, <1>3

\* Every range of children the model uses is one.
LEMMA RangeAt ==
    ASSUME NEW c, Idle(heap, c), NEW f \in Forests, NEW p \in Parents(f), NEW r \in ChildRanges(heap.links, p)
    PROVE  \E m, a, b : Closed(heap, c, f, m, a, b, r[1], r[2])
  <1>1. Holds(heap, c) /\ f \in Trees
    BY IdleFacts
  <1>2. PICK m, k, e : ParentAt(heap, c, f, m, k, e, p)
    BY <1>1, ParentIs
  <1> QED BY <1>2, ChildRangeIs

\* The first and the last child, and the place for one more.
LEMMA ChildAt ==
    ASSUME NEW c, Idle(heap, c), NEW f \in Forests, NEW i \in Parents(f)
    PROVE  /\ \E t \in 2..Len(c[f]) : child_begin(heap.links, i) = c[f][t]
           /\ \E t \in 2..Len(c[f]) : child_end(i) = c[f][t]
           /\ has_children(heap.links, i) =>
                /\ \E k \in 2..Len(c[f]) - 1 : child_begin(heap.links, i) = c[f][k]
                /\ \E k \in 2..Len(c[f]) - 1 : prior(heap.links, child_end(i)) = c[f][k]
  <1>1. Holds(heap, c) /\ f \in Trees
    BY IdleFacts
  <1>2. PICK m, p, e : ParentAt(heap, c, f, m, p, e, i)
    BY <1>1, ParentIs
  <1> DEFINE L == Len(c[f])
             n == p + 1
             l == e - 1
  <1>3. child_begin(heap.links, i) = c[f][n] /\ child_end(i) = c[f][e]
    BY <1>2, Children
  <1>4. /\ c[f] \in Seq(Places) /\ L \in Nat
        /\ \A k \in 1..L : c[f][k] \in Places
        /\ \A k \in 1..L - 1 : prior(heap.links, c[f][k + 1]) = c[f][k]
    <2>1. Tour(heap, c, f)
      BY <1>1, Kinds, Toured
    <2> QED BY <2>1 DEF Tour
  <1>5. /\ Mates(c[f], m) /\ p \in 1..L - 1 /\ is_leading(c[f][p]) /\ e = m[p] /\ i = c[f][p]
    BY <1>2 DEF ParentAt
  <1>6. e \in p + 1..L
    BY <1>4, <1>5, CutFacts
  <1>7. n \in 2..L /\ e \in 2..L
    BY <1>4, <1>5, <1>6
  <1>8. ASSUME has_children(heap.links, i) PROVE n \in 2..L - 1 /\ l \in 2..L - 1 /\ l + 1 = e /\ l \in 1..L - 1
    <2>1. i \in Places /\ leading_of(i) = i /\ c[f][e] = pivot_of(i) /\ pivot_of(i)[1] = i[1]
      <3>1. p \in 1..L
        BY <1>4, <1>5
      <3>2. c[f][m[p]] = pivot_of(c[f][p])
        BY <1>5, <3>1 DEF Mates
      <3> QED BY <1>4, <1>5, <3>1, <3>2, PlaceFacts
    <2>2. c[f][n][1] # i[1]
      BY <1>3, <1>8, <2>1 DEF has_children, equal_node, child_begin
    <2>3. n # e
      BY <2>1, <2>2
    <2> QED BY <1>4, <1>5, <1>6, <2>3
  <1> HIDE DEF n, l, L
  <1>9. ASSUME has_children(heap.links, i)
        PROVE  /\ \E k \in 2..L - 1 : child_begin(heap.links, i) = c[f][k]
               /\ \E k \in 2..L - 1 : prior(heap.links, child_end(i)) = c[f][k]
    <2>1. n \in 2..L - 1 /\ l \in 2..L - 1 /\ l + 1 = e /\ l \in 1..L - 1
      BY <1>8, <1>9
    <2>2. prior(heap.links, child_end(i)) = c[f][l]
      BY <1>3, <1>4, <2>1
    <2> QED BY <1>3, <2>1, <2>2
  <1> QED BY <1>3, <1>7, <1>9 DEF L

-----------------------------------------------------------------------------
(***************************************************************************)
(* Each action leaves rings, and the locals empty.                         *)
(***************************************************************************)
\* insert() before a position of the forest.
LEMMA InsertStep ==
    ASSUME NEW c, Idle(heap, c), NEW f \in Forests, Insert(f)
    PROVE  \E d : Idle(heap', d)
  <1>1. PICK at \in Iterators(heap, f), n \in Free : heap' = insert(heap, f, at, n).heap
    BY DEF Insert
  <1>2. n \in Nodes \ heap.allocated
    BY DEF Free
  <1>3. PICK t \in 2..Len(c[f]) : at = c[f][t]
    BY PositionAt
  <1> QED BY <1>1, <1>2, <1>3, InsertKeeps

\* A child is added at the front or at the back.
LEMMA PushChildStep ==
    ASSUME NEW c, Idle(heap, c), NEW f \in Forests, PushChild(f)
    PROVE  \E d : Idle(heap', d)
  <1>1. PICK p \in Parents(f), n \in Free : \E at \in {child_begin(heap.links, p), child_end(p)} :
            heap' = insert(heap, f, at, n).heap
    BY DEF PushChild
  <1>4. PICK at \in {child_begin(heap.links, p), child_end(p)} : heap' = insert(heap, f, at, n).heap
    BY <1>1
  <1>2. n \in Nodes \ heap.allocated
    BY DEF Free
  <1>3. PICK t \in 2..Len(c[f]) : at = c[f][t]
    BY ChildAt
  <1> QED BY <1>2, <1>3, <1>4, InsertKeeps

\* Siblings get a new parent.
LEMMA InsertParentStep ==
    ASSUME NEW c, Idle(heap, c), NEW f \in Forests, InsertParent(f)
    PROVE  \E d : Idle(heap', d)
  <1>0. PICK p \in Parents(f), n \in Free : \E r \in ChildRanges(heap.links, p) :
            heap' = insert_parent(heap, f, r[1], r[2], n)
    BY DEF InsertParent
  <1>1. PICK r \in ChildRanges(heap.links, p) : heap' = insert_parent(heap, f, r[1], r[2], n)
    BY <1>0
  <1>2. n \in Nodes \ heap.allocated
    BY DEF Free
  <1>3. PICK m, a, b : Closed(heap, c, f, m, a, b, r[1], r[2])
    BY RangeAt
  <1>4. PICK d : Holds(heap', d) /\ \A y \in Owners(heap') \ {f} : d[y] = c[y]
    BY <1>1, <1>2, <1>3, IdleFacts, InsertingParent
  <1> QED BY <1>4, IdleFacts DEF Idle

\* Siblings are copied from another forest.
LEMMA InsertRangeStep ==
    ASSUME NEW c, Idle(heap, c), NEW f \in Forests, NEW x \in Forests, InsertRange(f, x)
    PROVE  \E d : Idle(heap', d)
  <1>0. PICK p \in Parents(x) : \E r \in ChildRanges(heap.links, p) :
            \E at \in Iterators(heap, f), fresh \in Fresh(NodesIn(Between(r[1], r[2]))) :
                heap' = insert_range(heap, f, at, r[1], r[2], fresh)
    BY DEF InsertRange
  <1>a. PICK r \in ChildRanges(heap.links, p) :
            \E at \in Iterators(heap, f), fresh \in Fresh(NodesIn(Between(r[1], r[2]))) :
                heap' = insert_range(heap, f, at, r[1], r[2], fresh)
    BY <1>0
  <1>1. PICK at \in Iterators(heap, f), fresh \in Fresh(NodesIn(Between(r[1], r[2]))) :
            heap' = insert_range(heap, f, at, r[1], r[2], fresh)
    BY <1>a
  <1>2. x # f
    BY DEF InsertRange
  <1> DEFINE first == r[1]
             last == r[2]
  <1>3. PICK m, a, b : Closed(heap, c, x, m, a, b, first, last)
    BY RangeAt
  <1>4. Holds(heap, c) /\ f \in Trees /\ x \in Trees
    BY IdleFacts
  <1>5. PICK t \in 2..Len(c[f]) : at = c[f][t]
    BY PositionAt
  <1>6. heap' = insert_range(heap, f, at, first, last, fresh) /\ fresh \in Fresh(NodesIn(Between(first, last)))
    BY <1>1
  <1> HIDE DEF first, last
  <1>7. Sealed(c[x], m, a, b) /\ first = c[x][a] /\ last = c[x][b + 1]
            /\ Between(first, last) = Segment(c[x], a, b)
    BY <1>3, <1>4, ClosedSealed
  <1>8. fresh \in Fresh(NodesIn(Segment(c[x], a, b)))
    BY <1>6, <1>7
  <1>9. \E d : OnlyIn(c, f, insert_range(heap, f, at, first, last, fresh), d)
    BY <1>2, <1>4, <1>5, <1>7, <1>8, CopyingRange
  <1> QED BY <1>6, <1>9, IdleStill

\* One node is erased.
LEMMA EraseStep ==
    ASSUME NEW c, Idle(heap, c), NEW f \in Forests, Erase(f)
    PROVE  \E d : Idle(heap', d)
  <1>1. PICK at \in Elements(f) : heap' = erase(heap, f, at).heap
    BY DEF Erase
  <1>2. PICK k \in 2..Len(c[f]) - 1 : at = c[f][k]
    BY PositionAt
  <1> QED BY <1>1, <1>2, EraseKeeps

\* The first or the last child is erased.
LEMMA PopChildStep ==
    ASSUME NEW c, Idle(heap, c), NEW f \in Forests, PopChild(f)
    PROVE  \E d : Idle(heap', d)
  <1>0. PICK p \in Parents(f) :
            /\ has_children(heap.links, p)
            /\ \E at \in {child_begin(heap.links, p), prior(heap.links, child_end(p))} :
                  heap' = erase(heap, f, at).heap
    BY DEF PopChild
  <1>1. PICK at \in {child_begin(heap.links, p), prior(heap.links, child_end(p))} :
            heap' = erase(heap, f, at).heap
    BY <1>0
  <1>2. PICK k \in 2..Len(c[f]) - 1 : at = c[f][k]
    BY <1>0, ChildAt
  <1> QED BY <1>1, <1>2, EraseKeeps

\* A range of positions is erased.
LEMMA EraseRangeStep ==
    ASSUME NEW c, Idle(heap, c), NEW f \in Forests, EraseRange(f)
    PROVE  \E d : Idle(heap', d)
  <1>1. PICK first \in Iterators(heap, f), last \in Iterators(heap, f) :
            /\ \E j \in DOMAIN Positions(first, f) : Positions(first, f)[j] = last
            /\ heap' = erase_range(heap, f, first, last)
    BY DEF EraseRange
  <1>2. Holds(heap, c) /\ f \in Trees /\ f \in Owners(heap)
    BY IdleFacts, Kinds
  <1> DEFINE L == Len(c[f])
             b == L - 1
             s == Between(first, end(f))
  <1>3. PICK k \in 2..L : first = c[f][k]
    BY PositionAt
  <1>4. c[f] \in Seq(Places) /\ L \in Nat /\ L >= 2 /\ end(f) = c[f][L]
    <2>1. Tour(heap, c, f)
      BY <1>2, Toured
    <2> QED BY <1>2, <2>1, Ended DEF Tour
  <1>5. k \in 1..L /\ L \in k..L /\ k \in Nat /\ b \in Nat /\ b \in Int /\ k - 1 <= b /\ b + 1 = L
    BY <1>4
  <1>6. s = Segment(c[f], k, b)
    <2> DEFINE z == end(f)
    <2> HIDE DEF z
    <2>1. Path(heap.links, first, z) = Segment(c[f], k, L - 1)
      <3>1. z = c[f][L]
        BY <1>4 DEF z
      <3> HIDE DEF L
      <3>2. k \in 1..Len(c[f]) /\ L \in k..Len(c[f])
        BY <1>5 DEF L
      <3> QED BY <1>2, <1>3, <3>1, <3>2, PathAlong
    <2> QED BY <2>1, Paths DEF z
  <1> HIDE DEF b, L, s
  <1>7. DOMAIN s = 1..b - k + 1 /\ \A j \in 1..b - k + 1 : s[j] = c[f][k + j - 1]
    BY <1>5, <1>6, SegmentIs
  <1>8. \E l \in 2..L : k <= l /\ last = c[f][l]
    <2> DEFINE n == b - k + 1
    <2>1. n \in Nat /\ n + 1 \in Nat
      BY <1>5
    <2>2. /\ \A j \in 1..n : k + j - 1 \in 2..L /\ k <= k + j - 1
      BY <1>3, <1>4, <1>5
    <2>3. \A j \in 1..n : s[j] = c[f][k + j - 1]
      BY <1>7
    <2>4. DOMAIN s = 1..n
      BY <1>7
    <2>5. Positions(first, f) = Append(s, end(f))
      BY DEF Positions, s
    <2>6. s = [j \in 1..n |-> s[j]]
      BY <1>6, <2>4 DEF Segment
    <2> HIDE DEF n
    <2>7. s \in Seq(Places) /\ Len(s) = n
      <3>1. \A l \in 2..L : c[f][l] \in Places
        BY <1>4 DEF L
      <3>2. \A j \in 1..n : s[j] \in Places
        BY <2>2, <2>3, <3>1
      <3>3. s \in [1..n -> Places]
        BY <2>6, <3>2
      <3> QED BY <2>1, <3>3, MakeSeq
    <2>8. PICK j \in DOMAIN Append(s, end(f)) : Append(s, end(f))[j] = last
      BY <1>1, <2>5
    <2>9. j \in 1..n + 1 /\ (j \in 1..n => last = s[j]) /\ (j = n + 1 => last = end(f))
      <3>1. end(f) \in Places
        BY <1>4 DEF L
      <3> QED BY <2>1, <2>7, <2>8, <3>1, AppendProperties
    <2>a. CASE j \in 1..n
      BY <2>2, <2>3, <2>9, <2>a
    <2>b. CASE j = n + 1
      BY <1>3, <1>4, <1>5, <2>9, <2>b
    <2> QED BY <2>1, <2>9, <2>a, <2>b
  <1>9. PICK l \in 2..L : k <= l /\ last = c[f][l]
    BY <1>8
  <1>a. l \in 2..Len(c[f]) /\ k \in 2..l
    BY <1>3, <1>4, <1>9 DEF L
  <1>b. \E d : OnlyIn(c, f, erase_range(heap, f, first, last), d)
    BY <1>2, <1>3, <1>9, <1>a, ErasingRange
  <1> QED BY <1>1, <1>b, IdleStill

\* A forest is cleared.
LEMMA ClearStep ==
    ASSUME NEW c, Idle(heap, c), NEW f \in Forests, Clear(f)
    PROVE  \E d : Idle(heap', d)
  <1>1. \E d : OnlyIn(c, f, clear(heap, f), d)
    BY IdleFacts, Clearing
  <1> QED BY <1>1, IdleStill DEF Clear

\* All of another forest is moved.
LEMMA SpliceStep ==
    ASSUME NEW c, Idle(heap, c), NEW f \in Forests, NEW x \in Forests, Splice(f, x)
    PROVE  \E d : Idle(heap', d)
  <1>1. PICK at \in Iterators(heap, f) : x # f /\ heap' = splice(heap, f, at, x)
    BY DEF Splice
  <1>2. PICK t \in 2..Len(c[f]) : at = c[f][t]
    BY PositionAt
  <1>3. \E d : Spliced(heap, c, f, x, Len(c[x]) - 2, splice(heap, f, at, x), d)
    BY <1>1, <1>2, IdleFacts, SplicingAll
  <1> QED BY <1>1, <1>3, SpliceKeeps

\* A node is moved with what is below it; the count is known if it has no children.
LEMMA SpliceOneStep ==
    ASSUME NEW c, Idle(heap, c), NEW f \in Forests, NEW x \in Forests, SpliceOne(f, x)
    PROVE  \E d : Idle(heap', d)
  <1>1. PICK i \in Elements(x) : \E at \in Targets(f, x, leading_of(i), child_next(heap.links, leading_of(i))) :
            heap' = splice_one(heap, f, at, x, i)
    BY DEF SpliceOne
  <1> DEFINE first == leading_of(i)
             last == child_next(heap.links, first)
             count == IF has_children(heap.links, first) THEN 0 ELSE 1
  <1>2. PICK at \in Targets(f, x, first, last) : heap' = splice_range(heap, f, at, x, first, last, count)
    BY <1>1 DEF splice_one
  <1>3. PICK k \in 2..Len(c[x]) - 1 : i = c[x][k]
    BY PositionAt
  <1>4. Holds(heap, c) /\ x \in Trees
    BY IdleFacts
  <1>5. PICK m, a, b : Closed(heap, c, x, m, a, b, first, last)
                       /\ (~has_children(heap.links, first) => b - a + 1 = 2)
    BY <1>3, <1>4, SplicingOne
  <1>6. count \in Nat /\ (count = 0 \/ 2 * count = b - a + 1)
    BY <1>5
  <1> HIDE DEF first, last, count
  <1>7. \E d : Idle(splice_range(heap, f, at, x, first, last, count), d)
    BY <1>5, <1>6, ClosedSplice
  <1> QED BY <1>2, <1>7

\* Siblings are moved, with a count or without.
LEMMA SpliceRangeStep ==
    ASSUME NEW c, Idle(heap, c), NEW f \in Forests, NEW x \in Forests, SpliceRange(f, x)
    PROVE  \E d : Idle(heap', d)
  <1>0. PICK p \in Parents(x) : \E r \in ChildRanges(heap.links, p) :
            \E at \in Targets(f, x, r[1], r[2]), count \in {0, Cardinality(NodesIn(Between(r[1], r[2])))} :
                heap' = splice_range(heap, f, at, x, r[1], r[2], count)
    BY DEF SpliceRange
  <1>a. PICK r \in ChildRanges(heap.links, p) :
            \E at \in Targets(f, x, r[1], r[2]), count \in {0, Cardinality(NodesIn(Between(r[1], r[2])))} :
                heap' = splice_range(heap, f, at, x, r[1], r[2], count)
    BY <1>0
  <1>1. PICK at \in Targets(f, x, r[1], r[2]), count \in {0, Cardinality(NodesIn(Between(r[1], r[2])))} :
            heap' = splice_range(heap, f, at, x, r[1], r[2], count)
    BY <1>a
  <1> DEFINE first == r[1]
             last == r[2]
  <1>2. /\ at \in Targets(f, x, first, last) /\ count \in {0, Cardinality(NodesIn(Between(first, last)))}
        /\ heap' = splice_range(heap, f, at, x, first, last, count)
    BY <1>1
  <1>3. PICK m, a, b : Closed(heap, c, x, m, a, b, first, last)
    BY RangeAt
  <1>4. Holds(heap, c) /\ x \in Trees
    BY IdleFacts
  <1> HIDE DEF first, last
  <1>5. Sealed(c[x], m, a, b) /\ Between(first, last) = Segment(c[x], a, b)
    BY <1>3, <1>4, ClosedSealed
  <1>6. Cardinality(NodesIn(Between(first, last))) \in Nat
            /\ 2 * Cardinality(NodesIn(Between(first, last))) = b - a + 1
    BY <1>5, SealedCount
  <1>7. count \in Nat /\ (count = 0 \/ 2 * count = b - a + 1)
    BY <1>2, <1>6
  <1>8. \E d : Idle(splice_range(heap, f, at, x, first, last, count), d)
    BY <1>2, <1>3, <1>7, ClosedSplice
  <1> QED BY <1>2, <1>8

\* Move assignment, to itself as well.
LEMMA MoveAssignStep ==
    ASSUME NEW c, Idle(heap, c), NEW f \in Forests, NEW x \in Forests, MoveAssign(f, x)
    PROVE  \E d : Idle(heap', d)
  <1>1. heap' = move_assign(heap, f, x)
    BY DEF MoveAssign
  <1>2. PICK d : Assigned(c, f, x, heap', d)
    BY <1>1, IdleFacts, TreeFacts, Assigning
  <1>3. /\ Holds(heap', d) /\ Len(d["tmp"]) = 2
        /\ \A y \in Trees \ {f, x, "tmp"} : d[y] = c[y]
    BY <1>2 DEF Assigned
  <1>4. d["temp"] = c["temp"] /\ Len(c["temp"]) = 2
    <2>1. "temp" \in Trees \ {f, x, "tmp"} /\ "temp" \in Locals
      BY TreeFacts
    <2> QED BY <1>3, <2>1, IdleFacts
  <1> QED BY <1>3, <1>4, TreeFacts DEF Idle

\* Copy assignment.
LEMMA CopyAssignStep ==
    ASSUME NEW c, Idle(heap, c), NEW f \in Forests, NEW x \in Forests, CopyAssign(f, x)
    PROVE  \E d : Idle(heap', d)
  BY CopyingAssign DEF CopyAssign

\* swap().
LEMMA SwapStep ==
    ASSUME NEW c, Idle(heap, c), NEW f \in Forests, NEW x \in Forests, Swap(f, x)
    PROVE  \E d : Idle(heap', d)
  BY Swapping DEF Swap

\* A flattened forest is transcribed.
LEMMA TranscribeStep ==
    ASSUME NEW c, Idle(heap, c), NEW f \in Forests, NEW x \in Forests, Transcribe(f, x)
    PROVE  \E d : Idle(heap', d)
  <1>1. PICK fresh \in FreshAlong(Fullorder(heap, x)) : heap' = transcribe(heap, f, flatten(heap, x), fresh)
    BY DEF Transcribe
  <1>2. \E d : OnlyIn(c, f, heap', d)
    BY <1>1, IdleFacts, TranscribingForest
  <1> QED BY <1>2, IdleStill

\* The sizes of two forests are asked for.
LEMMA CompareStep ==
    ASSUME NEW c, Idle(heap, c), NEW f \in Forests, NEW x \in Forests, Compare(f, x)
    PROVE  \E d : Idle(heap', d)
  <1>1. Holds(heap, c) /\ f \in Trees /\ x \in Trees
    BY IdleFacts
  <1>2. Holds(Sized(heap, f), c)
    BY <1>1, Sizing
  <1>3. Holds(Sized(Sized(heap, f), x), c)
    BY <1>1, <1>2, Sizing
  <1> QED BY <1>3 DEF Compare, Idle

-----------------------------------------------------------------------------
(***************************************************************************)
(* The invariant.                                                          *)
(***************************************************************************)
\* At first every cell is linked to itself.
LEMMA Begin ==
    ASSUME Init
    PROVE  \E d : Idle(heap, d)
  <1> DEFINE links == [c \in Cells |-> SelfLinked(c)]
             d == [c \in Cells |-> Pair(c)]
  <1>1. /\ heap.links = links /\ heap.size = [f \in Trees |-> 0] /\ heap.allocated = {}
        /\ heap \in HeapType
    <2>1. links \in LinkType
      <3>1. \A c \in Cells : SelfLinked(c) \in [Edge -> [prior : Cells, next : Cells]]
        BY DEF SelfLinked, Edge
      <3> QED BY <3>1 DEF LinkType
    <2>2. heap = [links |-> links, size |-> [f \in Trees |-> 0], allocated |-> {}]
      BY DEF Init, Trees
    <2> HIDE DEF links
    <2> QED BY <2>1, <2>2 DEF HeapType
  <1>2. Owners(heap) = Cells /\ Trees \subseteq Cells
    BY <1>1 DEF Owners, Trees, Cells
  <1>3. ASSUME NEW x \in Cells
        PROVE  /\ Ring(links, x, d[x]) /\ Len(d[x]) = 2
               /\ d[x][1] = << x, "leading" >> /\ d[x][2] = << x, "trailing" >>
    <2> DEFINE p == Pair(x)
    <2>1. /\ p \in Seq(Places) /\ Len(p) = 2 /\ p[1] = << x, "leading" >> /\ p[2] = << x, "trailing" >>
          /\ \E m : Mates(p, m)
      BY PairFacts
    <2>2. d[x] = p
      OBVIOUS
    <2>3. /\ links[x]["leading"].next = x /\ links[x]["leading"].prior = x
          /\ links[x]["trailing"].next = x /\ links[x]["trailing"].prior = x
      BY DEF SelfLinked
    <2> HIDE DEF links, d, p
    <2>4. Linked(links, p[1], p[2]) /\ Linked(links, p[2], p[1])
      BY <2>1, <2>3 DEF Linked
    <2>5. \A k \in 1..Len(p) - 1 : k = 1 /\ k + 1 = 2
      BY <2>1
    <2>6. Run(links, p)
      BY <2>1, <2>4, <2>5 DEF Run
    <2>7. p[Len(p)] = p[2] /\ Len(p) >= 2
      BY <2>1
    <2>8. Ring(links, x, p)
      BY <2>1, <2>4, <2>6, <2>7 DEF Ring
    <2> QED BY <2>1, <2>2, <2>8
  <1>4. \A i \in Places : \E x \in Cells : i = d[x][1] \/ i = d[x][2]
    <2> SUFFICES ASSUME NEW i \in Places PROVE \E x \in Cells : i = d[x][1] \/ i = d[x][2]
      OBVIOUS
    <2>1. i[1] \in Cells /\ (i = << i[1], "leading" >> \/ i = << i[1], "trailing" >>)
      BY DEF Places, Edge
    <2> HIDE DEF d
    <2> QED BY <1>3, <2>1
  <1> HIDE DEF links
  <1>5. Rings(links, d, Cells, Places)
    <2>1. DOMAIN d = Cells
      OBVIOUS
    <2> HIDE DEF d
    <2>2. links \in LinkType
      BY <1>1 DEF HeapType
    <2>3. ASSUME NEW x \in Cells, NEW k \in 1..Len(d[x])
          PROVE  (k = 1 \/ k = 2) /\ d[x][k] \in Places /\ d[x][k][1] = x
      <3>0. Len(d[x]) = 2 /\ d[x][1] = << x, "leading" >> /\ d[x][2] = << x, "trailing" >>
        BY <1>3
      <3>1. k = 1 \/ k = 2
        BY <3>0
      <3>2. << x, "leading" >> \in Places /\ << x, "trailing" >> \in Places
        BY DEF Places, Edge
      <3> QED BY <3>0, <3>1, <3>2
    <2>4. ASSUME NEW i \in Places PROVE \E x \in Cells : \E k \in 1..Len(d[x]) : d[x][k] = i
      <3>1. PICK x \in Cells : i = d[x][1] \/ i = d[x][2]
        BY <1>4
      <3>2. 1 \in 1..Len(d[x]) /\ 2 \in 1..Len(d[x])
        BY <1>3
      <3> QED BY <3>1, <3>2
    <2>5. \A x, y \in Cells : \A k \in 1..Len(d[x]), l \in 1..Len(d[y]) : d[x][k] = d[y][l] => x = y
      BY <2>3
    <2> QED BY <1>3, <2>1, <2>2, <2>3, <2>4, <2>5 DEF Rings
  <1> HIDE DEF d
  <1>6. Holds(heap, d)
    <2>1. \A n \in Nodes \ heap.allocated : Len(d[n]) = 2
      BY <1>3 DEF Cells
    <2>2. \A f \in Trees : heap.size[f] = 0
      BY <1>1
    <2> QED BY <1>1, <1>2, <1>5, <2>1, <2>2 DEF Holds
  <1>7. \A l \in Locals : Len(d[l]) = 2
    BY <1>3 DEF Cells
  <1> QED BY <1>6, <1>7 DEF Idle

\* Every step leaves rings.
LEMMA Keep ==
    ASSUME IInv, [Next]_vars
    PROVE  IInv'
  <1>1. PICK c : Idle(heap, c)
    BY DEF IInv
  <1>2. SUFFICES \E d : Idle(heap', d)
    BY DEF IInv
  <1>3. CASE Next
    <2>1. PICK f \in Forests :
            \/ Insert(f) \/ InsertParent(f) \/ Erase(f) \/ EraseRange(f) \/ Clear(f)
            \/ PushChild(f) \/ PopChild(f)
            \/ \E x \in Forests :
                  \/ InsertRange(f, x) \/ Splice(f, x) \/ SpliceOne(f, x) \/ SpliceRange(f, x)
                  \/ MoveAssign(f, x) \/ CopyAssign(f, x) \/ Swap(f, x)
                  \/ Transcribe(f, x) \/ Compare(f, x)
      BY <1>3 DEF Next
    <2>2. CASE Insert(f)
      BY <1>1, <2>2, InsertStep
    <2>3. CASE InsertParent(f)
      BY <1>1, <2>3, InsertParentStep
    <2>4. CASE Erase(f)
      BY <1>1, <2>4, EraseStep
    <2>5. CASE EraseRange(f)
      BY <1>1, <2>5, EraseRangeStep
    <2>6. CASE Clear(f)
      BY <1>1, <2>6, ClearStep
    <2>7. CASE PushChild(f)
      BY <1>1, <2>7, PushChildStep
    <2>8. CASE PopChild(f)
      BY <1>1, <2>8, PopChildStep
    <2>9. ASSUME NEW x \in Forests,
                 \/ InsertRange(f, x) \/ Splice(f, x) \/ SpliceOne(f, x) \/ SpliceRange(f, x)
                 \/ MoveAssign(f, x) \/ CopyAssign(f, x) \/ Swap(f, x)
                 \/ Transcribe(f, x) \/ Compare(f, x)
          PROVE  \E d : Idle(heap', d)
      <3>1. CASE InsertRange(f, x)
        BY <1>1, <3>1, InsertRangeStep
      <3>2. CASE Splice(f, x)
        BY <1>1, <3>2, SpliceStep
      <3>3. CASE SpliceOne(f, x)
        BY <1>1, <3>3, SpliceOneStep
      <3>4. CASE SpliceRange(f, x)
        BY <1>1, <3>4, SpliceRangeStep
      <3>5. CASE MoveAssign(f, x)
        BY <1>1, <3>5, MoveAssignStep
      <3>6. CASE CopyAssign(f, x)
        BY <1>1, <3>6, CopyAssignStep
      <3>7. CASE Swap(f, x)
        BY <1>1, <3>7, SwapStep
      <3>8. CASE Transcribe(f, x)
        BY <1>1, <3>8, TranscribeStep
      <3>9. CASE Compare(f, x)
        BY <1>1, <3>9, CompareStep
      <3> QED BY <2>9, <3>1, <3>2, <3>3, <3>4, <3>5, <3>6, <3>7, <3>8, <3>9
    <2> QED BY <2>1, <2>2, <2>3, <2>4, <2>5, <2>6, <2>7, <2>8, <2>9
  <1>4. CASE UNCHANGED vars
    BY <1>1, <1>4 DEF vars
  <1> QED BY <1>3, <1>4

\* Around a ring, a step back undoes a step.
LEMMA BackAndForth ==
    ASSUME NEW h, NEW c, Holds(h, c), NEW f \in Trees, NEW k \in 1..Len(c[f]), NEW i, i = c[f][k]
    PROVE  prior(h.links, next(h.links, i)) = i /\ next(h.links, prior(h.links, i)) = i
  <1> DEFINE L == Len(c[f])
             n == k - 1
  <1>1. /\ L \in Nat /\ L >= 2
        /\ \A j \in 1..L - 1 : next(h.links, c[f][j]) = c[f][j + 1] /\ prior(h.links, c[f][j + 1]) = c[f][j]
        /\ next(h.links, c[f][L]) = c[f][1] /\ prior(h.links, c[f][1]) = c[f][L]
    <2>1. Tour(h, c, f)
      BY Kinds, Toured
    <2> QED BY <2>1 DEF Tour
  <1>2. /\ k = L \/ k \in 1..L - 1
        /\ k = 1 \/ (n \in 1..L - 1 /\ n + 1 = k)
    BY <1>1
  <1> HIDE DEF L, n
  <1>3. prior(h.links, next(h.links, i)) = i
    BY <1>1, <1>2
  <1>4. next(h.links, prior(h.links, i)) = i
    BY <1>1, <1>2
  <1> QED BY <1>3, <1>4

\* A node that is allocated is in one forest, a free one in none.
LEMMA OneForest ==
    ASSUME NEW c, Idle(heap, c), NEW n \in Nodes,
           NEW T, T = {f \in Forests : << n, "leading" >> \in Iterators(heap, f)
                                       /\ << n, "trailing" >> \in Iterators(heap, f)}
    PROVE  Cardinality(T) = IF n \in heap.allocated THEN 1 ELSE 0
  <1> DEFINE leading == << n, "leading" >>
             trailing == << n, "trailing" >>
  <1>1. /\ Holds(heap, c) /\ Rings(heap.links, c, Owners(heap), Places)
        /\ \A l \in Locals : Len(c[l]) = 2
        /\ \A x \in Nodes \ heap.allocated : Len(c[x]) = 2
        /\ Forests \subseteq Trees /\ Trees \subseteq Owners(heap)
    BY TreeFacts, Kinds DEF Idle, Holds
  <1>2. leading \in Places /\ trailing \in Places /\ pivot_of(leading) = trailing
    BY DEF Places, Edge, Cells, pivot_of, pivot
  <1>3. \A f \in Forests : Iterators(heap, f) = {c[f][k] : k \in 2..Len(c[f])}
    BY <1>1, FullorderIs
  <1>4. \A x \in Owners(heap) : /\ Len(c[x]) \in Nat /\ Len(c[x]) >= 2 /\ c[x] \in Seq(Places)
                                /\ c[x][1] = << x, "leading" >> /\ c[x][Len(c[x])] = << x, "trailing" >>
                                /\ \E m : Mates(c[x], m)
    <2> SUFFICES ASSUME NEW x \in Owners(heap)
                 PROVE  /\ Len(c[x]) \in Nat /\ Len(c[x]) >= 2 /\ c[x] \in Seq(Places)
                        /\ c[x][1] = << x, "leading" >> /\ c[x][Len(c[x])] = << x, "trailing" >>
                        /\ \E m : Mates(c[x], m)
      OBVIOUS
    <2>1. Tour(heap, c, x)
      BY <1>1, Toured
    <2> QED BY <2>1 DEF Tour
  <1>5. \A x, y \in Owners(heap) : \A k \in 1..Len(c[x]), l \in 1..Len(c[y]) : c[x][k] = c[y][l] => x = y
    BY <1>1 DEF Rings
  <1>6. CASE n \in heap.allocated
    <2>1. PICK x \in Owners(heap) : \E k \in 1..Len(c[x]) : c[x][k] = leading
      BY <1>1, <1>2 DEF Rings
    <2>2. PICK k \in 1..Len(c[x]) : c[x][k] = leading
      BY <2>1
    <2>3. n \notin Trees
      BY Kinds
    <2>4. Len(c[x]) = 2 => n = x
      <3>1. ASSUME Len(c[x]) = 2 PROVE n = x
        <4>1. k = 1 \/ k = 2
          BY <3>1
        <4> QED BY <1>4, <2>2, <3>1, <4>1
      <3> QED BY <3>1
    <2>5. x \in Forests
      <3>1. x \in Forests \/ x \in Locals \/ x \in Nodes \ heap.allocated
        BY DEF Owners, Trees
      <3>2. n # x
        <4>1. x \in Trees \/ x \in Nodes \ heap.allocated
          BY DEF Owners
        <4> QED BY <1>6, <2>3, <4>1
      <3> QED BY <1>1, <2>4, <3>1, <3>2
    <2>6. n # x
      BY <1>1, <2>3, <2>5
    <2>7. \E l \in 1..Len(c[x]) : c[x][l] = trailing
      <3>1. PICK m : Mates(c[x], m)
        BY <1>4
      <3>2. m[k] \in 1..Len(c[x]) /\ c[x][m[k]] = trailing
        BY <1>2, <2>2, <3>1 DEF Mates
      <3> QED BY <3>2
    <2>8. PICK l \in 1..Len(c[x]) : c[x][l] = trailing
      BY <2>7
    <2>9. k # 1 /\ l # 1
      BY <1>4, <2>2, <2>6, <2>8
    <2>a. k \in 2..Len(c[x]) /\ l \in 2..Len(c[x])
      BY <1>4, <2>9
    <2>b. leading \in Iterators(heap, x) /\ trailing \in Iterators(heap, x)
      BY <1>3, <2>2, <2>5, <2>8, <2>a
    <2>c. ASSUME NEW f \in T PROVE f = x
      <3>1. f \in Forests /\ leading \in Iterators(heap, f)
        OBVIOUS
      <3>2. PICK j \in 2..Len(c[f]) : leading = c[f][j]
        BY <1>3, <3>1
      <3>3. j \in 1..Len(c[f]) /\ f \in Owners(heap)
        BY <1>1, <1>4, <3>1
      <3> QED BY <1>5, <2>2, <3>2, <3>3
    <2>d. T = {x}
      BY <2>5, <2>b, <2>c
    <2> QED BY <1>6, <2>d, FS_Singleton
  <1>7. CASE n \notin heap.allocated
    <2>1. n \in Owners(heap) /\ n \notin Trees
      BY <1>7, Kinds
    <2>2. 1 \in 1..Len(c[n]) /\ c[n][1] = leading
      BY <1>4, <2>1
    <2>3. ASSUME NEW f \in T PROVE FALSE
      <3>1. f \in Forests /\ leading \in Iterators(heap, f)
        OBVIOUS
      <3>2. PICK j \in 2..Len(c[f]) : leading = c[f][j]
        BY <1>3, <3>1
      <3>3. j \in 1..Len(c[f]) /\ f \in Owners(heap)
        BY <1>1, <1>4, <3>1
      <3>4. f = n
        BY <1>5, <2>1, <2>2, <3>2, <3>3
      <3> QED BY <1>1, <2>1, <3>1, <3>4
    <2>4. T = {}
      BY <2>3
    <2> QED BY <1>7, <2>4, FS_EmptySet
  <1> QED BY <1>6, <1>7

\* A local that is empty is linked to itself.
LEMMA LocalsUnlinked ==
    ASSUME NEW c, Idle(heap, c), NEW l \in Locals
    PROVE  heap.links[l] = SelfLinked(l)
  <1>1. /\ Len(c[l]) = 2 /\ l \in Owners(heap) /\ heap.links \in LinkType /\ l \in Cells
        /\ Rings(heap.links, c, Owners(heap), Places)
    BY TreeFacts, Kinds DEF Idle, Holds, HeapType, Cells, Trees
  <1>2. /\ c[l][1] = << l, "leading" >> /\ c[l][2] = << l, "trailing" >>
        /\ Linked(heap.links, c[l][1], c[l][2]) /\ Linked(heap.links, c[l][2], c[l][1])
    <2>1. Ring(heap.links, l, c[l])
      BY <1>1 DEF Rings
    <2>2. 1 \in 1..Len(c[l]) - 1 /\ 1 + 1 = 2
      BY <1>1
    <2>3. Linked(heap.links, c[l][1], c[l][1 + 1])
      BY <2>1, <2>2 DEF Ring, Run
    <2> QED BY <1>1, <2>1, <2>2, <2>3 DEF Ring
  <1> DEFINE r == heap.links[l]
  <1>3. r \in [Edge -> [prior : Cells, next : Cells]]
    BY <1>1 DEF LinkType
  <1>4. /\ r["leading"].next = l /\ r["trailing"].prior = l
        /\ r["trailing"].next = l /\ r["leading"].prior = l
    BY <1>2 DEF Linked
  <1> HIDE DEF r
  <1>5. r["leading"] = [prior |-> l, next |-> l] /\ r["trailing"] = [prior |-> l, next |-> l]
    BY <1>3, <1>4 DEF Edge
  <1>6. r = [e \in Edge |-> [prior |-> l, next |-> l]]
    BY <1>3, <1>5 DEF Edge
  <1> QED BY <1>6 DEF r, SelfLinked, Edge

\* In rings the links are paired.
LEMMA LinksFollow ==
    ASSUME IInv
    PROVE  LinksPaired
  <1>1. PICK c : Idle(heap, c)
    BY DEF IInv
  <1>2. ASSUME NEW f \in Forests, NEW i \in {root(f)} \cup Iterators(heap, f)
        PROVE  /\ prior(heap.links, next(heap.links, i)) = i
               /\ next(heap.links, prior(heap.links, i)) = i
    <2>1. Holds(heap, c) /\ f \in Trees
      BY <1>1, IdleFacts
    <2>2. root(f) = c[f][1] /\ 2 \in 2..Len(c[f])
      BY <2>1, SizeFacts, Ended
    <2>3. \E k \in 1..Len(c[f]) : i = c[f][k]
      <3>1. CASE i = root(f)
        <4>1. 1 \in 1..Len(c[f])
          BY <2>2
        <4> QED BY <2>2, <3>1, <4>1
      <3>2. CASE i \in Iterators(heap, f)
        <4>1. PICK k \in 2..Len(c[f]) : i = c[f][k]
          BY <1>1, <3>2, PositionAt
        <4>2. k \in 1..Len(c[f])
          OBVIOUS
        <4> QED BY <4>1, <4>2
      <3> QED BY <3>1, <3>2
    <2>4. PICK k \in 1..Len(c[f]) : i = c[f][k]
      BY <2>3
    <2> QED BY <2>1, <2>4, BackAndForth
  <1>3. ASSUME NEW n \in Nodes
        PROVE  Cardinality({f \in Forests : << n, "leading" >> \in Iterators(heap, f)
                                            /\ << n, "trailing" >> \in Iterators(heap, f)})
                 = IF n \in heap.allocated THEN 1 ELSE 0
    BY <1>1, OneForest
  <1>4. \A l \in Locals : heap.links[l] = SelfLinked(l)
    BY <1>1, LocalsUnlinked
  <1> QED BY <1>2, <1>3, <1>4 DEF LinksPaired

\* A ring has two positions for each node, and the two of the root.
LEMMA SizeFollows ==
    ASSUME IInv
    PROVE  SizeExact
  <1> SUFFICES ASSUME NEW f \in Forests, size_valid(heap, f)
               PROVE  heap.size[f] = Cardinality(NodesIn(Fullorder(heap, f)))
    BY DEF SizeExact
  <1>1. PICK c : Idle(heap, c)
    BY DEF IInv
  <1>2. Holds(heap, c) /\ f \in Trees
    BY <1>1, IdleFacts
  <1> DEFINE a == 2
             b == Len(c[f]) - 1
             s == Fullorder(heap, f)
             n == Cardinality(NodesIn(s))
  <1>3. s = Segment(c[f], a, b)
    BY <1>2, FullorderIs
  <1>4. PICK m : Sealed(c[f], m, a, b)
    BY <1>2, Whole
  <1>5. b - a + 1 = Len(c[f]) - 2
    <2>1. Len(c[f]) \in Nat
      BY <1>4 DEF Sealed
    <2> QED BY <2>1
  <1> HIDE DEF a, b, s
  <1>6. n \in Nat /\ 2 * n = b - a + 1
    BY <1>3, <1>4, SealedCount
  <1>7. heap.size[f] \in Nat /\ 2 * heap.size[f] + 2 = Len(c[f])
    BY <1>2, SizeFacts
  <1> HIDE DEF n
  <1>8. heap.size[f] = n
    BY <1>5, <1>6, <1>7
  <1> QED BY <1>8 DEF n, s

\* The links are those of rings, and the forests local to the operations are empty between them.
THEOREM RingsHold == Spec => []IInv
  <1>1. Init => IInv
    BY Begin DEF IInv
  <1>2. IInv /\ [Next]_vars => IInv'
    BY Keep
  <1> QED BY <1>1, <1>2, PTL DEF Spec

\* A step forth and a step back agree everywhere, and the nodes that are allocated are each in one
\* forest with both edges.
THEOREM KeepsLinks == Spec => []LinksPaired
  <1>1. IInv => LinksPaired
    BY LinksFollow
  <1> QED BY <1>1, RingsHold, PTL

\* A cached size is the number of nodes, whatever is moved between forests.
THEOREM KeepsSize == Spec => []SizeExact
  <1>1. IInv => SizeExact
    BY SizeFollows
  <1> QED BY <1>1, RingsHold, PTL

=============================================================================
