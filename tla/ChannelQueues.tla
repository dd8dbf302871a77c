--------------------------- MODULE ChannelQueues ---------------------------
(***************************************************************************)
(* The input of a channel process: one queue per argument and a strategy   *)
(* that says which fronts make the next message.                           *)
(*                                                                         *)
(*   default      one argument, one queue                                  *)
(*   zip_with     a value of every queue                                   *)
(*   round_robin  the queues in turn                                       *)
(*   unordered    the first queue that has a value                         *)
(*                                                                         *)
(* A strategy is a record of what its member functions do to the queues:   *)
(* the arguments whose fronts front() hands out and pop_front() removes,   *)
(* _index and _popped_index after the pop, and the arguments whose size    *)
(* size() reports; the others it reports as the largest size_t.            *)
(***************************************************************************)
EXTENDS Naturals, Sequences, FiniteSets

\* std::size_t, four bits wide.
SizeMax == 15
Minus(a, b) == (a + SizeMax + 1 - b) % (SizeMax + 1)

Arguments(q) == DOMAIN q.items

NewQueues(n) == [items |-> [i \in 1..n |-> << >>], index |-> 1, popped |-> 1]

\* The first argument that passes, or one past the last.
tuple_find(passing, n) ==
    IF passing = {} THEN n + 1 ELSE CHOOSE i \in passing : \A j \in passing : i <= j

default_queue_strategy(q) ==
    [takes |-> << 1 >>, index |-> q.index, counted |-> {1}]

zip_with_queue_strategy(q) ==
    [takes |-> [i \in Arguments(q) |-> i], index |-> q.index, counted |-> Arguments(q)]

round_robin_queue_strategy(q) ==
    [takes   |-> << q.index >>,
     index   |-> IF q.index = Len(q.items) THEN 1 ELSE q.index + 1,
     counted |-> {q.popped}]

unordered_queue_strategy(q) ==
    LET first == tuple_find({i \in Arguments(q) : q.items[i] # << >>}, Len(q.items))
    IN  [takes   |-> IF first > Len(q.items) THEN << >> ELSE << first >>,
         index   |-> first,
         counted |-> {q.popped}]

StrategyOf(name, q) ==
    CASE name = "default"     -> default_queue_strategy(q)
      [] name = "zip_with"    -> zip_with_queue_strategy(q)
      [] name = "round_robin" -> round_robin_queue_strategy(q)
      [] name = "unordered"   -> unordered_queue_strategy(q)

Empty(name, q) ==
    LET takes == StrategyOf(name, q).takes
    IN  takes = << >> \/ \E k \in DOMAIN takes : q.items[takes[k]] = << >>

\* The message pop_from_queue moves out of the queues: a tuple of the fronts.
Front(name, q) ==
    LET takes == StrategyOf(name, q).takes
    IN  [k \in DOMAIN takes |-> q.items[takes[k]][1]]

PopFront(name, q) ==
    LET takes == StrategyOf(name, q).takes
        taken == {takes[k] : k \in DOMAIN takes}
    IN  [items  |-> [i \in Arguments(q) |-> IF i \in taken THEN Tail(q.items[i]) ELSE q.items[i]],
         index  |-> StrategyOf(name, q).index,
         popped |-> IF name \in {"round_robin", "unordered"} THEN takes[1] ELSE q.popped]

Sizes(name, q) ==
    [i \in Arguments(q) |-> IF i \in StrategyOf(name, q).counted THEN Len(q.items[i]) ELSE SizeMax]

AppendTo(q, i, m) == [q EXCEPT !.items[i] = Append(@, m)]
=============================================================================
