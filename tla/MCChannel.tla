----------------------------- MODULE MCChannel -----------------------------
(* The graphs of channels TLC checks. *)
EXTENDS Channel, TLC

Symmetry == Permutations(Workers)

Function(up) ==
    [up |-> up, strategy |-> "default", kind |-> "function", buffer |-> 1, void |-> FALSE,
     moveOnly |-> FALSE, batch |-> 1, wait |-> "forever", delayed |-> FALSE, closes |-> FALSE,
     setsError |-> FALSE, throws |-> {}, sends |-> 2, copies |-> 1, drops |-> FALSE]

Sink(up)           == [Function(up) EXCEPT !.void = TRUE]
Process(up, batch) == [Function(up) EXCEPT !.kind = "process", !.batch = batch]
Source(n)          == [Function(<< >>) EXCEPT !.kind = "source", !.batch = n]
Channel1           == [Function(<< >>) EXCEPT !.sends = 1]
Merge(strategy)    == [Sink(<< "a", "b" >>) EXCEPT !.strategy = strategy]

Chain   == [a |-> Function(<< >>), b |-> Process(<< "a" >>, 2), c |-> Sink(<< "b" >>)]
Split   == [a |-> Function(<< >>), b |-> Sink(<< "a" >>), c |-> Sink(<< "a" >>)]
Expired == [a |-> Function(<< >>),
            b |-> [Process(<< "a" >>, 2) EXCEPT !.wait = "expired"], c |-> Sink(<< "b" >>)]
Delayed == [a |-> Function(<< >>),
            b |-> [Process(<< "a" >>, 2) EXCEPT !.delayed = TRUE], c |-> Sink(<< "b" >>)]
Throwing(setsError) ==
           [a |-> [Function(<< >>) EXCEPT !.throws = {1}],
            b |-> [Process(<< "a" >>, 1) EXCEPT !.setsError = setsError], c |-> Sink(<< "b" >>)]
Generated == [a |-> Source(2), b |-> Sink(<< "a" >>)]
MoveOnly == [a |-> [Function(<< >>) EXCEPT !.moveOnly = TRUE],
             b |-> [Sink(<< "a" >>) EXCEPT !.drops = TRUE], c |-> Sink(<< "a" >>)]
Handles == [a |-> [Function(<< >>) EXCEPT !.copies = 2],
            b |-> [Sink(<< "a" >>) EXCEPT !.copies = 2, !.drops = TRUE]]

\* A process of two steps whose downstream has a buffer of two.
Buffered == [buffered |-> [a |-> Function(<< >>), b |-> [Sink(<< "a" >>) EXCEPT !.buffer = 2]]]
Fails == [a |-> [Function(<< >>) EXCEPT !.throws = {1}], b |-> Sink(<< "a" >>)]
Flush == [a |-> Channel1, b |-> [Process(<< "a" >>, 2) EXCEPT !.closes = TRUE], c |-> Sink(<< "b" >>)]
Dropped == [a |-> Function(<< >>), b |-> Sink(<< "a" >>), c |-> [Sink(<< "a" >>) EXCEPT !.drops = TRUE]]

Pipelines ==
    [chain |-> Chain, split |-> Split, expired |-> Expired, delayed |-> Delayed,
     keeps |-> Throwing(TRUE), closes |-> Throwing(FALSE), generated |-> Generated,
     moveOnly |-> MoveOnly, handles |-> Handles,
     fails |-> Fails, flush |-> Flush, dropped |-> Dropped]

Merges ==
    [zip_with    |-> [a |-> Channel1, b |-> Channel1, c |-> Merge("zip_with")],
     round_robin |-> [a |-> Source(2), b |-> Channel1, c |-> Merge("round_robin")],
     unordered   |-> [a |-> Source(2), b |-> Channel1, c |-> Merge("unordered")]]

Timed == [timed |-> [a |-> Function(<< >>),
                     b |-> [Process(<< "a" >>, 2) EXCEPT !.wait = "timed"], c |-> Sink(<< "b" >>)]]

Everything == Pipelines @@ Merges

Drained == [split |-> Split, delayed |-> Delayed, flush |-> Flush] @@ Timed

=============================================================================
