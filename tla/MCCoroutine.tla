---------------------------- MODULE MCCoroutine ----------------------------
EXTENDS Coroutine

CONSTANTS outer, inner

\* outer may await inner.
MCInputs == [c \in Coroutines |-> IF c = outer THEN {inner} ELSE {}]
MCMaxAwaits == [c \in Coroutines |-> IF c = outer THEN 2 ELSE 1]
=============================================================================
