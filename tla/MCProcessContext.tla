-------------------------- MODULE MCProcessContext --------------------------
(* Model-checking instance of ProcessContext: the main thread's            *)
(* environment, and optionally a worker thread's.                          *)
EXTENDS ProcessContext

CONSTANTS e1, e2

MainOnly == {e1}
MainAndWorker == {e1, e2}

\* AWS_CRT_MEMORY_TRACING absent, below, inside and above [0, 2].
AllTraceLevels == {Unset, -1, 0, 1, 2, 3}
=============================================================================
