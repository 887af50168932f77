----------------------------- MODULE MCRoutines -----------------------------
\* Two nodes, a list that names one of them twice, a stream with arguments, one
\* without, and one with an ODHEADER.
EXTENDS Routines

CONSTANTS n1, n2, plain, bare, headed

MCNodes == {n1, n2}
Routine(once, connect, disabled, timed, targets, stream) ==
  [once |-> once, connect |-> connect, disabled |-> disabled, timed |-> timed,
   targets |-> targets, stream |-> stream]

Once(nodes) == [n \in MCNodes |-> IF n \in nodes THEN 1 ELSE 0]
MCInputs ==
  {Routine(TRUE, FALSE, FALSE, TRUE, [Once({n1, n2}) EXCEPT ![n1] = 2], plain),
   Routine(TRUE, TRUE, FALSE, FALSE, Once({n1, n2}), plain),
   Routine(FALSE, TRUE, FALSE, TRUE, Once({n1}), bare),
   Routine(TRUE, TRUE, FALSE, TRUE, Once({n2}), headed),
   Routine(TRUE, TRUE, TRUE, TRUE, Once({}), plain)}
=============================================================================
