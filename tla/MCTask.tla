------------------------------- MODULE MCTask -------------------------------
(***************************************************************************)
(* Task a selects over two operations and then awaits task b; task b       *)
(* awaits one of the operations too.                                       *)
(***************************************************************************)
EXTENDS Task, TLC
CONSTANTS a, b, x, y, w1, w2

MCAwaits == (a :> <<{x, y}, {b}>>) @@ (b :> <<{y}>>)
=============================================================================
