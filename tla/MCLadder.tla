------------------------------ MODULE MCLadder ------------------------------
(***************************************************************************)
(* The ladders TLC checks Ladder on.                                       *)
(***************************************************************************)
EXTENDS Ladder

Cell(a, size) == [arm |-> a, n |-> size]

MCLadders == {
    \* Two per-instance arms and the shared one, with a rung that shrinks.
    <<Cell("a2-cr-noleader", 2), Cell("a3-cr-shared", 2), Cell("a2-cr-noleader", 1)>>,
    \* Arm B after a controller-runtime arm, then again at a smaller size.
    <<Cell("a3-cr-shared", 1), Cell("b-perseid", 2), Cell("b-perseid", 1)>>,
    \* The baseline of arm B, after a cell of its own and before a manager's.
    <<Cell("b-perseid", 1), Cell("b-perseid", 0), Cell("a1-cr-leader", 1)>>,
    \* The baseline of the fused arm, whose program is created all the same.
    <<Cell("b-perseid", 1), Cell("b2-perseid-fused", 0)>>,
    \* The fused arm at two sizes, after arm B has left programs of its own.
    <<Cell("b-perseid", 1), Cell("b2-perseid-fused", 2), Cell("b2-perseid-fused", 1)>> }

\* The fused arm at two sizes, and nothing else.
FusedLadder == {<<Cell("b2-perseid-fused", 2), Cell("b2-perseid-fused", 1)>>}
=============================================================================
