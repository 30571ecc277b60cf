--------------------------- MODULE MCScenarioRunner ---------------------------
(* ScenarioRunner for TLC: no step; two adjacent steps on one register, the *)
(* later one listed first, in parallel with one on another register; and    *)
(* two steps that overlap on a register, which are refused.                 *)
EXTENDS ScenarioRunner

CONSTANTS a, b

MCRegisters == {a, b}

At(g, from, for) == [reg |-> g, trigger |-> from, duration |-> for]

MCScenarios == {<<>>,
                <<At(a, 1, 1), At(a, 0, 1), At(b, 1, 2)>>,
                <<At(a, 0, 2), At(a, 1, 1)>>}
=============================================================================
