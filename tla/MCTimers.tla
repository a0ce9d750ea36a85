------------------------------ MODULE MCTimers ------------------------------
(* Instances of Timers: a repeating timer and one that fires once, which   *)
(* reloads add, remove and change.                                         *)
EXTENDS Timers

T(n, b, a) == [name |-> n, on_boot |-> b, on_active |-> a]

MCNames == {"rotate", "setup"}
Once == T("setup", {1}, {})
Every == T("rotate", {}, {1})
Both == T("setup", {0}, {2})
MCTimerSets == {{}, {Once}, {Once, Every}, {Every, Both}}
MCServices == {{"rotate", "setup"}, {"rotate"}}
=============================================================================
