------------------------------ MODULE MCReload ------------------------------
(* Instances of Reload: an init.conf that can be read in four forms and    *)
(* one that cannot, two forms of services.d, two targets.                  *)
EXTENDS Reload

F(n, good, path, target, crit, word) ==
    [name |-> n, good |-> good, path |-> path, target |-> target, critical |-> crit, restart |-> word]

MCNames == {"web", "core", "shell"}
MCTargets == {"multi-user", "rescue"}

Web(path, target) == ServiceLine(F("web", TRUE, {path}, target, FALSE, {}))
Core(path) == ServiceLine(F("core", TRUE, {path}, {}, TRUE, {"never"}))

\* Two services; one changed, with settings, of which the last that parses
\* counts; the critical one changed and the other moved elsewhere, beside a bad
\* line; no service at all.
A == <<Web(2, {}), Core(2)>>
B == <<Setting("hostname", {"one"}), Setting("loglevel", {"debug"}), Web(3, {}), Core(2),
       Setting("loglevel", {}), Setting("hostname", {"two"})>>
C == <<Core(3), Web(3, {"rescue"}), ServiceLine(F("web", FALSE, {2}, {}, FALSE, {}))>>
E == <<Setting("default_target", {"multi-user"}), ServiceLine(F("core", TRUE, {}, {}, TRUE, {}))>>
MCInits == {{A}, {B}, {C}, {E}, {}}

\* No unit file that parses; one for a service that init.conf may define too.
MCUnitDirs == {<<F("core", FALSE, {2}, {}, TRUE, {}), F("web", TRUE, {}, {}, FALSE, {})>>,
               <<F("web", TRUE, {4}, {}, FALSE, {"on-failure"})>>}

T(n, boot) == [name |-> n, good |-> TRUE, on_boot |-> boot, on_active |-> {}]
MCTimerDirs == {{T("web", {1}), T("odd", {})}}
=============================================================================
