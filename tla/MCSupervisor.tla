---------------------------- MODULE MCSupervisor ----------------------------
(* Instances of Supervisor.                                                *)
EXTENDS Supervisor, TLC

D(n, crit, policy, dog, r) ==
    [name |-> n, critical |-> crit, restart |-> policy, watchdog |-> dog, rev |-> r]

Web1 == D("web", FALSE, "always", {}, 1)
Web2 == D("web", FALSE, "on_failure", {}, 2)
Dog  == D("dog", FALSE, "always", {1}, 1)
Core == D("core", TRUE, "never", {}, 1)
Sh2 == D("shell", TRUE, "never", {}, 2)

MCNames == {"shell", "web", "dog", "core"}
MCShell == "shell"
MCDefs  == {Web1, Web2, Dog, Core, Sh2, fallback_shell}
PidSymmetry == Permutations(Pids)

\* One service that keeps dying, over several windows.
WebOnly == {Web1}
\* A watched service beside a critical one.
DogAndCore == {Dog, Core}
\* A reload that changes a service and drops another, one that brings in a
\* service named like the rescue shell, one that changes nothing, one that
\* stops everything.
WebAndCore == {Web1, Core}
NoReloads == {}
SomeReloads == {<<Web1, Core>>, <<Web2>>, <<Sh2, Core, Web1>>, <<>>}
=============================================================================
