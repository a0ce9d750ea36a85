----------------------------- MODULE MCEventLoop -----------------------------
(* Instances of EventLoop: one target with services, and one without.      *)
EXTENDS EventLoop

CONSTANTS c1, c2

TwoClients == {c1, c2}
OneClient == {c1}
MCTargets == {"multi", "rescue"}
MCAvailable == {"rescue"}
Requests == {"PING", "STATUS", "RELOAD", "ISOLATE", "LAUNCH"}
ReloadOnly == {"RELOAD"}
Never == {FALSE}
Sometimes == {TRUE, FALSE}
=============================================================================
