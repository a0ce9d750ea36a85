------------------------------- MODULE MCBoot -------------------------------
(* Boot of up to three services, with every way to relate them by two keys *)
(* of any kind, every way by three after=/requires= keys, and a repeated   *)
(* name.                                                                   *)
EXTENDS Boot

MCShell == "shell"
MCNames == {"shell", "web", "db", "absent"}

\* One dependency key of the unit file: service from names service to.
Edge(kinds, froms, tos) ==
    {e \in [kind : kinds, from : froms, to : tos] : e.from # e.to \/ e.kind = "after"}
Kinds == {"after", "before", "requires", "wants", "after_ready"}

Def(n, edges) ==
    LET keys(k) == {e.to : e \in {e \in edges : e.from = n /\ e.kind = k}}
    IN  [name |-> n, critical |-> (n = "shell"), after |-> keys("after"),
         before |-> keys("before"), requires |-> keys("requires"),
         wants |-> keys("wants"), after_ready |-> keys("after_ready")]

Listed(order, edges) == [i \in DOMAIN order |-> Def(order[i], edges)]

All == {"web", "shell", "db"}

\* At most two keys of any kind; three ordering keys among the configured
\* services, for the longer chains and cycles; one key and a repeated name.
UpToTwo == LET E == Edge(Kinds, {"web", "db"}, MCNames) IN {{d, e} : d, e \in E} \cup {{}}
Three == LET E == Edge({"after", "requires"}, All, All) IN {{c, d, e} : c, d, e \in E}
One == {{e} : e \in Edge(Kinds, {"web", "db"}, {"web", "db"})}

MCConfigs ==
    {Listed(<<"web", "shell", "db">>, es) : es \in UpToTwo \cup Three}
    \cup {Listed(<<"web", "db", "web">>, es) : es \in One}
=============================================================================
