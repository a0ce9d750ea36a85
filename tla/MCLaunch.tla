------------------------------ MODULE MCLaunch ------------------------------
(* A service that is started twice, or beside a timer's run or an app,     *)
(* with every mixture of sandbox options, with identities that are given   *)
(* as numbers, found, found with a line that does not parse, or not found, *)
(* and with memory limits below, at and beyond the width of the integer.   *)
EXTENDS Launch

Number(n) == [num |-> {n}, name |-> "-"]
Name(s) == [num |-> {}, name |-> s]
Line(s, id) == [name |-> s, id |-> id]

MCPasswd == {<<Line("root", {0}), Line("web", {7}), Line("web", {8}), Line("odd", {})>>}
MCGroup == {<<Line("root", {0}), Line("www", {5})>>}

Plain == [critical |-> FALSE, private_tmp |-> FALSE, protect_system |-> FALSE,
          no_new_privileges |-> FALSE, workdir |-> FALSE, user |-> {}, group |-> {}, mem |-> {}]

Sandboxes == {[Plain EXCEPT !.private_tmp = a, !.protect_system = b, !.no_new_privileges = c] :
                a, b, c \in BOOLEAN}
Identities == {<<{}, {}>>, <<{}, {Name("www")}>>, <<{Name("web")}, {}>>, <<{Number(9)}, {Name("www")}>>,
               <<{Name("odd")}, {Name("ghost")}>>}

MCDefs ==
    {[d EXCEPT !.user = i[1], !.group = i[2]] : d \in Sandboxes, i \in Identities}
    \cup {[Plain EXCEPT !.critical = TRUE, !.workdir = TRUE]}
    \cup {[Plain EXCEPT !.mem = {[num |-> n, mult |-> 4]}] : n \in {{}, {1}, {3}, {4}}}

MCBlocked == <<101, 103, 154, 155, 161, 163, 164, 165, 166, 167, 168, 169, 170, 171, 172, 173,
               175, 176, 179, 246, 248, 249, 250, 298, 313, 320, 321>>
MCSyscalls == 0 .. 330
=============================================================================
