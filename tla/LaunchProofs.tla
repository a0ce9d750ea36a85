---------------------------- MODULE LaunchProofs ----------------------------
(***************************************************************************)
(* Theorems about starting processes, for every set of definitions, every  *)
(* user database, any memory limits and any number of launches: no program *)
(* starts with less isolation or another identity than it was to have, no  *)
(* call of a child lacks its privilege, the memory limit is in force, the  *)
(* main thread takes the signals, and the seccomp filter blocks exactly    *)
(* its list.                                                               *)
(***************************************************************************)
EXTENDS Launch, WellFoundedInduction, TLAPS

Calls == {"setgid", "setgroups", "setuid", "chdir", "unshare mnt", "unshare all",
          "make private", "mount tmpfs", "protect_system", "no_new_privs",
          "drop capabilities", "seccomp"}

-----------------------------------------------------------------------------
(* Sequences of calls.                                                     *)

\* Moving an index past a first part of a sequence, and back.
LEMMA Shift ==
    \A i, j, n \in Nat : /\ i <= n /\ j > n => i < j
                         /\ i < j - n <=> i + n < j
                         /\ i < j + 1 <=> i - 1 < j
OBVIOUS

\* u is s followed by t, index by index.
Joined(s, t, u) ==
    /\ DOMAIN s = 1 .. Len(s) /\ DOMAIN t = 1 .. Len(t) /\ Len(s) \in Nat /\ Len(t) \in Nat
    /\ \A i \in DOMAIN s : i \in Nat /\ i <= Len(s) /\ i \in DOMAIN u /\ u[i] = s[i]
    /\ \A i \in DOMAIN t : i \in Nat /\ i + Len(s) \in DOMAIN u /\ u[i + Len(s)] = t[i]
    /\ \A i \in DOMAIN u :
          \/ i \in DOMAIN s
          \/ i \in Nat /\ i > Len(s) /\ i - Len(s) \in DOMAIN t /\ u[i] = t[i - Len(s)]

LEMMA ConcatJoined ==
    ASSUME NEW s \in Seq(Calls), NEW t \in Seq(Calls)
    PROVE  s \o t \in Seq(Calls) /\ Joined(s, t, s \o t)
BY DEF Joined

LEMMA JoinedSet ==
    ASSUME NEW s, NEW t, NEW u, Joined(s, t, u)
    PROVE  ToSet(u) = ToSet(s) \cup ToSet(t)
<1>1. ToSet(s) \subseteq ToSet(u) BY DEF Joined, ToSet
<1>2. ASSUME NEW i \in DOMAIN t PROVE t[i] \in ToSet(u)
    <2>1. i + Len(s) \in DOMAIN u /\ u[i + Len(s)] = t[i] BY DEF Joined
    <2> QED BY <2>1 DEF ToSet
<1>3. ToSet(u) \subseteq ToSet(s) \cup ToSet(t) BY DEF Joined, ToSet
<1> QED BY <1>1, <1>2, <1>3 DEF ToSet

LEMMA TailIndices ==
    ASSUME NEW s \in Seq(Calls), s # << >>
    PROVE  /\ Head(s) = s[1] /\ Head(s) \in Calls /\ Tail(s) \in Seq(Calls)
           /\ 1 \in DOMAIN s
           /\ \A i \in DOMAIN Tail(s) : i \in Nat /\ i + 1 \in DOMAIN s /\ Tail(s)[i] = s[i + 1]
           /\ \A i \in DOMAIN s : i \in Nat /\ 1 <= i
           /\ \A i \in DOMAIN s : i = 1 \/ (i - 1 \in DOMAIN Tail(s) /\ Tail(s)[i - 1] = s[i])
OBVIOUS

LEMMA TailSet ==
    ASSUME NEW s \in Seq(Calls), s # << >>
    PROVE  ToSet(s) = {Head(s)} \cup ToSet(Tail(s))
<1>1. ToSet(Tail(s)) \subseteq ToSet(s) BY TailIndices DEF ToSet
<1>2. ASSUME NEW i \in DOMAIN s, i # 1 PROVE s[i] \in ToSet(Tail(s))
    <2>1. i - 1 \in DOMAIN Tail(s) /\ Tail(s)[i - 1] = s[i] BY <1>2, TailIndices
    <2> QED BY <2>1 DEF ToSet
<1>3. Head(s) \in ToSet(s) BY TailIndices DEF ToSet
<1> QED BY <1>1, <1>2, <1>3, TailIndices DEF ToSet

\* After setuid nothing needs root; nothing is mounted before the tree is private.
DropsLast(s) == \A i, j \in DOMAIN s : i < j /\ s[i] = "setuid" => s[j] \notin NeedsRoot
PrivateFirst(s) ==
    \A j \in DOMAIN s : s[j] \in Mounts => \E i \in DOMAIN s : i < j /\ s[i] = "make private"

LEMMA JoinedDropsLast ==
    ASSUME NEW s, NEW t, NEW u, Joined(s, t, u), DropsLast(s), DropsLast(t),
           "setuid" \notin ToSet(s) \/ ToSet(t) \cap NeedsRoot = {}
    PROVE  DropsLast(u)
<1> SUFFICES ASSUME NEW i \in DOMAIN u, NEW j \in DOMAIN u, i < j,
                    u[i] = "setuid", u[j] \in NeedsRoot
             PROVE  FALSE
    BY DEF DropsLast
<1>1. CASE j \in DOMAIN s
    <2>1. i \in DOMAIN s
        <3>1. j <= Len(s) /\ j \in Nat /\ Len(s) \in Nat BY <1>1 DEF Joined
        <3>2. i \in DOMAIN s \/ (i \in Nat /\ i > Len(s)) BY DEF Joined
        <3> QED BY <3>1, <3>2
    <2>2. s[i] = "setuid" /\ s[j] \in NeedsRoot BY <1>1, <2>1 DEF Joined
    <2> QED BY <1>1, <2>1, <2>2 DEF DropsLast
<1>2. CASE j \notin DOMAIN s
    <2>1. j - Len(s) \in DOMAIN t /\ t[j - Len(s)] \in NeedsRoot BY <1>2 DEF Joined
    <2>2. ToSet(t) \cap NeedsRoot # {} BY <2>1 DEF ToSet
    <2>3. i \notin DOMAIN s BY <2>2 DEF Joined, ToSet
    <2>4. i - Len(s) \in DOMAIN t /\ t[i - Len(s)] = "setuid" BY <2>3 DEF Joined
    <2>5. i - Len(s) < j - Len(s) BY <1>2, <2>3 DEF Joined
    <2> QED BY <2>1, <2>4, <2>5 DEF DropsLast
<1> QED BY <1>1, <1>2

LEMMA JoinedPrivateFirst ==
    ASSUME NEW s, NEW t, NEW u, Joined(s, t, u), PrivateFirst(s),
           PrivateFirst(t) \/ "make private" \in ToSet(s)
    PROVE  PrivateFirst(u)
<1> SUFFICES ASSUME NEW j \in DOMAIN u, u[j] \in Mounts
             PROVE  \E i \in DOMAIN u : i < j /\ u[i] = "make private"
    BY DEF PrivateFirst
<1>1. CASE j \in DOMAIN s BY <1>1 DEF Joined, PrivateFirst
<1>2. CASE j \notin DOMAIN s
    <2>1. j \in Nat /\ j > Len(s) /\ j - Len(s) \in DOMAIN t /\ t[j - Len(s)] \in Mounts
        BY <1>2 DEF Joined
    <2>2. CASE "make private" \in ToSet(s)
        <3>1. PICK i \in DOMAIN s : s[i] = "make private" BY <2>2 DEF ToSet
        <3>2. i \in DOMAIN u /\ u[i] = "make private" BY <3>1 DEF Joined
        <3>3. i < j BY <2>1, Shift DEF Joined
        <3> QED BY <3>2, <3>3
    <2>3. CASE PrivateFirst(t)
        <3>1. PICK i \in DOMAIN t : i < j - Len(s) /\ t[i] = "make private"
            BY <2>1, <2>3 DEF PrivateFirst
        <3>2. i + Len(s) \in DOMAIN u /\ u[i + Len(s)] = t[i] BY DEF Joined
        <3>3. i + Len(s) < j BY <2>1, <3>1, Shift DEF Joined
        <3> QED BY <3>1, <3>2, <3>3
    <2> QED BY <2>2, <2>3
<1> QED BY <1>1, <1>2

LEMMA TailDropsLast ==
    ASSUME NEW s \in Seq(Calls), s # << >>, DropsLast(s)
    PROVE  /\ DropsLast(Tail(s))
           /\ Head(s) = "setuid" => ToSet(Tail(s)) \cap NeedsRoot = {}
<1>1. DropsLast(Tail(s))
    <2> SUFFICES ASSUME NEW i \in DOMAIN Tail(s), NEW j \in DOMAIN Tail(s), i < j,
                        Tail(s)[i] = "setuid"
                 PROVE  Tail(s)[j] \notin NeedsRoot
        BY DEF DropsLast
    <2>1. /\ i + 1 \in DOMAIN s /\ j + 1 \in DOMAIN s /\ i + 1 < j + 1
          /\ Tail(s)[i] = s[i + 1] /\ Tail(s)[j] = s[j + 1]
        BY TailIndices
    <2> QED BY <2>1 DEF DropsLast
<1>2. ASSUME Head(s) = "setuid", NEW j \in DOMAIN Tail(s) PROVE Tail(s)[j] \notin NeedsRoot
    <2>1. /\ 1 \in DOMAIN s /\ j + 1 \in DOMAIN s /\ 1 < j + 1 /\ s[1] = "setuid"
          /\ Tail(s)[j] = s[j + 1]
        BY <1>2, TailIndices
    <2> QED BY <2>1 DEF DropsLast
<1> QED BY <1>1, <1>2 DEF ToSet

LEMMA TailPrivateFirst ==
    ASSUME NEW s \in Seq(Calls), s # << >>, PrivateFirst(s)
    PROVE  Head(s) \notin Mounts /\ (Head(s) = "make private" \/ PrivateFirst(Tail(s)))
<1>1. Head(s) \notin Mounts
    <2>1. \A i \in DOMAIN s : ~(i < 1) BY TailIndices
    <2> QED BY <2>1, TailIndices DEF PrivateFirst
<1>2. ASSUME Head(s) # "make private", NEW j \in DOMAIN Tail(s), Tail(s)[j] \in Mounts
      PROVE  \E i \in DOMAIN Tail(s) : i < j /\ Tail(s)[i] = "make private"
    <2>1. j + 1 \in DOMAIN s /\ s[j + 1] \in Mounts /\ j \in Nat BY <1>2, TailIndices
    <2>2. PICK i \in DOMAIN s : i < j + 1 /\ s[i] = "make private" BY <2>1 DEF PrivateFirst
    <2>3. i # 1 /\ i \in Nat BY <1>2, <2>2, TailIndices
    <2>4. i - 1 \in DOMAIN Tail(s) /\ Tail(s)[i - 1] = "make private" BY <2>2, <2>3, TailIndices
    <2>5. i - 1 < j BY <2>1, <2>2, <2>3, Shift
    <2> QED BY <2>4, <2>5
<1> QED BY <1>1, <1>2 DEF PrivateFirst

-----------------------------------------------------------------------------
(* The calls that a definition asks for, in order.                         *)

LEMMA One ==
    ASSUME NEW a \in Calls
    PROVE  <<a>> \in Seq(Calls) /\ ToSet(<<a>>) = {a} /\ DropsLast(<<a>>)
BY DEF ToSet, DropsLast

LEMMA Two ==
    ASSUME NEW a \in Calls, NEW b \in Calls
    PROVE  /\ <<a, b>> \in Seq(Calls) /\ ToSet(<<a, b>>) = {a, b}
           /\ a # "setuid" => DropsLast(<<a, b>>)
<1>1. <<a, b>> \in Seq(Calls) /\ DOMAIN <<a, b>> = {1, 2} OBVIOUS
<1> QED BY <1>1 DEF ToSet, DropsLast

LEMMA Conditional ==
    ASSUME NEW c \in BOOLEAN, NEW s \in Seq(Calls), DropsLast(s)
    PROVE  /\ If(c, s) \in Seq(Calls) /\ DropsLast(If(c, s))
           /\ c => ToSet(If(c, s)) = ToSet(s)
           /\ ~c => ToSet(If(c, s)) = {}
BY DEF If, DropsLast, ToSet

LEMMA NoMounts == ASSUME NEW s, ToSet(s) \cap Mounts = {} PROVE PrivateFirst(s)
BY DEF PrivateFirst, ToSet

Ordered(s) == s \in Seq(Calls) /\ DropsLast(s) /\ PrivateFirst(s)

LEMMA Concat ==
    ASSUME NEW s, NEW t \in Seq(Calls), Ordered(s), DropsLast(t),
           "setuid" \notin ToSet(s) \/ ToSet(t) \cap NeedsRoot = {},
           PrivateFirst(t) \/ "make private" \in ToSet(s)
    PROVE  Ordered(s \o t) /\ ToSet(s \o t) = ToSet(s) \cup ToSet(t)
<1>1. s \o t \in Seq(Calls) /\ Joined(s, t, s \o t) BY ConcatJoined DEF Ordered
<1>2. ToSet(s \o t) = ToSet(s) \cup ToSet(t) BY <1>1, JoinedSet
<1>3. DropsLast(s \o t) BY <1>1, JoinedDropsLast DEF Ordered
<1>4. PrivateFirst(s \o t) BY <1>1, JoinedPrivateFirst DEF Ordered
<1> QED BY <1>1, <1>2, <1>3, <1>4 DEF Ordered

\* Whatever the identity and the working directory, if what runs in pre_exec is
\* in order and Command does not drop privileges before it.
LEMMA CommandPlan ==
    ASSUME NEW uid, NEW gid, NEW workdir \in BOOLEAN, NEW pre, Ordered(pre),
           uid = {} \/ ToSet(pre) = {}
    PROVE  /\ Ordered(CommandSteps(uid, gid, workdir, pre))
           /\ ToSet(pre) \subseteq ToSet(CommandSteps(uid, gid, workdir, pre))
           /\ ToSet(CommandSteps(uid, gid, workdir, pre))
                \subseteq ToSet(pre) \cup {"setgid", "setgroups", "setuid", "chdir"}
           /\ gid # {} => "setgid" \in ToSet(CommandSteps(uid, gid, workdir, pre))
           /\ uid # {} => {"setgroups", "setuid"} \subseteq ToSet(CommandSteps(uid, gid, workdir, pre))
<1> DEFINE a == If(gid # {}, <<"setgid">>)
           b == If(uid # {}, <<"setgroups", "setuid">>)
           c == If(workdir, <<"chdir">>)
<1> USE DEF Calls, NeedsRoot, Mounts
<1>1. /\ a \in Seq(Calls) /\ DropsLast(a) /\ ToSet(a) \subseteq {"setgid"}
      /\ gid # {} => "setgid" \in ToSet(a)
    BY One, Conditional
<1>2. /\ b \in Seq(Calls) /\ DropsLast(b) /\ ToSet(b) \subseteq {"setgroups", "setuid"}
      /\ uid # {} => {"setgroups", "setuid"} \subseteq ToSet(b)
      /\ uid = {} => ToSet(b) = {}
    <2>1. /\ <<"setgroups", "setuid">> \in Seq(Calls) /\ DropsLast(<<"setgroups", "setuid">>)
          /\ ToSet(<<"setgroups", "setuid">>) = {"setgroups", "setuid"}
        BY Two
    <2> QED BY <2>1, Conditional
<1>3. c \in Seq(Calls) /\ DropsLast(c) /\ ToSet(c) \subseteq {"chdir"}
    BY One, Conditional
<1> HIDE DEF a, b, c
<1>4. Ordered(a) /\ PrivateFirst(b) /\ PrivateFirst(c)
    BY <1>1, <1>2, <1>3, NoMounts DEF Ordered
<1>5. Ordered(a \o b) /\ ToSet(a \o b) = ToSet(a) \cup ToSet(b)
    BY <1>1, <1>2, <1>4, Concat
<1>6. Ordered(a \o b \o c) /\ ToSet(a \o b \o c) = ToSet(a) \cup ToSet(b) \cup ToSet(c)
    <2>1. ToSet(c) \cap NeedsRoot = {} BY <1>3
    <2> QED BY <1>3, <1>4, <1>5, <2>1, Concat
<1>7. /\ Ordered(a \o b \o c \o pre)
      /\ ToSet(a \o b \o c \o pre) = ToSet(a) \cup ToSet(b) \cup ToSet(c) \cup ToSet(pre)
    <2>1. "setuid" \notin ToSet(a \o b \o c) \/ ToSet(pre) \cap NeedsRoot = {}
        BY <1>1, <1>2, <1>3, <1>6
    <2>2. pre \in Seq(Calls) /\ DropsLast(pre) /\ PrivateFirst(pre) BY DEF Ordered
    <2> QED BY <1>6, <2>1, <2>2, Concat
<1>8. CommandSteps(uid, gid, workdir, pre) = a \o b \o c \o pre
    BY DEF CommandSteps, a, b, c
<1> QED BY <1>1, <1>2, <1>3, <1>7, <1>8

\* ServiceSandbox::apply: every option has its call, and a mount has the private
\* tree before it.
LEMMA SandboxPlan ==
    ASSUME NEW def \in Defs
    PROVE  /\ Ordered(ServiceSandboxSteps(def))
           /\ ToSet(ServiceSandboxSteps(def))
                \subseteq {"unshare mnt", "make private", "mount tmpfs", "protect_system",
                           "no_new_privs"}
           /\ def.private_tmp => "mount tmpfs" \in ToSet(ServiceSandboxSteps(def))
           /\ def.protect_system =>
                {"unshare mnt", "protect_system"} \subseteq ToSet(ServiceSandboxSteps(def))
           /\ def.no_new_privileges => "no_new_privs" \in ToSet(ServiceSandboxSteps(def))
<1> DEFINE a == If(def.private_tmp \/ def.protect_system, <<"unshare mnt", "make private">>)
           b == If(def.private_tmp, <<"mount tmpfs">>)
           c == If(def.protect_system, <<"protect_system">>)
           d == If(def.no_new_privileges, <<"no_new_privs">>)
<1> USE DEF Calls, NeedsRoot, Mounts
<1>0. /\ def.private_tmp \in BOOLEAN /\ def.protect_system \in BOOLEAN
      /\ def.no_new_privileges \in BOOLEAN /\ (def.private_tmp \/ def.protect_system) \in BOOLEAN
    BY LaunchAssumption
<1>1. /\ a \in Seq(Calls) /\ DropsLast(a) /\ ToSet(a) \subseteq {"unshare mnt", "make private"}
      /\ def.private_tmp \/ def.protect_system => {"unshare mnt", "make private"} \subseteq ToSet(a)
    <2>1. /\ <<"unshare mnt", "make private">> \in Seq(Calls) /\ DropsLast(<<"unshare mnt", "make private">>)
          /\ ToSet(<<"unshare mnt", "make private">>) = {"unshare mnt", "make private"}
        BY Two
    <2> QED BY <1>0, <2>1, Conditional
<1>2. /\ b \in Seq(Calls) /\ DropsLast(b) /\ ToSet(b) \subseteq {"mount tmpfs"}
      /\ def.private_tmp => "mount tmpfs" \in ToSet(b)
      /\ ~def.private_tmp => ToSet(b) = {}
    BY <1>0, One, Conditional
<1>3. /\ c \in Seq(Calls) /\ DropsLast(c) /\ ToSet(c) \subseteq {"protect_system"}
      /\ def.protect_system => "protect_system" \in ToSet(c)
      /\ ~def.protect_system => ToSet(c) = {}
    BY <1>0, One, Conditional
<1>4. /\ d \in Seq(Calls) /\ DropsLast(d) /\ ToSet(d) \subseteq {"no_new_privs"}
      /\ def.no_new_privileges => "no_new_privs" \in ToSet(d)
    BY <1>0, One, Conditional
<1> HIDE DEF a, b, c, d
<1>5. Ordered(a) BY <1>1, NoMounts DEF Ordered
<1>6. Ordered(a \o b) /\ ToSet(a \o b) = ToSet(a) \cup ToSet(b)
    <2>1. PrivateFirst(b) \/ "make private" \in ToSet(a) BY <1>1, <1>2, NoMounts
    <2> QED BY <1>1, <1>2, <1>5, <2>1, Concat
<1>7. Ordered(a \o b \o c) /\ ToSet(a \o b \o c) = ToSet(a) \cup ToSet(b) \cup ToSet(c)
    <2>1. PrivateFirst(c) \/ "make private" \in ToSet(a \o b) BY <1>1, <1>3, <1>6, NoMounts
    <2>2. "setuid" \notin ToSet(a \o b) BY <1>1, <1>2, <1>6
    <2> QED BY <1>3, <1>6, <2>1, <2>2, Concat
<1>8. /\ Ordered(a \o b \o c \o d)
      /\ ToSet(a \o b \o c \o d) = ToSet(a) \cup ToSet(b) \cup ToSet(c) \cup ToSet(d)
    <2>1. PrivateFirst(d) BY <1>4, NoMounts
    <2>2. "setuid" \notin ToSet(a \o b \o c) BY <1>1, <1>2, <1>3, <1>7
    <2> QED BY <1>4, <1>7, <2>1, <2>2, Concat
<1>9. ServiceSandboxSteps(def) = a \o b \o c \o d BY DEF ServiceSandboxSteps, a, b, c, d
<1> QED BY <1>1, <1>2, <1>3, <1>4, <1>8, <1>9

\* What the calls of a service achieve.
Complete(def, calls) ==
    /\ def.private_tmp => "mount tmpfs" \in calls
    /\ def.protect_system => {"unshare mnt", "protect_system"} \subseteq calls
    /\ def.no_new_privileges => "no_new_privs" \in calls

Identifies(def, calls) ==
    /\ Uid(def) # {} => "setuid" \in calls
    /\ Gid(def) # {} => "setgid" \in calls

LEMMA ServicePlan ==
    ASSUME NEW def \in Defs
    PROVE  /\ Ordered(ServiceSteps(def))
           /\ Complete(def, ToSet(ServiceSteps(def)))
           /\ Identifies(def, ToSet(ServiceSteps(def)))
           /\ Uid(def) # {} /\ (is_empty(def) \/ Gid(def) # {})
                => "setgroups" \in ToSet(ServiceSteps(def))
<1> DEFINE box == ServiceSandboxSteps(def)
           g == If(Gid(def) # {}, <<"setgroups", "setgid">>)
           u == If(Uid(def) # {}, <<"setuid">>)
<1> USE DEF Calls, NeedsRoot, Mounts
<1>0. def.workdir \in BOOLEAN BY LaunchAssumption
<1>1. CASE is_empty(def)
    <2>1. << >> \in Seq(Calls) /\ Ordered(<< >>) /\ ToSet(<< >>) = {}
        BY DEF Ordered, DropsLast, PrivateFirst, ToSet
    <2>2. ServiceSteps(def) = CommandSteps(Uid(def), Gid(def), def.workdir, << >>)
        BY <1>1 DEF ServiceSteps
    <2>3. /\ Ordered(ServiceSteps(def)) /\ Identifies(def, ToSet(ServiceSteps(def)))
          /\ Uid(def) # {} => "setgroups" \in ToSet(ServiceSteps(def))
        BY <1>0, <2>1, <2>2, CommandPlan DEF Identifies
    <2> QED BY <1>1, <2>3 DEF is_empty, Complete
<1>2. CASE ~is_empty(def)
    <2>1. Ordered(box) /\ "setuid" \notin ToSet(box) /\ Complete(def, ToSet(box))
        BY SandboxPlan DEF Complete
    <2>2. /\ g \in Seq(Calls) /\ DropsLast(g) /\ ToSet(g) \subseteq {"setgroups", "setgid"}
          /\ Gid(def) # {} => {"setgroups", "setgid"} \subseteq ToSet(g)
        <3>1. /\ <<"setgroups", "setgid">> \in Seq(Calls) /\ DropsLast(<<"setgroups", "setgid">>)
              /\ ToSet(<<"setgroups", "setgid">>) = {"setgroups", "setgid"}
            BY Two
        <3> QED BY <3>1, Conditional
    <2>3. /\ u \in Seq(Calls) /\ DropsLast(u) /\ ToSet(u) \subseteq {"setuid"}
          /\ Uid(def) # {} => "setuid" \in ToSet(u)
        BY One, Conditional
    <2> HIDE DEF box, g, u
    <2>4. PrivateFirst(g) /\ PrivateFirst(u) BY <2>2, <2>3, NoMounts
    <2>5. Ordered(box \o g) /\ ToSet(box \o g) = ToSet(box) \cup ToSet(g)
        BY <2>1, <2>2, <2>4, Concat
    <2>6. /\ Ordered(box \o g \o u)
          /\ ToSet(box \o g \o u) = ToSet(box) \cup ToSet(g) \cup ToSet(u)
        <3>1. "setuid" \notin ToSet(box \o g) BY <2>1, <2>2, <2>5
        <3> QED BY <2>3, <2>4, <2>5, <3>1, Concat
    <2>7. ServiceSteps(def) = CommandSteps({}, {}, def.workdir, box \o g \o u)
        BY <1>2 DEF ServiceSteps, box, g, u
    <2>8. Ordered(ServiceSteps(def)) /\ ToSet(box \o g \o u) \subseteq ToSet(ServiceSteps(def))
        BY <1>0, <2>6, <2>7, CommandPlan
    <2>9. Complete(def, ToSet(ServiceSteps(def)))
        BY <2>1, <2>6, <2>8 DEF Complete
    <2> QED BY <1>2, <2>2, <2>3, <2>6, <2>8, <2>9 DEF Identifies
<1> QED BY <1>1, <1>2

LEMMA OneshotPlan ==
    ASSUME NEW def \in Defs
    PROVE  /\ Ordered(OneshotSteps(def))
           /\ Identifies(def, ToSet(OneshotSteps(def)))
           /\ Uid(def) # {} => "setgroups" \in ToSet(OneshotSteps(def))
<1>1. << >> \in Seq(Calls) /\ Ordered(<< >>) /\ ToSet(<< >>) = {}
    BY DEF Ordered, DropsLast, PrivateFirst, ToSet
<1>2. def.workdir \in BOOLEAN BY LaunchAssumption
<1> QED BY <1>1, <1>2, CommandPlan DEF OneshotSteps, Identifies

LEMMA AppPlan ==
    /\ Ordered(AppSteps)
    /\ ToSet(AppSteps) = {"unshare all", "make private", "mount tmpfs", "no_new_privs",
                          "drop capabilities", "seccomp"}
<1>1. AppSteps \in Seq(Calls) /\ DOMAIN AppSteps = {1, 2, 3, 4, 5, 6} BY DEF AppSteps, Calls
<1>2. /\ AppSteps[1] = "unshare all" /\ AppSteps[2] = "make private"
      /\ AppSteps[3] = "mount tmpfs" /\ AppSteps[4] = "no_new_privs"
      /\ AppSteps[5] = "drop capabilities" /\ AppSteps[6] = "seccomp"
    BY DEF AppSteps
<1> HIDE DEF AppSteps
<1>3. DropsLast(AppSteps) BY <1>1, <1>2 DEF DropsLast
<1>4. PrivateFirst(AppSteps)
    <2>1. \A j \in DOMAIN AppSteps : AppSteps[j] \in Mounts => j = 3 BY <1>1, <1>2 DEF Mounts
    <2>2. 2 \in DOMAIN AppSteps /\ 2 < 3 BY <1>1
    <2> QED BY <1>2, <2>1, <2>2 DEF PrivateFirst
<1>5. ToSet(AppSteps) = {"unshare all", "make private", "mount tmpfs", "no_new_privs",
                         "drop capabilities", "seccomp"}
    BY <1>1, <1>2 DEF ToSet
<1> QED BY <1>1, <1>3, <1>4, <1>5 DEF Ordered

-----------------------------------------------------------------------------
(* A process between its fork and its exec, and after it.                  *)

Owned == Defs \cup {AnyDef}
Ids == {Root} \cup {OrRoot(Uid(d)) : d \in Owned} \cup {OrRoot(Gid(d)) : d \in Owned}

Kinds == {"service", "oneshot", "app", "rescue"}
Stages == {"block", "spawn_listener", "spawn_monitor", "boot", "loop", "shutdown", "acked"}
Namespaces == SUBSET {"mnt", "uts", "ipc"}
Sockets == SUBSET [dir_mode : {700}, owner : Ids]
Attached == {"none", "unset", "fresh", "reused"}

Process ==
    [kind : Kinds, def : Owned, steps : Seq(Calls), uid : Ids, gid : Ids,
     groups : BOOLEAN, own : Namespaces, has : SUBSET Calls, sock : Sockets,
     cg : Attached]

(* What a process will have had done to it, by the calls it has made and   *)
(* those it has still to make; with none left, what was asked for.         *)

Sandboxed(p) ==
    LET left == ToSet(p.steps)
    IN  /\ p.kind = "app" =>
            /\ "unshare mnt" \notin left
            /\ p.own = {"mnt", "uts", "ipc"} \/ "unshare all" \in left
            /\ \A step \in {"mount tmpfs", "no_new_privs", "drop capabilities", "seccomp"} :
                  step \in p.has \cup left
        /\ p.kind = "service" =>
            /\ p.def.private_tmp => "mount tmpfs" \in p.has \cup left
            /\ p.def.protect_system => /\ "mnt" \in p.own \/ "unshare mnt" \in left
                                       /\ "protect_system" \in p.has \cup left
            /\ p.def.no_new_privileges => "no_new_privs" \in p.has \cup left

Identified(p) ==
    LET left == ToSet(p.steps)
    IN  p.kind \in {"service", "oneshot"} =>
            /\ p.uid = OrRoot(Uid(p.def)) \/ "setuid" \in left
            /\ p.gid = OrRoot(Gid(p.def)) \/ "setgid" \in left
            /\ p.groups => \/ "setgroups" \in left \/ Uid(p.def) = {}
                           \/ p.kind = "service" /\ ~is_empty(p.def) /\ Gid(p.def) = {}

\* Root until nothing needs it; no mount to come unless the tree is private by then.
Able(p) == DropsLast(p.steps) /\ (p.uid = Root \/ ToSet(p.steps) \cap NeedsRoot = {})
Discreet(p) == "make private" \in p.has \/ PrivateFirst(p.steps)

Sound(p) == p \in Process /\ Sandboxed(p) /\ Identified(p) /\ Able(p) /\ Discreet(p)

Threads == {"main", "ipc"}

(* What makes Isolated, PrivilegeSuffices and IdentityAsResolved inductive. *)
ProcessInv ==
    /\ main \in Stages
    /\ child \in [Threads -> SUBSET Process]
    /\ \A t \in Threads : \A p \in child[t] : Sound(p)
    /\ \A p \in running : Sound(p) /\ p.steps = << >>
    /\ leaked = FALSE

\* q is p after a call: the calls differ in the one field they set.
Recording == Calls \ {"setgid", "setuid", "setgroups", "unshare mnt", "unshare all", "chdir"}

Made(p, call, q) ==
    /\ q.kind = p.kind /\ q.def = p.def /\ q.cg = p.cg
    /\ q.uid = (IF call = "setuid" THEN OrRoot(Uid(p.def)) ELSE p.uid)
    /\ q.gid = (IF call = "setgid" THEN OrRoot(Gid(p.def)) ELSE p.gid)
    /\ q.groups = (IF call = "setgroups" THEN FALSE ELSE p.groups)
    /\ q.own = (IF call = "unshare mnt" THEN {"mnt"}
                ELSE IF call = "unshare all" THEN {"mnt", "uts", "ipc"} ELSE p.own)
    /\ q.has = (IF call \in Recording THEN p.has \cup {call} ELSE p.has)

LEMMA AfterFields ==
    ASSUME NEW p \in Process, NEW call \in Calls
    PROVE  /\ After(p, call) \in Process /\ After(p, call).steps = p.steps
           /\ Made(p, call, After(p, call))
<1> DEFINE q == After(p, call)
<1>1. OrRoot(Uid(p.def)) \in Ids /\ OrRoot(Gid(p.def)) \in Ids BY DEF Process, Ids
<1>2. {"mnt"} \in Namespaces /\ {"mnt", "uts", "ipc"} \in Namespaces BY DEF Namespaces
<1>3. CASE call = "setgid"
    <2>1. q = [p EXCEPT !.gid = OrRoot(Gid(p.def))] BY <1>3 DEF After
    <2> HIDE DEF q
    <2>2. call \notin Recording BY <1>3 DEF Recording
    <2> QED BY <1>1, <1>3, <2>1, <2>2 DEF Process, Made, q
<1>4. CASE call = "setuid"
    <2>1. q = [p EXCEPT !.uid = OrRoot(Uid(p.def))] BY <1>4 DEF After
    <2>2. call \notin Recording BY <1>4 DEF Recording
    <2> QED BY <1>1, <1>4, <2>1, <2>2 DEF Process, Made
<1>5. CASE call = "setgroups"
    <2>1. q = [p EXCEPT !.groups = FALSE] BY <1>5 DEF After
    <2>2. call \notin Recording BY <1>5 DEF Recording
    <2> QED BY <1>5, <2>1, <2>2 DEF Process, Made
<1>6. CASE call = "unshare mnt"
    <2>1. q = [p EXCEPT !.own = {"mnt"}] BY <1>6 DEF After
    <2>2. call \notin Recording BY <1>6 DEF Recording
    <2> QED BY <1>2, <1>6, <2>1, <2>2 DEF Process, Made
<1>7. CASE call = "unshare all"
    <2>1. q = [p EXCEPT !.own = {"mnt", "uts", "ipc"}] BY <1>7 DEF After
    <2>2. call \notin Recording BY <1>7 DEF Recording
    <2> QED BY <1>2, <1>7, <2>1, <2>2 DEF Process, Made
<1>8. CASE call = "chdir"
    <2>1. q = p BY <1>8 DEF After
    <2>2. call \notin Recording BY <1>8 DEF Recording
    <2> QED BY <1>8, <2>1, <2>2 DEF Process, Made
<1>9. CASE call \in Recording
    <2>1. q = [p EXCEPT !.has = @ \cup {call}] BY <1>9 DEF After, Recording
    <2>2. call \notin {"setgid", "setuid", "setgroups", "unshare mnt", "unshare all"}
        BY <1>9 DEF Recording
    <2> QED BY <1>9, <2>1, <2>2 DEF Process, Made
<1> QED BY <1>3, <1>4, <1>5, <1>6, <1>7, <1>8, <1>9 DEF Recording

\* Removing the call from the list touches nothing else.
LEMMA StepsField ==
    ASSUME NEW a \in Process, NEW rest \in Seq(Calls), NEW p, NEW call, Made(p, call, a)
    PROVE  LET q == [a EXCEPT !.steps = rest]
           IN  q \in Process /\ q.steps = rest /\ Made(p, call, q)
<1> DEFINE q == [a EXCEPT !.steps = rest]
<1>1. /\ q \in Process /\ q.steps = rest /\ q.kind = a.kind /\ q.def = a.def
      /\ q.cg = a.cg
      /\ q.uid = a.uid /\ q.gid = a.gid /\ q.groups = a.groups /\ q.own = a.own
      /\ q.has = a.has
    BY DEF Process
<1> HIDE DEF q
<1>2. Made(p, call, q) BY <1>1 DEF Made
<1> QED BY <1>1, <1>2 DEF q

\* A call that succeeds keeps a process sound and mounts nothing in the open.
LEMMA CallSound ==
    ASSUME NEW p, Sound(p), p.steps # << >>
    PROVE  /\ Sound([After(p, Head(p.steps)) EXCEPT !.steps = Tail(@)])
           /\ Made(p, Head(p.steps), [After(p, Head(p.steps)) EXCEPT !.steps = Tail(@)])
           /\ ~(Head(p.steps) \in Mounts /\ "make private" \notin p.has)
<1> DEFINE call == Head(p.steps)
           a == After(p, call)
           q == [a EXCEPT !.steps = Tail(@)]
<1>1. p \in Process /\ p.steps \in Seq(Calls) BY DEF Sound, Process
<1>2. /\ call \in Calls /\ Tail(p.steps) \in Seq(Calls)
      /\ ToSet(p.steps) = {call} \cup ToSet(Tail(p.steps))
    BY <1>1, TailIndices, TailSet
<1> HIDE DEF call
<1>3. q \in Process /\ q.steps = Tail(p.steps) /\ Made(p, call, q)
    <2>1. a \in Process /\ a.steps = p.steps /\ Made(p, call, a) BY <1>1, <1>2, AfterFields
    <2> HIDE DEF a
    <2>2. q = [a EXCEPT !.steps = Tail(p.steps)] BY <2>1
    <2> QED BY <1>2, <2>1, <2>2, StepsField
<1> HIDE DEF q
<1>4. Sandboxed(q) BY <1>2, <1>3 DEF Sound, Sandboxed, Made, Recording
<1>5. Identified(q) BY <1>2, <1>3 DEF Sound, Identified, Made
<1>6. Able(q)
    <2>1. DropsLast(q.steps) /\ (call = "setuid" => ToSet(q.steps) \cap NeedsRoot = {})
        BY <1>1, <1>3, TailDropsLast DEF Sound, Able, call
    <2> QED BY <1>2, <1>3, <2>1 DEF Sound, Able, Made
<1>7. Discreet(q) /\ ~(call \in Mounts /\ "make private" \notin p.has)
    <2>1. CASE "make private" \in p.has BY <1>3, <2>1 DEF Discreet, Made
    <2>2. CASE PrivateFirst(p.steps)
        <3>1. call \notin Mounts /\ (call = "make private" \/ PrivateFirst(q.steps))
            BY <1>1, <1>3, <2>2, TailPrivateFirst DEF call
        <3> QED BY <1>2, <1>3, <3>1 DEF Discreet, Made, Recording
    <2> QED BY <2>1, <2>2 DEF Sound, Discreet
<1> QED BY <1>3, <1>4, <1>5, <1>6, <1>7 DEF Sound, call, q

\* The calls are in order and do all that was asked for.
Fit(kind, def, steps) ==
    /\ Ordered(steps)
    /\ kind = "app" => ToSet(steps) = ToSet(AppSteps)
    /\ kind = "service" => Complete(def, ToSet(steps))
    /\ kind \in {"service", "oneshot"} =>
        /\ Identifies(def, ToSet(steps))
        /\ \/ "setgroups" \in ToSet(steps) \/ Uid(def) = {}
           \/ kind = "service" /\ ~is_empty(def) /\ Gid(def) = {}

\* A new process.
NewOf(kind, def, p) ==
    /\ Sound(p) /\ p.kind = kind /\ p.def = def /\ p.cg = "none"

LEMMA ForkSound ==
    ASSUME NEW kind \in Kinds, NEW def \in Owned, NEW steps,
           NEW sock \in Sockets, Fit(kind, def, steps)
    PROVE  NewOf(kind, def, Forked(kind, def, steps, sock))
<1> DEFINE p == Forked(kind, def, steps, sock)
<1>1. /\ p.kind = kind /\ p.def = def /\ p.steps = steps /\ p.uid = Root /\ p.gid = Root
      /\ p.own = {} /\ p.has = {} /\ p.cg = "none"
    BY DEF Forked
<1>3. p \in Process
    <2>1. Root \in Ids /\ {} \in Namespaces /\ "none" \in Attached /\ steps \in Seq(Calls)
        BY DEF Ids, Namespaces, Attached, Ordered, Fit
    <2>2. TRUE \in BOOLEAN OBVIOUS
    <2> QED BY <2>1, <2>2 DEF Forked, Process
<1> HIDE DEF p
<1>4. Sandboxed(p)
    <2>1. CASE kind = "app"
        <3>1. ToSet(p.steps) = {"unshare all", "make private", "mount tmpfs", "no_new_privs",
                                "drop capabilities", "seccomp"}
            BY <1>1, <2>1, AppPlan DEF Fit
        <3> QED BY <1>1, <2>1, <3>1 DEF Sandboxed
    <2>2. CASE kind # "app" BY <1>1, <2>2 DEF Sandboxed, Fit, Complete
    <2> QED BY <2>1, <2>2
<1>5. Identified(p) BY <1>1 DEF Identified, Identifies, OrRoot, Fit
<1>6. Able(p) /\ Discreet(p) BY <1>1 DEF Able, Discreet, Ordered, Fit
<1>7. Sound(p) BY <1>3, <1>4, <1>5, <1>6 DEF Sound
<1> QED BY <1>1, <1>7 DEF NewOf, p

LEMMA ServiceForked ==
    ASSUME NEW def \in Defs, NEW sock \in {{}} \cup {{s} : s \in listen_for(def)}
    PROVE  NewOf("service", def, Forked("service", def, ServiceSteps(def), sock))
<1>1. "service" \in Kinds /\ def \in Owned BY DEF Kinds, Owned
<1>2. sock \in Sockets
    <2>1. Root \in Ids /\ OrRoot(Uid(def)) \in Ids BY <1>1 DEF Ids
    <2> QED BY <2>1 DEF Sockets, listen_for
<1>3. Fit("service", def, ServiceSteps(def)) BY ServicePlan DEF Fit
<1> QED BY <1>1, <1>2, <1>3, ForkSound

LEMMA OneshotForked ==
    ASSUME NEW def \in Defs
    PROVE  NewOf("oneshot", def, Forked("oneshot", def, OneshotSteps(def), {}))
<1>1. "oneshot" \in Kinds /\ def \in Owned /\ {} \in Sockets BY DEF Kinds, Owned, Sockets
<1>2. Fit("oneshot", def, OneshotSteps(def)) BY OneshotPlan DEF Fit
<1> QED BY <1>1, <1>2, ForkSound

LEMMA AppForked ==
    NewOf("app", AnyDef, Forked("app", AnyDef, AppSteps, {}))
<1>1. "app" \in Kinds /\ AnyDef \in Owned /\ {} \in Sockets BY DEF Kinds, Owned, Sockets
<1>2. Fit("app", AnyDef, AppSteps) BY AppPlan DEF Fit
<1> QED BY <1>1, <1>2, ForkSound

LEMMA RescueForked ==
    ASSUME NEW def \in Owned
    PROVE  NewOf("rescue", def, Forked("rescue", def, << >>, {}))
<1>1. "rescue" \in Kinds /\ {} \in Sockets BY DEF Kinds, Sockets
<1>2. Fit("rescue", def, << >>) BY DEF Fit, Ordered, DropsLast, PrivateFirst
<1> QED BY <1>1, <1>2, ForkSound

\* Being attached to a cgroup changes nothing else of a process.
LEMMA CgroupField ==
    ASSUME NEW p, Sound(p), NEW cg \in Attached
    PROVE  LET q == [p EXCEPT !.cg = cg]
           IN  /\ Sound(q) /\ q.cg = cg /\ q.kind = p.kind /\ q.def = p.def
               /\ q.steps = p.steps
<1> DEFINE q == [p EXCEPT !.cg = cg]
<1>1. /\ q \in Process /\ q.kind = p.kind /\ q.def = p.def /\ q.steps = p.steps
      /\ q.uid = p.uid /\ q.gid = p.gid /\ q.groups = p.groups /\ q.own = p.own
      /\ q.has = p.has /\ q.cg = cg
    BY DEF Sound, Process
<1> HIDE DEF q
<1>2. Sandboxed(q) BY <1>1 DEF Sound, Sandboxed
<1>3. Identified(q) BY <1>1 DEF Sound, Identified
<1>4. Able(q) /\ Discreet(q) BY <1>1 DEF Sound, Able, Discreet
<1> QED BY <1>1, <1>2, <1>3, <1>4 DEF Sound, q

\* What exec adds to the running programs is the child, perhaps in a cgroup.
LEMMA ExecRuns ==
    ASSUME NEW t, Exec(t)
    PROVE  \E p \in child[t] :
              /\ p.steps = << >>
              /\ \/ running' = running \cup {p}
                 \/ \E cg \in Attached : running' = running \cup {[p EXCEPT !.cg = cg]}
BY DEF Exec, Attached

-----------------------------------------------------------------------------
LEMMA ProcessInit == Init => ProcessInv
BY DEF Init, ProcessInv, Stages, Threads

LEMMA ProcessStep == ProcessInv /\ [Next]_vars => ProcessInv'
<1> SUFFICES ASSUME ProcessInv, [Next]_vars PROVE ProcessInv' OBVIOUS
<1>0. main \in Stages BY DEF ProcessInv
<1>1. ASSUME NEW t \in Threads, NEW p, Sound(p), child' = [child EXCEPT ![t] = {p}],
             UNCHANGED <<main, running, leaked>>
      PROVE  ProcessInv'
    BY <1>1 DEF ProcessInv, Sound
<1>2. CASE Startup
    <2>1. main' \in Stages /\ UNCHANGED processes
        BY <1>2 DEF Startup, block_handled, spawn_listener, spawn_monitor, unblock_handled, Stages
    <2> QED BY <2>1 DEF processes, ProcessInv
<1>3. ASSUME NEW def \in Defs, SpawnService(def) PROVE ProcessInv'
    <2>1. PICK sock \in {{}} \cup {{s} : s \in listen_for(def)} :
            child' = [child EXCEPT !["main"] = {Forked("service", def, ServiceSteps(def), sock)}]
        BY <1>3 DEF SpawnService
    <2>2. Sound(Forked("service", def, ServiceSteps(def), sock)) BY <1>0, ServiceForked DEF NewOf
    <2>3. UNCHANGED <<main, running, leaked>> BY <1>3 DEF SpawnService
    <2> QED BY <1>1, <2>1, <2>2, <2>3 DEF Threads
<1>4. ASSUME NEW def \in Defs, spawn_oneshot(def) PROVE ProcessInv'
    <2>1. Sound(Forked("oneshot", def, OneshotSteps(def), {})) BY <1>0, OneshotForked DEF NewOf
    <2> QED BY <1>1, <1>4, <2>1 DEF spawn_oneshot, Threads
<1>5. CASE LaunchApp
    <2>1. Sound(Forked("app", AnyDef, AppSteps, {})) BY <1>0, AppForked DEF NewOf
    <2> QED BY <1>1, <1>5, <2>1 DEF LaunchApp, Threads
<1>6. ASSUME NEW t \in Threads, ChildCall(t) PROVE ProcessInv'
    <2>1. PICK p \in child[t] :
            /\ p.steps # << >>
            /\ child' = [child EXCEPT ![t] = {[After(p, Head(p.steps)) EXCEPT !.steps = Tail(@)]}]
            /\ leaked' = (leaked \/ (Head(p.steps) \in Mounts /\ "make private" \notin p.has))
        BY <1>6 DEF ChildCall
    <2>2. Sound(p) BY DEF ProcessInv
    <2>3. /\ Sound([After(p, Head(p.steps)) EXCEPT !.steps = Tail(@)])
          /\ ~(Head(p.steps) \in Mounts /\ "make private" \notin p.has)
        BY <2>1, <2>2, CallSound
    <2>4. leaked' = leaked
        <3>1. leaked = FALSE BY DEF ProcessInv
        <3> QED BY <2>1, <2>3, <3>1
    <2>5. UNCHANGED <<main, running>> BY <1>6 DEF ChildCall
    <2> QED BY <1>1, <2>1, <2>3, <2>4, <2>5
<1>7. ASSUME NEW t \in Threads, SpawnFails(t) PROVE ProcessInv'
    <2>1. PICK p \in child[t] :
            child' = [child EXCEPT ![t] =
                        IF p.kind = "service" /\ p.def.critical
                        THEN {Forked("rescue", p.def, << >>, {})} ELSE {}]
        BY <1>7 DEF SpawnFails
    <2>2. p.def \in Owned BY DEF ProcessInv, Process
    <2>3. Sound(Forked("rescue", p.def, << >>, {})) BY <1>0, <2>2, RescueForked DEF NewOf
    <2>4. UNCHANGED <<main, running, leaked>> BY <1>7 DEF SpawnFails
    <2>5. CASE p.kind = "service" /\ p.def.critical
        BY <1>1, <2>1, <2>3, <2>4, <2>5
    <2>6. CASE ~(p.kind = "service" /\ p.def.critical)
        <3>1. child' = [child EXCEPT ![t] = {}] BY <2>1, <2>6
        <3> QED BY <2>4, <3>1 DEF ProcessInv
    <2> QED BY <2>5, <2>6
<1>8. ASSUME NEW t \in Threads, Exec(t) PROVE ProcessInv'
    <2>1. PICK p \in child[t] :
              /\ p.steps = << >>
              /\ \/ running' = running \cup {p}
                 \/ \E cg \in Attached : running' = running \cup {[p EXCEPT !.cg = cg]}
        BY <1>8, ExecRuns
    <2>2. Sound(p) BY DEF ProcessInv
    <2>3. \A cg \in Attached : Sound([p EXCEPT !.cg = cg]) /\ [p EXCEPT !.cg = cg].steps = << >>
        BY <2>1, <2>2, CgroupField
    <2>4. \A q \in running' : Sound(q) /\ q.steps = << >>
        BY <2>1, <2>2, <2>3 DEF ProcessInv
    <2>5. child' = [child EXCEPT ![t] = {}] /\ UNCHANGED <<main, leaked>> BY <1>8 DEF Exec
    <2> QED BY <2>4, <2>5 DEF ProcessInv
<1>9. CASE Shutdown \/ GraceOver \/ \E p \in running : Exit(p) \/ stop_one(p) \/ Obey(p)
    <2>1. UNCHANGED <<child, leaked>> /\ running' \subseteq running
        BY <1>9 DEF Shutdown, GraceOver, Exit, stop_one, Obey, processes
    <2>2. main' \in Stages
        BY <1>0, <1>9 DEF Shutdown, GraceOver, Exit, stop_one, Obey, Stages
    <2> QED BY <2>1, <2>2 DEF ProcessInv
<1>10. CASE UNCHANGED vars BY <1>10 DEF vars, ProcessInv
<1> QED BY <1>2, <1>3, <1>4, <1>5, <1>6, <1>7, <1>8, <1>9, <1>10 DEF Next, Threads

LEMMA ProcessesHold == Spec => []ProcessInv
BY ProcessInit, ProcessStep, PTL DEF Spec

\* No program starts with less isolation than it was to have, whichever of the
\* calls before its exec fail, and none of their mounts is seen by the rest of
\* the system.
THEOREM IsolatedHolds == Spec => []Isolated
<1>1. ProcessInv => Isolated
    <2> SUFFICES ASSUME ProcessInv PROVE Isolated OBVIOUS
    <2>1. ~leaked BY DEF ProcessInv
    <2>2. \A p \in running : Sandboxed(p) /\ ToSet(p.steps) = {}
        BY DEF ProcessInv, Sound, ToSet
    <2> QED BY <2>1, <2>2 DEF Isolated, Sandboxed, Has
<1> QED BY <1>1, ProcessesHold, PTL

\* Whatever mixture of user=, group= and sandbox options a service has, no call
\* of its child comes after the privilege it needs is gone.
THEOREM PrivilegeSufficesHolds == Spec => []PrivilegeSuffices
<1>1. ProcessInv => PrivilegeSuffices
    <2> SUFFICES ASSUME ProcessInv, NEW t \in Threads, NEW p \in child[t],
                        p.steps # << >>, Head(p.steps) \in NeedsRoot
                 PROVE  p.uid = Root
        BY DEF PrivilegeSuffices, Threads
    <2>1. Able(p) /\ p.steps \in Seq(Calls) BY DEF ProcessInv, Sound, Process
    <2>2. Head(p.steps) \in ToSet(p.steps) BY <2>1, TailSet
    <2> QED BY <2>1, <2>2 DEF Able
<1> QED BY <1>1, ProcessesHold, PTL

\* A service or timer's run has the user its definition resolves to, and the group
\* where group= is given or user= is not, along both ways of dropping privileges,
\* and without root none of root's other groups unless it is sandboxed without a
\* group=.
THEOREM IdentityAsResolvedHolds == Spec => []IdentityAsResolved
<1>1. ProcessInv => IdentityAsResolved
    <2> SUFFICES ASSUME ProcessInv, NEW p \in running, p.kind \in {"service", "oneshot"}
                 PROVE  /\ p.uid = OrRoot(Uid(p.def))
                        /\ p.def.group # {} \/ p.def.user = {} => p.gid = OrRoot(Gid(p.def))
                        /\ p.uid # Root /\ p.groups =>
                              p.kind = "service" /\ ~is_empty(p.def) /\ Gid(p.def) = {}
        BY DEF IdentityAsResolved
    <2>1. Identified(p) /\ ToSet(p.steps) = {} BY DEF ProcessInv, Sound, ToSet
    <2> QED BY <2>1 DEF Identified, OrRoot
<1> QED BY <1>1, ProcessesHold, PTL

-----------------------------------------------------------------------------
(* Signals.  What makes MainHears inductive: which threads have the        *)
(* signals open at each stage.                                             *)

HearInv ==
    /\ main = "block" => open = {"main"}
    /\ main \in {"spawn_listener", "spawn_monitor", "boot"} => open = {}
    /\ main \in {"loop", "shutdown", "acked"} =>
        "main" \in open /\ open \subseteq {"main", "late listener"}

LEMMA HearInit == Init => HearInv
BY DEF Init, HearInv

LEMMA HearStep == HearInv /\ [Next]_vars => HearInv'
<1> SUFFICES ASSUME HearInv, [Next]_vars PROVE HearInv' OBVIOUS
<1>1. CASE Startup
    BY <1>1 DEF Startup, block_handled, spawn_listener, spawn_monitor, unblock_handled, With,
        HearInv
<1>2. ASSUME NEW def \in Defs, SpawnService(def) PROVE HearInv'
    BY <1>2 DEF SpawnService, With, HearInv
<1>3. CASE \/ LaunchApp \/ \E def \in Defs : spawn_oneshot(def)
           \/ \E t \in {"main", "ipc"} : ChildCall(t) \/ SpawnFails(t) \/ Exec(t)
           \/ UNCHANGED vars
    <2>1. UNCHANGED <<main, open>>
        BY <1>3 DEF LaunchApp, spawn_oneshot, ChildCall, SpawnFails, Exec, vars
    <2> QED BY <2>1 DEF HearInv
<1>4. CASE Shutdown \/ GraceOver \/ \E p \in running : Exit(p) \/ stop_one(p) \/ Obey(p)
    <2>1. open' = open BY <1>4 DEF Shutdown, GraceOver, Exit, stop_one, Obey
    <2>2. main \in {"loop", "shutdown"} /\ main' \in {"loop", "shutdown", "acked"}
        BY <1>4 DEF Shutdown, GraceOver, Exit, stop_one, Obey
    <2> QED BY <2>1, <2>2 DEF HearInv
<1> QED BY <1>1, <1>2, <1>3, <1>4 DEF Next

\* signals.rs: "so delivery is guaranteed to land there": until the loop no
\* thread takes a handled signal; from then on the main thread does, and no
\* thread that startup made.
THEOREM MainHearsHolds == Spec => []MainHears
<1>1. HearInv => MainHears BY DEF HearInv, MainHears
<1> QED BY <1>1, HearInit, HearStep, PTL DEF Spec

-----------------------------------------------------------------------------
(* Memory limits.  What makes LimitInForce inductive: the service runs at  *)
(* most once, counting the one about to be executed, so that nothing else  *)
(* writes to its directory while it runs.                                  *)

IsService(p) == p.kind = "service"

LimitInv ==
    /\ \A p \in child["main"] :
        /\ p.cg = "none"
        /\ IsService(p) => p.def \in Defs /\ \A q \in running : ~IsService(q)
    /\ \A p \in child["ipc"] : p.kind = "app"
    /\ \A p, q \in running : IsService(p) /\ IsService(q) => p = q
    /\ cgroup = [k \in {"service", "rescue"} |-> cgroup[k]]
    /\ LimitInForce

\* What LimitInForce says of one process, of which cg is the directory.
Enforced(p, cg) ==
    /\ IsService(p) /\ p.cg \in {"fresh", "reused"}
    /\ \A n \in Configured(p.def) : n < 2^Width
    => cg = {Configured(p.def)} \/ (p.cg = "reused" /\ Configured(p.def) = {})

LEMMA LimitEnforced == LimitInForce <=> \A p \in running : Enforced(p, cgroup["service"])
BY DEF LimitInForce, Enforced, IsService

LEMMA ModSmall == \A x, y \in Nat : x < y => x % y = x
OBVIOUS

LEMMA Product == \A x, y \in Nat : x * y \in Nat
OBVIOUS

\* parse_size returns the configured number if it fits the integer.
LEMMA LimitExact ==
    ASSUME NEW def \in Defs, \A n \in Configured(def) : n < 2^Width
    PROVE  memory_limit(def) = Configured(def)
<1>1. ASSUME NEW s \in def.mem PROVE parse_size(s) = {n * s.mult : n \in s.num}
    <2>1. s.num \subseteq Nat /\ s.mult \in Nat /\ 2^Width \in Nat BY LaunchAssumption
    <2>2. ASSUME NEW n \in s.num PROVE (n * s.mult) % 2^Width = n * s.mult
        <3>1. n * s.mult \in Nat BY <2>1, Product
        <3>2. n * s.mult \in Configured(def) BY DEF Configured
        <3> QED BY <2>1, <3>1, <3>2, ModSmall
    <2> QED BY <2>2 DEF parse_size
<1> QED BY <1>1 DEF memory_limit, Configured

LEMMA LimitInit == Init => LimitInv
BY DEF Init, LimitInv, LimitInForce

\* Exec of a service, which is then the only one.
LEMMA ExecEnforced ==
    ASSUME LimitInv, NEW p, IsService(p), Sound(p), p.def \in Defs, p.cg = "none",
           \/ UNCHANGED cgroup /\ running' = running \cup {p}
           \/ \E wrote \in BOOLEAN :
                /\ create_under("service", memory_limit(p.def), wrote)
                /\ \E cg \in {"none", IF memory_limit(p.def) # {} /\ ~wrote THEN "unset"
                                      ELSE IF cgroup["service"] = {} THEN "fresh" ELSE "reused"} :
                     running' = running \cup {[p EXCEPT !.cg = cg]}
    PROVE  /\ cgroup' = [k \in {"service", "rescue"} |-> cgroup'[k]]
           /\ \E q : /\ running' = running \cup {q} /\ IsService(q)
                     /\ Enforced(q, cgroup'["service"])
<1> DEFINE limit == memory_limit(p.def)
<1>1. CASE UNCHANGED cgroup /\ running' = running \cup {p}
    BY <1>1 DEF LimitInv, Enforced
<1>2. ASSUME NEW wrote \in BOOLEAN,
             NEW cg \in {"none", IF limit # {} /\ ~wrote THEN "unset"
                                 ELSE IF cgroup["service"] = {} THEN "fresh" ELSE "reused"},
             create_under("service", limit, wrote),
             running' = running \cup {[p EXCEPT !.cg = cg]}
      PROVE  /\ cgroup' = [k \in {"service", "rescue"} |-> cgroup'[k]]
             /\ \E q : /\ running' = running \cup {q} /\ IsService(q)
                       /\ Enforced(q, cgroup'["service"])
    <2> DEFINE q == [p EXCEPT !.cg = cg]
    <2>1. cg \in Attached BY <1>2 DEF Attached
    <2>2. q.cg = cg /\ q.kind = p.kind /\ q.def = p.def BY <2>1, CgroupField
    <2> HIDE DEF q, limit
    <2>3. cgroup' = [cgroup EXCEPT !["service"] =
                        {IF limit # {} /\ wrote THEN limit ELSE UNION @}]
        BY <1>2 DEF create_under
    <2>4. /\ cgroup' = [k \in {"service", "rescue"} |-> cgroup'[k]]
          /\ cgroup'["service"] = {IF limit # {} /\ wrote THEN limit ELSE UNION cgroup["service"]}
        BY <2>3 DEF LimitInv
    <2>5. Enforced(q, cgroup'["service"])
        <3> SUFFICES ASSUME cg \in {"fresh", "reused"}, \A n \in Configured(p.def) : n < 2^Width
                     PROVE  \/ cgroup'["service"] = {Configured(p.def)}
                            \/ cg = "reused" /\ Configured(p.def) = {}
            BY <2>2 DEF Enforced
        <3>1. limit = Configured(p.def) BY LimitExact DEF limit
        <3>2. limit = {} \/ wrote BY <1>2
        <3>3. CASE limit # {} BY <2>4, <3>1, <3>2, <3>3
        <3>4. CASE limit = {} /\ cg = "reused" BY <3>1, <3>4
        <3>5. CASE limit = {} /\ cg = "fresh"
            <4>1. cgroup["service"] = {} BY <1>2, <3>5
            <4>2. UNION cgroup["service"] = {} BY <4>1
            <4> QED BY <2>4, <3>1, <3>5, <4>2
        <3> QED BY <3>3, <3>4, <3>5
    <2>6. IsService(q) BY <2>2 DEF IsService
    <2>7. running' = running \cup {q} BY <1>2 DEF q
    <2> QED BY <2>4, <2>5, <2>6, <2>7
<1> QED BY <1>1, <1>2

LEMMA LimitStep == ProcessInv /\ LimitInv /\ [Next]_vars => LimitInv'
<1> SUFFICES ASSUME ProcessInv, LimitInv, [Next]_vars PROVE LimitInv' OBVIOUS
<1>0. main \in Stages /\ child \in [Threads -> SUBSET Process] BY DEF ProcessInv
<1>1. ASSUME NEW p, child' = [child EXCEPT !["main"] = {p}], p.cg = "none",
             IsService(p) => p.def \in Defs /\ \A q \in running : ~IsService(q),
             UNCHANGED <<running, cgroup>>
      PROVE  LimitInv'
    BY <1>0, <1>1 DEF LimitInv, LimitInForce, Threads
<1>2. ASSUME NEW p, child' = [child EXCEPT !["ipc"] = {p}], p.kind = "app",
             UNCHANGED <<running, cgroup>>
      PROVE  LimitInv'
    BY <1>0, <1>2 DEF LimitInv, LimitInForce, Threads
<1>3. ASSUME NEW t \in Threads, child' = [child EXCEPT ![t] = {}],
             cgroup' = [k \in {"service", "rescue"} |-> cgroup'[k]],
             cgroup'["service"] = cgroup["service"],
             running' = running \/ \E q : running' = running \cup {q} /\ ~IsService(q)
      PROVE  LimitInv'
    <2>1. \A q \in running' : q \in running \/ ~IsService(q) BY <1>3
    <2>2. LimitInForce'
        <3>1. \A q \in running' : Enforced(q, cgroup'["service"])
            BY <1>3, <2>1, LimitEnforced DEF LimitInv, Enforced
        <3> QED BY <3>1 DEF LimitInForce, Enforced, IsService
    <2>3. \A p \in child'["main"] : p \in child["main"] BY <1>0, <1>3 DEF Threads
    <2>4. \A p \in child'["ipc"] : p \in child["ipc"] BY <1>0, <1>3 DEF Threads
    <2> QED BY <1>3, <2>1, <2>2, <2>3, <2>4 DEF LimitInv
<1>4. CASE Startup
    BY <1>4 DEF Startup, block_handled, spawn_listener, spawn_monitor, unblock_handled,
        processes, LimitInv, LimitInForce
<1>5. ASSUME NEW def \in Defs, SpawnService(def) PROVE LimitInv'
    <2>1. PICK sock \in {{}} \cup {{s} : s \in listen_for(def)} :
            child' = [child EXCEPT !["main"] = {Forked("service", def, ServiceSteps(def), sock)}]
        BY <1>5 DEF SpawnService
    <2>2. NewOf("service", def, Forked("service", def, ServiceSteps(def), sock))
        BY <1>0, ServiceForked
    <2>3. UNCHANGED <<running, cgroup>> /\ \A q \in running : ~IsService(q)
        BY <1>5 DEF SpawnService, IsService
    <2> QED BY <1>1, <2>1, <2>2, <2>3 DEF NewOf
<1>6. ASSUME NEW def \in Defs, spawn_oneshot(def) PROVE LimitInv'
    <2>1. NewOf("oneshot", def, Forked("oneshot", def, OneshotSteps(def), {}))
        BY <1>0, OneshotForked
    <2>2. ~IsService(Forked("oneshot", def, OneshotSteps(def), {}))
        BY <2>1 DEF NewOf, IsService
    <2> QED BY <1>1, <1>6, <2>1, <2>2 DEF spawn_oneshot, NewOf
<1>7. CASE LaunchApp
    <2>1. NewOf("app", AnyDef, Forked("app", AnyDef, AppSteps, {})) BY <1>0, AppForked
    <2>2. Forked("app", AnyDef, AppSteps, {}).kind = "app" BY <2>1 DEF NewOf
    <2> QED BY <1>2, <1>7, <2>2 DEF LaunchApp
<1>8. ASSUME NEW t \in Threads, ChildCall(t) PROVE LimitInv'
    <2>1. PICK p \in child[t] :
            /\ p.steps # << >>
            /\ child' = [child EXCEPT ![t] = {[After(p, Head(p.steps)) EXCEPT !.steps = Tail(@)]}]
        BY <1>8 DEF ChildCall
    <2> DEFINE q == [After(p, Head(p.steps)) EXCEPT !.steps = Tail(@)]
    <2>2. Made(p, Head(p.steps), q)
        <3>1. Sound(p) BY DEF ProcessInv
        <3> QED BY <2>1, <3>1, CallSound
    <2>3. child' = [child EXCEPT ![t] = {q}] BY <2>1
    <2>4. UNCHANGED <<running, cgroup>> BY <1>8 DEF ChildCall
    <2> HIDE DEF q
    <2>5. CASE t = "main" BY <1>1, <2>1, <2>2, <2>3, <2>4, <2>5 DEF Made, LimitInv, IsService
    <2>6. CASE t = "ipc" BY <1>2, <2>1, <2>2, <2>3, <2>4, <2>6 DEF Made, LimitInv
    <2> QED BY <2>5, <2>6 DEF Threads
<1>9. ASSUME NEW t \in Threads, SpawnFails(t) PROVE LimitInv'
    <2>1. PICK p \in child[t] :
            child' = [child EXCEPT ![t] =
                        IF p.kind = "service" /\ p.def.critical
                        THEN {Forked("rescue", p.def, << >>, {})} ELSE {}]
        BY <1>9 DEF SpawnFails
    <2>2. p.def \in Owned BY DEF ProcessInv, Process
    <2>3. NewOf("rescue", p.def, Forked("rescue", p.def, << >>, {}))
        BY <1>0, <2>2, RescueForked
    <2>4. UNCHANGED <<running, cgroup>> BY <1>9 DEF SpawnFails
    <2>5. CASE p.kind = "service" /\ p.def.critical
        <3>1. t = "main" BY <2>5 DEF LimitInv, Threads
        <3>2. ~IsService(Forked("rescue", p.def, << >>, {})) BY <2>3 DEF NewOf, IsService
        <3> QED BY <1>1, <2>1, <2>3, <2>4, <2>5, <3>1, <3>2 DEF NewOf
    <2>6. CASE ~(p.kind = "service" /\ p.def.critical)
        <3>1. child' = [child EXCEPT ![t] = {}] BY <2>1, <2>6
        <3> QED BY <1>3, <2>4, <3>1 DEF LimitInv
    <2> QED BY <2>5, <2>6
<1>10. ASSUME NEW t \in Threads, Exec(t) PROVE LimitInv'
    <2>0. child' = [child EXCEPT ![t] = {}] BY <1>10 DEF Exec
    <2>1. PICK p \in child[t] :
            \/ /\ p.kind \in {"service", "rescue"}
               /\ LET limit == IF p.kind = "service" THEN memory_limit(p.def) ELSE {}
                  IN  \/ /\ cgroup[p.kind] = {} /\ UNCHANGED cgroup
                         /\ running' = running \cup {p}
                      \/ \E wrote \in BOOLEAN :
                         /\ create_under(p.kind, limit, wrote)
                         /\ \E cg \in {"none", IF limit # {} /\ ~wrote THEN "unset"
                                               ELSE IF cgroup[p.kind] = {} THEN "fresh" ELSE "reused"} :
                             running' = running \cup {[p EXCEPT !.cg = cg]}
            \/ p.kind \in {"oneshot", "app"} /\ running' = running \cup {p} /\ UNCHANGED cgroup
        BY <1>10 DEF Exec
    <2>2. Sound(p) BY DEF ProcessInv
    <2>3. CASE p.kind = "service"
        <3>1. t = "main" BY <2>3 DEF LimitInv, Threads
        <3>2. p.def \in Defs /\ p.cg = "none" /\ \A q \in running : ~IsService(q)
            BY <2>3, <3>1 DEF LimitInv, IsService
        <3>3. /\ cgroup' = [k \in {"service", "rescue"} |-> cgroup'[k]]
              /\ \E q : /\ running' = running \cup {q} /\ IsService(q)
                        /\ Enforced(q, cgroup'["service"])
            BY <2>1, <2>2, <2>3, <3>2, ExecEnforced DEF IsService
        <3>4. PICK q : /\ running' = running \cup {q} /\ IsService(q)
                       /\ Enforced(q, cgroup'["service"])
            BY <3>3
        <3>5. \A r \in running' : Enforced(r, cgroup'["service"])
            BY <3>2, <3>4 DEF Enforced
        <3>6. LimitInForce' BY <3>5 DEF LimitInForce, Enforced, IsService
        <3>7. child'["main"] = {} /\ child'["ipc"] = child["ipc"] BY <1>0, <2>0, <3>1 DEF Threads
        <3> QED BY <3>2, <3>3, <3>4, <3>6, <3>7 DEF LimitInv
    <2>4. CASE p.kind = "rescue"
        <3>1. UNCHANGED cgroup \/ \E wrote \in BOOLEAN : create_under("rescue", {}, wrote)
            BY <2>1, <2>4
        <3>2. /\ cgroup' = [k \in {"service", "rescue"} |-> cgroup'[k]]
              /\ cgroup'["service"] = cgroup["service"]
            BY <3>1 DEF LimitInv, create_under
        <3>3. \/ running' = running \cup {p}
              \/ \E cg \in Attached : running' = running \cup {[p EXCEPT !.cg = cg]}
            BY <2>1, <2>4 DEF Attached
        <3>4. \A cg \in Attached : ~IsService([p EXCEPT !.cg = cg])
            BY <2>2, <2>4, CgroupField DEF IsService
        <3>5. \E q : running' = running \cup {q} /\ ~IsService(q)
            BY <2>4, <3>3, <3>4 DEF IsService
        <3> QED BY <1>3, <2>0, <3>2, <3>5
    <2>5. CASE p.kind \in {"oneshot", "app"}
        <3>1. running' = running \cup {p} /\ cgroup' = cgroup /\ ~IsService(p)
            BY <2>1, <2>5 DEF IsService
        <3> QED BY <1>3, <2>0, <3>1 DEF LimitInv
    <2> QED BY <2>1, <2>3, <2>4, <2>5
<1>11. ASSUME UNCHANGED child, running' \subseteq running,
              cgroup' = [k \in {"service", "rescue"} |-> cgroup'[k]],
              \/ cgroup'["service"] = cgroup["service"]
              \/ \A q \in running' : ~IsService(q)
       PROVE  LimitInv'
    <2>1. \A q \in running' : Enforced(q, cgroup'["service"])
        BY <1>11, LimitEnforced DEF LimitInv, Enforced
    <2>2. LimitInForce' BY <2>1 DEF LimitInForce, Enforced, IsService
    <2> QED BY <1>11, <2>2 DEF LimitInv
<1>12. ASSUME NEW kinds, kill_and_remove(kinds)
       PROVE  /\ cgroup' = [k \in {"service", "rescue"} |-> cgroup'[k]]
              /\ "service" \notin kinds => cgroup'["service"] = cgroup["service"]
    BY <1>12 DEF kill_and_remove, LimitInv
<1>13. ASSUME NEW p \in running, Exit(p) \/ stop_one(p) PROVE LimitInv'
    <2>1. running' = running \ {p} /\ UNCHANGED child BY <1>13 DEF Exit, stop_one
    <2>2. CASE UNCHANGED cgroup BY <1>11, <2>1, <2>2 DEF LimitInv
    <2>3. CASE kill_and_remove({p.kind})
        <3>1. CASE IsService(p)
            <4>1. \A q \in running' : ~IsService(q) BY <2>1, <3>1 DEF LimitInv
            <4> QED BY <1>11, <1>12, <2>1, <2>3, <4>1
        <3>2. CASE ~IsService(p) BY <1>11, <1>12, <2>1, <2>3, <3>2 DEF IsService
        <3> QED BY <3>1, <3>2
    <2> QED BY <1>13, <2>2, <2>3 DEF Exit, stop_one
<1>14. CASE GraceOver
    <2>1. UNCHANGED child /\ running' \subseteq running /\ \A q \in running' : ~IsService(q)
        BY <1>14 DEF GraceOver, Supervised, IsService
    <2>2. kill_and_remove({"service", "rescue"}) BY <1>14 DEF GraceOver
    <2> QED BY <1>11, <1>12, <2>1, <2>2
<1>15. CASE Shutdown \/ (\E p \in running : Obey(p)) \/ UNCHANGED vars
    <2>1. UNCHANGED <<child, cgroup>> /\ running' \subseteq running
        BY <1>15 DEF Shutdown, Obey, processes, vars
    <2> QED BY <1>11, <2>1 DEF LimitInv
<1> QED
    BY <1>4, <1>5, <1>6, <1>7, <1>8, <1>9, <1>10, <1>13, <1>14, <1>15 DEF Next, Threads

\* cgroups.rs: once the limit could be written, the service's cgroup enforces the
\* limit of the definition it was started from, whatever restarts, stops and old
\* directories came before; except for a product that does not fit the integer.
THEOREM LimitInForceHolds == Spec => []LimitInForce
<1>1. LimitInv => LimitInForce BY DEF LimitInv
<1> QED BY <1>1, ProcessesHold, LimitInit, LimitStep, PTL DEF Spec

-----------------------------------------------------------------------------
(* seccomp.rs: what the filter program returns.                            *)

\* The least-number principle, from which what a recursive function computes
\* is proved: a least argument at which it goes wrong cannot be.
LEMMA Least ==
    ASSUME NEW S, S \subseteq Nat, S # {}
    PROVE  \E m \in S : \A k \in S : m <= k
<1>1. IsWellFoundedOn(OpToRel(<, Nat), Nat) BY NatLessThanWellFounded
<1>2. PICK m \in S : \A k \in S : ~(<<k, m>> \in OpToRel(<, Nat)) BY <1>1, WFMin
<1>3. \A k \in S : ~(k < m) BY <1>2 DEF OpToRel
<1> QED BY <1>3

(* The equation by which Filter defines its function; FilterSolves shows   *)
(* that it satisfies it if anything does, RanSolves exhibits what does.    *)
Value(acc, nr, arch) == IF acc = "nr" THEN nr ELSE arch
Positions(prog) == (1 .. Len(prog)) \X {"none", "nr", "arch"}
Step(h, prog, nr, arch, c) ==
    LET i == prog[c[1]]
    IN  CASE i.op = "ld" -> h[<<c[1] + 1, i.k>>]
          [] i.op = "ret" -> i.k
          [] i.op = "jeq" ->
                h[<<c[1] + 1 + (IF Value(c[2], nr, arch) = i.k THEN i.jt ELSE i.jf), c[2]>>]
Solves(h, prog, nr, arch) ==
    h = [c \in Positions(prog) |-> Step(h, prog, nr, arch, c)]

LEMMA FilterSolves ==
    ASSUME NEW prog, NEW nr, NEW arch, \E h : Solves(h, prog, nr, arch)
    PROVE  \E h : Solves(h, prog, nr, arch) /\ Filter(prog, nr, arch) = h[<<1, "none">>]
BY Zenon DEF Filter, Solves, Step, Positions, Value

N == Len(Blocked)  \* how many calls are blocked

\* A comparison is at an odd and an errno return at an even place.
LEMMA Parity ==
    ASSUME NEW n \in Nat, NEW i \in 1 .. 2 * n
    PROVE  \E k \in 1 .. n : \/ i = 2 * k - 1 /\ i % 2 = 1 /\ (i + 1) \div 2 = k
                             \/ i = 2 * k /\ i % 2 # 1
OBVIOUS

Instr == {Load("arch"), Load("nr"), JumpEq("x86_64", 1, 0), Ret("kill"), Ret("errno"), Ret("allow")}
         \cup {JumpEq(b, 0, 1) : b \in Nat}
Header == <<Load("arch"), JumpEq("x86_64", 1, 0), Ret("kill"), Load("nr")>>
Checks == [i \in 1 .. 2 * N |->
             IF i % 2 = 1 THEN JumpEq(Blocked[(i + 1) \div 2], 0, 1) ELSE Ret("errno")]

LEMMA HeaderAt ==
    /\ Header \in Seq(Instr) /\ Len(Header) = 4
    /\ Header[1] = Load("arch") /\ Header[2] = JumpEq("x86_64", 1, 0)
    /\ Header[3] = Ret("kill") /\ Header[4] = Load("nr")
<1>1. \A a, b, c, d \in Instr : <<a, b, c, d>> \in Seq(Instr) OBVIOUS
<1> QED BY <1>1 DEF Header, Instr

Follows(t, s, u) ==
    /\ Len(u) = Len(s) + Len(t)
    /\ \A i \in 1 .. Len(s) : u[i] = s[i]
    /\ \A i \in 1 .. Len(t) : u[i + Len(s)] = t[i]

LEMMA ConcatFollows ==
    \A s, t \in Seq(Instr) : s \o t \in Seq(Instr) /\ Follows(t, s, s \o t)
BY DEF Follows

LEMMA ChecksAt ==
    /\ N \in Nat /\ Checks \in Seq(Instr) /\ Len(Checks) = 2 * N
    /\ \A k \in 1 .. N : /\ Checks[2 * k - 1] = JumpEq(Blocked[k], 0, 1)
                         /\ Checks[2 * k] = Ret("errno")
<1>1. N \in Nat /\ \A k \in 1 .. N : Blocked[k] \in Nat BY LaunchAssumption DEF N
<1>2. ASSUME NEW i \in 1 .. 2 * N PROVE Checks[i] \in Instr
    <2>1. PICK k \in 1 .. N : \/ i = 2 * k - 1 /\ i % 2 = 1 /\ (i + 1) \div 2 = k
                              \/ i = 2 * k /\ i % 2 # 1
        BY <1>1, Parity
    <2>2. Checks[i] \in {JumpEq(Blocked[k], 0, 1), Ret("errno")} BY <2>1 DEF Checks
    <2> QED BY <1>1, <2>2 DEF Instr
<1>3. 2 * N \in Nat BY <1>1
<1>4. Checks \in Seq(Instr) /\ Len(Checks) = 2 * N BY <1>2, <1>3 DEF Checks
<1>5. ASSUME NEW k \in 1 .. N
      PROVE  Checks[2 * k - 1] = JumpEq(Blocked[k], 0, 1) /\ Checks[2 * k] = Ret("errno")
    <2>1. /\ 2 * k - 1 \in 1 .. 2 * N /\ (2 * k - 1) % 2 = 1 /\ (2 * k - 1 + 1) \div 2 = k
          /\ 2 * k \in 1 .. 2 * N /\ (2 * k) % 2 = 0
        BY <1>1
    <2> QED BY <2>1 DEF Checks
<1> QED BY <1>1, <1>4, <1>5

\* The program, instruction by instruction.
LEMMA Program ==
    /\ N \in Nat /\ Len(build_program) = 5 + 2 * N
    /\ build_program[1] = Load("arch") /\ build_program[2] = JumpEq("x86_64", 1, 0)
    /\ build_program[3] = Ret("kill") /\ build_program[4] = Load("nr")
    /\ \A k \in 1 .. N : /\ build_program[2 * k + 3] = JumpEq(Blocked[k], 0, 1)
                         /\ build_program[2 * k + 4] = Ret("errno")
    /\ build_program[2 * N + 5] = Ret("allow")
<1> DEFINE allow == <<Ret("allow")>>
           first == Header \o Checks
<1>1. build_program = first \o allow BY DEF build_program, Header, Checks, N
<1>2. allow \in Seq(Instr) /\ Len(allow) = 1 /\ allow[1] = Ret("allow")
    <2>1. \A a \in Instr : <<a>> \in Seq(Instr) /\ Len(<<a>>) = 1 /\ <<a>>[1] = a OBVIOUS
    <2> QED BY <2>1 DEF Instr
<1>3. N \in Nat BY ChecksAt
<1>4. /\ first \in Seq(Instr) /\ Len(first) = 4 + 2 * N
      /\ \A i \in 1 .. 4 : first[i] = Header[i]
      /\ \A i \in 1 .. 2 * N : first[i + 4] = Checks[i]
    <2>1. Len(Header) = 4 /\ Len(Checks) = 2 * N BY HeaderAt, ChecksAt
    <2>2. first \in Seq(Instr) /\ Follows(Checks, Header, first)
        BY HeaderAt, ChecksAt, ConcatFollows
    <2> HIDE DEF first
    <2> QED BY <2>1, <2>2 DEF Follows
<1> HIDE DEF first, allow
<1>5. /\ Len(build_program) = 4 + 2 * N + 1
      /\ \A i \in 1 .. 4 + 2 * N : build_program[i] = first[i]
      /\ build_program[1 + (4 + 2 * N)] = allow[1]
    <2>1. Follows(allow, first, build_program) BY <1>1, <1>2, <1>4, ConcatFollows
    <2> QED BY <1>2, <1>4, <2>1 DEF Follows
<1>7. Len(build_program) = 5 + 2 * N BY <1>3, <1>5
<1>9. build_program[2 * N + 5] = Ret("allow")
    <2>1. 1 + (4 + 2 * N) = 2 * N + 5 BY <1>3
    <2> QED BY <1>2, <1>5, <2>1
<1>10. ASSUME NEW k \in 1 .. N
       PROVE  /\ build_program[2 * k + 3] = JumpEq(Blocked[k], 0, 1)
              /\ build_program[2 * k + 4] = Ret("errno")
    <2>1. 2 * k - 1 \in 1 .. 2 * N /\ 2 * k \in 1 .. 2 * N /\ (2 * k - 1) + 4 = 2 * k + 3
        BY <1>3
    <2>2. first[2 * k + 3] = Checks[2 * k - 1] /\ first[2 * k + 4] = Checks[2 * k]
        BY <1>4, <2>1
    <2>3. 2 * k + 3 \in 1 .. 4 + 2 * N /\ 2 * k + 4 \in 1 .. 4 + 2 * N BY <1>3
    <2> QED BY <1>5, <2>2, <2>3, ChecksAt
<1>11. \A i \in 1 .. 4 : build_program[i] = Header[i] BY <1>3, <1>4, <1>5
<1> QED BY <1>3, <1>7, <1>9, <1>10, <1>11, HeaderAt

\* What remains to be returned from the comparison with the k-th blocked call on.
Rest(k, v) == IF \E j \in 1 .. N : j >= k /\ Blocked[j] = v THEN "errno" ELSE "allow"

\* The instructions, by what each does next.
Instructions(h, nr, arch, acc) ==
    LET S(pc) == Step(h, build_program, nr, arch, <<pc, acc>>)
        v == Value(acc, nr, arch)
    IN  /\ S(1) = h[<<2, "arch">>]
        /\ S(2) = IF v = "x86_64" THEN h[<<4, acc>>] ELSE h[<<3, acc>>]
        /\ S(3) = "kill"
        /\ S(4) = h[<<5, "nr">>]
        /\ \A k \in 1 .. N :
             /\ S(2 * k + 3) = IF v = Blocked[k] THEN h[<<2 * k + 4, acc>>]
                               ELSE h[<<2 * k + 5, acc>>]
             /\ S(2 * k + 4) = "errno"
        /\ S(2 * N + 5) = "allow"

LEMMA StepAt ==
    ASSUME NEW h, NEW nr, NEW arch, NEW acc
    PROVE  Instructions(h, nr, arch, acc)
<1> DEFINE S(pc) == Step(h, build_program, nr, arch, <<pc, acc>>)
           v == Value(acc, nr, arch)
<1>0. N \in Nat BY ChecksAt
<1>1. ASSUME NEW pc, NEW field, build_program[pc] = Load(field)
      PROVE  S(pc) = h[<<pc + 1, field>>]
    BY <1>1 DEF Step, Load
<1>2. ASSUME NEW pc, NEW result, build_program[pc] = Ret(result)
      PROVE  S(pc) = result
    BY <1>2 DEF Step, Ret
<1>3. ASSUME NEW pc, NEW key, NEW jt, NEW jf, build_program[pc] = JumpEq(key, jt, jf)
      PROVE  S(pc) = h[<<pc + 1 + (IF v = key THEN jt ELSE jf), acc>>]
    BY <1>3 DEF Step, JumpEq
<1> HIDE DEF S, v
<1>4. S(1) = h[<<2, "arch">>] /\ S(3) = "kill" /\ S(4) = h[<<5, "nr">>] /\ S(2 * N + 5) = "allow"
    <2>1. 1 + 1 = 2 /\ 4 + 1 = 5 OBVIOUS
    <2> QED BY <1>1, <1>2, <2>1, Program
<1>5. S(2) = IF v = "x86_64" THEN h[<<4, acc>>] ELSE h[<<3, acc>>]
    <2>1. build_program[2] = JumpEq("x86_64", 1, 0) BY Program
    <2>2. S(2) = h[<<2 + 1 + (IF v = "x86_64" THEN 1 ELSE 0), acc>>] BY <1>3, <2>1, Zenon
    <2> QED BY <2>2
<1>6. ASSUME NEW k \in 1 .. N
      PROVE  /\ S(2 * k + 3) = IF v = Blocked[k] THEN h[<<2 * k + 4, acc>>]
                               ELSE h[<<2 * k + 5, acc>>]
             /\ S(2 * k + 4) = "errno"
    <2>1. S(2 * k + 4) = "errno" BY <1>2, Program
    <2>0. build_program[2 * k + 3] = JumpEq(Blocked[k], 0, 1) BY Program
    <2>2. S(2 * k + 3) = h[<<2 * k + 3 + 1 + (IF v = Blocked[k] THEN 0 ELSE 1), acc>>]
        BY <1>3, <2>0, Zenon
    <2>3. 2 * k + 3 + 1 + 0 = 2 * k + 4 /\ 2 * k + 3 + 1 + 1 = 2 * k + 5 BY <1>0
    <2> QED BY <2>1, <2>2, <2>3
<1> QED BY <1>4, <1>5, <1>6 DEF S, v, Instructions

LEMMA RestStep ==
    /\ \A k \in 1 .. N : \A v :
        Rest(k, v) = IF v = Blocked[k] THEN "errno" ELSE Rest(k + 1, v)
    /\ \A v : Rest(N + 1, v) = "allow"
<1>1. N \in Nat BY ChecksAt
<1>2. ASSUME NEW k \in 1 .. N, NEW v
      PROVE  Rest(k, v) = IF v = Blocked[k] THEN "errno" ELSE Rest(k + 1, v)
    <2>1. CASE v = Blocked[k] BY <1>1, <2>1 DEF Rest
    <2>2. CASE v # Blocked[k]
        <3>1. \A j \in 1 .. N : Blocked[j] = v => (j >= k <=> j >= k + 1) BY <1>1, <2>2
        <3> QED BY <2>2, <3>1 DEF Rest
    <2> QED BY <2>1, <2>2
<1>3. \A v : Rest(N + 1, v) = "allow" BY <1>1 DEF Rest
<1> QED BY <1>2, <1>3

\* The function that the interpreter's equation determines.
RanFrom(pc, v, nr, arch) ==
    IF pc = 1 THEN IF arch = "x86_64" THEN Rest(1, nr) ELSE "kill"
    ELSE IF pc = 2 THEN IF v = "x86_64" THEN Rest(1, nr) ELSE "kill"
    ELSE IF pc = 3 THEN "kill"
    ELSE IF pc = 4 THEN Rest(1, nr)
    ELSE IF \E k \in 1 .. N : pc = 2 * k + 4 THEN "errno"
    ELSE Rest(CHOOSE k \in 1 .. N + 1 : pc = 2 * k + 3, v)
Ran(nr, arch) ==
    [c \in Positions(build_program) |-> RanFrom(c[1], Value(c[2], nr, arch), nr, arch)]

\* Every position is in the header, a comparison, an errno return or the last.
LEMMA PositionCases ==
    ASSUME NEW n \in Nat, NEW pc \in 1 .. 5 + 2 * n
    PROVE  \/ pc \in {1, 2, 3, 4} \/ pc = 2 * n + 5
           \/ \E k \in 1 .. n : pc = 2 * k + 3 \/ pc = 2 * k + 4
<1>1. CASE pc \in 5 .. 4 + 2 * n
    <2>1. pc - 4 \in 1 .. 2 * n BY <1>1
    <2>2. PICK k \in 1 .. n : pc - 4 = 2 * k - 1 \/ pc - 4 = 2 * k BY <2>1, Parity
    <2> QED BY <2>2
<1> QED BY <1>1

LEMMA RanFromHeader ==
    ASSUME NEW v, NEW nr, NEW arch
    PROVE  /\ RanFrom(1, v, nr, arch) = IF arch = "x86_64" THEN Rest(1, nr) ELSE "kill"
           /\ RanFrom(2, v, nr, arch) = IF v = "x86_64" THEN Rest(1, nr) ELSE "kill"
           /\ RanFrom(3, v, nr, arch) = "kill"
           /\ RanFrom(4, v, nr, arch) = Rest(1, nr)
BY DEF RanFrom

LEMMA RanFromCompare ==
    ASSUME NEW v, NEW nr, NEW arch, NEW k \in 1 .. N + 1
    PROVE  RanFrom(2 * k + 3, v, nr, arch) = Rest(k, v)
<1>0. N \in Nat BY ChecksAt
<1>1. 2 * k + 3 \notin {1, 2, 3, 4} BY <1>0
<1>2. ~\E j \in 1 .. N : 2 * k + 3 = 2 * j + 4 BY <1>0
<1>3. (CHOOSE j \in 1 .. N + 1 : 2 * k + 3 = 2 * j + 3) = k
    <2>1. \A j \in 1 .. N + 1 : 2 * k + 3 = 2 * j + 3 <=> j = k BY <1>0
    <2> QED BY <2>1
<1> QED BY <1>1, <1>2, <1>3 DEF RanFrom

LEMMA RanFromErrno ==
    ASSUME NEW v, NEW nr, NEW arch, NEW k \in 1 .. N
    PROVE  RanFrom(2 * k + 4, v, nr, arch) = "errno"
<1>0. N \in Nat BY ChecksAt
<1>1. 2 * k + 4 \notin {1, 2, 3, 4} BY <1>0
<1> QED BY <1>1 DEF RanFrom

LEMMA RanSolves == ASSUME NEW nr, NEW arch PROVE Solves(Ran(nr, arch), build_program, nr, arch)
<1> DEFINE h == Ran(nr, arch)
           R(i, a) == h[<<i, a>>]
<1>0. N \in Nat BY ChecksAt
<1>1. ASSUME NEW pc \in 1 .. 5 + 2 * N, NEW acc \in {"none", "nr", "arch"}
      PROVE  R(pc, acc) = RanFrom(pc, Value(acc, nr, arch), nr, arch)
    <2>1. <<pc, acc>> \in Positions(build_program) BY Program DEF Positions
    <2> QED BY <2>1 DEF Ran
<1>2. h = [c \in Positions(build_program) |-> h[c]] BY DEF Ran
<1>3. Value("arch", nr, arch) = arch /\ Value("nr", nr, arch) = nr BY DEF Value
<1>4. ASSUME NEW pc \in 1 .. 5 + 2 * N, NEW acc \in {"none", "nr", "arch"}
      PROVE  R(pc, acc) = Step(h, build_program, nr, arch, <<pc, acc>>)
    <2> DEFINE S(i) == Step(h, build_program, nr, arch, <<i, acc>>)
               v == Value(acc, nr, arch)
    <2>1. /\ S(1) = R(2, "arch")
          /\ S(2) = IF v = "x86_64" THEN R(4, acc) ELSE R(3, acc)
          /\ S(3) = "kill" /\ S(4) = R(5, "nr")
          /\ \A k \in 1 .. N :
                /\ S(2 * k + 3) = IF v = Blocked[k] THEN R(2 * k + 4, acc) ELSE R(2 * k + 5, acc)
                /\ S(2 * k + 4) = "errno"
          /\ S(2 * N + 5) = "allow"
        <3>1. Instructions(h, nr, arch, acc) BY StepAt
        <3> HIDE DEF h
        <3> QED BY <3>1 DEF Instructions
    <2> HIDE DEF h, R, S, v
    <2>2. /\ \A i \in 1 .. 5 + 2 * N : R(i, acc) = RanFrom(i, v, nr, arch)
          /\ R(2, "arch") = RanFrom(2, arch, nr, arch)
          /\ R(5, "nr") = RanFrom(5, nr, nr, arch)
        <3>1. 2 \in 1 .. 5 + 2 * N /\ 5 \in 1 .. 5 + 2 * N BY <1>0
        <3> QED BY <1>1, <1>3, <3>1 DEF v
    <2>3. /\ \A k \in 1 .. N + 1 : R(2 * k + 3, acc) = Rest(k, v)
          /\ \A k \in 1 .. N : R(2 * k + 4, acc) = "errno"
        <3>1. /\ \A k \in 1 .. N + 1 : 2 * k + 3 \in 1 .. 5 + 2 * N
              /\ \A k \in 1 .. N : 2 * k + 4 \in 1 .. 5 + 2 * N
            BY <1>0
        <3>2. ASSUME NEW k \in 1 .. N + 1 PROVE R(2 * k + 3, acc) = Rest(k, v)
            <4>1. RanFrom(2 * k + 3, v, nr, arch) = Rest(k, v) BY RanFromCompare
            <4> QED BY <2>2, <3>1, <4>1
        <3>3. ASSUME NEW k \in 1 .. N PROVE R(2 * k + 4, acc) = "errno"
            <4>1. RanFrom(2 * k + 4, v, nr, arch) = "errno" BY RanFromErrno, Zenon
            <4> QED BY <2>2, <3>1, <4>1
        <3> QED BY <3>2, <3>3
    <2>4. R(5, "nr") = Rest(1, nr)
        <3>1. 1 \in 1 .. N + 1 /\ 2 * 1 + 3 = 5 BY <1>0
        <3>2. RanFrom(2 * 1 + 3, nr, nr, arch) = Rest(1, nr) BY <3>1, RanFromCompare, Zenon
        <3> QED BY <2>2, <3>1, <3>2
    <2>5. {1, 2, 3, 4} \subseteq 1 .. 5 + 2 * N BY <1>0
    <2>6. R(pc, acc) = S(pc)
        <3>1. CASE pc = 1 BY <2>1, <2>2, <3>1, RanFromHeader
        <3>2. CASE pc = 2
            <4>1. R(3, acc) = "kill" /\ R(4, acc) = Rest(1, nr) BY <2>2, <2>5, RanFromHeader
            <4> QED BY <2>1, <2>2, <3>2, <4>1, RanFromHeader
        <3>3. CASE pc = 3 BY <2>1, <2>2, <3>3, RanFromHeader
        <3>4. CASE pc = 4 BY <2>1, <2>2, <2>4, <3>4, RanFromHeader
        <3>5. CASE pc = 2 * N + 5
            <4>1. N + 1 \in 1 .. N + 1 /\ 2 * (N + 1) + 3 = 2 * N + 5 BY <1>0
            <4> QED BY <2>1, <2>3, <3>5, <4>1, RestStep
        <3>6. ASSUME NEW k \in 1 .. N, pc = 2 * k + 3 PROVE R(pc, acc) = S(pc)
            <4>1. k \in 1 .. N + 1 /\ k + 1 \in 1 .. N + 1 /\ 2 * (k + 1) + 3 = 2 * k + 5 BY <1>0
            <4>2. R(2 * k + 3, acc) = Rest(k, v) /\ R(2 * k + 5, acc) = Rest(k + 1, v)
                BY <2>3, <4>1
            <4>3. R(2 * k + 4, acc) = "errno" BY <2>3
            <4> QED BY <2>1, <3>6, <4>2, <4>3, RestStep
        <3>7. ASSUME NEW k \in 1 .. N, pc = 2 * k + 4 PROVE R(pc, acc) = S(pc)
            BY <2>1, <2>3, <3>7
        <3> QED BY <1>0, <3>1, <3>2, <3>3, <3>4, <3>5, <3>6, <3>7, PositionCases
    <2> QED BY <2>6 DEF S
<1> HIDE DEF h
<1>5. \A c \in Positions(build_program) : h[c] = Step(h, build_program, nr, arch, c)
    <2>1. ASSUME NEW c \in Positions(build_program)
          PROVE  c = <<c[1], c[2]>> /\ c[1] \in 1 .. 5 + 2 * N /\ c[2] \in {"none", "nr", "arch"}
        BY Program DEF Positions
    <2> QED BY <1>4, <2>1
<1>6. Solves(h, build_program, nr, arch) BY <1>2, <1>5, Zenon DEF Solves
<1> QED BY <1>6 DEF h

\* From the first comparison on, by going back from the last to the first.
LEMMA ComparisonsReturn ==
    ASSUME NEW h, NEW nr, NEW arch, Solves(h, build_program, nr, arch), NEW k \in 1 .. N + 1
    PROVE  h[<<2 * k + 3, "nr">>] = Rest(k, nr)
<1>0. N \in Nat BY ChecksAt
<1> DEFINE Wrong == {m \in 0 .. N : h[<<2 * (N + 1 - m) + 3, "nr">>] # Rest(N + 1 - m, nr)}
<1>1. \A pc \in 1 .. 5 + 2 * N : h[<<pc, "nr">>] = Step(h, build_program, nr, arch, <<pc, "nr">>)
    <2>1. \A pc \in 1 .. 5 + 2 * N : <<pc, "nr">> \in Positions(build_program)
        BY Program DEF Positions
    <2>2. \A c \in Positions(build_program) : h[c] = Step(h, build_program, nr, arch, c)
        BY Zenon DEF Solves
    <2> QED BY <2>1, <2>2
<1>2. Value("nr", nr, arch) = nr BY DEF Value
<1>3. /\ \A j \in 1 .. N : /\ h[<<2 * j + 3, "nr">>] = IF nr = Blocked[j] THEN h[<<2 * j + 4, "nr">>]
                                                       ELSE h[<<2 * j + 5, "nr">>]
                           /\ h[<<2 * j + 4, "nr">>] = "errno"
      /\ h[<<2 * N + 5, "nr">>] = "allow"
    <2>1. /\ 2 * N + 5 \in 1 .. 5 + 2 * N
          /\ \A j \in 1 .. N : 2 * j + 3 \in 1 .. 5 + 2 * N /\ 2 * j + 4 \in 1 .. 5 + 2 * N
        BY <1>0
    <2>2. Instructions(h, nr, arch, "nr") BY StepAt
    <2> QED BY <1>1, <1>2, <2>1, <2>2 DEF Instructions
<1>4. ASSUME Wrong # {} PROVE FALSE
    <2>1. PICK m \in Wrong : \A j \in Wrong : m <= j
        <3>1. Wrong \subseteq Nat BY <1>0
        <3> HIDE DEF Wrong
        <3> QED BY <1>4, <3>1, Least
    <2>2. m \in 0 .. N /\ h[<<2 * (N + 1 - m) + 3, "nr">>] # Rest(N + 1 - m, nr) BY <2>1
    <2>3. CASE m = 0
        <3>1. 2 * (N + 1 - 0) + 3 = 2 * N + 5 /\ N + 1 - 0 = N + 1 BY <1>0
        <3> QED BY <1>3, <2>2, <2>3, <3>1, RestStep
    <2>4. CASE m # 0
        <3>1. m - 1 \in 0 .. N /\ ~(m <= m - 1) BY <1>0, <2>2, <2>4
        <3>2. h[<<2 * (N + 1 - (m - 1)) + 3, "nr">>] = Rest(N + 1 - (m - 1), nr)
            BY <2>1, <3>1
        <3>3. PICK j \in 1 .. N : j = N + 1 - m BY <1>0, <2>2, <2>4
        <3>4. /\ 2 * (N + 1 - (m - 1)) + 3 = 2 * j + 5 /\ N + 1 - (m - 1) = j + 1
              /\ 2 * (N + 1 - m) + 3 = 2 * j + 3
            BY <1>0, <2>2, <3>3
        <3>5. h[<<2 * j + 5, "nr">>] = Rest(j + 1, nr) BY <3>2, <3>4
        <3>6. h[<<2 * j + 3, "nr">>] = Rest(j, nr) BY <1>3, <3>5, RestStep
        <3> QED BY <2>2, <3>3, <3>4, <3>6
    <2> QED BY <2>3, <2>4
<1>5. N + 1 - k \in 0 .. N /\ N + 1 - (N + 1 - k) = k BY <1>0
<1> QED BY <1>4, <1>5

\* The verdict on one system call.
LEMMA FilterVerdict ==
    ASSUME NEW nr, NEW arch
    PROVE  Filter(build_program, nr, arch) =
             IF arch # "x86_64" THEN "kill"
             ELSE IF \E k \in DOMAIN Blocked : Blocked[k] = nr THEN "errno" ELSE "allow"
<1>0. N \in Nat /\ DOMAIN Blocked = 1 .. N BY LaunchAssumption DEF N
<1>1. PICK h : /\ Solves(h, build_program, nr, arch)
               /\ Filter(build_program, nr, arch) = h[<<1, "none">>]
    BY RanSolves, FilterSolves
<1>2. ASSUME NEW pc \in 1 .. 5, NEW acc \in {"none", "nr", "arch"}
      PROVE  h[<<pc, acc>>] = Step(h, build_program, nr, arch, <<pc, acc>>)
    <2>1. <<pc, acc>> \in Positions(build_program) BY <1>0, Program DEF Positions
    <2>2. \A c \in Positions(build_program) : h[c] = Step(h, build_program, nr, arch, c)
        BY <1>1, Zenon DEF Solves
    <2> QED BY <2>1, <2>2
<1>3. /\ h[<<1, "none">>] = h[<<2, "arch">>]
      /\ h[<<2, "arch">>] = IF arch = "x86_64" THEN h[<<4, "arch">>] ELSE h[<<3, "arch">>]
      /\ h[<<3, "arch">>] = "kill" /\ h[<<4, "arch">>] = h[<<5, "nr">>]
    <2>1. Value("arch", nr, arch) = arch BY DEF Value
    <2>2. h[<<1, "none">>] = h[<<2, "arch">>]
        <3>1. Instructions(h, nr, arch, "none") BY StepAt
        <3> QED BY <1>2, <3>1 DEF Instructions
    <2>3. /\ h[<<2, "arch">>] = IF arch = "x86_64" THEN h[<<4, "arch">>] ELSE h[<<3, "arch">>]
          /\ h[<<3, "arch">>] = "kill" /\ h[<<4, "arch">>] = h[<<5, "nr">>]
        <3>1. Instructions(h, nr, arch, "arch") BY StepAt
        <3> QED BY <1>2, <2>1, <3>1 DEF Instructions
    <2> QED BY <2>2, <2>3
<1>4. h[<<5, "nr">>] = Rest(1, nr)
    <2>1. 1 \in 1 .. N + 1 /\ 2 * 1 + 3 = 5 BY <1>0
    <2> QED BY <1>1, <2>1, ComparisonsReturn
<1>5. Rest(1, nr) = IF \E k \in DOMAIN Blocked : Blocked[k] = nr THEN "errno" ELSE "allow"
    BY <1>0 DEF Rest
<1> QED BY <1>1, <1>3, <1>4, <1>5

\* seccomp.rs: for every list of blocked system calls, of whatever length and
\* order, an app's filter kills a call of another architecture, refuses exactly
\* the blocked ones with EPERM and allows all others.
THEOREM FilterExactHolds == Spec => []FilterExact
<1>1. ASSUME NEW nr \in Syscalls, NEW arch \in Arches
      PROVE  Verdicts[<<nr, arch>>] = Filter(build_program, nr, arch)
    BY DEF Verdicts
<1>2. ASSUME NEW nr \in Syscalls, NEW arch \in Arches
      PROVE  Verdicts[<<nr, arch>>] =
               IF arch # "x86_64" THEN "kill"
               ELSE IF \E k \in DOMAIN Blocked : Blocked[k] = nr THEN "errno" ELSE "allow"
    <2>1. Verdicts[<<nr, arch>>] = Filter(build_program, nr, arch) BY <1>1
    <2> QED BY <2>1, FilterVerdict, Zenon
<1>3. FilterExact BY <1>2, Zenon DEF FilterExact
<1> QED BY <1>3, PTL
=============================================================================
