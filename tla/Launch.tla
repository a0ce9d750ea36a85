------------------------------- MODULE Launch -------------------------------
(***************************************************************************)
(* What becomes of a process around its fork and exec: the start of a      *)
(* service (spawn_with_history), of a timer's run (spawn_oneshot) and of   *)
(* an app (apps::launch), with sandbox.rs, seccomp.rs, users.rs,           *)
(* cgroups.rs and the socket of notify.rs, on threads whose signal masks   *)
(* main and signals.rs arrange, up to the SIGTERM that ends it.            *)
(*                                                                         *)
(* There is one service name, over its successive instances, beside        *)
(* one-shot runs of it, apps and rescue shells.  Command and the kernel    *)
(* are external.  Command sets gid, groups, uid and the working directory, *)
(* in that order, then runs the pre_exec closure and exec, and reports the *)
(* first failure to its caller; it leaves the signal mask as it is (as std *)
(* has since Rust 1.66).  A child has its thread's mask; any call of the   *)
(* child may fail, unless the code ignores that, setgroups(0) only for     *)
(* want of privilege.  Whether a program obeys SIGTERM in time is open,    *)
(* and with it what the mask does to one that was started at boot.         *)
(* Option<T> is a set with at most one element.                            *)
(***************************************************************************)
EXTENDS Naturals, Sequences, FiniteSets, SequencesExt

CONSTANTS Defs,           \* the definitions the service may have
          Passwd, Group,  \* Option of the lines of /etc/passwd and /etc/group
          Blocked,        \* BLOCKED_SYSCALLS
          Syscalls,       \* the system call numbers looked at
          Width,          \* bits of the integer parse_size returns
          MaxLaunches     \* bound of the model

Root == 0
Arches == {"x86_64", "i386"}

\* user= and group= hold a number or a name; mem_max= a number, which may not
\* parse, and the factor of its suffix.
ASSUME LaunchAssumption ==
    /\ \A d \in Defs :
        /\ {d.critical, d.private_tmp, d.protect_system, d.no_new_privileges, d.workdir}
             \subseteq BOOLEAN
        /\ \A s \in d.user \cup d.group : s.num \subseteq Nat
        /\ \A s \in d.mem : s.num \subseteq Nat /\ s.mult \in Nat
    /\ \A file \in Passwd \cup Group : \A k \in DOMAIN file : file[k].id \subseteq Nat
    /\ Blocked \in Seq(Nat)
    /\ Syscalls \subseteq Nat /\ Width \in Nat /\ 2^Width \in Nat /\ MaxLaunches \in Nat

VARIABLES main,      \* where the main thread is: startup, the loop, shutdown
          open,      \* the threads that run with the handled signals unblocked
          child,     \* thread -> Option of the process it has forked, before its exec
          running,   \* the programs that run
          cgroup,    \* "service", "rescue" -> Option of the directory's memory.max, an Option
          leaked,    \* history: a mount reached the namespace of the system
          launches

processes == <<child, running, cgroup, leaked, launches>>
vars == <<main, open, child, running, cgroup, leaked, launches>>

-----------------------------------------------------------------------------
(* main, up to the event loop.  A thread inherits the mask of the one that *)
(* starts it.                                                              *)

With(from, new) == IF from \in open THEN open \cup {new} ELSE open

\* Mutant of block_handled: the wrong operation is given to pthread_sigmask.
UnblockFirst == main = "block" /\ main' = "spawn_listener" /\ UNCHANGED <<open, processes>>

block_handled ==
    /\ main = "block" /\ main' = "spawn_listener"
    /\ open' = open \ {"main"}
    /\ UNCHANGED processes

spawn_listener ==
    /\ main = "spawn_listener" /\ main' = "spawn_monitor"
    /\ open' = With("main", "ipc")
    /\ UNCHANGED processes

spawn_monitor ==
    /\ main = "spawn_monitor" /\ main' = "boot"
    /\ open' = With("main", "monitor")
    /\ UNCHANGED processes

\* After spawn_all.
unblock_handled ==
    /\ main = "boot" /\ child["main"] = {} /\ main' = "loop"
    /\ open' = open \cup {"main"}
    /\ UNCHANGED processes

-----------------------------------------------------------------------------
(* users.rs and parse_size.                                                *)

\* The first line with the name decides, even if its number does not parse.
resolve_from_text(lines, name) ==
    LET k == SelectInSeq(lines, LAMBDA l : l.name = name) IN IF k = 0 THEN {} ELSE lines[k].id

\* resolve_uid with Passwd, resolve_gid with Group.
Resolve(spec, file) ==
    IF spec.num # {} THEN spec.num
    ELSE UNION {resolve_from_text(lines, spec.name) : lines \in file}

Uid(def) == UNION {Resolve(s, Passwd) : s \in def.user}
Gid(def) == UNION {Resolve(s, Group) : s \in def.group}
OrRoot(id) == IF id = {} THEN Root ELSE CHOOSE n \in id : TRUE

\* The multiplication wraps around in a release build.
parse_size(s) == {(n * s.mult) % 2^Width : n \in s.num}

memory_limit(def) == UNION {parse_size(s) : s \in def.mem}

-----------------------------------------------------------------------------
(* What the child does before exec, as the sequence of its calls.          *)

If(cond, steps) == IF cond THEN steps ELSE << >>

CommandSteps(uid, gid, workdir, pre_exec) ==
    If(gid # {}, <<"setgid">>) \o If(uid # {}, <<"setgroups", "setuid">>)
    \o If(workdir, <<"chdir">>) \o pre_exec

is_empty(def) == ~def.private_tmp /\ ~def.protect_system /\ ~def.no_new_privileges

\* Mutant of ServiceSandboxSteps: the tree is made private for /tmp alone.
PrivateForTmpOnly(def) ==
    If(def.private_tmp \/ def.protect_system, <<"unshare mnt">>)
    \o If(def.private_tmp, <<"make private", "mount tmpfs">>)
    \o If(def.protect_system, <<"protect_system">>)
    \o If(def.no_new_privileges, <<"no_new_privs">>)

\* ServiceSandbox::apply.
ServiceSandboxSteps(def) ==
    If(def.private_tmp \/ def.protect_system, <<"unshare mnt", "make private">>)
    \o If(def.private_tmp, <<"mount tmpfs">>)
    \o If(def.protect_system, <<"protect_system">>)
    \o If(def.no_new_privileges, <<"no_new_privs">>)

\* Mutants of ServiceSteps: Command drops the privileges in both branches; the
\* sandboxed branch forgets the group.
CommandDropsAlways(def) ==
    CommandSteps(Uid(def), Gid(def), def.workdir, ServiceSandboxSteps(def))
SandboxedWithoutGroup(def) ==
    IF is_empty(def) THEN CommandSteps(Uid(def), Gid(def), def.workdir, << >>)
    ELSE CommandSteps({}, {}, def.workdir,
             ServiceSandboxSteps(def)
             \o If(Gid(def) # {}, <<"setgroups">>) \o If(Uid(def) # {}, <<"setuid">>))

\* With a sandbox the privileges are dropped by hand, after it.
ServiceSteps(def) ==
    IF is_empty(def) THEN CommandSteps(Uid(def), Gid(def), def.workdir, << >>)
    ELSE CommandSteps({}, {}, def.workdir,
             ServiceSandboxSteps(def)
             \o If(Gid(def) # {}, <<"setgroups", "setgid">>) \o If(Uid(def) # {}, <<"setuid">>))

\* A timer's run has no sandbox.
OneshotSteps(def) == CommandSteps(Uid(def), Gid(def), def.workdir, << >>)

\* Sandbox::apply.
AppSteps == <<"unshare all", "make private", "mount tmpfs", "no_new_privs", "drop capabilities",
              "seccomp">>

\* What a call needs, whether it mounts, and the steps whose results the code
\* ignores: each path and each capability is passed over that cannot be done.
NeedsRoot == {"setgid", "setgroups", "setuid", "unshare mnt", "unshare all", "make private",
              "mount tmpfs", "protect_system"}
Mounts == {"mount tmpfs", "protect_system"}
CannotFail == {"protect_system", "drop capabilities"}

\* The process after a call that succeeds.
After(p, call) ==
    CASE call = "setgid" -> [p EXCEPT !.gid = OrRoot(Gid(p.def))]
      [] call = "setuid" -> [p EXCEPT !.uid = OrRoot(Uid(p.def))]
      [] call = "setgroups" -> [p EXCEPT !.groups = FALSE]
      [] call = "unshare mnt" -> [p EXCEPT !.own = {"mnt"}]
      [] call = "unshare all" -> [p EXCEPT !.own = {"mnt", "uts", "ipc"}]
      [] call = "chdir" -> p
      [] OTHER -> [p EXCEPT !.has = @ \cup {call}]

-----------------------------------------------------------------------------
(* seccomp.rs: the program, and the kernel's interpreter of it.            *)

Load(k) == [op |-> "ld", k |-> k, jt |-> 0, jf |-> 0]
JumpEq(k, jt, jf) == [op |-> "jeq", k |-> k, jt |-> jt, jf |-> jf]
Ret(k) == [op |-> "ret", k |-> k, jt |-> 0, jf |-> 0]

\* Mutant of build_program: a match jumps over its errno return.
ProgramSkipsMatch ==
    <<Load("arch"), JumpEq("x86_64", 1, 0), Ret("kill"), Load("nr")>>
    \o [i \in 1 .. 2 * Len(Blocked) |->
          IF i % 2 = 1 THEN JumpEq(Blocked[(i + 1) \div 2], 1, 0) ELSE Ret("errno")]
    \o <<Ret("allow")>>

\* For each blocked call a comparison and the return of its errno.
build_program ==
    <<Load("arch"), JumpEq("x86_64", 1, 0), Ret("kill"), Load("nr")>>
    \o [i \in 1 .. 2 * Len(Blocked) |->
          IF i % 2 = 1 THEN JumpEq(Blocked[(i + 1) \div 2], 0, 1) ELSE Ret("errno")]
    \o <<Ret("allow")>>

\* From instruction c[1] on; c[2] is the field the accumulator was loaded from.
Filter(prog, nr, arch) ==
    LET value(acc) == IF acc = "nr" THEN nr ELSE arch
        from[c \in (1 .. Len(prog)) \X {"none", "nr", "arch"}] ==
            LET i == prog[c[1]]
            IN  CASE i.op = "ld" -> from[<<c[1] + 1, i.k>>]
                  [] i.op = "ret" -> i.k
                  [] i.op = "jeq" ->
                        from[<<c[1] + 1 + (IF value(c[2]) = i.k THEN i.jt ELSE i.jf), c[2]>>]
    IN  from[<<1, "none">>]

Verdicts == [c \in Syscalls \X Arches |-> Filter(build_program, c[1], c[2])]

-----------------------------------------------------------------------------
(* Fork, the child's calls, exec.                                          *)

\* A process just after fork; the definition of an app is unused.
AnyDef == CHOOSE d \in Defs : TRUE
Forked(kind, def, steps, sock) ==
    [kind |-> kind, def |-> def, steps |-> steps, uid |-> Root, gid |-> Root, groups |-> TRUE, own |-> {}, has |-> {}, sock |-> sock,
     cg |-> "none"]

\* The directory is closed to all but root; the socket is bound anew and
\* given to the service, or not if chown fails, and gets a thread.
listen_for(def) ==
    {[dir_mode |-> 700, owner |-> o] : o \in {Root, OrRoot(Uid(def))}}

\* spawn_with_history, up to the fork.
SpawnService(def) ==
    /\ main \in {"boot", "loop"} /\ child["main"] = {} /\ launches < MaxLaunches
    /\ \A p \in running : p.kind # "service"
    /\ \E sock \in {{}} \cup {{s} : s \in listen_for(def)} :
        /\ open' = IF sock = {} THEN open
                   ELSE With("main", IF main = "loop" THEN "late listener" ELSE "listener")
        /\ child' = [child EXCEPT !["main"] = {Forked("service", def, ServiceSteps(def), sock)}]
    /\ launches' = launches + 1
    /\ UNCHANGED <<main, running, cgroup, leaked>>

spawn_oneshot(def) ==
    /\ main = "loop" /\ child["main"] = {} /\ launches < MaxLaunches
    /\ child' = [child EXCEPT !["main"] = {Forked("oneshot", def, OneshotSteps(def), {})}]
    /\ launches' = launches + 1
    /\ UNCHANGED <<main, open, running, cgroup, leaked>>

\* apps::launch, on the thread of the control socket, whatever main is at.
LaunchApp ==
    /\ main \notin {"block", "spawn_listener", "acked"} /\ child["ipc"] = {} /\ launches < MaxLaunches
    /\ child' = [child EXCEPT !["ipc"] = {Forked("app", AnyDef, AppSteps, {})}]
    /\ launches' = launches + 1
    /\ UNCHANGED <<main, open, running, cgroup, leaked>>

\* The next call of the child succeeds.
ChildCall(t) ==
    /\ \E p \in child[t] :
        /\ p.steps # << >>
        /\ Head(p.steps) \in NeedsRoot => p.uid = Root
        /\ child' = [child EXCEPT ![t] = {[After(p, Head(p.steps)) EXCEPT !.steps = Tail(@)]}]
        /\ leaked' = (leaked \/ (Head(p.steps) \in Mounts /\ "make private" \notin p.has))
    /\ UNCHANGED <<main, open, running, cgroup, launches>>

\* A call, or exec, fails and spawn returns the error; for a critical service
\* the rescue shell is forked instead.
SpawnFails(t) ==
    /\ \E p \in child[t] :
        /\ p.steps # << >> => /\ Head(p.steps) \notin CannotFail
                              /\ Head(p.steps) = "setgroups" => p.uid # Root
        /\ child' = [child EXCEPT ![t] =
                        IF p.kind = "service" /\ p.def.critical
                        THEN {Forked("rescue", p.def, << >>, {})} ELSE {}]
    /\ UNCHANGED <<main, open, running, cgroup, leaked, launches>>

\* Mutant of create_under: the limit is written into a new directory only.
LimitOnlyNew(kind, limit, wrote) ==
    cgroup' = [cgroup EXCEPT ![kind] = {IF @ = {} /\ wrote THEN limit ELSE UNION @}]

\* The directory is made or reused; the limit, if there is one, is written.
create_under(kind, limit, wrote) ==
    cgroup' = [cgroup EXCEPT ![kind] = {IF limit # {} /\ wrote THEN limit ELSE UNION @}]

\* exec succeeds, and the parent places a service or rescue shell in its
\* cgroup: mkdir, the write of the limit and attach may fail, and nothing
\* comes of that.  An app gets a cgroup that no other ever had, and no limit.
Exec(t) ==
    /\ \E p \in child[t] :
        /\ p.steps = << >>
        /\ \/ /\ p.kind \in {"service", "rescue"}
              /\ LET limit == IF p.kind = "service" THEN memory_limit(p.def) ELSE {}
                 IN  \/ /\ cgroup[p.kind] = {} /\ UNCHANGED cgroup
                        /\ running' = running \cup {p}
                     \/ \E wrote \in BOOLEAN :
                        /\ create_under(p.kind, limit, wrote)
                        /\ \E cg \in {"none", IF limit # {} /\ ~wrote THEN "unset"
                                              ELSE IF cgroup[p.kind] = {} THEN "fresh" ELSE "reused"} :
                            running' = running \cup {[p EXCEPT !.cg = cg]}
           \/ p.kind \in {"oneshot", "app"} /\ running' = running \cup {p} /\ UNCHANGED cgroup
    /\ child' = [child EXCEPT ![t] = {}]
    /\ UNCHANGED <<main, open, leaked, launches>>

-----------------------------------------------------------------------------
(* The end of a program.                                                   *)

\* The members are killed, but the directory cannot be removed while one of
\* them is still on its way out; then it stays, with its limit.
kill_and_remove(kinds) ==
    \E busy \in SUBSET kinds :
        cgroup' = [k \in DOMAIN cgroup |-> IF k \in kinds \ busy THEN {} ELSE cgroup[k]]

Supervised == {p \in running : p.kind \in {"service", "rescue"}}

\* An exit that the loop reaps: handle_exit for a service, and the halt that
\* a critical one brings unless a reload is undone instead.
Exit(p) ==
    /\ main = "loop" /\ child["main"] = {}
    /\ running' = running \ {p}
    /\ \/ p.kind \in {"oneshot", "app"} /\ UNCHANGED <<main, cgroup>>
       \/ /\ p \in Supervised /\ kill_and_remove({p.kind})
          /\ main' \in {IF p.kind = "rescue" THEN "shutdown" ELSE "loop",
                        IF p.def.critical THEN "shutdown" ELSE main}
    /\ UNCHANGED <<open, child, leaked, launches>>

\* reload_services stops the service; SIGKILL after the grace.
stop_one(p) ==
    /\ main = "loop" /\ child["main"] = {} /\ p \in Supervised
    /\ running' = running \ {p}
    /\ kill_and_remove({p.kind})
    /\ UNCHANGED <<main, open, child, leaked, launches>>

\* A relayed signal: shutdown_all sends SIGTERM.
Shutdown ==
    /\ main = "loop" /\ child["main"] = {} /\ main' = "shutdown"
    /\ UNCHANGED <<open, processes>>

Obey(p) ==
    /\ main = "shutdown" /\ p \in Supervised
    /\ running' = running \ {p}
    /\ UNCHANGED <<main, open, child, cgroup, leaked, launches>>

\* shutdown_all from its deadline on: SIGKILL for the rest.
GraceOver ==
    /\ main = "shutdown" /\ main' = "acked"
    /\ running' = running \ Supervised
    /\ kill_and_remove({"service", "rescue"})
    /\ UNCHANGED <<open, child, leaked, launches>>

Init ==
    /\ main = "block" /\ open = {"main"}
    /\ child = [t \in {"main", "ipc"} |-> {}] /\ running = {}
    /\ cgroup = [k \in {"service", "rescue"} |-> {}]
    /\ leaked = FALSE /\ launches = 0

Startup == block_handled \/ spawn_listener \/ spawn_monitor \/ unblock_handled

Next ==
    \/ Startup \/ LaunchApp \/ Shutdown \/ GraceOver
    \/ \E def \in Defs : SpawnService(def) \/ spawn_oneshot(def)
    \/ \E t \in {"main", "ipc"} : ChildCall(t) \/ SpawnFails(t) \/ Exec(t)
    \/ \E p \in running : Exit(p) \/ stop_one(p) \/ Obey(p)

Spec == Init /\ [][Next]_vars

-----------------------------------------------------------------------------
(* Properties.                                                             *)

\* Types of the threads, the children, the programs and the cgroups.
TypeOK ==
    /\ main \in {"block", "spawn_listener", "spawn_monitor", "boot", "loop", "shutdown", "acked"}
    /\ open \subseteq {"main", "ipc", "monitor", "listener", "late listener"}
    /\ \A t \in {"main", "ipc"} : Cardinality(child[t]) <= 1
    /\ \A k \in {"service", "rescue"} : Cardinality(cgroup[k]) <= 1 /\ UNION cgroup[k] \subseteq Nat
    /\ leaked \in BOOLEAN /\ launches \in 0 .. MaxLaunches

Has(p, step) == step \in p.has

\* sandbox.rs: no program starts with less isolation than it was to have,
\* whichever of the calls before its exec fail, and none of their mounts is
\* seen by the rest of the system.  (Rescue shells and timers' runs have no
\* sandbox; a path that cannot be made read-only and a capability that cannot
\* be dropped are passed over.)
Isolated ==
    /\ ~leaked
    /\ \A p \in running :
        /\ p.kind = "app" =>
            /\ p.own = {"mnt", "uts", "ipc"}
            /\ \A step \in {"mount tmpfs", "no_new_privs", "drop capabilities", "seccomp"} : Has(p, step)
        /\ p.kind = "service" =>
            /\ p.def.private_tmp => Has(p, "mount tmpfs")
            /\ p.def.protect_system => "mnt" \in p.own /\ Has(p, "protect_system")
            /\ p.def.no_new_privileges => Has(p, "no_new_privs")

\* supervisor.rs: Command's privilege drop "would drop CAP_SYS_ADMIN before the
\* sandbox's own unshare()/mount() calls get a chance to run".  Whatever mixture
\* of user=, group= and sandbox options a service has, no call of its child
\* comes after the privilege it needs is gone.
PrivilegeSuffices ==
    \A t \in {"main", "ipc"} : \A p \in child[t] :
        p.steps # << >> /\ Head(p.steps) \in NeedsRoot => p.uid = Root

\* A service or timer's run has the user its definition resolves to, root for
\* one that is not given or not found, along both ways of dropping privileges, and
\* so for its group, when there is a group= or no user=.  (With a user= alone
\* config.rs has it get "the default group for `user`"; the code leaves it root's.)
\* Without root it has none of root's other groups, except along the sandboxed way
\* without a group=, which does not call setgroups.
IdentityAsResolved ==
    \A p \in {q \in running : q.kind \in {"service", "oneshot"}} :
        /\ p.uid = OrRoot(Uid(p.def))
        /\ p.def.group # {} \/ p.def.user = {} => p.gid = OrRoot(Gid(p.def))
        /\ p.uid # Root /\ p.groups => p.kind = "service" /\ ~is_empty(p.def) /\ Gid(p.def) = {}

Configured(def) == UNION {{n * s.mult : n \in s.num} : s \in def.mem}

\* cgroups.rs: once the limit could be written, the service's cgroup enforces
\* the limit of the definition it was started from, through every restart with
\* another one, whether or not the old directory could be removed.  It does not
\* for a product too large for the integer, which wraps around, and a service
\* without a limit that finds the old directory keeps the limit it has.
LimitInForce ==
    \A p \in running :
        /\ p.kind = "service" /\ p.cg \in {"fresh", "reused"}
        /\ \A n \in Configured(p.def) : n < 2^Width
        => \/ cgroup["service"] = {Configured(p.def)}
           \/ p.cg = "reused" /\ Configured(p.def) = {}

\* signals.rs: "so delivery is guaranteed to land there", on the main thread.
\* Until the loop no thread takes a handled signal, and in the loop the main
\* thread does and no worker that startup made.  The listener of a service
\* started from the loop is the exception: it inherits the open mask.
MainHears ==
    /\ main = "boot" => open = {}
    /\ main \in {"loop", "shutdown", "acked"} =>
        "main" \in open /\ open \subseteq {"main", "late listener"}

\* seccomp.rs: under the filter of a running app each system call has exactly
\* the fate the module says: killed on another architecture, EPERM for the
\* blocked ones and allowed otherwise, wherever it is in the list.
FilterExact ==
    \A p \in running : Has(p, "seccomp") =>
        \A nr \in Syscalls, arch \in Arches :
            Verdicts[<<nr, arch>>] = IF arch # "x86_64" THEN "kill"
                                     ELSE IF \E k \in DOMAIN Blocked : Blocked[k] = nr THEN "errno"
                                     ELSE "allow"

\* Who may send to a notify socket: root, or its owner if it can get there.
CanSend(uid, s) == uid = Root \/ (s.dir_mode # 700 /\ s.owner = uid)

\* notify.rs: "the socket is chowned to match, so a privilege-dropped service
\* can still write to its own socket".
SocketWritable ==
    \A p \in running : \A s \in p.sock : s.owner = p.uid => CanSend(p.uid, s)

=============================================================================
