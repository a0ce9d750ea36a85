------------------------------ MODULE Journal -------------------------------
(***************************************************************************)
(* logging.rs, journal.rs, the LOGS command of ipc.rs and the memory       *)
(* pressure monitor of oom.rs: several threads log at once, the main       *)
(* thread changes the level, and the control socket answers LOGS.          *)
(*                                                                         *)
(* A line is stamped before the journal's lock is taken and written out    *)
(* after it has been given back, so between the three another thread may   *)
(* run.  The text of a line is the number its thread gives it; a filter is *)
(* the set of threads whose lines it matches.  Option<T> is a set with at  *)
(* most one element.                                                       *)
(***************************************************************************)
EXTENDS Naturals, Sequences, FiniteSets, Functions, Bags

CONSTANTS Threads, Main, Monitor,  \* the threads that log, two of them by name
          Levels,     \* the levels that are set, and logged at
          MAX_LINES,
          Readings,   \* what /proc/pressure/memory may hold
          WARN_THRESHOLD,
          MaxLogged, MaxTime  \* bounds of the model

Error == 0
Warn == 1
Info == 2
Debug == 3
Level == {Error, Warn, Info, Debug}

\* One reading: the avg10 of the "some" and of the "full" line, where there is
\* one that parses, and whether some line has no space in it.
Reading == [some : SUBSET Nat, full : SUBSET Nat, junk : BOOLEAN]

ASSUME JournalAssumption ==
    /\ {Main, Monitor} \subseteq Threads /\ IsFiniteSet(Threads)
    /\ MAX_LINES \in Nat \ {0} /\ Readings \subseteq Reading /\ Levels \subseteq Level /\ WARN_THRESHOLD \in Nat
    /\ MaxLogged \in Nat /\ MaxTime \in Nat

Line == [by : Threads, no : Nat, level : Level, at : Nat]

VARIABLES CURRENT_LEVEL,
          JOURNAL,   \* the VecDeque
          KMSG,      \* whether /dev/kmsg could be opened at init
          pc,        \* thread -> where it is in write_line, "idle" outside
          line,      \* thread -> Option of the line it is writing
          kmsg, console,  \* the bag of lines written to each
          recorded,  \* history: every line that record was called with
          said,      \* history: thread -> lines it has let through so far
          done,      \* history: the lines whose write_line has returned
          lost,      \* history: those of them that neither output would take
          now

vars == <<CURRENT_LEVEL, JOURNAL, KMSG, pc, line, kmsg, console, recorded, said,
          done, lost, now>>

-----------------------------------------------------------------------------
(* write_line, in the steps other threads can come between.                *)

Logged == Len(recorded) + Cardinality({t \in Threads : pc[t] = "record"})

\* The level is read once; a line that it stops leaves nothing behind.
WriteLine(t, level) ==
    /\ pc[t] = "idle" /\ Logged < MaxLogged
    /\ level <= CURRENT_LEVEL
    /\ line' = [line EXCEPT ![t] = {[by |-> t, no |-> said[t] + 1, level |-> level, at |-> now]}]
    /\ said' = [said EXCEPT ![t] = @ + 1]
    /\ pc' = [pc EXCEPT ![t] = "record"]
    /\ UNCHANGED <<CURRENT_LEVEL, JOURNAL, KMSG, kmsg, console, recorded, done, lost, now>>

\* Mutant of Pushed: the length is compared after the push.
PushedBeyond(j, l) == Append(IF Len(j) > MAX_LINES THEN Tail(j) ELSE j, l)

\* What record makes of the journal.
Pushed(j, l) == Append(IF Len(j) >= MAX_LINES THEN Tail(j) ELSE j, l)

record(t) ==
    /\ pc[t] = "record"
    /\ \E l \in line[t] : /\ JOURNAL' = Pushed(JOURNAL, l)
                          /\ recorded' = Append(recorded, l)
    /\ pc' = [pc EXCEPT ![t] = "kmsg"]
    /\ UNCHANGED <<CURRENT_LEVEL, KMSG, line, kmsg, console, said, done, lost, now>>

\* The lines that LOGS answers with, by their places in the journal: it sends
\* them in that order.  The filter is the threads whose lines match.
recent(filter) == {i \in DOMAIN JOURNAL : JOURNAL[i].by \in filter}

Returned(t) ==
    /\ pc' = [pc EXCEPT ![t] = "idle"]
    /\ line' = [line EXCEPT ![t] = {}]
    /\ done' = done \cup line[t]

\* Mutant of WriteKmsg: a write that fails counts as written.
WriteKmsgUnchecked(t) ==
    /\ pc[t] = "kmsg"
    /\ \/ KMSG /\ Returned(t) /\ kmsg' \in {kmsg, kmsg (+) SetToBag(line[t])}
       \/ /\ ~KMSG /\ pc' = [pc EXCEPT ![t] = "console"]
          /\ UNCHANGED <<line, done, kmsg>>
    /\ UNCHANGED <<CURRENT_LEVEL, JOURNAL, KMSG, console, recorded, said, lost, now>>

\* The write succeeds or fails; without /dev/kmsg it is not tried.
WriteKmsg(t) ==
    /\ pc[t] = "kmsg"
    /\ \/ KMSG /\ Returned(t) /\ kmsg' = kmsg (+) SetToBag(line[t])
       \/ pc' = [pc EXCEPT ![t] = "console"] /\ UNCHANGED <<line, done, kmsg>>
    /\ UNCHANGED <<CURRENT_LEVEL, JOURNAL, KMSG, console, recorded, said, lost, now>>

\* stderr or stdout, by the level; the result of the write is not looked at.
WriteConsole(t) ==
    /\ pc[t] = "console"
    /\ \/ console' = console (+) SetToBag(line[t]) /\ UNCHANGED lost
       \/ lost' = lost \cup line[t] /\ UNCHANGED console
    /\ Returned(t)
    /\ UNCHANGED <<CURRENT_LEVEL, JOURNAL, KMSG, kmsg, recorded, said, now>>

-----------------------------------------------------------------------------
(* The threads.                                                            *)

\* A reload or a rollback, on the main thread.
set_level ==
    /\ pc[Main] = "idle"
    /\ CURRENT_LEVEL' \in Levels
    /\ UNCHANGED <<JOURNAL, KMSG, pc, line, kmsg, console, recorded, said, done, lost,
                   now>>

\* None unless every line has a label and both averages are there.
parse_pressure(r) ==
    IF r.junk \/ r.some = {} \/ r.full = {} THEN {} ELSE {CHOOSE n \in r.some : TRUE}

\* One turn of the monitor's loop that has something to say.
MonitorWarns ==
    /\ \E r \in Readings : \E some_avg10 \in parse_pressure(r) : some_avg10 >= WARN_THRESHOLD
    /\ WriteLine(Monitor, Warn)

Log(t) == \E level \in Levels : WriteLine(t, level)

Tick ==
    /\ now < MaxTime /\ now' = now + 1
    /\ UNCHANGED <<CURRENT_LEVEL, JOURNAL, KMSG, pc, line, kmsg, console, recorded,
                   said, done, lost>>

Init ==
    /\ CURRENT_LEVEL = Info /\ JOURNAL = << >> /\ KMSG \in BOOLEAN
    /\ pc = [t \in Threads |-> "idle"] /\ line = [t \in Threads |-> {}]
    /\ kmsg = EmptyBag /\ console = EmptyBag
    /\ recorded = << >> /\ said = [t \in Threads |-> 0] /\ done = {} /\ lost = {} /\ now = 0

Output(t) == record(t) \/ WriteKmsg(t) \/ WriteConsole(t)

Next ==
    \/ set_level \/ MonitorWarns \/ Tick
    \/ \E t \in Threads : Output(t) \/ (t # Monitor /\ Log(t))

Spec == Init /\ [][Next]_vars

-----------------------------------------------------------------------------
(* Properties.                                                             *)

\* Types of the journal, the threads' positions and the outputs.
TypeOK ==
    /\ CURRENT_LEVEL \in Level /\ JOURNAL \in Seq(Line) /\ KMSG \in BOOLEAN
    /\ pc \in [Threads -> {"idle", "record", "kmsg", "console"}]
    /\ \A t \in Threads : line[t] \subseteq Line /\ (line[t] # {} <=> pc[t] # "idle")
    /\ BagToSet(kmsg) \subseteq Line /\ BagToSet(console) \subseteq Line /\ recorded \in Seq(Line)
    /\ said \in [Threads -> Nat] /\ done \subseteq Line /\ lost \subseteq done /\ now \in Nat

LastLines(s, n) == SubSeq(s, IF Len(s) > n THEN Len(s) - n + 1 ELSE 1, Len(s))

\* journal.rs: "dropping the oldest line first if it's already at MAX_LINES".
\* Through any interleaving of the threads LOGS shows exactly the last MAX_LINES
\* lines recorded, and with a filter each thread's lines in the order it wrote
\* them, without a gap and with times that do not go back.  (Lines of different
\* threads may: they are stamped before the lock is taken.)
JournalIsTail ==
    /\ JOURNAL = LastLines(recorded, MAX_LINES) /\ recent(Threads) = DOMAIN JOURNAL
    /\ \A t \in Threads : \A i, j \in recent({t}) :
        i < j /\ (\A k \in recent({t}) : ~(i < k /\ k < j)) =>
            JOURNAL[j].no = JOURNAL[i].no + 1 /\ JOURNAL[i].at <= JOURNAL[j].at

\* logging.rs: every line whose write_line has returned is recorded for LOGS,
\* and is in /dev/kmsg or, if that could not be written, on the console, once
\* and not in both, whichever thread's write failed and however the threads came
\* between each other.  The one exception is a line that both outputs refused
\* (lost): write_line drops the console's error, and only LOGS has the line.
EveryLineOut ==
    LET out == kmsg (+) console
    IN  /\ \A l \in done \ lost : BagIn(l, out) /\ out[l] = 1
        /\ \A l \in lost : ~BagIn(l, out)
        /\ done \cup BagToSet(out) \subseteq Range(recorded)

=============================================================================
