---------------------------- MODULE JournalProofs ---------------------------
(***************************************************************************)
(* Theorems about logging and the journal, for any number of threads and   *)
(* lines, any size of the journal and any writes that fail: types, that    *)
(* LOGS answers from the last lines recorded, in each thread's own order,  *)
(* and that every line comes out once unless both outputs refuse it.       *)
(***************************************************************************)
EXTENDS Journal, SequenceTheorems, TLAPS

Types ==
    /\ CURRENT_LEVEL \in Level /\ JOURNAL \in Seq(Line) /\ recorded \in Seq(Line)
    /\ pc \in [Threads -> {"idle", "record", "kmsg", "console"}]
    /\ line \in [Threads -> SUBSET Line]
    /\ said \in [Threads -> Nat] /\ done \subseteq Line /\ now \in Nat

\* A thread inside write_line holds the last line it was given.
InHand(t, l) == line[t] = {l} /\ l.by = t /\ l.no = said[t] /\ l.no >= 1 /\ l.at <= now

HandInv == \A t \in Threads :
    IF pc[t] = "idle" THEN line[t] = {} ELSE \E l \in Line : InHand(t, l)

\* How many of its lines a thread has recorded.
Recorded == [t \in Threads |-> IF pc[t] = "record" THEN said[t] - 1 ELSE said[t]]

(* What is recorded of a thread is its lines from the first to the last,   *)
(* in the order it wrote them; a line about to be recorded is later than   *)
(* those.                                                                  *)
RecordedInv ==
    /\ \A i \in 1 .. Len(recorded) :
        recorded[i].no <= Recorded[recorded[i].by] /\ recorded[i].at <= now
    /\ \A t \in Threads : \A n \in Nat : 1 <= n /\ n <= Recorded[t] =>
        \E i \in 1 .. Len(recorded) : recorded[i].by = t /\ recorded[i].no = n
    /\ \A i, j \in 1 .. Len(recorded) : i < j /\ recorded[i].by = recorded[j].by =>
        recorded[i].no < recorded[j].no /\ recorded[i].at <= recorded[j].at
    /\ \A t \in Threads : pc[t] = "record" =>
        \A l \in line[t] : \A i \in 1 .. Len(recorded) :
            recorded[i].by = t => recorded[i].at <= l.at

\* The journal is the end of what was recorded, place by place.
TailInv ==
    /\ Len(JOURNAL) = IF Len(recorded) > MAX_LINES THEN MAX_LINES ELSE Len(recorded)
    /\ \A i \in 1 .. Len(JOURNAL) :
        JOURNAL[i] = recorded[Len(recorded) - Len(JOURNAL) + i]

(* The outputs hold the lines that are done with and not lost, each once   *)
(* and in one of them; a line in hand is in neither, and is recorded       *)
(* before it is written out.                                               *)
OutInv ==
    /\ DOMAIN kmsg \cap DOMAIN console = {} /\ lost \cap (DOMAIN kmsg \cup DOMAIN console) = {}
    /\ DOMAIN kmsg \cup DOMAIN console \cup lost = done
    /\ \A l \in DOMAIN kmsg : kmsg[l] = 1
    /\ \A l \in DOMAIN console : console[l] = 1
    /\ done \subseteq Range(recorded)
    /\ \A t \in Threads : line[t] \cap done = {}
    /\ \A t \in Threads : pc[t] \in {"kmsg", "console"} => line[t] \subseteq Range(recorded)

JournalInv == Types /\ HandInv /\ RecordedInv /\ TailInv /\ OutInv /\ KMSG \in BOOLEAN

-----------------------------------------------------------------------------
(* The steps by what they do.                                              *)

\* A thread takes up a new line.
Said(t, l) ==
    /\ pc[t] = "idle" /\ pc' = [pc EXCEPT ![t] = "record"]
    /\ l \in Line /\ l.by = t /\ l.no = said[t] + 1 /\ l.at = now
    /\ line' = [line EXCEPT ![t] = {l}] /\ said' = [said EXCEPT ![t] = @ + 1]
    /\ UNCHANGED <<CURRENT_LEVEL, JOURNAL, KMSG, kmsg, console, recorded, done, lost, now>>

\* A thread has written its line to one of the outputs, or given it up.
Written(t) ==
    /\ pc[t] \in {"kmsg", "console"} /\ Returned(t)
    /\ \/ kmsg' = kmsg (+) SetToBag(line[t]) /\ UNCHANGED <<console, lost>>
       \/ console' = console (+) SetToBag(line[t]) /\ UNCHANGED <<kmsg, lost>>
       \/ lost' = lost \cup line[t] /\ UNCHANGED <<kmsg, console>>
    /\ UNCHANGED <<CURRENT_LEVEL, JOURNAL, KMSG, recorded, said, now>>

\* /dev/kmsg is not there or cannot be written.
Refused(t) ==
    /\ pc[t] = "kmsg" /\ pc' = [pc EXCEPT ![t] = "console"]
    /\ UNCHANGED <<CURRENT_LEVEL, JOURNAL, KMSG, line, kmsg, console, recorded, said, done,
                   lost, now>>

\* A level is set, time passes, or nothing happens.
Aside ==
    /\ CURRENT_LEVEL' \in Level /\ now' \in Nat /\ now' >= now
    /\ UNCHANGED <<JOURNAL, KMSG, pc, line, kmsg, console, recorded, said, done, lost>>

LEMMA WriteLineSays ==
    ASSUME Types, NEW t \in Threads, NEW level \in Level, WriteLine(t, level)
    PROVE  \E l \in Line : Said(t, l)
<1> DEFINE l == [by |-> t, no |-> said[t] + 1, level |-> level, at |-> now]
<1>1. said[t] + 1 \in Nat /\ now \in Nat BY DEF Types
<1>2. l \in Line /\ l.by = t /\ l.no = said[t] + 1 /\ l.at = now BY <1>1 DEF Line
<1>3. line' = [line EXCEPT ![t] = {l}] BY DEF WriteLine
<1> HIDE DEF l
<1>4. Said(t, l) BY <1>2, <1>3 DEF WriteLine, Said
<1> QED BY <1>2, <1>4

LEMMA Steps ==
    ASSUME Types, [Next]_vars
    PROVE  \/ Aside
           \/ \E t \in Threads : \/ \E l \in Line : Said(t, l)
                                 \/ record(t) \/ Written(t) \/ Refused(t)
<1>1. CASE set_level BY <1>1, JournalAssumption DEF set_level, Aside, Types
<1>2. CASE Tick BY <1>2 DEF Tick, Aside, Types
<1>3. CASE MonitorWarns
    <2>1. WriteLine(Monitor, Warn) /\ Monitor \in Threads /\ Warn \in Level
        BY <1>3, JournalAssumption DEF MonitorWarns, Level
    <2> QED BY <2>1, WriteLineSays
<1>4. ASSUME NEW t \in Threads, Log(t)
      PROVE  \E l \in Line : Said(t, l)
    <2>1. PICK level \in Level : WriteLine(t, level) BY <1>4, JournalAssumption DEF Log
    <2> QED BY <2>1, WriteLineSays
<1>5. ASSUME NEW t \in Threads, WriteKmsg(t) PROVE Written(t) \/ Refused(t)
    BY <1>5 DEF WriteKmsg, Written, Refused, Returned
<1>6. ASSUME NEW t \in Threads, WriteConsole(t) PROVE Written(t)
    BY <1>6 DEF WriteConsole, Written, Returned
<1>7. CASE UNCHANGED vars BY <1>7 DEF vars, Aside, Types
<1> QED BY <1>1, <1>2, <1>3, <1>4, <1>5, <1>6, <1>7 DEF Next, Output

\* What record does to the two sequences, place by place.
LEMMA RecordEffect ==
    ASSUME Types, HandInv, NEW t \in Threads, record(t)
    PROVE  \E l \in Line :
            /\ InHand(t, l) /\ pc[t] = "record"
            /\ recorded' \in Seq(Line) /\ Len(recorded') = Len(recorded) + 1
            /\ \A i \in 1 .. Len(recorded) : recorded'[i] = recorded[i]
            /\ recorded'[Len(recorded) + 1] = l
            /\ JOURNAL' = Pushed(JOURNAL, l)
<1>1. PICK l \in Line : InHand(t, l) BY DEF record, HandInv
<1>2. recorded' = Append(recorded, l) /\ JOURNAL' = Pushed(JOURNAL, l)
    BY <1>1 DEF record, InHand
<1>3. /\ recorded' \in Seq(Line) /\ Len(recorded') = Len(recorded) + 1
      /\ \A i \in 1 .. Len(recorded) : recorded'[i] = recorded[i]
      /\ recorded'[Len(recorded) + 1] = l
    BY <1>2, AppendProperties DEF Types
<1> QED BY <1>1, <1>2, <1>3 DEF record

\* What a push onto a full and onto a shorter journal gives.
LEMMA PushedEffect ==
    ASSUME NEW j \in Seq(Line), NEW l \in Line
    PROVE  /\ Pushed(j, l) \in Seq(Line)
           /\ Len(j) >= MAX_LINES =>
                /\ Len(Pushed(j, l)) = Len(j) /\ Pushed(j, l)[Len(j)] = l
                /\ \A i \in 1 .. Len(j) - 1 : Pushed(j, l)[i] = j[i + 1]
           /\ Len(j) < MAX_LINES =>
                /\ Len(Pushed(j, l)) = Len(j) + 1 /\ Pushed(j, l)[Len(j) + 1] = l
                /\ \A i \in 1 .. Len(j) : Pushed(j, l)[i] = j[i]
<1>0. Len(j) \in Nat /\ MAX_LINES \in Nat \ {0} BY JournalAssumption, LenProperties
<1>1. CASE Len(j) >= MAX_LINES
    <2>1. j # << >> BY <1>0, <1>1
    <2>2. /\ Tail(j) \in Seq(Line) /\ Len(Tail(j)) = Len(j) - 1
          /\ \A i \in 1 .. Len(Tail(j)) : Tail(j)[i] = j[i + 1]
        BY <2>1, HeadTailProperties
    <2>3. Pushed(j, l) = Append(Tail(j), l) BY <1>1 DEF Pushed
    <2>4. /\ Append(Tail(j), l) \in Seq(Line) /\ Len(Append(Tail(j), l)) = Len(Tail(j)) + 1
          /\ \A i \in 1 .. Len(Tail(j)) : Append(Tail(j), l)[i] = Tail(j)[i]
          /\ Append(Tail(j), l)[Len(Tail(j)) + 1] = l
        BY <2>2, AppendProperties
    <2>5. Len(Pushed(j, l)) = Len(j) /\ Pushed(j, l)[Len(j)] = l
        BY <1>0, <2>2, <2>3, <2>4
    <2>6. ASSUME NEW i \in 1 .. Len(j) - 1 PROVE Pushed(j, l)[i] = j[i + 1]
        <3>1. i \in 1 .. Len(Tail(j)) BY <1>0, <2>2
        <3> QED BY <3>1, <2>2, <2>3, <2>4
    <2>7. ~(Len(j) < MAX_LINES) BY <1>0, <1>1
    <2> QED BY <2>3, <2>4, <2>5, <2>6, <2>7
<1>2. CASE Len(j) < MAX_LINES
    <2>1. Pushed(j, l) = Append(j, l) BY <1>0, <1>2 DEF Pushed
    <2> QED BY <1>0, <1>2, <2>1, AppendProperties
<1> QED BY <1>0, <1>1, <1>2

-----------------------------------------------------------------------------
(* Each step keeps the invariant.                                          *)

LEMMA TypesStep ==
    ASSUME Types, HandInv, [Next]_vars
    PROVE  Types' /\ HandInv'
<1>1. CASE Aside
    <2>1. Types' BY <1>1 DEF Aside, Types
    <2>2. ASSUME NEW t \in Threads, NEW l \in Line, InHand(t, l) PROVE InHand(t, l)'
        BY <1>1, <2>2 DEF Aside, InHand, Types, Line
    <2>3. HandInv' BY <1>1, <2>2 DEF Aside, HandInv
    <2> QED BY <2>1, <2>3
<1>2. ASSUME NEW t \in Threads, NEW l \in Line, Said(t, l) PROVE Types' /\ HandInv'
    <2>1. Types' BY <1>2 DEF Said, Types
    <2>2. InHand(t, l)' BY <1>2 DEF Said, InHand, Types
    <2>3. \A u \in Threads : u # t => pc'[u] = pc[u] /\ line'[u] = line[u] /\ said'[u] = said[u]
        BY <1>2 DEF Said, Types
    <2>4. pc'[t] # "idle" /\ UNCHANGED now BY <1>2 DEF Said, Types
    <2>5. HandInv' BY <2>2, <2>3, <2>4 DEF HandInv, InHand
    <2> QED BY <2>1, <2>5
<1>3. ASSUME NEW t \in Threads, record(t) PROVE Types' /\ HandInv'
    <2>1. PICK l \in Line : recorded' \in Seq(Line) /\ JOURNAL' = Pushed(JOURNAL, l)
        BY <1>3, RecordEffect
    <2>2. JOURNAL' \in Seq(Line) BY <2>1, PushedEffect DEF Types
    <2>3. Types' BY <1>3, <2>1, <2>2 DEF record, Types
    <2>4. HandInv' BY <1>3 DEF record, Types, HandInv, InHand
    <2> QED BY <2>3, <2>4
<1>4. ASSUME NEW t \in Threads, Written(t) PROVE Types' /\ HandInv'
    BY <1>4 DEF Written, Returned, Types, HandInv, InHand
<1>5. ASSUME NEW t \in Threads, Refused(t) PROVE Types' /\ HandInv'
    BY <1>5 DEF Refused, Types, HandInv, InHand
<1> QED BY <1>1, <1>2, <1>3, <1>4, <1>5, Steps

\* What a step that records nothing must keep for RecordedInv.
LEMMA RecordedFrame ==
    ASSUME Types, RecordedInv, recorded' = recorded, now' \in Nat, now' >= now,
           \A t \in Threads : Recorded'[t] = Recorded[t],
           \A t \in Threads : pc'[t] = "record" =>
                \/ pc[t] = "record" /\ line'[t] = line[t]
                \/ \A l \in line'[t] : l.at = now
    PROVE  RecordedInv'
<1>1. \A i \in 1 .. Len(recorded) : recorded[i] \in Line BY ElementOfSeq DEF Types
<1>2. \A i \in 1 .. Len(recorded) : recorded[i].by \in Threads /\ recorded[i].at \in Nat
    BY <1>1 DEF Line
<1>3. ASSUME NEW i \in 1 .. Len(recorded)
      PROVE  recorded[i].no <= Recorded'[recorded[i].by] /\ recorded[i].at <= now'
    BY <1>2 DEF RecordedInv, Types
<1>4. ASSUME NEW t \in Threads, NEW n \in Nat, 1 <= n, n <= Recorded'[t]
      PROVE  \E i \in 1 .. Len(recorded) : recorded[i].by = t /\ recorded[i].no = n
    BY <1>4 DEF RecordedInv
<1>5. ASSUME NEW t \in Threads, pc'[t] = "record", NEW l \in line'[t],
             NEW i \in 1 .. Len(recorded), recorded[i].by = t
      PROVE  recorded[i].at <= l.at
    BY <1>5 DEF RecordedInv
<1> QED BY <1>3, <1>4, <1>5 DEF RecordedInv

LEMMA RecordedStep ==
    ASSUME Types, HandInv, RecordedInv, [Next]_vars
    PROVE  RecordedInv'
<1>1. CASE Aside
    BY <1>1, RecordedFrame DEF Aside, Recorded
<1>2. ASSUME NEW t \in Threads, NEW l \in Line, Said(t, l) PROVE RecordedInv'
    <2>1. \A u \in Threads : u # t => pc'[u] = pc[u] /\ line'[u] = line[u] /\ said'[u] = said[u]
        BY <1>2 DEF Said, Types
    <2>2. pc[t] = "idle" /\ pc'[t] = "record" /\ said'[t] = said[t] + 1 /\ line'[t] = {l}
          /\ said[t] \in Nat
        BY <1>2 DEF Said, Types
    <2>3. \A u \in Threads : Recorded'[u] = Recorded[u] BY <2>1, <2>2 DEF Recorded
    <2>4. recorded' = recorded /\ now' = now /\ l.at = now /\ now \in Nat
        BY <1>2 DEF Said, Types
    <2> QED BY <2>1, <2>2, <2>3, <2>4, RecordedFrame
<1>3. ASSUME NEW t \in Threads, record(t) PROVE RecordedInv'
    <2> DEFINE n == Len(recorded)
    <2>1. PICK l \in Line :
            /\ InHand(t, l) /\ pc[t] = "record"
            /\ recorded' \in Seq(Line) /\ Len(recorded') = n + 1
            /\ \A i \in 1 .. n : recorded'[i] = recorded[i]
            /\ recorded'[n + 1] = l
        BY <1>3, RecordEffect
    <2>2. n \in Nat /\ 1 .. n + 1 = 1 .. n \cup {n + 1} /\ n + 1 \notin 1 .. n
          /\ (\A i \in 1 .. n : i < n + 1) /\ 1 .. Len(recorded') = 1 .. n \cup {n + 1}
        BY <2>1, LenProperties DEF Types
    <2> HIDE DEF n
    <2>3. UNCHANGED <<line, said, now>> /\ pc'[t] = "kmsg"
          /\ \A u \in Threads : u # t => pc'[u] = pc[u]
        BY <1>3 DEF record, Types
    <2>4. said[t] \in Nat /\ l.no = said[t] /\ l.by = t /\ l.at <= now /\ line[t] = {l}
        BY <2>1 DEF InHand, Types
    <2>5. Recorded[t] = said[t] - 1 /\ Recorded'[t] = said[t]
          /\ \A u \in Threads : u # t => Recorded'[u] = Recorded[u]
        BY <2>1, <2>3 DEF Recorded
    <2>6. \A i \in 1 .. n : recorded[i] \in Line BY ElementOfSeq DEF Types, n
    <2>7. \A i \in 1 .. n : recorded[i].by \in Threads /\ recorded[i].no \in Nat
        BY <2>6 DEF Line
    <2>8. ASSUME NEW i \in 1 .. n, recorded[i].by = t
          PROVE  recorded[i].no < l.no /\ recorded[i].at <= l.at
        <3>1. recorded[i].no <= Recorded[recorded[i].by] BY <2>8 DEF RecordedInv, n
        <3>2. recorded[i].no < l.no BY <3>1, <2>4, <2>5, <2>7, <2>8
        <3>3. \A k \in line[t] : recorded[i].at <= k.at
            BY <2>1, <2>8 DEF RecordedInv, n
        <3> QED BY <3>2, <3>3, <2>4
    <2>9. ASSUME NEW i \in 1 .. n + 1
          PROVE  recorded'[i].no <= Recorded'[recorded'[i].by] /\ recorded'[i].at <= now'
        <3>1. CASE i = n + 1 BY <3>1, <2>1, <2>3, <2>4, <2>5
        <3>2. CASE i \in 1 .. n
            <4>1. recorded[i].no <= Recorded[recorded[i].by] /\ recorded[i].at <= now
                BY <3>2 DEF RecordedInv, n
            <4>2. recorded[i].by = t => recorded[i].no <= said[t]
                BY <3>2, <2>4, <2>7, <2>8
            <4> QED BY <3>2, <4>1, <4>2, <2>1, <2>3, <2>5, <2>7
        <3> QED BY <3>1, <3>2, <2>2
    <2>10. ASSUME NEW u \in Threads, NEW m \in Nat, 1 <= m, m <= Recorded'[u]
           PROVE  \E i \in 1 .. n + 1 : recorded'[i].by = u /\ recorded'[i].no = m
        <3>1. CASE u = t /\ m = said[t] BY <3>1, <2>1, <2>2, <2>4
        <3>2. CASE ~(u = t /\ m = said[t])
            <4>1. m <= Recorded[u] BY <3>2, <2>4, <2>5, <2>10
            <4>2. PICK i \in 1 .. n : recorded[i].by = u /\ recorded[i].no = m
                BY <4>1, <2>10 DEF RecordedInv, n
            <4> QED BY <4>2, <2>1, <2>2
        <3> QED BY <3>1, <3>2
    <2>11. ASSUME NEW i \in 1 .. n + 1, NEW j \in 1 .. n + 1, i < j,
                  recorded'[i].by = recorded'[j].by
           PROVE  recorded'[i].no < recorded'[j].no /\ recorded'[i].at <= recorded'[j].at
        <3>1. i \in 1 .. n BY <2>2, <2>11
        <3>2. CASE j = n + 1 BY <3>1, <3>2, <2>1, <2>4, <2>8, <2>11
        <3>3. CASE j \in 1 .. n BY <3>1, <3>3, <2>1, <2>11 DEF RecordedInv, n
        <3> QED BY <3>2, <3>3, <2>2
    <2>12. ASSUME NEW u \in Threads, pc'[u] = "record", NEW k \in line'[u],
                  NEW i \in 1 .. n + 1, recorded'[i].by = u
           PROVE  recorded'[i].at <= k.at
        <3>1. u # t BY <2>3, <2>12
        <3>2. i \in 1 .. n BY <3>1, <2>1, <2>2, <2>4, <2>12
        <3> QED BY <3>1, <3>2, <2>1, <2>3, <2>12 DEF RecordedInv, n
    <2>13. Len(recorded') = n + 1 BY <2>1
    <2> QED BY ONLY <2>9, <2>10, <2>11, <2>12, <2>13 DEF RecordedInv
<1>4. ASSUME NEW t \in Threads, Written(t) \/ Refused(t) PROVE RecordedInv'
    <2>1. /\ pc[t] # "record" /\ pc'[t] # "record" /\ UNCHANGED <<recorded, said, now>>
          /\ \A u \in Threads : u # t => pc'[u] = pc[u] /\ line'[u] = line[u]
        BY <1>4 DEF Written, Returned, Refused, Types
    <2>2. \A u \in Threads : Recorded'[u] = Recorded[u] BY <2>1 DEF Recorded
    <2>3. now' \in Nat /\ now' >= now BY <2>1 DEF Types
    <2> QED BY <2>1, <2>2, <2>3, RecordedFrame
<1> QED BY <1>1, <1>2, <1>3, <1>4, Steps

LEMMA TailStep ==
    ASSUME Types, HandInv, TailInv, [Next]_vars
    PROVE  TailInv'
<1>1. CASE UNCHANGED <<JOURNAL, recorded>> BY <1>1 DEF TailInv
<1>2. ASSUME NEW t \in Threads, record(t) PROVE TailInv'
    <2> DEFINE n == Len(recorded)
               k == Len(JOURNAL)
    <2>1. PICK l \in Line :
            /\ Len(recorded') = n + 1 /\ recorded'[n + 1] = l
            /\ \A i \in 1 .. n : recorded'[i] = recorded[i]
            /\ JOURNAL' = Pushed(JOURNAL, l)
        BY <1>2, RecordEffect
    <2>2. n \in Nat /\ k \in Nat /\ MAX_LINES \in Nat \ {0} /\ JOURNAL \in Seq(Line)
        BY JournalAssumption, LenProperties DEF Types
    <2>3. /\ k = IF n > MAX_LINES THEN MAX_LINES ELSE n
          /\ \A i \in 1 .. k : JOURNAL[i] = recorded[n - k + i]
        BY DEF TailInv
    <2>4. CASE k >= MAX_LINES
        <3>1. k = MAX_LINES /\ n >= k BY <2>2, <2>3, <2>4
        <3>2. /\ Len(JOURNAL') = k /\ JOURNAL'[k] = l
              /\ \A i \in 1 .. k - 1 : JOURNAL'[i] = JOURNAL[i + 1]
            BY <2>1, <2>2, <2>4, PushedEffect
        <3> HIDE DEF n, k
        <3>3. ASSUME NEW i \in 1 .. k PROVE JOURNAL'[i] = recorded'[n + 1 - k + i]
            <4>1. CASE i = k BY <2>1, <2>2, <3>2, <4>1
            <4>2. CASE i # k
                <5>1. i \in 1 .. k - 1 /\ i + 1 \in 1 .. k /\ n - k + (i + 1) \in 1 .. n
                      /\ n - k + (i + 1) = n + 1 - k + i
                    BY <2>2, <3>1, <4>2
                <5>2. JOURNAL'[i] = recorded[n - k + (i + 1)] BY <2>3, <3>2, <5>1
                <5>3. recorded'[n - k + (i + 1)] = recorded[n - k + (i + 1)] BY <2>1, <5>1
                <5> QED BY <5>1, <5>2, <5>3
            <4> QED BY <4>1, <4>2
        <3>4. k = IF n + 1 > MAX_LINES THEN MAX_LINES ELSE n + 1 BY <2>2, <3>1
        <3> QED BY <2>1, <2>2, <3>2, <3>3, <3>4 DEF TailInv
    <2>5. CASE k < MAX_LINES
        <3>1. k = n /\ n < MAX_LINES BY <2>2, <2>3, <2>5
        <3>2. /\ Len(JOURNAL') = k + 1 /\ JOURNAL'[k + 1] = l
              /\ \A i \in 1 .. k : JOURNAL'[i] = JOURNAL[i]
            BY <2>1, <2>2, <2>5, PushedEffect
        <3> HIDE DEF n, k
        <3>3. ASSUME NEW i \in 1 .. n + 1 PROVE JOURNAL'[i] = recorded'[n + 1 - (n + 1) + i]
            <4>1. CASE i = n + 1
                <5>1. n + 1 - (n + 1) + i = n + 1 BY <2>2, <4>1
                <5> QED BY <2>1, <3>1, <3>2, <4>1, <5>1
            <4>2. CASE i # n + 1
                <5>1. i \in 1 .. n /\ n + 1 - (n + 1) + i = i /\ n - n + i = i BY <2>2, <4>2
                <5> QED BY <2>1, <2>3, <3>1, <3>2, <5>1
            <4> QED BY <4>1, <4>2
        <3>4. n + 1 = IF n + 1 > MAX_LINES THEN MAX_LINES ELSE n + 1 BY <2>2, <3>1
        <3> QED BY <2>1, <2>2, <3>1, <3>2, <3>3, <3>4 DEF TailInv
    <2> QED BY <2>2, <2>4, <2>5
<1>3. Aside => UNCHANGED <<JOURNAL, recorded>> BY DEF Aside
<1>4. ASSUME NEW t \in Threads, Written(t) \/ Refused(t) \/ (\E l \in Line : Said(t, l))
      PROVE  UNCHANGED <<JOURNAL, recorded>>
    BY <1>4 DEF Written, Refused, Said
<1> QED BY <1>1, <1>2, <1>3, <1>4, Steps

LEMMA OutStep ==
    ASSUME Types, HandInv, RecordedInv, OutInv, [Next]_vars
    PROVE  OutInv'
<1>1. CASE Aside BY <1>1 DEF Aside, OutInv
<1>2. ASSUME NEW t \in Threads, NEW l \in Line, Said(t, l) PROVE OutInv'
    <2>1. \A u \in Threads : u # t => pc'[u] = pc[u] /\ line'[u] = line[u]
        BY <1>2 DEF Said, Types
    <2>2. pc[t] = "idle" /\ pc'[t] = "record" /\ line'[t] = {l} /\ l.no = said[t] + 1 /\ l.by = t
          /\ said[t] \in Nat /\ UNCHANGED <<kmsg, console, recorded, done, lost>>
        BY <1>2 DEF Said, Types
    <2>3. \A i \in 1 .. Len(recorded) : recorded[i].no <= Recorded[recorded[i].by]
        BY DEF RecordedInv
    <2>4. Recorded[t] = said[t] BY <2>2 DEF Recorded
    <2>5. \A i \in 1 .. Len(recorded) : recorded[i] # l BY <2>2, <2>3, <2>4
    <2>6. DOMAIN recorded = 1 .. Len(recorded) BY LenProperties DEF Types
    <2>7. l \notin Range(recorded) BY <2>5, <2>6 DEF Range
    <2>8. l \notin done BY <2>7 DEF OutInv
    <2> QED BY <2>1, <2>2, <2>8 DEF OutInv
<1>3. ASSUME NEW t \in Threads, record(t) PROVE OutInv'
    <2>1. PICK l \in Line :
            /\ line[t] = {l} /\ recorded' \in Seq(Line) /\ Len(recorded') = Len(recorded) + 1
            /\ \A i \in 1 .. Len(recorded) : recorded'[i] = recorded[i]
            /\ recorded'[Len(recorded) + 1] = l
        BY <1>3, RecordEffect DEF InHand
    <2>2. DOMAIN recorded = 1 .. Len(recorded) /\ DOMAIN recorded' = 1 .. Len(recorded')
          /\ Len(recorded) \in Nat
        BY <2>1, LenProperties DEF Types
    <2>3. Len(recorded) + 1 \in DOMAIN recorded' /\ DOMAIN recorded \subseteq DOMAIN recorded'
        BY <2>1, <2>2
    <2>4. Range(recorded) \subseteq Range(recorded') /\ l \in Range(recorded')
        BY <2>1, <2>2, <2>3 DEF Range
    <2>5. /\ UNCHANGED <<line, kmsg, console, done, lost>>
          /\ \A u \in Threads : u # t => pc'[u] = pc[u]
        BY <1>3 DEF record, Types
    <2> QED BY <2>1, <2>4, <2>5 DEF OutInv
<1>4. ASSUME NEW t \in Threads, Written(t) PROVE OutInv'
    <2>1. /\ pc[t] \in {"kmsg", "console"} /\ pc'[t] = "idle" /\ line'[t] = {}
          /\ done' = done \cup line[t] /\ UNCHANGED recorded
          /\ \A u \in Threads : u # t => pc'[u] = pc[u] /\ line'[u] = line[u]
        BY <1>4 DEF Written, Returned, Types
    <2>2. /\ line[t] \cap done = {} /\ line[t] \subseteq Range(recorded)
          /\ DOMAIN kmsg \cap line[t] = {} /\ DOMAIN console \cap line[t] = {}
          /\ lost \cap line[t] = {}
        BY <2>1 DEF OutInv
    <2>3. \A u \in Threads : u # t => line'[u] \cap done' = {}
        <3> SUFFICES ASSUME NEW u \in Threads, u # t PROVE line[u] \cap line[t] = {}
            BY <2>1 DEF OutInv
        <3>1. (\A l \in line[t] : l.by = t) /\ (\A l \in line[u] : l.by = u)
            BY DEF HandInv, InHand
        <3> QED BY <3>1
    <2>4. CASE kmsg' = kmsg (+) SetToBag(line[t]) /\ UNCHANGED <<console, lost>>
        <3>1. DOMAIN kmsg' = DOMAIN kmsg \cup line[t] /\ \A l \in DOMAIN kmsg' : kmsg'[l] = 1
            BY <2>2, <2>4 DEF OutInv, (+), SetToBag
        <3> QED BY <2>1, <2>2, <2>3, <2>4, <3>1 DEF OutInv
    <2>5. CASE console' = console (+) SetToBag(line[t]) /\ UNCHANGED <<kmsg, lost>>
        <3>1. DOMAIN console' = DOMAIN console \cup line[t] /\ \A l \in DOMAIN console' : console'[l] = 1
            BY <2>2, <2>5 DEF OutInv, (+), SetToBag
        <3> QED BY <2>1, <2>2, <2>3, <2>5, <3>1 DEF OutInv
    <2>6. CASE lost' = lost \cup line[t] /\ UNCHANGED <<kmsg, console>>
        BY <2>1, <2>2, <2>3, <2>6 DEF OutInv
    <2> QED BY <1>4, <2>4, <2>5, <2>6 DEF Written
<1>5. ASSUME NEW t \in Threads, Refused(t) PROVE OutInv'
    BY <1>5 DEF Refused, OutInv, Types
<1> QED BY <1>1, <1>2, <1>3, <1>4, <1>5, Steps

-----------------------------------------------------------------------------
(* What the invariant says of LOGS and of the outputs.                     *)

LEMMA TailIsLast ==
    ASSUME Types, TailInv
    PROVE  JOURNAL = LastLines(recorded, MAX_LINES)
<1> DEFINE n == Len(recorded)
           m == IF n > MAX_LINES THEN n - MAX_LINES + 1 ELSE 1
           s == SubSeq(recorded, m, n)
<1>1. n \in Nat /\ MAX_LINES \in Nat \ {0} /\ JOURNAL \in Seq(Line) /\ recorded \in Seq(Line)
    BY JournalAssumption, LenProperties DEF Types
<1>2. m \in Int /\ n \in Int /\ m >= 1 /\ Len(JOURNAL) = n - m + 1 BY <1>1 DEF TailInv
<1>3. \A i \in m .. n : recorded[i] \in Line BY <1>1, <1>2, ElementOfSeq
<1> HIDE DEF m
<1>4. /\ s \in Seq(Line) /\ Len(s) = IF m <= n THEN n - m + 1 ELSE 0
      /\ \A i \in 1 .. n - m + 1 : s[i] = recorded[m + i - 1]
    BY <1>1, <1>2, <1>3, SubSeqProperties
<1>5. Len(s) = Len(JOURNAL)
    <2>1. Len(JOURNAL) \in Nat BY <1>1, LenProperties
    <2> QED BY <1>1, <1>2, <1>4, <2>1
<1>6. ASSUME NEW i \in 1 .. Len(JOURNAL) PROVE JOURNAL[i] = s[i]
    <2>1. JOURNAL[i] = recorded[n - Len(JOURNAL) + i] BY DEF TailInv
    <2>2. n - Len(JOURNAL) + i = m + i - 1 BY <1>1, <1>2
    <2> QED BY <1>2, <1>4, <2>1, <2>2
<1>7. JOURNAL = s BY <1>1, <1>4, <1>5, <1>6, SeqEqual
<1> QED BY <1>7 DEF LastLines, m

LEMMA OrderKept ==
    ASSUME Types, TailInv, RecordedInv, NEW t \in Threads,
           NEW i \in recent({t}), NEW j \in recent({t}), i < j,
           \A k \in recent({t}) : ~(i < k /\ k < j)
    PROVE  JOURNAL[j].no = JOURNAL[i].no + 1 /\ JOURNAL[i].at <= JOURNAL[j].at
<1> DEFINE n == Len(recorded)
           d == n - Len(JOURNAL)
<1>1. n \in Nat /\ Len(JOURNAL) \in Nat /\ DOMAIN JOURNAL = 1 .. Len(JOURNAL)
      /\ MAX_LINES \in Nat \ {0}
    BY JournalAssumption, LenProperties DEF Types
<1>2. d \in Nat /\ d + Len(JOURNAL) = n BY <1>1 DEF TailInv
<1>3. \A k \in 1 .. Len(JOURNAL) : JOURNAL[k] = recorded[d + k] BY DEF TailInv
<1> HIDE DEF d
<1>4. /\ i \in 1 .. Len(JOURNAL) /\ JOURNAL[i].by = t
      /\ j \in 1 .. Len(JOURNAL) /\ JOURNAL[j].by = t
    BY <1>1 DEF recent
<1>5. d + i \in 1 .. n /\ d + j \in 1 .. n /\ d + i < d + j BY <1>1, <1>2, <1>4
<1>6. recorded[d + i].by = t /\ recorded[d + j].by = t BY <1>3, <1>4
<1>7. recorded[d + i].no < recorded[d + j].no /\ recorded[d + i].at <= recorded[d + j].at
    BY <1>5, <1>6 DEF RecordedInv
<1>8. \A k \in 1 .. n : recorded[k].no \in Nat
    <2>1. \A k \in 1 .. n : recorded[k] \in Line BY ElementOfSeq DEF Types
    <2> QED BY <2>1 DEF Line
<1>9. recorded[d + j].no <= recorded[d + i].no + 1
    <2> SUFFICES ASSUME recorded[d + i].no + 1 < recorded[d + j].no PROVE FALSE
        BY <1>5, <1>8
    <2> DEFINE m == recorded[d + i].no + 1
    <2>1. recorded[d + j].no <= Recorded[t] /\ Recorded[t] \in Int
        <3>1. recorded[d + j].no <= Recorded[t] BY <1>5, <1>6 DEF RecordedInv
        <3>2. Recorded[t] \in Int BY DEF Recorded, Types
        <3> QED BY <3>1, <3>2
    <2>2. m \in Nat /\ 1 <= m /\ m <= Recorded[t] BY <1>5, <1>8, <2>1
    <2>3. PICK c \in 1 .. n : recorded[c].by = t /\ recorded[c].no = m
        BY <2>2 DEF RecordedInv
    <2>4. \A a, b \in 1 .. n : a < b /\ recorded[a].by = recorded[b].by => recorded[a].no < recorded[b].no
        BY DEF RecordedInv
    <2>5. c # d + i /\ ~(c < d + i) /\ c # d + j /\ ~(d + j < c)
        BY <1>5, <1>6, <1>8, <2>3, <2>4
    <2>6. c - d \in 1 .. Len(JOURNAL) /\ d + (c - d) = c /\ i < c - d /\ c - d < j
        BY <1>1, <1>2, <1>4, <2>5
    <2>7. c - d \in recent({t}) BY <1>1, <1>3, <2>3, <2>6 DEF recent
    <2> QED BY <2>6, <2>7
<1> QED BY <1>3, <1>4, <1>5, <1>7, <1>8, <1>9

-----------------------------------------------------------------------------
LEMMA JournalInductive == Spec => []JournalInv
<1>1. Init => JournalInv
    <2> SUFFICES ASSUME Init PROVE JournalInv OBVIOUS
    <2>1. << >> \in Seq(Line) /\ Len(<< >>) = 0 /\ Info \in Level BY EmptySeq DEF Level, Info
    <2>2. Types /\ HandInv BY <2>1 DEF Init, Types, HandInv
    <2>3. RecordedInv BY <2>1 DEF Init, RecordedInv, Recorded
    <2>4. TailInv BY <2>1, JournalAssumption DEF Init, TailInv
    <2>5. DOMAIN EmptyBag = {} BY DEF EmptyBag, SetToBag
    <2>6. OutInv BY <2>5 DEF Init, OutInv
    <2>7. KMSG \in BOOLEAN BY DEF Init
    <2> QED BY <2>2, <2>3, <2>4, <2>6, <2>7 DEF JournalInv
<1>2. JournalInv /\ [Next]_vars => JournalInv'
    <2> SUFFICES ASSUME JournalInv, [Next]_vars PROVE JournalInv' OBVIOUS
    <2>1. UNCHANGED KMSG
        BY Steps DEF JournalInv, Aside, Said, record, Written, Refused
    <2>2. KMSG' \in BOOLEAN BY <2>1, Zenon DEF JournalInv
    <2> QED BY <2>2, TypesStep, RecordedStep, TailStep, OutStep DEF JournalInv
<1> QED BY <1>1, <1>2, PTL DEF Spec

\* The journal, the threads' positions and the outputs keep their types; a
\* thread has a line exactly while it is inside write_line.
THEOREM TypeCorrect == Spec => []TypeOK
<1>1. JournalInv => TypeOK
    <2> SUFFICES ASSUME JournalInv PROVE TypeOK OBVIOUS
    <2>1. BagToSet(kmsg) \subseteq Line /\ BagToSet(console) \subseteq Line
        BY DEF JournalInv, OutInv, Types, BagToSet
    <2>2. \A t \in Threads : line[t] \subseteq Line /\ (line[t] # {} <=> pc[t] # "idle")
        BY DEF JournalInv, Types, HandInv, InHand
    <2>3. KMSG \in BOOLEAN /\ lost \subseteq done BY DEF JournalInv, OutInv
    <2> QED BY <2>1, <2>2, <2>3 DEF JournalInv, Types, TypeOK
<1> QED BY <1>1, JournalInductive, PTL

\* journal.rs: for any number of threads and any MAX_LINES, LOGS answers from
\* exactly the last MAX_LINES lines recorded, and shows the lines of one thread
\* in the order it wrote them, without a gap, however the threads came between
\* each other's stamp and record.
THEOREM JournalIsTailHolds == Spec => []JournalIsTail
<1>1. JournalInv => JournalIsTail
    <2> SUFFICES ASSUME JournalInv PROVE JournalIsTail OBVIOUS
    <2>1. JOURNAL = LastLines(recorded, MAX_LINES) BY TailIsLast DEF JournalInv
    <2>2. recent(Threads) = DOMAIN JOURNAL
        <3>1. DOMAIN JOURNAL = 1 .. Len(JOURNAL) BY LenProperties DEF JournalInv, Types
        <3>2. \A i \in 1 .. Len(JOURNAL) : JOURNAL[i] \in Line
            BY ElementOfSeq DEF JournalInv, Types
        <3> QED BY <3>1, <3>2 DEF recent, Line
    <2>3. \A t \in Threads : \A i, j \in recent({t}) :
            i < j /\ (\A k \in recent({t}) : ~(i < k /\ k < j)) =>
                JOURNAL[j].no = JOURNAL[i].no + 1 /\ JOURNAL[i].at <= JOURNAL[j].at
        BY OrderKept DEF JournalInv
    <2> QED BY <2>1, <2>2, <2>3 DEF JournalIsTail
<1> QED BY <1>1, JournalInductive, PTL

\* logging.rs, write_line: every line whose write_line has returned is recorded,
\* and is in /dev/kmsg or on the console, once, whatever writes to /dev/kmsg fail;
\* only a line whose write to the console failed as well is in neither.
THEOREM EveryLineOutHolds == Spec => []EveryLineOut
<1>1. JournalInv => EveryLineOut
    <2> SUFFICES ASSUME JournalInv PROVE EveryLineOut OBVIOUS
    <2> DEFINE out == kmsg (+) console
    <2>1. DOMAIN out = DOMAIN kmsg \cup DOMAIN console BY DEF (+)
    <2>2. DOMAIN out = done \ lost BY <2>1 DEF JournalInv, OutInv
    <2>3. \A l \in done \ lost : out[l] = 1 BY DEF JournalInv, OutInv, (+)
    <2> HIDE DEF out
    <2>4. /\ \A l \in done \ lost : BagIn(l, out) /\ out[l] = 1
          /\ \A l \in lost : ~BagIn(l, out)
          /\ done \cup BagToSet(out) \subseteq Range(recorded)
        BY <2>2, <2>3 DEF BagIn, BagToSet, JournalInv, OutInv
    <2> QED BY <2>4 DEF EveryLineOut, out
<1> QED BY <1>1, JournalInductive, PTL
=============================================================================
