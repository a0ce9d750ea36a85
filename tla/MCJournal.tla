----------------------------- MODULE MCJournal ------------------------------
(* The main thread, the control socket's and the memory monitor, with a    *)
(* journal of two lines.                                                   *)
EXTENDS Journal

MCThreads == {"main", "ipc", "monitor"}
MCLevels == {Info, Debug}
High == [some |-> {70}, full |-> {5}, junk |-> FALSE]
Low == [some |-> {10}, full |-> {0}, junk |-> FALSE]
Bad == [some |-> {90}, full |-> {}, junk |-> FALSE]
MCReadings == {High, Low, Bad}
=============================================================================
