------------------------------- MODULE Config -------------------------------
(***************************************************************************)
(* What config.rs, units.rs and the loader of timers.rs make of the files  *)
(* on disk.                                                                *)
(*                                                                         *)
(* A line of init.conf, a unit file and a timer file are records of what   *)
(* the parsers find in them; the number path stands for the path and for   *)
(* every other key that is taken over as it is written.  init.conf is an   *)
(* Option of its lines, {} if it cannot be read.  Option<T> is a set with  *)
(* at most one element.                                                    *)
(***************************************************************************)
EXTENDS Naturals, Sequences, FiniteSets, SequencesExt

Shell == "shell"
DEFAULT_TARGET == "multi-user"
RestartPolicy == {"never", "always", "on_failure"}

\* What a service line or a unit file says: a field without "=" makes a line
\* bad; the keys that are not there are {}.
Fields == [name : STRING, good : BOOLEAN, path : SUBSET Nat, target : SUBSET STRING,
           critical : BOOLEAN, restart : SUBSET STRING]

\* A line of init.conf: a service or a setting, whose value may not parse.
ServiceLine(f) == [key |-> "service", fields |-> {f}, value |-> {}]
Setting(key, value) == [key |-> key, fields |-> {}, value |-> value]

ServiceDef(f, restart) ==
    [name |-> f.name, target |-> IF f.target = {} THEN DEFAULT_TARGET ELSE CHOOSE t \in f.target : TRUE,
     critical |-> f.critical, restart |-> restart, path |-> CHOOSE n \in f.path : TRUE]

\* fallback_shell, and the service of the default configuration.
fallback_shell == [name |-> Shell, target |-> "", critical |-> TRUE, restart |-> "never", path |-> 0]
mitos_shell == [name |-> Shell, target |-> DEFAULT_TARGET, critical |-> TRUE, restart |-> "never",
                path |-> 1]

Default == [hostname |-> "mitos", loglevel |-> "info", default_target |-> DEFAULT_TARGET,
            services |-> <<mitos_shell>>]

-----------------------------------------------------------------------------
(* init.conf.  A word it does not know counts as on-failure.               *)

InlineRestart(word) ==
    CASE word = {"always"} -> "always" [] word = {"never"} -> "never" [] OTHER -> "on_failure"

parse_service(f) ==
    IF f.good /\ f.path # {} THEN <<ServiceDef(f, InlineRestart(f.restart))>> ELSE << >>

\* One line; a log level that is none is passed over.
ParseLine(cfg, line) ==
    CASE line.key = "service" ->
            [cfg EXCEPT !.services = @ \o parse_service(CHOOSE f \in line.fields : TRUE)]
      [] line.key = "hostname" /\ line.value # {} ->
            [cfg EXCEPT !.hostname = CHOOSE v \in line.value : TRUE]
      [] line.key = "loglevel" /\ line.value # {} ->
            [cfg EXCEPT !.loglevel = CHOOSE v \in line.value : TRUE]
      [] line.key = "default_target" /\ line.value # {} ->
            [cfg EXCEPT !.default_target = CHOOSE v \in line.value : TRUE]
      [] OTHER -> cfg

parse(lines) ==
    LET upto[k \in 0 .. Len(lines)] ==
            IF k = 0 THEN [Default EXCEPT !.services = << >>] ELSE ParseLine(upto[k - 1], lines[k])
        cfg == upto[Len(lines)]
    IN  IF cfg.services = << >> THEN [cfg EXCEPT !.services = Default.services] ELSE cfg

load_or_default(init) == IF init = {} THEN Default ELSE parse(CHOOSE lines \in init : TRUE)

-----------------------------------------------------------------------------
(* services.d, whose files come in the order of their names.               *)

\* The names are those of unit files: a missing key means never, a word it
\* does not know on-failure.
UnitRestart(word) ==
    CASE word = {"always"} -> "always" [] word \in {{}, {"no"}} -> "never" [] OTHER -> "on_failure"

\* good: the file could be read; path: its ExecStart.
parse_unit(f) ==
    IF f.good /\ f.path # {} THEN <<ServiceDef(f, UnitRestart(f.restart))>> ELSE << >>

load_units(files) ==
    LET upto[k \in 0 .. Len(files)] ==
            IF k = 0 THEN << >> ELSE upto[k - 1] \o parse_unit(files[k])
    IN  upto[Len(files)]

\* Mutant of MergeOne: the later definition replaces the earlier one.
MergeLater(base, svc) == Append(SelectSeq(base, LAMBDA s : s.name # svc.name), svc)

MergeOne(base, svc) ==
    IF \E k \in DOMAIN base : base[k].name = svc.name THEN base ELSE Append(base, svc)

merge_services(base, extra) ==
    LET upto[k \in 0 .. Len(extra)] ==
            IF k = 0 THEN base ELSE MergeOne(upto[k - 1], extra[k])
    IN  upto[Len(extra)]

\* What main puts together at boot and at a reload.
Load(init, units) ==
    LET cfg == load_or_default(init)
    IN  [cfg EXCEPT !.services = merge_services(cfg.services, load_units(units))]

\* timers::load_all: a file needs one of the two keys.
load_timers(files) == {f \in files : f.good /\ (f.on_boot # {} \/ f.on_active # {})}

=============================================================================
