----------------------------- MODULE ConfigScan -----------------------------
(***************************************************************************)
(* How a run of the command comes to its verdict on one rule and one path: *)
(* cli.lint appends the entries of the config file, then one entry of the  *)
(* --enable-rule flags, then one of the --disable-rule flags, to the       *)
(* defaults, and Configs.IsRuleEnabled goes through the list.              *)
(***************************************************************************)
EXTENDS RuleConfig

CONSTANTS RuleNameSet, PathSet, Patterns, Globs,
          Commands      \* the command lines and config files considered

Command ==
  [defaults : Configs(Globs, Patterns), file : Configs(Globs, Patterns),
   enable : SUBSET Patterns, disable : SUBSET Patterns,
   rule : RuleNameSet, path : PathSet]

ASSUME CommandAssumption == Commands \subseteq Command

VARIABLES cmd, stage, configs, k, enabled

vars == <<cmd, stage, configs, k, enabled>>

Init ==
  /\ cmd \in Commands
  /\ stage = "file"
  /\ configs = cmd.defaults
  /\ k = 0
  /\ enabled = FALSE

AppendFile ==
  /\ stage = "file"
  /\ stage' = "enable"
  /\ configs' = configs \o cmd.file
  /\ UNCHANGED <<cmd, k, enabled>>

(* An entry of the flags applies to every path.                            *)
FlagEntry(on, off) ==
  [included |-> {}, excluded |-> {}, enabled |-> on, disabled |-> off]

(* Mutant, which the runs must refuse: the entry of a flag goes to the     *)
(* front of the list.                                                      *)
PrependDisabledRules ==
  /\ stage = "disable"
  /\ stage' = "start"
  /\ configs' = <<FlagEntry({}, cmd.disable)>> \o configs
  /\ UNCHANGED <<cmd, k, enabled>>

AppendEnabledRules ==
  /\ stage = "enable"
  /\ stage' = "disable"
  /\ configs' = Append(configs, FlagEntry(cmd.enable, {}))
  /\ UNCHANGED <<cmd, k, enabled>>

AppendDisabledRules ==
  /\ stage = "disable"
  /\ stage' = "start"
  /\ configs' = Append(configs, FlagEntry({}, cmd.disable))
  /\ UNCHANGED <<cmd, k, enabled>>

(* Mutant: every rule starts enabled.                                      *)
StartScanEnabled ==
  /\ stage = "start"
  /\ stage' = "scan"
  /\ enabled' = TRUE
  /\ UNCHANGED <<cmd, configs, k>>

StartScan ==
  /\ stage = "start"
  /\ stage' = "scan"
  /\ enabled' = ~ MatchRule(cmd.rule, DefaultDisabledRules)
  /\ UNCHANGED <<cmd, configs, k>>

(* Mutant: disabling has precedence within an entry.                       *)
ApplyEntryDisabling(c, was) ==
  IF ConfigMatchesPath(c, cmd.path)
  THEN (was \/ MatchRule(cmd.rule, c.enabled)) /\ ~ MatchRule(cmd.rule, c.disabled)
  ELSE was

(* The body of the loop: both lists of the entry are looked at, the        *)
(* disabled rules first.                                                   *)
ApplyEntry(c, was) ==
  IF ConfigMatchesPath(c, cmd.path)
  THEN LET kept == was /\ ~ MatchRule(cmd.rule, c.disabled)
       IN  kept \/ MatchRule(cmd.rule, c.enabled)
  ELSE was

ScanEntry ==
  /\ stage = "scan" /\ k < Len(configs)
  /\ k' = k + 1
  /\ enabled' = ApplyEntry(configs[k + 1], enabled)
  /\ UNCHANGED <<cmd, stage, configs>>

EndScan ==
  /\ stage = "scan" /\ k = Len(configs)
  /\ stage' = "decided"
  /\ UNCHANGED <<cmd, configs, k, enabled>>

Decided == stage = "decided" /\ UNCHANGED vars

Next ==
  \/ AppendFile \/ AppendEnabledRules \/ AppendDisabledRules
  \/ StartScan \/ ScanEntry \/ EndScan \/ Decided

Spec == Init /\ [][Next]_vars

-----------------------------------------------------------------------------

TypeOK ==
  /\ cmd \in Commands
  /\ stage \in {"file", "enable", "disable", "start", "scan", "decided"}
  /\ configs \in Configs(Globs, Patterns)
  /\ k \in 0..Len(configs)
  /\ enabled \in BOOLEAN

(* The verdict is that of the last entry that applies to the path and      *)
(* mentions the rule (IsRuleEnabled, lint/config.go): an entry cannot be   *)
(* undone by an earlier one, nor by a later one that does not apply.       *)
LastWordDecides ==
  stage = "decided" =>
    (enabled <=> IsRuleEnabled(configs, cmd.rule, cmd.path))

(* A rule named by --disable-rule does not run, whatever the config file   *)
(* and --enable-rule say (cli.lint appends that entry last).               *)
DisableFlagWins ==
  (stage = "decided" /\ MatchRule(cmd.rule, cmd.disable)) => ~ enabled

(* A rule named by --enable-rule and not by --disable-rule runs: neither   *)
(* the config file nor the default-disabled group holds it back.           *)
EnableFlagBeatsFile ==
  (/\ stage = "decided"
   /\ MatchRule(cmd.rule, cmd.enable)
   /\ ~ MatchRule(cmd.rule, cmd.disable)) => enabled

(* A rule of the default-disabled group runs only when some entry that     *)
(* applies to the path enables it by name.                                 *)
CloudNeedsEnabling ==
  (stage = "decided" /\ enabled /\ MatchRule(cmd.rule, DefaultDisabledRules)) =>
    \E j \in 1..Len(configs) :
      /\ ConfigMatchesPath(configs[j], cmd.path)
      /\ MatchRule(cmd.rule, configs[j].enabled)

(* The inductive invariant: what has been scanned, and where the two       *)
(* entries of the flags stand.                                             *)
ScanInv ==
  /\ TypeOK
  /\ stage \in {"scan", "decided"} =>
       (enabled <=> EnabledAfter(configs, k, cmd.rule, cmd.path))
  /\ stage \in {"file", "enable", "disable", "start"} => k = 0
  /\ stage = "decided" => k = Len(configs)
  /\ stage = "disable" =>
       /\ Len(configs) >= 1
       /\ configs[Len(configs)] = FlagEntry(cmd.enable, {})
  /\ stage \in {"start", "scan", "decided"} =>
       /\ Len(configs) >= 2
       /\ configs[Len(configs) - 1] = FlagEntry(cmd.enable, {})
       /\ configs[Len(configs)] = FlagEntry({}, cmd.disable)

=============================================================================
