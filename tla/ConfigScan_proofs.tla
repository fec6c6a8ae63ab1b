------------------------- MODULE ConfigScan_proofs --------------------------
(***************************************************************************)
(* Proofs about ConfigScan: the loop of IsRuleEnabled computes the         *)
(* declarative IsRuleEnabled of RuleConfig, and the flags of the command   *)
(* line have the last word.                                                *)
(***************************************************************************)
EXTENDS ConfigScan, TLAPS

(* No entry scanned yet: the default of lint/config.go stands.             *)
LEMMA NothingScanned ==
  ASSUME NEW cs, NEW rule, NEW path
  PROVE  EnabledAfter(cs, 0, rule, path) <=> ~ MatchRule(rule, DefaultDisabledRules)
BY DEF EnabledAfter, Deciding

(* One turn of the loop: an entry that applies and mentions the rule       *)
(* decides, any other leaves the verdict of the entries before it.         *)
LEMMA OneMoreEntry ==
  ASSUME NEW cs, NEW n \in Nat, NEW rule, NEW path
  PROVE  EnabledAfter(cs, n + 1, rule, path) <=>
           IF ConfigMatchesPath(cs[n + 1], path)
           THEN \/ /\ EnabledAfter(cs, n, rule, path)
                   /\ ~ MatchRule(rule, cs[n + 1].disabled)
                \/ MatchRule(rule, cs[n + 1].enabled)
           ELSE EnabledAfter(cs, n, rule, path)
<1> DEFINE Old == Deciding(cs, n, rule, path)
           New == Deciding(cs, n + 1, rule, path)
           Says == /\ ConfigMatchesPath(cs[n + 1], path)
                   /\ Mentions(cs[n + 1], rule)
<1>1. Old \subseteq 1..n
  BY DEF Deciding
<1>2. CASE Says
  <2>1. New = Old \cup {n + 1}
    BY <1>2 DEF Deciding
  <2>2. \A j \in New : j <= n + 1
    BY <1>1, <2>1
  <2>3. EnabledAfter(cs, n + 1, rule, path) <=> MatchRule(rule, cs[n + 1].enabled)
    <3>1. ASSUME NEW i \in New, \A j \in New : j <= i
          PROVE  i = n + 1
      BY <1>1, <2>1, <2>2, <3>1
    <3> QED
      BY <2>1, <2>2, <3>1 DEF EnabledAfter
  <2> QED
    BY <1>2, <2>3 DEF Mentions
<1>3. CASE ~ Says
  <2>1. New = Old
    BY <1>3 DEF Deciding
  <2>2. EnabledAfter(cs, n + 1, rule, path) <=> EnabledAfter(cs, n, rule, path)
    BY <2>1 DEF EnabledAfter
  <2> QED
    BY <1>3, <2>2 DEF Mentions
<1> QED
  BY <1>2, <1>3

(* The verdict after the last entry, when that entry is one of the         *)
(* --disable-rule flags and the one before it one of the --enable-rule     *)
(* flags.                                                                  *)
LEMMA FlagsHaveTheLastWord ==
  ASSUME NEW cs, NEW n \in Nat, NEW on, NEW off, NEW rule, NEW path,
         n >= 2, cs[n - 1] = FlagEntry(on, {}), cs[n] = FlagEntry({}, off)
  PROVE  /\ MatchRule(rule, off) => ~ EnabledAfter(cs, n, rule, path)
         /\ (MatchRule(rule, on) /\ ~ MatchRule(rule, off)) =>
              EnabledAfter(cs, n, rule, path)
<1>1. \A j \in {n - 1, n} : ConfigMatchesPath(cs[j], path)
  BY DEF FlagEntry, ConfigMatchesPath, MatchPath
<1>2. ~ MatchRule(rule, {})
  BY DEF MatchRule
<1>3. /\ n - 1 \in Nat /\ n - 2 \in Nat
      /\ (n - 1) + 1 = n /\ (n - 2) + 1 = n - 1
  OBVIOUS
<1> DEFINE m == n - 1
           l == n - 2
<1>4. EnabledAfter(cs, n, rule, path) <=>
        EnabledAfter(cs, n - 1, rule, path) /\ ~ MatchRule(rule, off)
  <2>1. EnabledAfter(cs, m + 1, rule, path) <=>
          IF ConfigMatchesPath(cs[m + 1], path)
          THEN \/ /\ EnabledAfter(cs, m, rule, path)
                  /\ ~ MatchRule(rule, cs[m + 1].disabled)
               \/ MatchRule(rule, cs[m + 1].enabled)
          ELSE EnabledAfter(cs, m, rule, path)
    BY <1>3, OneMoreEntry
  <2>2. cs[n].disabled = off /\ cs[n].enabled = {}
    BY DEF FlagEntry
  <2> QED
    BY <1>1, <1>2, <1>3, <2>1, <2>2
<1>5. MatchRule(rule, on) => EnabledAfter(cs, n - 1, rule, path)
  <2>1. EnabledAfter(cs, l + 1, rule, path) <=>
          IF ConfigMatchesPath(cs[l + 1], path)
          THEN \/ /\ EnabledAfter(cs, l, rule, path)
                  /\ ~ MatchRule(rule, cs[l + 1].disabled)
               \/ MatchRule(rule, cs[l + 1].enabled)
          ELSE EnabledAfter(cs, l, rule, path)
    BY <1>3, OneMoreEntry
  <2>2. cs[n - 1].enabled = on
    BY DEF FlagEntry
  <2> QED
    BY <1>1, <1>3, <2>1, <2>2
<1> QED
  BY <1>4, <1>5

-----------------------------------------------------------------------------

LEMMA InitScan == Init => ScanInv
<1> SUFFICES ASSUME Init PROVE ScanInv
  OBVIOUS
<1>1. cmd \in Command
  BY CommandAssumption DEF Init
<1>2. configs \in Configs(Globs, Patterns) /\ Len(configs) \in Nat
  BY <1>1 DEF Init, Command, Configs
<1>3. k \in 0..Len(configs)
  BY <1>2 DEF Init
<1>4. enabled \in BOOLEAN
  BY DEF Init
<1>5. TypeOK
  BY <1>2, <1>3, <1>4 DEF Init, TypeOK
<1> QED
  BY <1>5 DEF Init, ScanInv

LEMMA StepScan == ScanInv /\ [Next]_vars => ScanInv'
<1> SUFFICES ASSUME ScanInv, [Next]_vars PROVE ScanInv'
  OBVIOUS
<1> USE DEF ScanInv, TypeOK
<1>1. /\ cmd \in Command /\ cmd.enable \in SUBSET Patterns
      /\ cmd.disable \in SUBSET Patterns /\ cmd.file \in Configs(Globs, Patterns)
  BY CommandAssumption DEF Command
<1>2. ASSUME NEW on \in SUBSET Patterns, NEW off \in SUBSET Patterns
      PROVE  /\ Append(configs, FlagEntry(on, off)) \in Configs(Globs, Patterns)
             /\ Len(Append(configs, FlagEntry(on, off))) = Len(configs) + 1
             /\ Len(configs) \in Nat
             /\ Append(configs, FlagEntry(on, off))[Len(configs) + 1] = FlagEntry(on, off)
             /\ \A j \in 1..Len(configs) :
                  Append(configs, FlagEntry(on, off))[j] = configs[j]
  BY DEF FlagEntry, Configs
<1>3. CASE AppendFile
  <2>1. configs' \in Configs(Globs, Patterns) /\ Len(configs') \in Nat
    BY <1>1, <1>3 DEF AppendFile, Configs
  <2> QED
    BY <1>3, <2>1 DEF AppendFile
<1>4. CASE AppendEnabledRules
  BY <1>1, <1>2, <1>4 DEF AppendEnabledRules
<1>5. CASE AppendDisabledRules
  BY <1>1, <1>2, <1>5 DEF AppendDisabledRules
<1>6. CASE StartScan
  BY <1>6, NothingScanned DEF StartScan
<1>7. CASE ScanEntry
  <2>1. k \in Nat /\ k + 1 \in 0..Len(configs) /\ Len(configs) \in Nat
    BY <1>7 DEF ScanEntry, Configs
  <2>2. ApplyEntry(configs[k + 1], enabled) \in BOOLEAN
    BY DEF ApplyEntry
  <2>3. ApplyEntry(configs[k + 1], enabled) <=>
          EnabledAfter(configs, k + 1, cmd.rule, cmd.path)
    BY <1>7, <2>1, OneMoreEntry DEF ApplyEntry, ScanEntry
  <2> QED
    BY <1>7, <2>1, <2>2, <2>3 DEF ScanEntry
<1>8. CASE EndScan
  BY <1>8 DEF EndScan
<1>9. CASE Decided \/ UNCHANGED vars
  BY <1>9 DEF Decided, vars
<1> QED
  BY <1>3, <1>4, <1>5, <1>6, <1>7, <1>8, <1>9 DEF Next

THEOREM ScanCorrect == Spec => []ScanInv
<1> QED
  BY InitScan, StepScan, PTL DEF Spec

-----------------------------------------------------------------------------

(* The loop computes the declarative verdict for every list of entries,    *)
(* every rule and every path (Configs.IsRuleEnabled, lint/config.go).      *)
THEOREM ScanDecides == Spec => []LastWordDecides
<1>1. ScanInv => LastWordDecides
  BY DEF ScanInv, LastWordDecides, IsRuleEnabled
<1> QED
  BY <1>1, ScanCorrect, PTL

(* --disable-rule, then --enable-rule, beat whatever the config file says  *)
(* (cli.lint, cmd/api-linter/cli.go).                                      *)
THEOREM FlagsWin == Spec => [](DisableFlagWins /\ EnableFlagBeatsFile)
<1>1. ScanInv => DisableFlagWins /\ EnableFlagBeatsFile
  <2> SUFFICES ASSUME ScanInv, stage = "decided"
               PROVE  DisableFlagWins /\ EnableFlagBeatsFile
    BY DEF DisableFlagWins, EnableFlagBeatsFile
  <2>1. /\ Len(configs) \in Nat /\ Len(configs) >= 2
        /\ configs[Len(configs) - 1] = FlagEntry(cmd.enable, {})
        /\ configs[Len(configs)] = FlagEntry({}, cmd.disable)
        /\ enabled <=> EnabledAfter(configs, Len(configs), cmd.rule, cmd.path)
    BY DEF ScanInv, TypeOK, Configs
  <2> QED
    BY <2>1, FlagsHaveTheLastWord DEF DisableFlagWins, EnableFlagBeatsFile
<1> QED
  BY <1>1, ScanCorrect, PTL

(* A rule of the default-disabled group runs only where an entry that      *)
(* applies enables it by name (lint/config.go, defaultDisabledRules).      *)
THEOREM CloudStaysOff == Spec => []CloudNeedsEnabling
<1>1. ScanInv => CloudNeedsEnabling
  <2> SUFFICES ASSUME ScanInv, stage = "decided", enabled,
                      MatchRule(cmd.rule, DefaultDisabledRules)
               PROVE  \E j \in 1..Len(configs) :
                        /\ ConfigMatchesPath(configs[j], cmd.path)
                        /\ MatchRule(cmd.rule, configs[j].enabled)
    BY DEF CloudNeedsEnabling
  <2>1. EnabledAfter(configs, Len(configs), cmd.rule, cmd.path)
    BY DEF ScanInv
  <2> QED
    BY <2>1 DEF EnabledAfter, Deciding
<1> QED
  BY <1>1, ScanCorrect, PTL

=============================================================================
