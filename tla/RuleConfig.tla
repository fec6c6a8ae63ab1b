----------------------------- MODULE RuleConfig -----------------------------
(***************************************************************************)
(* Rule names and the patterns that select them (lint/config.go,           *)
(* lint/rule_enabled.go, lint/rule.go), and configs: a list of entries,    *)
(* each of which applies to the paths it selects and enables and disables  *)
(* the rules it mentions.                                                  *)
(*                                                                         *)
(* A rule name "core::0131::http-method" is the sequence of its segments   *)
(* <<"core", "0131", "http-method">>.  A pattern is written the same way;  *)
(* an empty first or last segment stands for a separator the text starts   *)
(* or ends with, so "core::" is <<"core", "">> and "::" is <<"", "">>.     *)
(* The empty name, which the alias table yields for a rule without an      *)
(* alias, is <<"">>.                                                       *)
(***************************************************************************)
EXTENDS Naturals, Sequences

CONSTANTS Segments,     \* the segments of the names and patterns in play
          Lower,        \* strings.ToLower on segments
          Glob          \* path pattern -> the paths doublestar.Match accepts

ASSUME SegmentAssumption ==
  /\ {"", "all", "cloud"} \subseteq Segments
  /\ Lower \in [Segments -> Segments]
  /\ \A s \in Segments : Lower[Lower[s]] = Lower[s]

EmptyName == <<"">>

ToLower(name) == [k \in DOMAIN name |-> Lower[name[k]]]

(* "core::" -> "core", then "::http-body" -> "http-body": one separator    *)
(* is trimmed at each end.                                                 *)
TrimSuffix(p) ==
  IF Len(p) > 1 /\ p[Len(p)] = "" THEN SubSeq(p, 1, Len(p) - 1) ELSE p

TrimPrefix(p) == IF Len(p) > 1 /\ p[1] = "" THEN Tail(p) ELSE p

Normalize(p) == TrimPrefix(TrimSuffix(ToLower(p)))

(* p is a run of whole segments of name: the whole name, or a run at its   *)
(* start, at its end or in its middle that separators delimit.             *)
IsSegmentRun(p, name) ==
  \E first \in 1..Len(name) :
    /\ first + Len(p) - 1 <= Len(name)
    /\ \A k \in 1..Len(p) : name[first + k - 1] = p[k]

MatchRule(name, patterns) ==
  \E p \in patterns :
    Normalize(p) = <<"all">> \/ IsSegmentRun(Normalize(p), ToLower(name))

(***************************************************************************)
(* A comment line "api-linter: NAME=disabled" is the record of its name    *)
(* and of whether blanks separate the name from the equals sign.  The      *)
(* regular expression takes the blanks into the name, and a name that ends *)
(* in a blank matches no rule.  Other lines are left out.                  *)
(***************************************************************************)
CommentLines(patterns) == [name : patterns, blank : BOOLEAN]

ExtractDisabledRules(lines) == {l.name : l \in {m \in lines : ~m.blank}}

-----------------------------------------------------------------------------

Configs(globs, patterns) ==
  Seq([included : SUBSET globs, excluded : SUBSET globs,
       enabled : SUBSET patterns, disabled : SUBSET patterns])

DefaultDisabledRules == {<<"cloud">>}

(* The error of a malformed pattern is dropped: the pattern matches        *)
(* nothing, and Glob maps it to {}.                                        *)
MatchPath(path, globs) == \E g \in globs : path \in Glob[g]

ConfigMatchesPath(c, path) ==
  /\ ~ MatchPath(path, c.excluded)
  /\ c.included = {} \/ MatchPath(path, c.included)

Mentions(c, rule) == MatchRule(rule, c.enabled) \/ MatchRule(rule, c.disabled)

(* The entries among the first n that have a say on the rule at the path.  *)
Deciding(configs, n, rule, path) ==
  {k \in 1..n : ConfigMatchesPath(configs[k], path) /\ Mentions(configs[k], rule)}

(* What the loop over the first n entries leaves in "enabled": the word of *)
(* the last deciding entry, in which enabling has precedence, and the      *)
(* default when there is none.  ConfigScan proves that the loop computes   *)
(* this.                                                                   *)
EnabledAfter(configs, n, rule, path) ==
  LET D == Deciding(configs, n, rule, path)
  IN  \/ D = {} /\ ~ MatchRule(rule, DefaultDisabledRules)
      \/ \E k \in D : /\ \A j \in D : j <= k
                      /\ MatchRule(rule, configs[k].enabled)

IsRuleEnabled(configs, rule, path) ==
  EnabledAfter(configs, Len(configs), rule, path)

=============================================================================
