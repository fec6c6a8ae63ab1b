------------------------------ MODULE Registry ------------------------------
(***************************************************************************)
(* Start-up: rules.Add registers the rules of every AEP in turn            *)
(* (rules/rules.go, lint/rule_registry.go), and the buf plugin makes one   *)
(* rule of its own from each of them (cmd/buf-plugin-aep/main.go).  A name *)
(* is the sequence of its segments, <<"core", "0131", "http-method">>.     *)
(***************************************************************************)
EXTENDS Naturals, Sequences, FiniteSets

CONSTANTS Packages,     \* the lists of packages considered
          ValidNames,   \* the names the regular expression accepts
          Padded,       \* AEP number -> its four digits
          Spelled       \* segment -> its words, in upper case

(* A package calls Register with its AEP and its rules.                    *)
ASSUME PackagesAssumption ==
  Packages \subseteq Seq([aep : DOMAIN Padded, names : Seq(Seq(STRING))])

(* Valid names are of lower case letters, digits and hyphens, so that a    *)
(* segment can be told from its words; a number has no hyphen.             *)
ASSUME NamesAssumption ==
  /\ \A name \in ValidNames : \A i \in DOMAIN name :
       name[i] \in DOMAIN Spelled /\ Spelled[name[i]] \in Seq(STRING)
  /\ \A s, t \in DOMAIN Spelled : Spelled[s] = Spelled[t] => s = t
  /\ \A aep \in DOMAIN Padded :
       Padded[aep] \in DOMAIN Spelled => Len(Spelled[Padded[aep]]) = 1

VARIABLES
  packages,   \* the packages, in the order of aepAddRulesFuncs
  program,    \* "command" or "plugin"
  pkg, pos,   \* the package being added, and its next rule
  registry,   \* the names registered
  unvisited,  \* the registered names newSpec has not visited
  specs,      \* the IDs of the plugin's rules, by name
  stage       \* "add", "specs", "serving" or "fatal"

startVars == <<packages, program, pkg, pos, registry, unvisited, specs, stage>>

StartInit ==
  /\ packages \in Packages
  /\ program \in {"command", "plugin"}
  /\ pkg = 1 /\ pos = 1
  /\ registry = {} /\ unvisited = {} /\ specs = <<>>
  /\ stage = "add"

-----------------------------------------------------------------------------

(* getRuleGroup: the groups are tried from the last to the first, and a    *)
(* number that no group has is a panic.                                    *)
GroupOf(aep) ==
  IF aep \in 2500..2599 \cup 25000..25999 THEN "cloud"
  ELSE IF aep \in 4200..4299 THEN "client-libraries"
  ELSE IF aep \in 1..999 THEN "core" ELSE "none"

Package == packages[pkg]
Prefix == <<GroupOf(Package.aep), Padded[Package.aep]>>

(* Mutant, which the runs must refuse: the number alone is compared.       *)
HasNumber(name, prefix) == Len(name) >= 2 /\ name[2] = prefix[2]

HasPrefix(name, prefix) == Len(name) >= 2 /\ SubSeq(name, 1, 2) = prefix

AddingPackage == stage = "add" /\ pkg <= Len(packages)
Registering == AddingPackage /\ pos <= Len(Package.names)
HasGroup == GroupOf(Package.aep) # "none"
Name == Package.names[pos]

IsFine(name) ==
  name \in ValidNames /\ HasPrefix(name, Prefix) /\ name \notin registry

RegisterRule ==
  /\ Registering /\ HasGroup /\ IsFine(Name)
  /\ registry' = registry \cup {Name}
  /\ pos' = pos + 1
  /\ UNCHANGED <<packages, program, pkg, unvisited, specs, stage>>

(* Mutant: a rule that is refused is left out.                             *)
SkipRule ==
  /\ AddingPackage
  /\ IF HasGroup THEN Registering /\ ~ IsFine(Name) ELSE TRUE
  /\ pos' = IF HasGroup THEN pos + 1 ELSE pos
  /\ stage' = IF HasGroup THEN stage ELSE "fatal"
  /\ UNCHANGED <<packages, program, pkg, registry, unvisited, specs>>

(* Register stops at the first rule it refuses, with those before it       *)
(* registered, and an AEP without a group is a panic before its first      *)
(* rule; both programs then end.                                           *)
RefuseRule ==
  /\ AddingPackage
  /\ IF HasGroup THEN Registering /\ ~ IsFine(Name) ELSE TRUE
  /\ stage' = "fatal"
  /\ UNCHANGED <<packages, program, pkg, pos, registry, unvisited, specs>>

NextPackage ==
  /\ AddingPackage /\ HasGroup /\ pos > Len(Package.names)
  /\ pkg' = pkg + 1 /\ pos' = 1
  /\ UNCHANGED <<packages, program, registry, unvisited, specs, stage>>

RulesAdded ==
  /\ stage = "add" /\ pkg > Len(packages)
  /\ stage' = IF program = "plugin" THEN "specs" ELSE "serving"
  /\ unvisited' = registry
  /\ UNCHANGED <<packages, program, pkg, pos, registry, specs>>

(* "::" and "-" both become "_" and the letters capitals: the ID is the    *)
(* words of the number and of the rest, in one row.                        *)
RuleID(name) == Spelled[name[2]] \o Spelled[name[3]]

HasSpec(name) == name \in ValidNames /\ Len(name) = 3 /\ name[1] = "core"

MakeSpec(name) ==
  /\ stage = "specs" /\ name \in unvisited /\ HasSpec(name)
  /\ unvisited' = unvisited \ {name}
  /\ specs' = [n \in DOMAIN specs \cup {name} |->
                 IF n = name THEN RuleID(name) ELSE specs[n]]
  /\ UNCHANGED <<packages, program, pkg, pos, registry, stage>>

RefuseSpec(name) ==
  /\ stage = "specs" /\ name \in unvisited /\ ~ HasSpec(name)
  /\ stage' = "fatal"
  /\ UNCHANGED <<packages, program, pkg, pos, registry, unvisited, specs>>

SpecsMade ==
  /\ stage = "specs" /\ unvisited = {}
  /\ stage' = "serving"
  /\ UNCHANGED <<packages, program, pkg, pos, registry, unvisited, specs>>

StartNext ==
  \/ RegisterRule \/ RefuseRule \/ NextPackage \/ RulesAdded
  \/ \E name \in unvisited : MakeSpec(name) \/ RefuseSpec(name)
  \/ SpecsMade

-----------------------------------------------------------------------------

NamesOf(package) == {package.names[k] : k \in 1..Len(package.names)}

(* A rule is registered under the group and number of the package that     *)
(* registers it, so a config that turns an AEP off turns all of it off.    *)
RulesAreTheirAeps ==
  \A name \in registry :
    \E k \in 1..Len(packages) :
      /\ name \in NamesOf(packages[k])
      /\ name[1] = GroupOf(packages[k].aep) /\ name[2] = Padded[packages[k].aep]

(* A program that serves has every rule of every package, each once, and   *)
(* the plugin has as many rules of its own, with different IDs.            *)
ServesAllRules ==
  stage = "serving" =>
    /\ registry = UNION {NamesOf(packages[k]) : k \in 1..Len(packages)}
    /\ \A k, l \in 1..Len(packages) : k # l =>
         NamesOf(packages[k]) \cap NamesOf(packages[l]) = {}
    /\ program = "plugin" =>
         /\ DOMAIN specs = registry
         /\ \A m, n \in registry : m # n => specs[m] # specs[n]

=============================================================================
