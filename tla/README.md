# Verification of the API linter

This directory is a TLA+ development of the API linter in `src/`: modules that
model it, TLC configurations that check them on small instances, and proofs
that TLAPS checks. `PROJECT.json` is the index: the components, the runs, the
source lines behind every definition (`map`), the findings, the hazards and the
theorems. Paths below are relative to `src/`.

Contents: [inventory](#1-the-system), [modules](#2-the-modules),
[runs](#3-the-runs), [fairness](#4-fairness), [proofs](#5-proofs),
[findings](#6-findings-and-other-disagreements),
[what is left out](#7-what-is-not-modelled), [plan](#8-plan).

## 1. The system

The command `api-linter` (`cmd/api-linter`) reads its flags and a config file,
parses proto files with protoparse, runs the registered rules (`rules/`)
through the linter (`lint/`), and writes the responses as YAML, JSON, GitHub
workflow commands or a summary table. The buf plugin (`cmd/buf-plugin-aep`)
runs the same rules as the handlers of a check server, several at a time if the
host is allowed to. Both share a process-wide cache of compiled source
information (`locations/`).

```
 flags, config ──> cli.lint ──> protoparse ──> Linter.LintProtos ──> report, status
                       │                          │     ▲
                       └── Configs ───────────────┘     │ ProtoRule.Lint
                                                        │
 rules.Add ──> RuleRegistry ──> rules ──> traversals ──> LintMessage, LintMethod, ...
                     │                                      │
                     └──> buf plugin handlers ──────────────┴──> locations (cache)
```

| component | state | operations | what is hard | what makes it correct |
| --- | --- | --- | --- | --- |
| Rule selection, `lint/config.go` | the list of config entries | assembling the list, the scan of `IsRuleEnabled` | entries override each other; enable and disable have an order within an entry; a group that is off by default | the last entry that has a say decides, and the flags come last |
| Linter, `lint/lint.go`, `rule_enabled.go` | responses, error messages, the walk's descriptor | `LintProtos`, `lintFileDescriptor`, `runAndRecoverFromPanics`, `ruleIsEnabled` | random rule order, panics half way through a file, comments on any level above a problem | which problems and errors are reported is a function of the call (in which order is not); one rule's panic costs no other rule's problems |
| Source locations, `locations/` | an unlocked map of the process | `sourceInfo`, `findLocation`, `pathLocation` | concurrent handlers; a table used while another is stored; paths squeezed into strings | no concurrent map access; every location is the one a fresh compilation gives |
| Resource reference cycles, `rules/aep0121/no_mutable_cycles.go` | a stack of calls, each with the types it has seen | `findCycles` | graphs with cycles away from the start, unresolvable and ambiguous types | exactly the fields that begin a cycle are reported, and the search ends |
| Command, `cmd/api-linter/cli.go` | the report file, the exit status | `lint` | a dozen early returns; `os.Create` truncates an earlier report | status 0 means a whole report; a failure before the linter returned keeps the old one |
| Output formats, `lint/problem.go`, `github_actions.go`, `summary.go` | counters per rule and file | the conversion of spans, the summary | spans of three or four numbers, zero-based and half-open | positions count from one and include their end; the table adds up |
| buf plugin, `cmd/buf-plugin-aep/main.go` | the rule specs, the annotations | `newSpec`, `before`, the handlers | a handler stops at a problem it cannot place; the plugin bypasses `LintProtos` | it serves every rule, reports all that the command would, and fails rather than answer in part |
| Rule registry, `lint/rule_registry.go`, `rule_name.go`, `rule_groups.go` | the map of rules | `Register` | registration stops at the first refusal | a rule is registered under its own AEP's number, or nothing starts |
| Rule traversals, `lint/rule.go` | the loop variables of the search for the header | the `Lint` methods of the rule forms, `fileHeader` | nested messages, enums in messages, map entries; locations in any order | each descriptor of the kind is linted once; the header is the first in the text |
| Declarative-friendly lookup, `rules/internal/utils/declarative_friendly.go` | a stack of calls with no memory | `DeclarativeFriendlyResource` | mutual recursion by names, response types and what is left of a name | it ends |
| Method rules, `rules/aep0131` … `aep0164` | none: pure predicates | one rule each | each is written and tested alone | their advice can be followed, in any order, and leads to a method whose annotations and fields agree |
| Rules on resources, fields, services, files and enums, the other AEPs | none | one rule each | annotations, patterns, URIs and names in three cases; rules of two AEPs about one text; order in a file | following them ends, in an API whose methods, URIs and patterns belong together |
| Naming and comment helpers, `rules/internal/utils` | none | casing, plurals, type names, the separation of comments | kebab, snake and camel case of one name differ | part of the rules' properties |

Not modelled at all: the parser and its descriptors (a library), the quality
checker, the test helpers and the documentation
([section 7](#7-what-is-not-modelled)).

## 2. The modules

```
 RuleConfig <──┬── ConfigScan
               ├── LintContract <─ instance ─┬─ Linter   (implements it)
               │                             ├─ Command  (calls it)
               │                             └─ Plugin   (compared with it)
               └── Linter, Command, Plugin
 Command ── implements ──> CommandContract
 Registry <── Plugin ── implements ──> PluginContract
 FileHeader <── Traversals (implements it)   SourceInfo   FieldCycles   Report   Declarative
 Method <──┬── {Get, List, Create, Update, Delete, Operation, Custom}Rules <──┐
           ├── FieldRules <── ResourceRules <── ServiceRules <────────────────┼── Author
           └── FileRules <────────────────────────────────────────────────────┘
```

`A <── B`: B extends A. A definition commented "Mutant" is a plausible bug in
the definition that follows it; no specification uses it.

**RuleConfig** (`lint/config.go`, `lint/rule_name.go`). A rule's name is the
sequence of its segments, `core::0131::http-method` being
`<<"core", "0131", "http-method">>`. `MatchRule` normalizes a pattern as
`matchRule` does: lower case, one separator off either end, `all`, and the match
on a segment boundary at the start, in the middle or at the end of the name.
Then a config list as `IsRuleEnabled` sees it, and its meaning said a second
time, without a loop: `EnabledAfter` is the verdict of the last entry that applies to the path and names the rule. This is the reference that
ConfigScan is checked against and that the contract uses.

**ConfigScan** (`cmd/api-linter/cli.go`, `lint/config.go`). One
action per step: the file's entries are appended, then the entry of
`--enable-rule`, then that of `--disable-rule`; the loop starts at "enabled
unless the group is off by default" and applies entry after entry.

**LintContract** (`lint/lint.go`). What `LintProtos` promises, as *one* step from
a request to an answer: one response per file with the problems of the rules
that run and that no comment or deprecation hides, or one error with the
complaints of the first file that has any. `Suppressed` gives the rule of
`ruleIsEnabled` over the set of descriptors above a problem. Problems and
messages are sets: the code appends them to slices in the order of a Go map
(`lint/lint.go:92`) and sorts nothing, so their order differs between runs on
the same files, and no property is about it. The message of a panic does not
name its rule (`PanicMessage`; `lint/lint.go:127`), so two rules that panic
leave one message in the set; that of a problem without a descriptor does
(`NoDescriptorMessage`).

**Linter** is the detailed specification: the loop over files, the loop over
the registry in any order (a Go map), the panic that `recover` turns into a
message, the filter over the rule's problems, and the walk from descriptor to
descriptor, the problem's own comment lines being used at the first level
only. `ImplementsContract` is `C!Spec` under the mapping that reads `Answer`
off `pc`: every step of the loop is a stutter, the last one is the contract's.

**SourceInfo** (`locations/locations.go`; handlers of
`cmd/buf-plugin-aep/main.go`). A process per handler; `ReadRegistry`,
`CompileTable`, `WriteRegistry` and `Find` are the four points between which
another handler can run. `NoConcurrentMapAccess` is the condition under which
Go's map does not abort the process. A path's append to a slice with spare
capacity is modelled (`AppendPath`), since two handlers could share its array.
`StrPath` is what `string(segment)` does: a rune, or U+FFFD.

**FieldCycles** (`rules/aep0121/no_mutable_cycles.go`, `utils/find.go`). The
recursion as a stack of frames, each with the loop's position and its own copy
of the set of seen types. The reference is a least fixed point over sets of
messages.

**Command** (`cmd/api-linter/cli.go`, `main.go`). The stages of a run around one
step of the contract; every call that can fail may; the output file may hold an
earlier report. An action per return statement; `--version` and `--list-rules`
end the run before linting, the list perhaps half-printed (`AnswerFlagFails`).

**CommandContract**. The same run for whoever watches the output file, the
terminal and the exit status: the file is emptied only if there is something to
report, then holds the report or what a failed write left of it, and the status
is 0 only after that. What there is to report (`Expected`) is a function of the
arguments and surroundings, where Command computes it from the config list it
has built up. `ImplementsCommandContract` is `C!Spec` under the mapping that
forgets the stage, the list and the answer.

**Report** (`lint/problem.go` 117–170, `github_actions.go`, `summary.go`).
Conversions as functions of a span; the summary with its maps on demand, row
by row, and its sort.

**Registry, Plugin** (`lint/rule_registry.go`, `rule_groups.go`,
`cmd/buf-plugin-aep/main.go`). Plugin extends Registry: start-up first
(`RegisterRule` … `MakeSpec`), then a check: `PickFile` drops the imports one
file at a time (`Before`), one handler runs after another with its loop over the
own files, and `AddProblem` adds a problem with its place, or fails the handler
at one without a descriptor. The host is external. `PluginSeesAll` compares the
annotations with the linter's contract under *any* configs.

**PluginContract**. What a check promises, as one step from a request to an
answer: an annotation for each problem of each selected rule on each own file,
at the place the problem or its descriptor gives, or a failure without any.
`ImplementsPluginContract` maps Plugin to it: start-up and the handlers' steps
are stutters, the step that ends the check is the contract's.

**Traversals, FileHeader** (`lint/rule.go`). The walk over nested messages is a
recursive function (`AllNestedMessages`), over what of the file's order is
declared in an element (`DeclaredIn`); that everything is declared in something
that can hold it, after the message that holds it begins (`WellNested`), is what
protoc guarantees of a file, and an assumption. The search for the header is the
loop it is. Traversals extends FileHeader and shares its state: whatever the
form of the rule, a behaviour of `TraversalSpec` is one of `HeaderSpec`.

**Declarative** (`utils/declarative_friendly.go`, `utils/find.go`). State is the
argument of the innermost call and the set of arguments of the calls that are
open; names are sequences of words. Unbounded recursion is a behaviour that
never returns. (In Go it is worse: a stack overflow is fatal and no `recover`
catches it.)

**Method and the method rules** (`utils/`, `rules/aep0131`–`0136`, `0151`,
`0158`, `0164`). A design is a method with its request and response; each rule
is an operator that gives *the designs that follow the advice of one of its
problems*, the empty set when it has none. So one definition models both what a
rule reports and what its suggestion amounts to. DeleteRules has AEP-135 and
AEP-164.

**FieldRules, ResourceRules, ServiceRules** (`rules/aep0004`, `0121`, `0122`,
`0127`, `0141`–`0144`, `0148`, `0155`–`0159`). The same for a message with its
fields and its resource annotation, and for an API: resources by noun, and a
service whose methods have URIs, split at their slashes, and references. What
the helpers make of a text (kebab, snake and camel case, plural, singular) is a
function given as a constant, so that the differences between them show. A
reference is the text of a type: `FindResource` looks for a resource that has
this text now, and advice that rewrites a resource's type leaves the references
to it as they are.

**FileRules** (`rules/aep0126`, `0191`, `0192`, `0216`). A file is its name,
package, syntax and elements in order; an element has the comments above, below
and apart from it, each a sequence of public and internal parts; an enum has
its values. The file and its elements may be deprecated. `file-layout` and
`filenames` are ordinary rules, so that `ruleIsEnabled` drops their problems on
what is deprecated or in a file that is (`IsShown`); the rules on comments and
the others on files are Must rules, whose problems are kept.

**Author** is the author who takes up any reported problem and follows its
advice. It works on a design of one of four kinds (method, API, file, enum), and
`Reported` is empty when a rule panics, since the linter then answers with an
error. Nothing says that the author comes to the same end in whatever order
the problems are taken up: section 6 has an example where not. `AnswerableDrafts`
says of the drafts what the theorem on `AdviceIsAnswered` needs; MCAuthor assumes
it of its own.

Assumptions made about designs: one method is looked at with its messages, or
one service with its resources; verbs are whole words of a name; a noun
contains at most one other noun that names a field; a response has at most one
repeated message field; no comment disables a rule. In a method's design a URI
is its set of variables, whether it ends in the collection or the suffix, and its body; in an
API's design it has one variable with a template and what follows it.
`DeclarativeFriendlyResource` is the constant that the code makes it: every path
through it ends in nil (section 6).

## 3. The runs

| run | module | states | time | properties |
| --- | --- | ---: | ---: | --- |
| `config_scan` | MCConfigScan | 54,560 | 2 s | LastWordDecides, DisableFlagWins, CloudNeedsEnabling |
| `linter` | MCLinter | 179,648 | 67 s | TypeOK, MustProblemsReported, FileVisitedInFull, CommentsOnlyHide, ImplementsContract, Returns |
| `source_info` | MCSourceInfo | 6,386 | 3 s | NoConcurrentMapAccess, AnswersAreOwn, HandlersEnd |
| `field_cycles` | MCFieldCycles | 67,283 | 10 s | OnlyCyclesReported, EveryCycleReported, Terminates |
| `command` | MCCommand | 202,400 | 32 s | TypeOK, CleanExitReportsAll, ExitStatusTells, DisabledRulesAreSilent, ImplementsCommandContract, Ends |
| `report` | MCReport | 14,036 | 1 s | SummaryAddsUp, LocationsArePositions |
| `declarative` | MCDeclarative | 54,111 | 5 s | NeverAgain, ReturnsWithoutRequestResources |
| `declarative_any` | MCDeclarative | violation | 3 s | AlwaysReturns |
| `file` | MCTraversals | 357,664 | 90 s | HeaderIsFirst, VisitsItsKind |
| `plugin` | MCPlugin | 30,246 | 5 s | RulesAreTheirAeps, ServesAllRules, PluginSeesAll, ImplementsPluginContract, StartAndCheckEnd |
| `author` | MCAuthor | 41,586 | 2 min | AdviceIsAnswered, CleanIsCallable, CleanKnowsItsResource, CleanServiceIsComplete, CleanIsAddressable, CleanFileIsInOrder, Converges |
| `unannotated_operation` | MCAuthor (MCAuthorOperation.cfg) | violation | 2 s | UnannotatedIsReported |

Run them with `tlc -workers 2 -config MCX.cfg MCX`; `declarative_any` is
`MCDeclarativeAny.cfg`. Every property of a passing
run has a mutant in `PROJECT.json`: a changed definition under which the same
run finds the property violated.

What the runs show, and why their bounds are enough:

- **config_scan.** Config files of up to two entries over two patterns (one of
  which matches only after normalization), three path globs (one malformed),
  both flags, a core and a cloud rule at two paths. An override needs two
  entries, the flags add two more; the proof covers lists of any length.
- **linter.** Two files, so that one can fail after the other has succeeded; a
  message with a field, so that a walk has three levels; a Must rule, an
  ordinary and a default-disabled one, so that orders differ; every placement
  of one disabling comment, one deprecated option, one panic and one misplaced
  problem, with the options and configs that interact. The proofs cover every
  number of files, rules, levels and problems.
- **source_info.** Three handlers, at most one at a time (the plugin's
  `check.MainWithParallelism(1)`, `cmd/buf-plugin-aep/main.go`), two files, so
  that tables could be confused, and paths whose keys collide. With
  `Parallelism = 2` the map access is concurrent: the mutant
  `StartUnlimited` shows that the bound is what protects the cache.
- **field_cycles.** Graphs of three resources with up to two fields each, drawn
  from mutable, output-only, child-type, two-type and unresolvable references:
  in two files, or in a chain of three, with two resources that may share a
  type. Three nodes give a cycle that avoids the start, which is the case that
  tests termination, and a branch that is abandoned before the one that closes.
  The proofs cover every graph.
- **command.** Two files, a Must rule and an ordinary one, at most one failing
  call (a second is never made: each ends the run), every combination of the
  flags that interact. The proofs cover any set of failing calls.
- **report.** Up to three responses, the last for the path of the first, up to
  two problems of three rules, all shapes of span.
- **declarative / declarative_any.** A package of two files where a message
  `JoinRequest` may be a resource or a request, with every choice of methods
  and response types. If no response leads to a resource called `…Request`, the
  search never calls itself with an argument it is still working on; otherwise
  it may go round for ever (finding 1).
- **file.** Every nesting of three messages, two enums and a map entry, for each
  of the rule forms; up to three source locations on two lines, in any order.
- **plugin.** Lists of two packages with fine, misplaced, repeated, invalid and
  refused names; then a check of two own files and an import, in several orders,
  with any rules selected, comments, deprecation, a problem without descriptor
  and a panic. The proofs cover every list of packages and every request.
- **author.** Fourteen methods (Get, List, Create, Update, Delete, also of
  top-level resources and with operations; Undelete; a custom method) with up to
  two of 35 mistakes; four APIs (a publisher, its book's edition, a singleton, a
  custom search) with up to two of 58; a file with up to three of 24 and an enum
  with up to three of 14; each repaired in *any* order. Two mistakes are what two
  rules can disagree about; `Converges` fails if any two rules keep undoing each
  other's advice.
- **unannotated_operation** restricts the mistakes to those of finding 2.

Left out of `author`, being listed in section 6 or in finding 2: an operation
without annotation, or with a response type that does not resolve, on Create or
Update; colon URIs on Update and Delete; a noun with a preposition on Create and
Update; a custom method whose body names a missing field; a singleton without
patterns or annotation; an additional binding without a verb. Of the mistakes
that are listed, every pair (in a file or enum, every three) is a draft.

## 4. Fairness

- Linter, Command, FieldCycles, Declarative, Plugin: `WF_vars(Next)`. Each is one
  goroutine that nothing blocks; it takes its next step.
- ConfigScan, LintContract, Report, Traversals: none; their properties are
  invariants.
- SourceInfo: `WF_vars(Step(w))` for each handler. The Go scheduler runs every
  goroutine, and the host starts a waiting handler when one has ended.
- Author: the author does not stop while a problem is left (`WF(Next)`), and
  does not put off a wrong name, a wrong pattern or a wrong HTTP method for ever
  (`SF(Rename)`, `SF(ChangeHTTPMethod)`). This is an assumption about the
  author, not the code, and it is needed: while an operation's response does
  not fit the method's name, `request-resource-behavior` and
  `request-required-fields` contradict each other; while an Undelete uses GET,
  AEP-164 asks for a body and AEP-136 for none; and while a pattern is in snake
  case, `http-template-pattern` asks for a URI like it and `kebab-case-uris`
  refuses it. The contradictions vanish when the name, the verb or the pattern
  is repaired.

Deadlock is checked everywhere but in MCAuthor, where an author with a clean
design stops, and MCTraversals, where a file has been walked. The other
modules end in a stuttering step of their own (`Returned`, `Over`, `AllEnded`,
`Decided`, `Done`, `Finished`).

## 5. Proofs

Eight modules hold theorems for every value of the constants, under the named
assumptions of the modules they extend (TLC evaluates these on every run).

| theorem | module | says | inductive invariant |
| --- | --- | --- | --- |
| ScanDecides, FlagsWin, CloudStaysOff | ConfigScan_proofs | the three properties of `config_scan`, for config lists of any length | `ScanInv`: the flag `enabled` is the verdict of the entries already scanned; the flags' entries are last |
| LinterTypeCorrect, EveryRuleVisited, MustReported, AllOrNothingHolds, CommentsHide | Linter_proofs | the safety properties of `linter`, CommentsOnlyHide among them | `LinterInv` |
| LinterImplementsContract | Linter_proofs | `Spec => C!Spec` under the refinement mapping | `LinterInv` |
| LintProtosComesCloser | Linter_proofs | every step of `LintProtos` gets less in a well-founded order, if what it loops over is finite | `LinterInv` |
| OneAnswer | Linter_proofs | the contract gives every request one answer: the same problems in each response, or the same messages in the error (as sets) | none is needed |
| NoConcurrentAccess, AnswersOwn | Locations_proofs | with `Parallelism = 1`, both safety properties of `source_info` | `SourceInfoInv` |
| HandlersComeCloser | Locations_proofs | every step leaves one handler less to do and no other more, for any `Parallelism` | `TodoInv` |
| CommandTypeCorrect, CleanExitIsComplete, ExitStatusIsRight, DisabledIsDisabled | Command_proofs | the invariants of `command` | `CommandInv`; `SilentInv`: the disabling flag is the list's last entry and no answer has a problem of its rules |
| CommandImplementsContract, OldReportSurvives | Command_proofs | `Spec => C!Spec` under the refinement mapping; in terms of the answer, the output file changes only after the linter has returned its responses | `CommandInv`, `RunInv` |
| RunComesCloser | Command_proofs | every step of a run lowers a number from 0 to 12 | `CommandInv` |
| SearchNeverRepeats | Declarative_proofs | `NeverAgain`, for every API in which no response leads to a message called Request | `Descending` |
| SearchComesCloser | Declarative_proofs | in such an API every step lowers a natural number | `Descending` |
| ReportsOnlyCycles, ReportsEveryCycle | FieldCycles_proofs | OnlyCyclesReported and EveryCycleReported, for every graph of resources | `SearchInv`, `CompleteInv` |
| NoDeeperThanTypes, SearchComesCloser | FieldCycles_proofs | the recursion is no deeper than there are types; every step of the search gets less in a well-founded order | `SearchInv`, `DepthInv` |
| PluginImplementsContract, PluginSeesEverything | Plugin_proofs | `Spec => C!Spec` under the refinement mapping, and PluginSeesAll | `PluginInv` |
| RegisteredUnderItsAep, ServingIsComplete | Plugin_proofs | RulesAreTheirAeps and ServesAllRules, for every list of packages | `RegistryInv` |
| PluginComesCloser | Plugin_proofs | every step of the start and of a check gets less in a well-founded order | `FiniteInv`, `PluginInv`, `RegistryInv` |
| HeaderIsTheFirst, LoopHoldsTheFirst | Locations_proofs | the header is that of the first commented statement, for any list of locations | `HeaderInv` |
| TraversalImplementsHeader, RulesFindTheHeader | Locations_proofs | `TraversalSpec => HeaderSpec`, and with it HeaderIsFirst for the run that checks it | `HeaderInv` |
| RulesVisitTheirKind | Locations_proofs | VisitsItsKind, for every file that is well nested | `TraversalInv` |
| SummaryCounts, LocationsAreSound | Locations_proofs | SummaryAddsUp and LocationsArePositions, for any responses and spans | `ReportInv` |
| CallableWhenClean, ResourceKnownWhenClean | Author_proofs | CleanIsCallable and CleanKnowsItsResource, for every method | none is needed |
| CompleteWhenClean, AddressableWhenClean | Author_proofs | CleanServiceIsComplete and CleanIsAddressable, for every API; the second speaks of the references whose type some resource has | `APITypeOK` |
| FileInOrderWhenClean | Author_proofs | CleanFileIsInOrder, for every file, deprecated or with deprecated elements too: then a service may come after an enum | `FileTypeOK` |
| AnsweredThroughout | Author_proofs | AdviceIsAnswered, if the drafts are answerable | `MethodInForm` |

The arguments:

- **ConfigScan.** `LastWordDecides` speaks of the end of the loop, so it is not
  inductive; `ScanInv` says the same of the prefix scanned so far, and one
  lemma that `EnabledAfter` of a longer prefix is the entry's application to
  that of the shorter. `EnableFlagBeatsFile` follows as well and is part of the
  proof, though no run lists it.
- **Linter.** `LinterInv` has a conjunct per loop. `WalkInv`: the descriptors
  passed on the way up do not disable the rule, and comment lines are in hand
  only at the first. `RuleInv`: the rule being filtered runs and has not
  panicked. `LoopInv`: what has been found is the contract's contribution of
  the rules already visited, and of the seen problems of the current one. As
  a union over a *set* of rules it does not depend on their order. `FilesInv`:
  all files before this one were clean and have the contract's response. At the
  last step `FilesInv` and `LoopInv` give the contract's answer, and every
  other step is a stutter. That no descriptor is above its own parent
  is an assumption about the constant `Parent` (`ContractAssumption`).
- **SourceInfo.** With parallelism 1 at most one handler is running
  (`OneRunning`), so the handler that compiles still finds its file missing
  when it is done (`CallInv`), and every table stored is a compilation of its own
  file (`CacheInv`). `Parallelism = 1` is the hypothesis of both theorems; the
  number is what `main.go` passes to the host.
- **Command.** `CommandInv` ties the stage to what has been done: no answer
  before linting, no change of the output file before an answer, the report
  where it was asked for at the end. `RunInv` adds what the contract's steps
  need: the config list is the part of the run's list that has been assembled,
  no call passed was to fail, no file has complained once there is a report to
  deliver, and file and terminal are as they were until the stage that touches
  them. Each action is then a step of the contract or a stutter; a call that
  fails is its `Refuse` before linting and its `Miss` after.
- **Declarative.** `Rank` measures a call by the length of its name; in an API
  that satisfies `RequestsAreNoResources` every nested call has a smaller one,
  so no argument can occur twice. The hypothesis is exactly what the violation
  run drops.
- **FileHeader.** `BestSoFar`: of the locations passed, the loop holds the least
  position; and `asPos`, line times width plus column, orders positions as the
  text does as long as columns stay below the width. A rule of whatever form
  begins on a file as `fileHeader` does and leaves its state alone otherwise, so
  Traversals inherits the theorem.
- **Report.** `ReportInv`: the maps hold the counts of the problems passed, a
  rule or a path being there only if it has any; the rows written are the rules
  passed, each once; the YAML output so far is the image of the problems in their
  order. A summary's numbers are sums over a map, and the theorem speaks of
  cardinalities: the step that adds one to one entry adds one element to one
  set. That each position of the output has a problem of that rank
  (`Nth`) is shown by taking the least rank without one. LocationsArePositions
  needs that a span's end is not before its start (`IsSpan`, checked as part of
  `ReportAssumption`); since ends are exclusive, an empty span, which only an empty
  file can have, would be printed with an end before its start.
- **Author, clean designs.** A design is clean if every rule is silent, so what
  the rules ask for holds of it, all at once. The work is in the rules that look
  at one thing only (the first URI, the first repeated message, the first
  element out of order): `APITypeOK` and `FileTypeOK`, kept by every rule's
  advice, make that first one exist. TLC's drafts had hidden three exceptions,
  which the properties now state: the signature of a top-level Create with an
  operation, the body of a custom method, and the variables that no rule asks
  for.
- **Author, panics.** `MethodInForm`: a Create or Update, under any of the verbs
  that rules rename to them, returns a message or an operation whose response is
  found, as is the message that its noun names, with and without its
  prepositions. It is kept because advice on the response goes to that message
  only. The hypothesis on the drafts cannot be dropped: an `InsertBookByAuthor`
  that returns an operation with the response `Book` is told first that the
  response should be `BookByAuthor`, and if the author obeys that before
  removing the preposition, the response resolves to nothing and a rule panics.
- **FieldCycles.** `SearchInv`: the stack is a chain of calls, each made for the
  message its caller's field leads to, and a finding on its way back closes a
  cycle; so what the start reports starts one. `CompleteInv` says the converse
  of the fields that a loop has left behind: none leads to a cycle except
  through a type already seen. Two lemmas about least sets, without induction
  on paths, make that enough: a cycle goes on without coming back to the type
  of where it is (`GoesOn`), and closes without coming back to the start's
  (`WithoutStart`). The first needs that a type is one message
  (`OneMessageEach`), which is the condition in EveryCycleReported.
- **Plugin.** `PluginInv`: the files picked are the own files passed, the
  annotations are all that the handlers called so far have to say and what the
  current one has said of the files and problems passed. At the end of the
  check that is the contract's answer.
- **Registry.** `RegistryInv`: what is registered are the names of the packages
  passed and the part of the current one, without a name twice, and the
  plugin's specs are those of the names visited. Names that have a spec have
  three segments and the group `core`. Their IDs are the words of the other two,
  in upper case and joined by underscores; so an ID determines its name if a
  number is one word and no two segments are spelled alike (`NamesAssumption`).
- **Traversals.** The walk lists, each once, the messages nested in one to any
  depth (`NestedLists`). The library's induction theorems cannot be used, so each
  induction is one over numbers that takes the least where the statement would
  fail (`LeastNumber`, `UpTo`): over prefixes, for the loops that keep and join
  lists, and from the end of the source backwards, since a message begins before
  those nested in it. That the recursive functions exist at all is shown the same
  way (`KeepingExists`, `JoiningExists`, `NestedExists`). The path of a message up
  to the file is a least set; what makes nothing come twice is that two messages
  side by side have no common tree (`TreesApart`), and what leaves nothing out is
  that every message is in the tree of one of the file's own (`TreesCover`).
- **Coming to an end.** A step that lowers a measure cannot be taken for ever if
  the order of the measure is well founded. Two programs have a number: the
  command's stages, and in Declarative the `Rank` of the innermost call. The
  others have loops in
  loops, and their measure is a tuple of what is left of each, ordered like the
  words of a dictionary (`Less`; well founded by `WFLexProductOrdering`): the
  linter's files, rules, problems and levels; the plugin's phase, then packages,
  names to visit, files or rules, then the names or files in that, then the
  batch. The search for cycles has one number for each depth of its recursion,
  the fields left there; it has as many depths as there are types, because a
  frame has seen at least as many types as it is deep (`DepthInv`). A handler of
  the source maps has a number of its own, and no handler disturbs another's,
  so finitely many handlers have finitely many steps, which also holds with a
  parallelism for which the map access is not safe. The hypotheses say that what
  is looped over is finite (rules, descriptors, types, the problems of a rule,
  the fields of a message); those on Plugin follow from its own steps.
- **One answer.** The contract's `IsAnswer` is a relation; that it relates a
  request to one answer only, failed requests included, is shown by the first
  file with complaints. With LinterImplementsContract it follows which problems
  and messages the linter answers with; their order, which does depend on that
  of Go's map, is not modelled.

Model-checked only:

- The liveness properties (`Returns`, `HandlersEnd`, `Terminates`, `Ends`,
  `StartAndCheckEnd`, `ReturnsWithoutRequestResources`, `Converges`). Of all but the last, the
  theorems on coming to an end are the part about safety: no behaviour steps for
  ever. The other half, that a program which has not ended can take a step and
  under fairness does, is about ENABLED and out of this prover's reach. The
  author's repairs (`Converges`) have no measure: advice can undo advice until a
  name is repaired (section 4), so it holds only by strong fairness.

The two violation runs state what the code does not do.

## 6. Findings and other disagreements

Shown by a run:

1. `declarative_any`. `DeclarativeFriendlyResource` calls itself on the method
   `Join` for the message `JoinRequest`, and on the resource a method returns:
   if `Join` returns the resource `JoinRequest` the calls alternate without end
   (`rules/internal/utils/declarative_friendly.go:59`), whereas line 46 says
   "If there is no declarative-friendly resource, it returns nil."
2. `unannotated_operation`. A Create or Update method that returns an operation
   without `operation_info` makes `request-required-fields` ask a nil type for
   its name (`rules/aep0133/request_required_fields.go:47`, the same at
   `rules/aep0134/request_required_fields.go:43`); the whole lint fails, so the
   missing annotation is *not* reported, though
   `rules/aep0133/response_message_name.go:45` says "The AEP-151 rule will whine
   about that".

Met while modelling; the models follow the code, and no run is about them:

- Comments do not disable Must rules (`lint/rule_enabled.go:70`), but
  `docs/rules/0131/http-method.md:48` and other pages of Must rules say "If you
  need to violate this rule, use a leading comment above the method", and
  `docs/configuration.md:4` that "one can disable a rule by using a CLI flag, a
  configuration file or the file comments."
- Comments have no effect under buf: the plugin calls `Lint` directly
  (`cmd/buf-plugin-aep/main.go:104`); `docs/configuration.md:63` says of a file
  comment that it "will disable the rule … for the entire file".
- `docs/configuration.md:9` names the flag `-disable_rule`; it is
  `--disable-rule`.
- `strPath` (`locations/locations.go:65`) turns a segment into one rune. Option
  numbers beyond the last code point, among them that of `google.api.http`, all
  become U+FFFD, so `MethodHTTPRule` gives the location of whichever such
  option came last, not "the precise location of the method's
  `google.api.http` rule" (`locations/method_locations.go:34`).
- `no-mutable-cycles` follows the first type of a field only
  (`no_mutable_cycles.go:57`); `docs/rules/0121/no-mutable-cycles.md` promises
  "any references". `EveryCycleReported` is about the references followed.
- `no-mutable-cycles` visits a *type* once. If an import and the import's own
  import each declare a message of one type, a path that went through the first
  does not look at the second, and a cycle that only the second closes is
  missed. Hence the condition `OneMessageEach` of `EveryCycleReported`.
- Every path through `DeclarativeFriendlyResource` ends in nil: it says itself
  that "AEP ResourceDescriptor doesn't have a Style field"
  (`declarative_friendly.go:50`), where line 31 promises the message "if …
  style: DECLARATIVE_FRIENDLY is set". So `declarative-friendly-fields`,
  `declarative-standard-methods-only`, `request-allow-missing-field` and the
  three `response-lro` rules report nothing, though
  `docs/rules/0148/declarative-friendly-fields.md` says what the first
  "complains" about.
- `resource-id-output-only` compares a field with the *singular* and `_id`
  (`resource_id_output_only.go:36`). AEP-4 makes the singular kebab case, so the
  rule is silent on `book_edition_id` as soon as the singular is written; its
  page says "named as `uid` or with the `_id` suffix".
- The messages of AEP-4 say "lowerCamelCase" (`resource_plural.go:45`), "lower
  camel case" (`resource_singular.go:46`) and "camel case"
  (`resource_pattern.go:61`) of what the code checks to be kebab case, as do
  `docs/rules/0004/resource-singular.md:5` and
  `docs/rules/0122/resource-collection-identifiers.md:5`.
- `docs/rules/0122/kebab-case-uris.md` calls the rule `camel-case-uris`, so the
  comment on its line 53 disables nothing.
- `forbidden-methods` of AEP-156 looks for a variable `path` in the URI, and a
  Create has `parent`: a Create of a singleton is never reported.
- `kebab-case-uris` also holds for the URI of a resource whose pattern comes
  from another file. If that pattern is in snake case, `http-template-pattern`
  asks for a URI like it, `kebab-case-uris` refuses it, and no advice ends this.
- After `resource-type-name`'s advice, references by the old type no longer
  resolve; no rule reports them, and `http-template-pattern` returns at once
  (`http_template_pattern.go:108`). With a wrong type and a wrong URI, the URI is
  repaired only if its turn comes first; otherwise the API is clean with a URI
  that matches no pattern. This is what `CleanIsAddressable` excepts, and why
  nothing is claimed of the order of repairs.
- The order of the problems in a response, and of the messages in the error,
  differs between runs on the same files: both are appended in the order of a Go
  map (`lint/lint.go:92`) and not sorted. The message of a panic is the panic's
  own text (`lint/lint.go:127`), so the error does not tell which rule failed.
- `file-layout` compares services with the first message and messages with the
  first enum; its problem hangs on the service or on that enum
  (`file_layout.go:33` and 46). It is no Must rule (line 24), so deprecating the
  service or the first enum, or the file, silences it, although messages or
  other enums may be what is out of place. `CleanFileIsInOrder` excepts this.
- A singleton without patterns is asked for a
  List. Of two resources of one type, the wrong one may be asked for the method
  that the other lacks. A plural or a pattern copied from another resource is
  not reported, nor is an unannotated resource without a `path` field.
- A pattern with a one-letter variable in a collection's place passes
  `resource-pattern`, and one with a trailing slash passes and makes its
  resource a singleton.
- `synonyms` of AEP-216 finds enums that *end* in `Status` and replaces the
  first `Status` of the name (`synonyms.go:32`). A suggested name may be taken. The
  suggestion of `time-field-names` for a name with two of its terms depends on
  the order of a Go map.
- `file-layout` does not compare enums with services in a file without messages,
  and `isBefore`, of which the comment says that "A false value here may indicate
  that there is no source info at all", panics then (`file_layout.go:63`).
- The GitHub form prints the end *column* of a three-number span as `endLine`
  (`github_actions.go:44`), where line 31 tells the form
  `line={line},endLine={endLine}` and `lint/problem.go:157` the meaning of the
  numbers; it prints them as they are, counted from zero. It also leaves a
  problem without a `Location` unplaced (line 35), though the location
  "defaults to the value of `Descriptor.GetSourceInfo()`" (`problem.go:51`).
- A leading comment below a detached one is not part of the file's header
  (`lint/rule.go:544`), though `lint/rule_enabled.go:101` speaks of "comments in
  the file or leading the element".
- `FieldRule.Lint` "visits every field in the file" (`lint/rule.go:174`) but not
  the fields of `extend` blocks; `VisitsItsKind` takes that as given.
- AEP-132 `request-parent-required` looks the response's field up by the plural
  (line 29), which `response-unknown-fields` forbids, so a List of a top-level
  resource is always asked for a parent. The comment at
  `response_unknown_fields.go:24` says of the resource that it is "also
  permitted" and "covered in code in the rule itself", where it is not.
- AEP-133 `method-signature` (line 40) decides about `parent` by the response
  itself, `http-uri-parent` (line 29) by the operation's response type: a
  top-level Create that returns an operation is asked for a signature naming a
  parent it need not have, the exception that `CleanIsCallable` names. The same rule wants `{resource}_id` in the
  signature if the request has it, and `request-unknown-fields` refuses it in
  the request. Without a field of the resource's type, `http-body` asks for the
  lower case of its noun and `method-signature` for its snake case.
- AEP-164's URI pattern `{name=[a-zA-Z/*]+}:undelete` (`aep0164.go:46`) refuses
  hyphens, digits and underscores in the template, though the page
  `docs/rules/0164/http-uri-suffix.md` is about the suffix, and AEP-122 wants
  kebab case.
- Update and Delete with a colon URI are custom methods to AEP-136 and standard
  ones to AEP-134 and 135.
- `parseRule` returns nil for an `additional_bindings` entry without a URI, and
  its callers do not expect it; `HTTPRule.Method` is the custom kind itself and
  never "CUSTOM" as the comment says. List accepts URI variables that are no
  fields; AEP-134 checks that `path` exists, not its type.

## 7. What is not modelled

- **Parser and descriptors** (`protoparse`, `desc`): a library; its results are
  the inputs of the modules. So are the encoders and the table writer of the
  output formats, and the decoding of config files.
- **Naming and comment helpers**: text transformations, mostly one call of a
  library each. Where a rule depends on them, their results are constants
  (`Snake`, `Lower`, `Parts`, `Singular`, …), so that the differences between
  them show. The helpers of resource revisions, `FindFieldDotNotation` and the
  word lists of `rules/internal/data` are left out.
- **`declarative-friendly-fields`** (AEP-148), which cannot report anything
  (section 6).
- **What the version and the rule listing say, the quality checker, test
  helpers, docs**: no effect on the answer of a lint.

## 8. Plan

Done, in order of importance: rule selection, the linter and its contract, the
shared cache, the command, the plugin with its contract and the registry, the
searches that could run for ever, the traversals, the method rules, the rules of
the other AEPs with the author who follows them; and the proofs of section 5.
What would come next:

1. *Larger designs*: a service of several methods each with its full request and
   response, so that the rules on methods and those on services meet.
