------------------------------- MODULE Linter -------------------------------
(***************************************************************************)
(* Linter.LintProtos step by step (lint/lint.go, lint/rule_enabled.go):    *)
(* the files in turn; for each, the rules of the registry in any order,    *)
(* since Go does not fix the order of a map; for each rule that the        *)
(* configs leave on, a run that returns problems or panics; for each       *)
(* problem, the walk of ruleIsEnabled from the problem's descriptor up to  *)
(* its file.                                                               *)
(***************************************************************************)
EXTENDS RuleConfig

CONSTANTS Rules, MustRules, Alias, Descriptors, NoDesc, Parent,
          Patterns, Globs, ProblemIds, Requests

VARIABLES
  q,          \* the call's arguments, fixed by Init
  pc,         \* "files", "rules", "filter", "walk", "done" or "failed"
  next,       \* the index of the file being linted, or to be linted next
  pending,    \* the registry's entries the file's loop has not visited
  rule,       \* the rule whose problems are being filtered
  batch,      \* its problems that the filter has not seen
  prob,       \* the problem whose descriptors are being walked
  at, loc,    \* ruleIsEnabled's descriptor and location's comment lines
  found,      \* the problems in resp.Problems, whose order is left out
  messages,   \* the texts in errMessages, the same
  responses   \* the responses so far

vars == <<q, pc, next, pending, rule, batch, prob, at, loc,
          found, messages, responses>>

(* The answer the caller has, once LintProtos has returned one.            *)
Answer ==
  [kind |-> IF pc = "done" THEN "results" ELSE IF pc = "failed" THEN "error" ELSE "none",
   responses |-> IF pc = "done" THEN responses ELSE <<>>,
   messages |-> IF pc = "failed" THEN messages ELSE {}]

C == INSTANCE LintContract WITH request <- q, answer <- Answer

ASSUME LinterAssumption == C!ContractAssumption

NoRule == <<>>
NoProblem == [id |-> "none", desc |-> NoDesc, lines |-> {}]

Init ==
  /\ q \in Requests
  /\ pc = "files"
  /\ next = 1
  /\ pending = {} /\ rule = NoRule /\ batch = {}
  /\ prob = NoProblem /\ at = NoDesc /\ loc = {}
  /\ found = {} /\ messages = {} /\ responses = <<>>

File == q.files[next]

-----------------------------------------------------------------------------

StartFile ==
  /\ pc = "files" /\ next <= Len(q.files)
  /\ pc' = "rules"
  /\ pending' = Rules
  /\ found' = {} /\ messages' = {}
  /\ UNCHANGED <<q, next, rule, batch, prob, at, loc, responses>>

SkipRule(r) ==
  /\ pc = "rules" /\ r \in pending
  /\ ~ IsRuleEnabled(q.configs, r, File)
  /\ pending' = pending \ {r}
  /\ UNCHANGED <<q, pc, next, rule, batch, prob, at, loc, found, messages, responses>>

(* Mutant: a panic ends the loop over the rules.                           *)
PanicEndsLoop(r) ==
  /\ pc = "rules" /\ r \in pending
  /\ IsRuleEnabled(q.configs, r, File)
  /\ <<r, File>> \in q.panics
  /\ pending' = {}
  /\ messages' = messages \cup {C!PanicMessage}
  /\ UNCHANGED <<q, pc, next, rule, batch, prob, at, loc, found, responses>>

(* runAndRecoverFromPanics: the panic becomes a message, which does not    *)
(* say of which rule.                                                      *)
RulePanics(r) ==
  /\ pc = "rules" /\ r \in pending
  /\ IsRuleEnabled(q.configs, r, File)
  /\ <<r, File>> \in q.panics
  /\ pending' = pending \ {r}
  /\ messages' = messages \cup {C!PanicMessage}
  /\ UNCHANGED <<q, pc, next, rule, batch, prob, at, loc, found, responses>>

RunRule(r) ==
  /\ pc = "rules" /\ r \in pending
  /\ IsRuleEnabled(q.configs, r, File)
  /\ <<r, File>> \notin q.panics
  /\ pc' = "filter"
  /\ pending' = pending \ {r}
  /\ rule' = r
  /\ batch' = q.problems[r, File]
  /\ UNCHANGED <<q, next, prob, at, loc, found, messages, responses>>

RejectProblem(p) ==
  /\ pc = "filter" /\ p \in batch
  /\ p.desc = NoDesc
  /\ batch' = batch \ {p}
  /\ messages' = messages \cup {C!NoDescriptorMessage(rule)}
  /\ UNCHANGED <<q, pc, next, pending, rule, prob, at, loc, found, responses>>

EnterWalk(p) ==
  /\ pc = "filter" /\ p \in batch
  /\ p.desc # NoDesc
  /\ pc' = "walk"
  /\ batch' = batch \ {p}
  /\ prob' = p /\ at' = p.desc /\ loc' = p.lines
  /\ UNCHANGED <<q, next, pending, rule, found, messages, responses>>

(* ruleIsEnabled at one descriptor.                                        *)
Names == {rule} \cup {IF rule \in DOMAIN Alias THEN Alias[rule] ELSE EmptyName}

(* Mutant: --ignore-comment-disables ignores deprecation as well.          *)
DisabledUnlessIgnored ==
  /\ ~ q.ignoreCommentDisables
  /\ \/ at \in q.deprecated
     \/ \E name \in Names :
          MatchRule(name, ExtractDisabledRules(loc \cup q.lines[at]))

DisabledHere ==
  \/ at \in q.deprecated
  \/ /\ ~ q.ignoreCommentDisables
     /\ \E name \in Names :
          MatchRule(name, ExtractDisabledRules(loc \cup q.lines[at]))

(* Mutant: the problem is kept without the name of its rule.               *)
KeepUnnamed == found' = found \cup {prob}

Keep == found' = found \cup {[rule |-> rule, problem |-> prob]}

WalkEnds ==
  /\ pc' = "filter"
  /\ prob' = NoProblem /\ at' = NoDesc /\ loc' = {}
  /\ UNCHANGED <<q, next, pending, rule, batch, messages, responses>>

KeepMust ==
  /\ pc = "walk" /\ rule \in MustRules
  /\ Keep /\ WalkEnds

(* Mutants: a Must rule is suppressed like the others; the walk ends       *)
(* before it reaches the file.                                             *)
SuppressAny ==
  /\ pc = "walk"
  /\ DisabledHere
  /\ found' = found /\ WalkEnds

KeepAnywhere ==
  /\ pc = "walk" /\ rule \notin MustRules
  /\ ~ DisabledHere
  /\ Keep /\ WalkEnds

Suppress ==
  /\ pc = "walk" /\ rule \notin MustRules
  /\ DisabledHere
  /\ found' = found /\ WalkEnds

Ascend ==
  /\ pc = "walk" /\ rule \notin MustRules
  /\ ~ DisabledHere
  /\ Parent[at] # NoDesc
  /\ at' = Parent[at] /\ loc' = {}
  /\ UNCHANGED <<q, pc, next, pending, rule, batch, prob, found, messages, responses>>

KeepAtRoot ==
  /\ pc = "walk" /\ rule \notin MustRules
  /\ ~ DisabledHere
  /\ Parent[at] = NoDesc
  /\ Keep /\ WalkEnds

(* Mutant: a rule that has run is put back.                                *)
EndRulePutsBack ==
  /\ pc = "filter" /\ batch = {}
  /\ pc' = "rules" /\ rule' = NoRule
  /\ pending' = pending \cup {rule}
  /\ UNCHANGED <<q, next, batch, prob, at, loc, found, messages, responses>>

EndRule ==
  /\ pc = "filter" /\ batch = {}
  /\ pc' = "rules" /\ rule' = NoRule
  /\ UNCHANGED <<q, next, pending, batch, prob, at, loc, found, messages, responses>>

EndFile ==
  /\ pc = "rules" /\ pending = {} /\ messages = {}
  /\ pc' = "files"
  /\ next' = next + 1
  /\ responses' = Append(responses, [file |-> File, problems |-> found])
  /\ found' = {}
  /\ UNCHANGED <<q, pending, rule, batch, prob, at, loc, messages>>

(* A file with an error message ends the call: the responses of the files  *)
(* before it are dropped.                                                  *)
FailFile ==
  /\ pc = "rules" /\ pending = {} /\ messages # {}
  /\ pc' = "failed"
  /\ responses' = <<>>
  /\ UNCHANGED <<q, next, pending, rule, batch, prob, at, loc, found, messages>>

EndFiles ==
  /\ pc = "files" /\ next > Len(q.files)
  /\ pc' = "done"
  /\ UNCHANGED <<q, next, pending, rule, batch, prob, at, loc, found, messages, responses>>

Returned == pc \in {"done", "failed"} /\ UNCHANGED vars

Walk == KeepMust \/ Suppress \/ Ascend \/ KeepAtRoot

Next ==
  \/ StartFile \/ EndFile \/ FailFile \/ EndFiles
  \/ \E r \in Rules : SkipRule(r) \/ RulePanics(r) \/ RunRule(r)
  \/ \E p \in batch : RejectProblem(p) \/ EnterWalk(p)
  \/ Walk
  \/ EndRule
  \/ Returned

Spec == Init /\ [][Next]_vars

(* LintProtos is one goroutine that nothing blocks: it takes its next step.*)
FairSpec == Spec /\ WF_vars(Next)

-----------------------------------------------------------------------------

TypeOK ==
  /\ q \in Requests
  /\ pc \in {"files", "rules", "filter", "walk", "done", "failed"}
  /\ next \in 1..(Len(q.files) + 1)
  /\ pending \subseteq Rules
  /\ rule \in Rules \cup {NoRule}
  /\ batch \subseteq C!Problem
  /\ prob \in C!Problem \cup {NoProblem}
  /\ at \in Descriptors \cup {NoDesc}
  /\ loc \in C!Lines
  /\ found \subseteq [rule : Rules, problem : C!Problem]
  /\ messages \subseteq C!Messages
  /\ responses \in Seq([file : C!Files,
                        problems : SUBSET [rule : Rules, problem : C!Problem]])

(* Whatever order the registry's map is iterated in, each file's response  *)
(* holds exactly the problems of the rules the configs leave on, less      *)
(* those that a descriptor above them suppresses (lint/lint.go,            *)
(* lint/rule_enabled.go).  Where in the response a problem stands is not   *)
(* said: nothing sorts them, and it does depend on the map.                *)
ImplementsContract == C!Spec

(* A problem of a MustRule that the configs leave on reaches the caller    *)
(* whatever comments or deprecated options the file has (ruleIsEnabled).   *)
MustProblemsReported ==
  pc = "done" =>
    \A n \in 1..Len(q.files), r \in MustRules :
      IsRuleEnabled(q.configs, r, q.files[n]) =>
        \A p \in q.problems[r, q.files[n]] :
          [rule |-> r, problem |-> p] \in responses[n].problems

(* One rule's panic does not keep the others from running: at the end of a *)
(* file's loop the response has every other rule's problems, and among the *)
(* messages are that of a panic, if there was one, and one for each rule   *)
(* with a problem that has no descriptor (lintFileDescriptor goes on after *)
(* err).  Only the latter name their rule.                                 *)
FileVisitedInFull ==
  (pc = "rules" /\ pending = {}) =>
    /\ found = C!Reported(q, File)
    /\ messages = C!Complaints(q, File)

(* LintProtos returns either a response per file, in the order of its      *)
(* arguments and with no rule having failed, or no response at all.        *)
AllOrNothing ==
  /\ pc = "done" =>
       /\ Len(responses) = Len(q.files)
       /\ \A n \in 1..Len(q.files) :
            /\ responses[n].file = q.files[n]
            /\ C!Complaints(q, q.files[n]) = {}
  /\ pc = "failed" => responses = <<>> /\ messages # {}

(* Ignoring disable comments only adds problems: what is reported with     *)
(* comments honoured is reported with --ignore-comment-disables.           *)
CommentsOnlyHide ==
  pc = "done" =>
    \A n \in 1..Len(q.files) :
      responses[n].problems \subseteq
        C!Reported([q EXCEPT !.ignoreCommentDisables = TRUE], q.files[n])

(* LintProtos returns.                                                     *)
Returns == <>(pc \in {"done", "failed"})

-----------------------------------------------------------------------------
(* The inductive invariant, in four parts: where the walk is and what the  *)
(* descriptors it has left said; the rule in hand; what the file's loop    *)
(* has collected; what the files before have given.                        *)

InLoop == pc \in {"rules", "filter", "walk"}
InRule == pc \in {"filter", "walk"}

WalkInv ==
  pc = "walk" =>
    /\ prob \in q.problems[rule, File] \ batch
    /\ prob.desc # NoDesc
    /\ at \in C!Above(prob.desc)
    /\ \/ at = prob.desc /\ loc = prob.lines
       \/ prob.desc \notin C!Above(at) /\ loc = {}
    /\ \A a \in C!Above(prob.desc) :
         \/ a \in C!Above(at)
         \/ ~ C!DisabledAt(q, rule, a, IF a = prob.desc THEN prob.lines ELSE {})

RuleInv ==
  InRule =>
    /\ rule \in Rules \ pending
    /\ C!RuleRuns(q, rule, File)
    /\ <<rule, File>> \notin q.panics
    /\ batch \subseteq q.problems[rule, File]

Visited == Rules \ (pending \cup (IF InRule THEN {rule} ELSE {}))

Seen ==
  IF InRule
  THEN q.problems[rule, File] \ (batch \cup (IF pc = "walk" THEN {prob} ELSE {}))
  ELSE {}

Gathered == UNION {C!Contribution(q, r, File) : r \in Visited}
Failures == UNION {C!Complaint(q, r, File) : r \in Visited}

LoopInv ==
  InLoop =>
    /\ next <= Len(q.files)
    /\ found = Gathered \cup C!Kept(q, rule, Seen)
    /\ messages = Failures \cup C!Unplaced(rule, Seen)

FilesInv ==
  /\ C!Clean(q, next - 1)
  /\ pc # "failed" => responses = [k \in 1..(next - 1) |-> C!Response(q, q.files[k])]
  /\ pc = "done" => next = Len(q.files) + 1
  /\ pc = "failed" =>
       /\ responses = <<>>
       /\ next <= Len(q.files)
       /\ messages = C!Complaints(q, File)
       /\ messages # {}

LinterInv == TypeOK /\ WalkInv /\ RuleInv /\ LoopInv /\ FilesInv

=============================================================================
