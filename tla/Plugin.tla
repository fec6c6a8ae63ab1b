------------------------------- MODULE Plugin -------------------------------
(***************************************************************************)
(* The buf plugin (cmd/buf-plugin-aep/main.go): its start, and a check.    *)
(* "before" picks the files that are no imports, and the host calls the    *)
(* handlers of the selected rules, one after the other and in any order.   *)
(* A handler runs its rule on the files in turn and adds an annotation for *)
(* each problem.                                                           *)
(* The host is external: the error of a handler makes the check fail, a    *)
(* panic ends the plugin.                                                  *)
(***************************************************************************)
EXTENDS Registry, RuleConfig

CONSTANTS Rules, MustRules, Alias, Descriptors, NoDesc, Parent, Patterns, Globs,
          ProblemIds,
          Checks,         \* the requests to check considered
          ConfigChoices   \* the configs the linter could have been given

VARIABLES
  req,          \* the request, and what the rules would do
  pc,           \* "start", "before", "handlers", "rule", "adding", "done", "failed" or "crashed"
  files,        \* the context's file descriptors
  waiting,      \* the selected rules whose handlers have not been called
  rule, k,      \* the handler's rule, and the file it is at
  batch,        \* the problems it has not added
  annotations   \* the response so far

checkVars == <<req, pc, files, waiting, rule, k, batch, annotations>>
vars == <<startVars, checkVars>>

NoRule == <<>>
NoRequest == [files |-> <<>>, selected |-> {}]

L == INSTANCE LintContract WITH Requests <- {}, request <- req, answer <- pc

(* What the caller has when the check is over.                             *)
Outcome ==
  [status |-> IF pc \in {"done", "failed", "crashed"} THEN pc ELSE "none",
   annotations |-> IF pc = "done" THEN annotations ELSE {}]

C == INSTANCE PluginContract WITH NoCheck <- NoRequest, check <- req, answer <- Outcome

(* A problem has the linter's fields, and says whether it comes with a     *)
(* Location of its own.                                                    *)
Problem ==
  [id : ProblemIds, desc : Descriptors \cup {NoDesc}, lines : L!Lines, located : BOOLEAN]

(* What the host sends, with the text of the files and what each rule does *)
(* on each.  "sourced" are the descriptors with source information.        *)
Check ==
  [files : Seq([file : L!Files, import : BOOLEAN]), selected : SUBSET Rules,
   malformed : BOOLEAN,
   deprecated : SUBSET Descriptors, lines : [Descriptors -> L!Lines],
   sourced : SUBSET Descriptors,
   panics : SUBSET (Rules \X L!Files),
   problems : [Rules \X L!Files -> Seq(Problem)]]

ASSUME PluginAssumption ==
  /\ Checks \subseteq Check
  /\ ConfigChoices \subseteq Configs(Globs, Patterns)
  /\ \A c \in Checks : \A m, n \in DOMAIN c.files :
       c.files[m].file = c.files[n].file => m = n
  /\ NoRequest \notin Checks

Init ==
  /\ StartInit
  /\ req = NoRequest
  /\ pc = "start"
  /\ files = <<>> /\ waiting = {} /\ rule = NoRule /\ k = 1 /\ batch = <<>>
  /\ annotations = {}

-----------------------------------------------------------------------------

(* The host asks for rules that the plugin has told it of.                 *)
Receive ==
  /\ pc = "start" /\ stage = "serving" /\ program = "plugin"
  /\ req' \in {c \in Checks : c.selected \subseteq DOMAIN specs}
  /\ pc' = "before"
  /\ UNCHANGED <<files, waiting, rule, k, batch, annotations>>

(* Mutant, which the runs must refuse: what follows an import is left out. *)
StopAtImport ==
  /\ pc = "before" /\ k <= Len(req.files)
  /\ files' = IF req.files[k].import THEN files ELSE Append(files, req.files[k].file)
  /\ k' = IF req.files[k].import THEN Len(req.files) + 1 ELSE k + 1
  /\ UNCHANGED <<req, pc, waiting, rule, batch, annotations>>

PickFile ==
  /\ pc = "before" /\ k <= Len(req.files)
  /\ files' = IF req.files[k].import THEN files ELSE Append(files, req.files[k].file)
  /\ k' = k + 1
  /\ UNCHANGED <<req, pc, waiting, rule, batch, annotations>>

Before ==
  /\ pc = "before" /\ k > Len(req.files) /\ ~ req.malformed
  /\ waiting' = req.selected
  /\ pc' = "handlers"
  /\ UNCHANGED <<req, files, rule, k, batch, annotations>>

(* desc.WrapFiles fails, on files that are not complete.                   *)
BeforeFails ==
  /\ pc = "before" /\ k > Len(req.files) /\ req.malformed
  /\ pc' = "failed"
  /\ UNCHANGED <<req, files, waiting, rule, k, batch, annotations>>

(* Mutant: the handlers share the index of the file.                       *)
CallHandlerOn(r) ==
  /\ pc = "handlers" /\ r \in waiting
  /\ waiting' = waiting \ {r}
  /\ rule' = r /\ pc' = "rule"
  /\ UNCHANGED <<req, files, k, batch, annotations>>

CallHandler(r) ==
  /\ pc = "handlers" /\ r \in waiting
  /\ waiting' = waiting \ {r}
  /\ rule' = r /\ k' = 1 /\ pc' = "rule"
  /\ UNCHANGED <<req, files, batch, annotations>>

RunRule ==
  /\ pc = "rule" /\ k <= Len(files)
  /\ <<rule, files[k]>> \notin req.panics
  /\ batch' = req.problems[rule, files[k]]
  /\ pc' = "adding"
  /\ UNCHANGED <<req, files, waiting, rule, k, annotations>>

(* No handler recovers from the panic of its rule.                         *)
RulePanics ==
  /\ pc = "rule" /\ k <= Len(files)
  /\ <<rule, files[k]>> \in req.panics
  /\ pc' = "crashed"
  /\ UNCHANGED <<req, files, waiting, rule, k, batch, annotations>>

(* The location is the problem's, or else its descriptor's.                *)
PlaceOf(p) ==
  CASE p.located -> "problem"
    [] ~ p.located /\ p.desc \in req.sourced -> "descriptor"
    [] OTHER -> "nowhere"

Annotation(r, p) == [rule |-> r, problem |-> p, place |-> PlaceOf(p)]

AddProblem ==
  /\ pc = "adding" /\ batch # <<>>
  /\ Head(batch).desc # NoDesc
  /\ annotations' = annotations \cup {Annotation(rule, Head(batch))}
  /\ batch' = Tail(batch)
  /\ UNCHANGED <<req, pc, files, waiting, rule, k>>

RejectProblem ==
  /\ pc = "adding" /\ batch # <<>>
  /\ Head(batch).desc = NoDesc
  /\ pc' = "failed"
  /\ UNCHANGED <<req, files, waiting, rule, k, batch, annotations>>

(* Mutant: the same file again.                                            *)
SameFile ==
  /\ pc = "adding" /\ batch = <<>>
  /\ pc' = "rule"
  /\ UNCHANGED <<req, files, waiting, rule, k, batch, annotations>>

NextFile ==
  /\ pc = "adding" /\ batch = <<>>
  /\ k' = k + 1 /\ pc' = "rule"
  /\ UNCHANGED <<req, files, waiting, rule, batch, annotations>>

HandlerReturns ==
  /\ pc = "rule" /\ k > Len(files)
  /\ pc' = "handlers"
  /\ UNCHANGED <<req, files, waiting, rule, k, batch, annotations>>

Answer ==
  /\ pc = "handlers" /\ waiting = {}
  /\ pc' = "done"
  /\ UNCHANGED <<req, files, waiting, rule, k, batch, annotations>>

CheckNext ==
  \/ Receive \/ PickFile \/ Before \/ BeforeFails
  \/ \E r \in waiting : CallHandler(r)
  \/ RunRule \/ RulePanics \/ AddProblem \/ RejectProblem \/ NextFile
  \/ HandlerReturns \/ Answer

Over ==
  /\ \/ stage = "fatal"
     \/ stage = "serving" /\ program = "command"
     \/ pc \in {"done", "failed", "crashed"}
  /\ UNCHANGED vars

Next ==
  \/ StartNext /\ UNCHANGED checkVars
  \/ CheckNext /\ UNCHANGED startVars
  \/ Over

Spec == Init /\ [][Next]_vars

FairSpec == Spec /\ WF_vars(Next)

-----------------------------------------------------------------------------

(* A check ends with all the annotations or none, whatever the order of    *)
(* the handlers: those before a problem without descriptor or a panic are  *)
(* not an answer.                                                          *)
ImplementsPluginContract == C!Spec

(* The call of LintProtos for the same files, with given configs.          *)
Call(configs) ==
  [files |-> files, configs |-> configs, ignoreCommentDisables |-> FALSE,
   deprecated |-> req.deprecated, lines |-> req.lines, panics |-> req.panics,
   problems |-> [x \in DOMAIN req.problems |-> C!ProblemsOf(req, x[1], x[2])]]

(* What the command would report with any configs, the plugin reports for  *)
(* the selected rules too: an API that passes in buf passes in the linter. *)
PluginSeesAll ==
  pc = "done" =>
    \A configs \in ConfigChoices : \A f \in C!OwnOf(req) :
      \A reported \in L!Reported(Call(configs), f) :
        reported.rule \in req.selected =>
          \E a \in annotations :
            a.rule = reported.rule /\ a.problem = reported.problem

(* The program starts or stops, and a check comes to an end.               *)
StartAndCheckEnd ==
  <>(\/ stage = "fatal"
     \/ stage = "serving" /\ program = "command"
     \/ pc \in {"done", "failed", "crashed"})

=============================================================================
