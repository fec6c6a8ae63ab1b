------------------------------ MODULE Command ------------------------------
(***************************************************************************)
(* One run of api-linter, from its arguments to its exit status            *)
(* (cmd/api-linter/cli.go, main.go).  Linting is the step LintContract     *)
(* promises; around it are the calls that can fail, each of which ends the *)
(* run with an error, and the file that receives the report, which may     *)
(* hold the report of an earlier run.                                      *)
(***************************************************************************)
EXTENDS RuleConfig

CONSTANTS Rules, MustRules, Alias, Descriptors, NoDesc, Parent,
          Patterns, Globs, ProblemIds,
          Runs          \* the arguments and surroundings considered

(* The calls of cli.lint that can fail: reading the config file, loading   *)
(* the descriptor sets, resolving and parsing the proto files, creating    *)
(* the output file, formatting and writing the report.                     *)
Calls == {"config", "descriptors", "resolve", "parse", "create", "marshal", "write"}

VARIABLES
  args,       \* the flags and file names
  world,      \* what the run meets: failing calls, file contents, old report
  stage,      \* the next call of cli.lint
  configs,    \* the config list
  answer,     \* what LintProtos returned
  stdout,     \* what has been printed
  file,       \* the content of the output file
  exit        \* the exit status

vars == <<args, world, stage, configs, answer, stdout, file, exit>>

(* The call of LintProtos that a run makes.                                *)
Request ==
  [files |-> args.files, configs |-> configs,
   ignoreCommentDisables |-> args.ignoreCommentDisables,
   deprecated |-> world.deprecated, lines |-> world.lines,
   panics |-> world.panics, problems |-> world.problems]

L == INSTANCE LintContract WITH Requests <- {}, request <- Request

(* What a file or the terminal holds.                                      *)
Only(what) == [what |-> what, responses |-> <<>>]
Report(responses) == [what |-> "report", responses |-> responses]

ASSUME CommandAssumption ==
  \A r \in Runs :
    /\ r = [args |-> r.args, world |-> r.world]
    /\ r.args.files \in Seq(L!Files)
    /\ r.args.enable \subseteq Patterns /\ r.args.disable \subseteq Patterns
    /\ r.world.failing \subseteq Calls
    /\ r.world.configFile \in Configs(Globs, Patterns)

Init ==
  /\ \E r \in Runs : args = r.args /\ world = r.world
  /\ stage = "flags"
  /\ configs = <<>>
  /\ answer = L!NoAnswer
  /\ stdout = Only("nothing")
  /\ file = IF world.oldReport THEN Only("old report") ELSE Only("no file")
  /\ exit = "running"

-----------------------------------------------------------------------------

(* main: an error of cli.lint goes to log.Fatalln.                         *)
Fail == stage' = "over" /\ exit' = "error"

Returns(call) == stage = call /\ call \notin world.failing
ReturnsError(call) == stage = call /\ call \in world.failing

(* What a write that fails may leave.                                      *)
Scraps == {Only("empty"), Only("part of a report")}

(* Mutant: these answers go to the output file as well.                    *)
AnswerFlagInFile ==
  /\ stage = "flags"
  /\ args.version \/ args.listRules
  /\ IF args.output
     THEN file' = Only(IF args.version THEN "version" ELSE "rules") /\ stdout' = stdout
     ELSE stdout' = Only(IF args.version THEN "version" ELSE "rules") /\ file' = file
  /\ stage' = "over" /\ exit' = "ok"
  /\ UNCHANGED <<args, world, configs, answer>>

(* --version and --list-rules print their answer and lint nothing.         *)
AnswerFlag ==
  /\ stage = "flags"
  /\ args.version \/ args.listRules
  /\ "write" \notin world.failing
  /\ args.version \/ "marshal" \notin world.failing
  /\ stdout' = IF args.version THEN Only("version") ELSE Only("rules")
  /\ stage' = "over" /\ exit' = "ok"
  /\ UNCHANGED <<args, world, configs, answer, file>>

(* fmt.Printf's error is ignored, those of outputRules are not.            *)
AnswerFlagFails ==
  /\ stage = "flags"
  /\ args.version \/ args.listRules
  /\ \/ /\ ~ args.version /\ "marshal" \in world.failing
        /\ stdout' = stdout
     \/ /\ args.version \/ "marshal" \notin world.failing
        /\ "write" \in world.failing
        /\ stdout' \in Scraps
  /\ stage' = "over"
  /\ exit' = IF args.version THEN "ok" ELSE "error"
  /\ UNCHANGED <<args, world, configs, answer, file>>

NoFiles ==
  /\ stage = "flags"
  /\ ~ args.version /\ ~ args.listRules
  /\ args.files = <<>>
  /\ Fail
  /\ UNCHANGED <<args, world, configs, answer, stdout, file>>

StartRun ==
  /\ stage = "flags"
  /\ ~ args.version /\ ~ args.listRules
  /\ args.files # <<>>
  /\ stage' = IF args.config THEN "config" ELSE "add flags"
  /\ UNCHANGED <<args, world, configs, answer, stdout, file, exit>>

ReadConfig ==
  /\ Returns("config")
  /\ configs' = configs \o world.configFile
  /\ stage' = "add flags"
  /\ UNCHANGED <<args, world, answer, stdout, file, exit>>

(* Mutant: one entry for both flags, in which enabling has precedence.     *)
AddFlagsTogether ==
  /\ stage = "add flags"
  /\ configs' = configs \o
       << [included |-> {}, excluded |-> {}, enabled |-> args.enable,
           disabled |-> args.disable] >>
  /\ stage' = "descriptors"
  /\ UNCHANGED <<args, world, answer, stdout, file, exit>>

AddFlags ==
  /\ stage = "add flags"
  /\ configs' = configs \o
       << [included |-> {}, excluded |-> {}, enabled |-> args.enable, disabled |-> {}],
          [included |-> {}, excluded |-> {}, enabled |-> {}, disabled |-> args.disable] >>
  /\ stage' = "descriptors"
  /\ UNCHANGED <<args, world, answer, stdout, file, exit>>

LoadDescriptors ==
  /\ Returns("descriptors")
  /\ stage' = "resolve"
  /\ UNCHANGED <<args, world, configs, answer, stdout, file, exit>>

ResolveFilenames ==
  /\ Returns("resolve")
  /\ stage' = "parse"
  /\ UNCHANGED <<args, world, configs, answer, stdout, file, exit>>

(* Mutant: the output file is created before linting.                      *)
ParseFilesAfterCreate ==
  /\ Returns("parse")
  /\ file' = IF args.output THEN Only("empty") ELSE file
  /\ stage' = "lint"
  /\ UNCHANGED <<args, world, configs, answer, stdout, exit>>

(* ParseFiles returns one descriptor per name, in the order of the names.  *)
ParseFiles ==
  /\ Returns("parse")
  /\ stage' = "lint"
  /\ UNCHANGED <<args, world, configs, answer, stdout, file, exit>>

Lint ==
  /\ stage = "lint"
  /\ UNCHANGED <<args, world, configs, stdout, file, exit>>
  /\ L!LintProtos
  /\ stage' = "linted"

LintFailed ==
  /\ stage = "linted" /\ answer.kind = "error"
  /\ Fail
  /\ UNCHANGED <<args, world, configs, answer, stdout, file>>

LintSucceeded ==
  /\ stage = "linted" /\ answer.kind = "results"
  /\ stage' = IF args.output THEN "create" ELSE "marshal"
  /\ UNCHANGED <<args, world, configs, answer, stdout, file, exit>>

(* os.Create truncates a file that exists.                                 *)
CreateOutput ==
  /\ Returns("create")
  /\ file' = Only("empty")
  /\ stage' = "marshal"
  /\ UNCHANGED <<args, world, configs, answer, stdout, exit>>

Marshal ==
  /\ Returns("marshal")
  /\ stage' = "write"
  /\ UNCHANGED <<args, world, configs, answer, stdout, file, exit>>

(* Mutant: the report always goes to the terminal.                         *)
WriteToTerminal(content) == stdout' = content /\ file' = file

WriteOutput(content) ==
  IF args.output THEN file' = content /\ stdout' = stdout
                 ELSE stdout' = content /\ file' = file

WriteFails ==
  /\ ReturnsError("write")
  /\ \E scrap \in Scraps : WriteOutput(scrap)
  /\ Fail
  /\ UNCHANGED <<args, world, configs, answer>>

Write ==
  /\ Returns("write")
  /\ WriteOutput(Report(answer.responses))
  /\ stage' = "written"
  /\ UNCHANGED <<args, world, configs, answer, exit>>

(* Mutant: the last response decides.                                      *)
LastHasProblems(results) == results[Len(results)].problems # {}

AnyProblems(results) == \E i \in 1..Len(results) : results[i].problems # {}

Exit ==
  /\ stage = "written"
  /\ stage' = "over"
  /\ exit' = IF args.setExitStatus /\ AnyProblems(answer.responses)
             THEN "error" ELSE "ok"
  /\ UNCHANGED <<args, world, configs, answer, stdout, file>>

(* Mutant: a call that fails is tried again.                               *)
CallRetries == (\E call \in Calls \ {"write"} : ReturnsError(call)) /\ UNCHANGED vars

(* Any other call that fails leaves everything as it is.                   *)
CallFails ==
  /\ \E call \in Calls \ {"write"} : ReturnsError(call)
  /\ Fail
  /\ UNCHANGED <<args, world, configs, answer, stdout, file>>

Over == stage = "over" /\ UNCHANGED vars

Next ==
  \/ AnswerFlag \/ AnswerFlagFails \/ NoFiles \/ StartRun \/ ReadConfig \/ AddFlags
  \/ LoadDescriptors \/ ResolveFilenames \/ ParseFiles
  \/ Lint \/ LintFailed \/ LintSucceeded
  \/ CreateOutput \/ Marshal \/ Write \/ WriteFails \/ Exit \/ CallFails \/ Over

Spec == Init /\ [][Next]_vars
FairSpec == Spec /\ WF_vars(Next)

-----------------------------------------------------------------------------

TypeOK ==
  /\ [args |-> args, world |-> world] \in Runs
  /\ stage \in {"flags", "add flags", "lint", "linted", "written", "over"} \cup Calls
  /\ configs \in Configs(Globs, Patterns)
  /\ answer.kind \in {"none", "results", "error"}
  /\ stdout.what \in {"nothing", "version", "rules", "empty", "part of a report", "report"}
  /\ file.what \in {"no file", "old report", "empty", "part of a report", "report"}
  /\ exit \in {"running", "ok", "error"}

Linting == ~ args.version /\ ~ args.listRules

CallsMade == Calls \ ((IF args.config THEN {} ELSE {"config"}) \cup
                      (IF args.output THEN {} ELSE {"create"}))

Destination == IF args.output THEN file ELSE stdout

Expected == [k \in 1..Len(args.files) |-> L!Response(Request, args.files[k])]

Problems == \E k \in 1..Len(args.files) : L!Reported(Request, args.files[k]) # {}

Trouble ==
  \/ Linting /\ args.files = <<>>
  \/ world.failing \cap CallsMade # {}
  \/ \E k \in 1..Len(args.files) : L!Complaints(Request, args.files[k]) # {}

(* A run that ends with status 0 has put all that every rule has to say    *)
(* about every file, and nothing else, where the report was asked for:     *)
(* neither an earlier report nor a part of one passes for the result.      *)
CleanExitReportsAll ==
  (exit = "ok" /\ Linting) => Destination = Report(Expected)

(* With --set-exit-status, status 0 means that no rule objects to any      *)
(* file, and that no rule panicked on one; without it, status 1 means      *)
(* that a call failed or a rule did, never that there are problems.        *)
ExitStatusTells ==
  /\ (exit = "ok" /\ Linting /\ args.setExitStatus) => ~ Problems
  /\ exit = "error" => Trouble \/ (args.setExitStatus /\ Problems)

(* A rule that --disable-rule names is not in any report, not even a Must  *)
(* rule that no comment can hide, whatever the config file enables.        *)
DisabledRulesAreSilent ==
  \A out \in {file, stdout} : \A k \in 1..Len(out.responses) :
    \A p \in out.responses[k].problems : ~ MatchRule(p.rule, args.disable)

(* The output file is not touched before linting has succeeded: the errors *)
(* a user meets (no such file, a syntax error, a rule that panics) leave   *)
(* the report of the last run as it was.                                   *)
OldReportKept == [][file' # file => answer.kind = "results"]_vars

(* The configs of a run, and what the linter promises it: functions of its *)
(* arguments and surroundings alone.                                       *)
FromFile(r) == IF r.args.config THEN r.world.configFile ELSE <<>>

ConfigsOf(r) ==
  FromFile(r) \o
    << [included |-> {}, excluded |-> {}, enabled |-> r.args.enable, disabled |-> {}],
       [included |-> {}, excluded |-> {}, enabled |-> {}, disabled |-> r.args.disable] >>

RequestOf(r) ==
  [files |-> r.args.files, configs |-> ConfigsOf(r),
   ignoreCommentDisables |-> r.args.ignoreCommentDisables,
   deprecated |-> r.world.deprecated, lines |-> r.world.lines,
   panics |-> r.world.panics, problems |-> r.world.problems]

ExpectedOf(r) ==
  [k \in 1..Len(r.args.files) |-> L!Response(RequestOf(r), r.args.files[k])]

Run == [args |-> args, world |-> world]

C == INSTANCE CommandContract
       WITH run <- Run,
            Expected <- [r \in Runs |-> ExpectedOf(r)],
            Complaining <- {r \in Runs : ~ L!Clean(RequestOf(r), Len(r.args.files))}

(* Whoever watches the output file, the terminal and the exit status sees  *)
(* a run of the contract.  In particular the file changes only if there is *)
(* a report for it, and the report is that of the flags and the config     *)
(* file together; the errors a user meets before (no such file, a syntax   *)
(* error, a rule that panics) leave the last run's report as it was.       *)
ImplementsCommandContract == C!Spec

(* Every run comes to an end.                                              *)
Ends == <>(exit # "running")

(* The inductive invariant: what each stage knows of the answer, of the    *)
(* places a report goes to, and of why the run stopped.                    *)
BeforeLint == {"flags", "config", "add flags", "descriptors", "resolve", "parse", "lint"}
AfterLint == {"create", "marshal", "write", "written"}

CommandInv ==
  /\ stage \in BeforeLint \cup {"linted"} \cup AfterLint \cup {"over"}
  /\ stage \in {"config", "add flags", "descriptors", "resolve", "parse", "lint", "linted"}
       \cup AfterLint => Linting
  /\ stage = "config" => args.config
  /\ stage = "create" => args.output
  /\ stage \in BeforeLint => answer = L!NoAnswer
  /\ stage = "linted" => L!IsAnswer(Request, answer)
  /\ stage \in AfterLint => answer = L!Results(Expected)
  /\ stage = "written" => Destination = Report(Expected)
  /\ stage = "over" <=> exit # "running"
  /\ (exit = "ok" /\ Linting) =>
       /\ Destination = Report(Expected)
       /\ args.setExitStatus => ~ Problems
  /\ exit = "error" => Trouble \/ (args.setExitStatus /\ Problems)

(* What the contract's steps need to know besides: what the configs are,   *)
(* which calls have not failed, and what has not been touched.             *)
PastParse == {"lint", "linted"} \cup AfterLint
PastResolve == {"parse"} \cup PastParse
PastDescriptors == {"resolve"} \cup PastResolve
PastFlags == {"descriptors"} \cup PastDescriptors
PastConfig == {"add flags"} \cup PastFlags

RunInv ==
  /\ stage \in {"flags", "config"} => configs = <<>>
  /\ stage = "add flags" => configs = FromFile(Run)
  /\ stage \in PastFlags => configs = ConfigsOf(Run)
  /\ stage \in {"config"} \cup PastConfig => args.files # <<>>
  /\ stage \in PastConfig /\ args.config => "config" \notin world.failing
  /\ stage \in PastDescriptors => "descriptors" \notin world.failing
  /\ stage \in PastResolve => "resolve" \notin world.failing
  /\ stage \in PastParse => "parse" \notin world.failing
  /\ stage \in AfterLint => L!Clean(Request, Len(args.files))
  /\ stage \in {"marshal", "write", "written"} /\ args.output => "create" \notin world.failing
  /\ stage \in {"write", "written"} => "marshal" \notin world.failing
  /\ stage \in BeforeLint \cup {"linted", "create"} => file = C!Before
  /\ stage \in {"marshal", "write"} => C!Created
  /\ stage \in BeforeLint \cup {"linted", "create", "marshal", "write"} => stdout = Only("nothing")

=============================================================================
