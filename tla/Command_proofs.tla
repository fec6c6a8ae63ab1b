--------------------------- MODULE Command_proofs ---------------------------
(***************************************************************************)
(* Proofs about Command: what an exit status and an output file tell, and  *)
(* that a run comes to an end, for all rules, files and configs and        *)
(* whatever calls fail.                                                    *)
(***************************************************************************)
EXTENDS Command, TLAPS

LEMMA RunsHaveFiles ==
  ASSUME TypeOK
  PROVE  /\ Len(args.files) \in Nat
         /\ world.configFile \in Configs(Globs, Patterns)
         /\ args.enable \subseteq Patterns /\ args.disable \subseteq Patterns
<1>1. PICK r \in Runs : r = [args |-> args, world |-> world]
  BY DEF TypeOK
<1>2. /\ args.files \in Seq(L!Files)
      /\ world.configFile \in Configs(Globs, Patterns)
      /\ args.enable \subseteq Patterns /\ args.disable \subseteq Patterns
  BY <1>1, CommandAssumption
<1> QED
  BY <1>2

(* An answer with results has every file's response, and an error names a  *)
(* file some rule complained about.                                        *)
LEMMA AnswersAreTyped ==
  ASSUME L!IsAnswer(Request, answer), Len(args.files) \in Nat
  PROVE  /\ answer.kind \in {"results", "error"}
         /\ answer.kind = "results" => answer = L!Results(Expected)
         /\ answer.kind = "error" => Trouble
<1>1. Request.files = args.files
  BY DEF Request
<1>2. CASE answer = L!Results([k \in 1..Len(Request.files) |->
                                 L!Response(Request, Request.files[k])])
  <2>1. answer = L!Results(Expected)
    BY <1>1, <1>2 DEF Expected
  <2>2. answer.kind = "results"
    BY <1>2 DEF L!Results
  <2> QED
    BY <2>1, <2>2
<1>3. CASE \E k \in 1..Len(Request.files) :
             /\ L!Complaints(Request, Request.files[k]) # {}
             /\ answer = L!Failure(L!Complaints(Request, Request.files[k]))
  <2>1. PICK k \in 1..Len(args.files) :
          /\ L!Complaints(Request, args.files[k]) # {}
          /\ answer = L!Failure(L!Complaints(Request, args.files[k]))
    BY <1>1, <1>3
  <2>2. answer.kind = "error"
    BY <2>1 DEF L!Failure
  <2>3. Trouble
    BY <2>1 DEF Trouble
  <2> QED
    BY <2>2, <2>3
<1> QED
  BY <1>2, <1>3 DEF L!IsAnswer

LEMMA ExpectedProblems ==
  ASSUME Len(args.files) \in Nat
  PROVE  AnyProblems(Expected) <=> Problems
<1>1. Len(Expected) = Len(args.files)
  BY DEF Expected
<1>2. \A k \in 1..Len(args.files) :
        Expected[k].problems = L!Reported(Request, args.files[k])
  BY DEF Expected, L!Response
<1> QED
  BY <1>1, <1>2 DEF AnyProblems, Problems

(* The state that says why a run stopped does not change while the         *)
(* arguments, the surroundings and the configs do not.                     *)
LEMMA SameRequest ==
  ASSUME UNCHANGED <<args, world, configs>>
  PROVE  /\ Request' = Request
         /\ Linting' = Linting /\ Trouble' = Trouble /\ Problems' = Problems
         /\ Expected' = Expected /\ CallsMade' = CallsMade
<1>1. Request' = Request
  BY DEF Request
<1>2. Linting' = Linting /\ CallsMade' = CallsMade
  BY DEF Linting, CallsMade
<1>3. Problems' = Problems
  BY <1>1 DEF Problems
<1>4. Trouble' = Trouble
  BY <1>1, <1>2 DEF Trouble
<1>5. Expected' = Expected
  BY <1>1 DEF Expected
<1> QED
  BY <1>1, <1>2, <1>3, <1>4, <1>5

(* What a write that fails may leave is nothing or a part of the report.   *)
LEMMA ScrapsAre == \A scrap \in Scraps : scrap.what \in {"empty", "part of a report"}
<1>1. \A what : Only(what).what = what
  BY DEF Only
<1>2. \A scrap \in Scraps : scrap = Only("empty") \/ scrap = Only("part of a report")
  BY DEF Scraps
<1> QED
  BY <1>1, <1>2

(* Type correctness of a run of the command.                               *)
THEOREM CommandTypeCorrect == Spec => []TypeOK
<1>1. Init => TypeOK
  <2> SUFFICES ASSUME Init PROVE TypeOK
    OBVIOUS
  <2>1. PICK r \in Runs : args = r.args /\ world = r.world
    BY DEF Init
  <2>2. [args |-> args, world |-> world] \in Runs
    BY <2>1, CommandAssumption
  <2>3. /\ answer.kind = "none" /\ stdout.what = "nothing"
        /\ file.what \in {"old report", "no file"}
    BY DEF Init, L!NoAnswer, Only
  <2>4. configs \in Configs(Globs, Patterns)
    <3>1. \A S : <<>> \in Seq(S)
      OBVIOUS
    <3>2. configs = <<>>
      BY DEF Init
    <3> QED
      BY <3>1, <3>2, Zenon DEF Configs
  <2> QED
    BY <2>2, <2>3, <2>4 DEF Init, TypeOK
<1>2. TypeOK /\ [Next]_vars => TypeOK'
  <2> SUFFICES ASSUME TypeOK, [Next]_vars PROVE TypeOK'
    OBVIOUS
  <2>1. CASE UNCHANGED vars
    BY <2>1 DEF vars, TypeOK
  <2>2. CASE NoFiles \/ StartRun
    BY <2>2 DEF NoFiles, StartRun, Fail, TypeOK, Calls
  <2>13. CASE AnswerFlag
    <3>1. stdout'.what \in {"version", "rules"}
      BY <2>13 DEF AnswerFlag, Only
    <3> QED
      BY <2>13, <3>1 DEF AnswerFlag, TypeOK
  <2>14. CASE AnswerFlagFails
    <3>0. \A scrap \in Scraps : scrap.what \in {"empty", "part of a report"}
      BY ScrapsAre
    <3>1. stdout' = stdout \/ stdout'.what \in {"empty", "part of a report"}
      BY <2>14, <3>0 DEF AnswerFlagFails
    <3>2. exit' \in {"ok", "error"}
      BY <2>14 DEF AnswerFlagFails
    <3> QED
      BY <2>14, <3>1, <3>2 DEF AnswerFlagFails, TypeOK
  <2>3. CASE ReadConfig
    <3> DEFINE E == [included : SUBSET Globs, excluded : SUBSET Globs,
                     enabled : SUBSET Patterns, disabled : SUBSET Patterns]
    <3>0. /\ configs \in Seq(E) /\ world.configFile \in Seq(E)
          /\ configs' = configs \o world.configFile
      BY <2>3, RunsHaveFiles DEF ReadConfig, TypeOK, Configs
    <3>1. configs' \in Configs(Globs, Patterns)
      <4>1. configs' \in Seq(E)
        <5> HIDE DEF E
        <5> QED  BY <3>0
      <4> QED  BY <4>1 DEF Configs
    <3> QED
      BY <2>3, <3>1 DEF ReadConfig, TypeOK
  <2>4. CASE AddFlags
    <3> DEFINE E == [included : SUBSET Globs, excluded : SUBSET Globs,
                     enabled : SUBSET Patterns, disabled : SUBSET Patterns]
               e1 == [included |-> {}, excluded |-> {}, enabled |-> args.enable, disabled |-> {}]
               e2 == [included |-> {}, excluded |-> {}, enabled |-> {}, disabled |-> args.disable]
    <3>1. e1 \in E /\ e2 \in E
      BY RunsHaveFiles
    <3>2. configs \in Seq(E) /\ configs' = configs \o <<e1, e2>>
      BY <2>4 DEF AddFlags, TypeOK, Configs
    <3>3. configs' \in Seq(E)
      <4> HIDE DEF E, e1, e2
      <4> QED  BY <3>1, <3>2
    <3> QED
      BY <2>4, <3>3 DEF AddFlags, TypeOK, Configs, Calls
  <2>5. CASE LoadDescriptors \/ ResolveFilenames \/ ParseFiles \/ LintSucceeded
    BY <2>5 DEF LoadDescriptors, ResolveFilenames, ParseFiles, LintSucceeded, TypeOK, Calls
  <2>6. CASE Lint
    <3>1. L!IsAnswer(Request, answer')
      BY <2>6 DEF Lint, L!LintProtos
    <3>2. answer'.kind \in {"results", "error"}
      BY <3>1 DEF L!IsAnswer, L!Results, L!Failure
    <3> QED
      BY <2>6, <3>2 DEF Lint, TypeOK
  <2>7. CASE LintFailed \/ CallFails
    BY <2>7 DEF LintFailed, CallFails, Fail, TypeOK
  <2>8. CASE CreateOutput
    <3>1. file'.what = "empty"
      BY <2>8 DEF CreateOutput, Only
    <3> QED
      BY <2>8, <3>1 DEF CreateOutput, TypeOK, Calls
  <2>9. CASE Marshal
    BY <2>9 DEF Marshal, TypeOK, Calls
  <2>10. CASE Exit
    <3>1. exit' \in {"ok", "error"}
      BY <2>10 DEF Exit
    <3> QED
      BY <2>10, <3>1 DEF Exit, TypeOK
  <2>11. CASE Write
    <3>1. (file' = file \/ file'.what = "report") /\ (stdout' = stdout \/ stdout'.what = "report")
      BY <2>11 DEF Write, WriteOutput, Report
    <3> QED
      BY <2>11, <3>1 DEF Write, TypeOK
  <2>12. CASE WriteFails
    <3>1. PICK scrap \in Scraps : WriteOutput(scrap)
      BY <2>12 DEF WriteFails
    <3>2. scrap.what \in {"empty", "part of a report"}
      BY <3>1, ScrapsAre
    <3>3. /\ file' = file \/ file' = scrap
          /\ stdout' = stdout \/ stdout' = scrap
      BY <3>1 DEF WriteOutput
    <3> QED
      BY <2>12, <3>2, <3>3 DEF WriteFails, Fail, TypeOK
  <2> QED
    BY <2>1, <2>2, <2>3, <2>4, <2>5, <2>6, <2>7, <2>8, <2>9,
       <2>10, <2>11, <2>12, <2>13, <2>14 DEF Next, Over
<1> QED
  BY <1>1, <1>2, PTL DEF Spec

-----------------------------------------------------------------------------

(* CommandInv is inductive: one step per stage of the run.                 *)
LEMMA CommandInvInit == Init => CommandInv
BY DEF Init, CommandInv, BeforeLint, AfterLint

LEMMA CommandInvStep ==
  ASSUME TypeOK, CommandInv, [Next]_vars
  PROVE  CommandInv'
<1> USE DEF BeforeLint, AfterLint
<1>1. CASE UNCHANGED vars
  <2>1. /\ Request' = Request /\ Linting' = Linting /\ Trouble' = Trouble
        /\ Problems' = Problems /\ Expected' = Expected
    BY <1>1, SameRequest DEF vars
  <2>2. Destination' = Destination
    BY <1>1 DEF vars, Destination
  <2> QED
    BY <1>1, <2>1, <2>2 DEF vars, CommandInv
<1>2. CASE AnswerFlag
  BY <1>2 DEF AnswerFlag, CommandInv, Linting
<1>14. CASE AnswerFlagFails
  <2>1. Linting' = Linting /\ Trouble' = Trouble
    BY <1>14, SameRequest DEF AnswerFlagFails
  <2>2. ~ Linting /\ exit' \in {"ok", "error"}
    BY <1>14 DEF AnswerFlagFails, Linting
  <2>3. Trouble
    BY <1>14 DEF AnswerFlagFails, Trouble, CallsMade, Calls
  <2> QED
    BY <1>14, <2>1, <2>2, <2>3 DEF AnswerFlagFails, CommandInv
<1>3. CASE NoFiles
  <2>1. Trouble'
    BY <1>3 DEF NoFiles, Trouble, Linting
  <2> QED
    BY <1>3, <2>1 DEF NoFiles, Fail, CommandInv
<1>4. CASE StartRun
  BY <1>4 DEF StartRun, CommandInv, Linting
<1>5. CASE ReadConfig \/ AddFlags
  BY <1>5 DEF ReadConfig, AddFlags, Returns, CommandInv, Linting
<1>6. CASE LoadDescriptors \/ ResolveFilenames \/ ParseFiles
  BY <1>6 DEF LoadDescriptors, ResolveFilenames, ParseFiles, Returns, CommandInv, Linting
<1>7. CASE Lint
  <2>1. Request' = Request /\ Linting' = Linting
    BY <1>7, SameRequest DEF Lint
  <2>2. L!IsAnswer(Request, answer')
    BY <1>7 DEF Lint, L!LintProtos
  <2> QED
    BY <1>7, <2>1, <2>2 DEF Lint, CommandInv
<1>8. CASE LintFailed
  <2>1. Trouble' = Trouble /\ Linting' = Linting
    BY <1>8, SameRequest DEF LintFailed
  <2>2. Trouble
    BY <1>8, RunsHaveFiles, AnswersAreTyped DEF LintFailed, CommandInv
  <2> QED
    BY <1>8, <2>1, <2>2 DEF LintFailed, Fail, CommandInv
<1>9. CASE LintSucceeded
  <2>1. Expected' = Expected /\ Linting' = Linting
    BY <1>9, SameRequest DEF LintSucceeded
  <2>2. answer = L!Results(Expected)
    BY <1>9, RunsHaveFiles, AnswersAreTyped DEF LintSucceeded, CommandInv
  <2> QED
    BY <1>9, <2>1, <2>2 DEF LintSucceeded, CommandInv
<1>10. CASE CreateOutput \/ Marshal
  <2>1. Expected' = Expected /\ Linting' = Linting
    BY <1>10, SameRequest DEF CreateOutput, Marshal
  <2> QED
    BY <1>10, <2>1 DEF CreateOutput, Marshal, Returns, CommandInv
<1>11. CASE Write
  <2>1. Expected' = Expected /\ Linting' = Linting
    BY <1>11, SameRequest DEF Write
  <2>2. Destination' = Report(answer.responses)
    BY <1>11 DEF Write, WriteOutput, Destination
  <2>3. answer.responses = Expected
    BY <1>11 DEF Write, Returns, CommandInv, L!Results
  <2> QED
    BY <1>11, <2>1, <2>2, <2>3 DEF Write, Returns, CommandInv
<1>12. CASE WriteFails \/ CallFails
  <2>1. Trouble' = Trouble
    BY <1>12, SameRequest DEF WriteFails, CallFails
  <2>2. PICK call \in Calls : ReturnsError(call)
    BY <1>12 DEF WriteFails, CallFails, Calls
  <2>3. call \in world.failing \cap CallsMade
    BY <2>2 DEF ReturnsError, CallsMade, CommandInv, Calls
  <2> QED
    BY <1>12, <2>1, <2>3 DEF WriteFails, CallFails, Fail, Trouble, CommandInv
<1>13. CASE Exit
  <2>1. /\ Expected' = Expected /\ Linting' = Linting /\ Trouble' = Trouble
        /\ Problems' = Problems /\ Destination' = Destination
    BY <1>13, SameRequest DEF Exit, Destination
  <2>2. Destination = Report(Expected) /\ answer.responses = Expected
    BY <1>13 DEF Exit, CommandInv, L!Results
  <2>3. AnyProblems(answer.responses) <=> Problems
    BY <2>2, RunsHaveFiles, ExpectedProblems
  <2> QED
    BY <1>13, <2>1, <2>2, <2>3 DEF Exit, CommandInv
<1> QED
  BY <1>1, <1>2, <1>3, <1>4, <1>5, <1>6, <1>7, <1>8, <1>9, <1>10, <1>11, <1>12,
     <1>13, <1>14 DEF Next, Over

LEMMA CommandInvariant == Spec => []CommandInv
<1>1. TypeOK /\ CommandInv /\ [Next]_vars => CommandInv'
  BY CommandInvStep
<1> QED
  BY <1>1, CommandInvInit, CommandTypeCorrect, PTL DEF Spec

(* A run that ends with status 0 leaves every response of the contract,    *)
(* complete, where the report was asked for.                               *)
THEOREM CleanExitIsComplete == Spec => []CleanExitReportsAll
<1>1. CommandInv => CleanExitReportsAll
  BY DEF CommandInv, CleanExitReportsAll
<1> QED
  BY <1>1, CommandInvariant, PTL

(* The exit status says what --set-exit-status promises, and nothing else  *)
(* than a failure or a problem makes it 1.                                 *)
THEOREM ExitStatusIsRight == Spec => []ExitStatusTells
<1>1. CommandInv => ExitStatusTells
  BY DEF CommandInv, ExitStatusTells
<1> QED
  BY <1>1, CommandInvariant, PTL

(* The report of an earlier run survives every error before the linter has *)
(* returned its responses.                                                 *)
THEOREM OldReportSurvives == Spec => OldReportKept
<1>1. CommandInv /\ [Next]_vars => [file' # file => answer.kind = "results"]_vars
  <2> SUFFICES ASSUME CommandInv, [Next]_vars, file' # file
               PROVE  answer.kind = "results"
    BY DEF vars
  <2>1. stage \in {"create", "write"}
    BY DEF Next, vars, AnswerFlag, AnswerFlagFails, NoFiles, StartRun, ReadConfig, AddFlags,
           LoadDescriptors, ResolveFilenames, ParseFiles, Lint, LintFailed,
           LintSucceeded, CreateOutput, Marshal, Write, WriteFails, Returns,
           ReturnsError, Exit, CallFails, Over
  <2>2. answer = L!Results(Expected)
    BY <2>1 DEF CommandInv, AfterLint
  <2> QED
    BY <2>2 DEF L!Results
<1> QED
  BY <1>1, CommandInvariant, PTL DEF Spec, OldReportKept

-----------------------------------------------------------------------------

(* The last entry of the configs is --disable-rule's from AddFlags on, and *)
(* it applies to every path.                                               *)
DisableIsLast ==
  stage \in {"descriptors", "resolve", "parse", "lint", "linted"} \cup AfterLint =>
    /\ Len(configs) \in Nat \ {0}
    /\ configs[Len(configs)] =
         [included |-> {}, excluded |-> {}, enabled |-> {}, disabled |-> args.disable]

SilentInv == DisableIsLast /\ DisabledRulesAreSilent

LEMMA NothingReported ==
  ASSUME NEW what
  PROVE  Only(what).responses = <<>>
BY DEF Only

LEMMA AppendFlags ==
  ASSUME NEW S, NEW s \in Seq(S), NEW d, NEW e
  PROVE  Len(s \o <<d, e>>) \in Nat \ {0} /\ (s \o <<d, e>>)[Len(s \o <<d, e>>)] = e
OBVIOUS

(* An entry that only disables, and applies everywhere, has the last word. *)
LEMMA DisabledLast ==
  ASSUME NEW cs, NEW disabled, NEW r, NEW path,
         Len(cs) \in Nat \ {0},
         cs[Len(cs)] = [included |-> {}, excluded |-> {}, enabled |-> {}, disabled |-> disabled],
         L!MatchRule(r, disabled)
  PROVE  ~ L!IsRuleEnabled(cs, r, path)
<1> DEFINE n == Len(cs)
<1>1. n \in L!Deciding(cs, n, r, path)
  <2>1. n \in 1..n
    OBVIOUS
  <2>2. L!ConfigMatchesPath(cs[n], path) /\ L!Mentions(cs[n], r)
    BY DEF L!ConfigMatchesPath, L!MatchPath, L!Mentions
  <2> QED
    BY <2>1, <2>2 DEF L!Deciding
<1>2. \A k \in L!Deciding(cs, n, r, path) : k \in 1..n
  BY DEF L!Deciding
<1>3. ASSUME NEW k \in L!Deciding(cs, n, r, path), n <= k PROVE k = n
  BY <1>2, <1>3
<1>4. ~ L!MatchRule(r, cs[n].enabled)
  BY DEF L!MatchRule
<1> HIDE DEF n
<1>5. ~ L!EnabledAfter(cs, n, r, path)
  BY <1>1, <1>3, <1>4 DEF L!EnabledAfter
<1> QED
  BY <1>5 DEF n, L!IsRuleEnabled

LEMMA SameMatchRule ==
  ASSUME NEW name, NEW patterns
  PROVE  MatchRule(name, patterns) <=> L!MatchRule(name, patterns)
BY DEF MatchRule, IsSegmentRun, Normalize, TrimPrefix, TrimSuffix, ToLower,
       L!MatchRule, L!IsSegmentRun, L!Normalize, L!TrimPrefix, L!TrimSuffix, L!ToLower

LEMMA KeptHasRule ==
  ASSUME NEW q, NEW r, NEW S, NEW p \in L!Kept(q, r, S)
  PROVE  p.rule = r
BY DEF L!Kept

LEMMA ContributionIsKept ==
  ASSUME NEW q, NEW r, NEW f, NEW p \in L!Contribution(q, r, f)
  PROVE  L!RuleRuns(q, r, f) /\ \E S : p \in L!Kept(q, r, S)
<1>1. CASE L!RuleRuns(q, r, f) /\ <<r, f>> \notin q.panics
  <2>1. p \in L!Kept(q, r, q.problems[r, f])
    BY <1>1, Zenon DEF L!Contribution
  <2> QED
    BY <1>1, <2>1, Zenon
<1>2. CASE ~ (L!RuleRuns(q, r, f) /\ <<r, f>> \notin q.panics)
  BY <1>2, Zenon DEF L!Contribution
<1> QED
  BY <1>1, <1>2

LEMMA ExpectedIsSilent ==
  ASSUME Len(args.files) \in Nat, DisableIsLast, stage = "write",
         NEW k \in 1..Len(Expected), NEW p \in Expected[k].problems
  PROVE  ~ MatchRule(p.rule, args.disable)
<1>1. Len(Expected) = Len(args.files)
  BY DEF Expected
<1>2. Expected[k].problems = L!Reported(Request, args.files[k])
  BY <1>1 DEF Expected, L!Response
<1>3. PICK r \in Rules : p \in L!Contribution(Request, r, args.files[k])
  BY <1>2 DEF L!Reported
<1>4. L!RuleRuns(Request, r, args.files[k]) /\ \E S : p \in L!Kept(Request, r, S)
  BY <1>3, ContributionIsKept
<1>5. p.rule = r
  BY <1>4, KeptHasRule
<1>6. L!IsRuleEnabled(configs, r, args.files[k])
  BY <1>4 DEF L!RuleRuns, Request
<1> QED
  BY <1>5, <1>6, DisabledLast, SameMatchRule DEF DisableIsLast, AfterLint

LEMMA SilentStep ==
  ASSUME TypeOK, CommandInv, SilentInv, [Next]_vars
  PROVE  SilentInv'
<1> USE DEF SilentInv
<1>1. CASE AddFlags
  <2>1. Len(configs') \in Nat \ {0} /\ configs'[Len(configs')] =
          [included |-> {}, excluded |-> {}, enabled |-> {}, disabled |-> args.disable]
    <3> DEFINE E == [included : SUBSET Globs, excluded : SUBSET Globs,
                     enabled : SUBSET Patterns, disabled : SUBSET Patterns]
               d == [included |-> {}, excluded |-> {}, enabled |-> args.enable, disabled |-> {}]
               e == [included |-> {}, excluded |-> {}, enabled |-> {}, disabled |-> args.disable]
    <3>1. configs \in Seq(E) /\ configs' = configs \o <<d, e>>
      BY <1>1 DEF AddFlags, TypeOK, Configs
    <3> HIDE DEF E, d, e
    <3>2. Len(configs') \in Nat \ {0} /\ configs'[Len(configs')] = e
      BY <3>1, AppendFlags
    <3> QED
      BY <3>2 DEF e
  <2> QED
    BY <1>1, <2>1 DEF AddFlags, DisableIsLast, DisabledRulesAreSilent
<1>2. CASE Write
  <2>1. answer.responses = Expected /\ Len(args.files) \in Nat
    BY <1>2, RunsHaveFiles DEF Write, Returns, CommandInv, AfterLint, L!Results
  <2>2. /\ stdout'.responses \in {stdout.responses, Expected}
        /\ file'.responses \in {file.responses, Expected}
        /\ args' = args /\ configs' = configs /\ stage = "write" /\ stage' = "written"
    BY <1>2, <2>1 DEF Write, Returns, WriteOutput, Report
  <2>3. DisabledRulesAreSilent'
    BY <2>1, <2>2, ExpectedIsSilent DEF DisabledRulesAreSilent
  <2> QED
    BY <2>2, <2>3 DEF DisableIsLast, AfterLint
<1>3. CASE WriteFails \/ CreateOutput \/ AnswerFlag \/ AnswerFlagFails
  <2>1. /\ stdout' = stdout \/ stdout'.responses = <<>>
        /\ file' = file \/ file'.responses = <<>>
        /\ args' = args /\ configs' = configs
    BY <1>3, NothingReported
    DEF WriteFails, WriteOutput, CreateOutput, AnswerFlag, AnswerFlagFails, Scraps
  <2>2. DisabledRulesAreSilent'
    BY <2>1 DEF DisabledRulesAreSilent
  <2> QED
    BY <1>3, <2>1, <2>2
    DEF DisableIsLast, AfterLint, WriteFails, CreateOutput, AnswerFlag, AnswerFlagFails,
        Fail, Returns
<1>4. CASE \/ NoFiles \/ StartRun \/ ReadConfig \/ LoadDescriptors \/ ResolveFilenames
           \/ ParseFiles \/ Lint \/ LintFailed \/ LintSucceeded \/ Marshal \/ Exit
           \/ CallFails \/ UNCHANGED vars
  <2>1. stdout' = stdout /\ file' = file /\ args' = args
    BY <1>4 DEF NoFiles, StartRun, ReadConfig, LoadDescriptors, ResolveFilenames,
                ParseFiles, Lint, LintFailed, LintSucceeded, Marshal, Exit, CallFails, vars
  <2>2. DisabledRulesAreSilent'
    BY <2>1 DEF DisabledRulesAreSilent
  <2>3. DisableIsLast'
    BY <1>4 DEF NoFiles, StartRun, ReadConfig, LoadDescriptors, ResolveFilenames,
                ParseFiles, Lint, LintFailed, LintSucceeded, Marshal, Exit, CallFails, vars,
                Fail, Returns, DisableIsLast, AfterLint
  <2> QED
    BY <2>2, <2>3
<1> QED
  BY <1>1, <1>2, <1>3, <1>4 DEF Next, Over

(* No report, whole or left by a failed write, holds a problem of a rule   *)
(* that --disable-rule names (cli.lint appends its entry last).            *)
THEOREM DisabledIsDisabled == Spec => []DisabledRulesAreSilent
<1>1. Init => SilentInv
  <2> SUFFICES ASSUME Init PROVE SilentInv
    OBVIOUS
  <2>1. stage = "flags" /\ stdout.responses = <<>> /\ file.responses = <<>>
    BY NothingReported DEF Init
  <2>2. DisabledRulesAreSilent
    BY <2>1 DEF DisabledRulesAreSilent
  <2> QED
    BY <2>1, <2>2 DEF SilentInv, DisableIsLast, AfterLint
<1>2. TypeOK /\ CommandInv /\ SilentInv /\ [Next]_vars => SilentInv'
  BY SilentStep
<1>3. SilentInv => DisabledRulesAreSilent
  BY DEF SilentInv
<1> QED
  BY <1>1, <1>2, <1>3, CommandTypeCorrect, CommandInvariant, PTL DEF Spec

-----------------------------------------------------------------------------

LEMMA RunIsGiven ==
  ASSUME TypeOK
  PROVE  Run \in Runs /\ Run.args = args /\ Run.world = world
BY DEF TypeOK, Run

(* The call of LintProtos that a run makes depends on the run alone.       *)
LEMMA RequestOfRun ==
  ASSUME configs = ConfigsOf(Run)
  PROVE  Request = RequestOf(Run) /\ Expected = ExpectedOf(Run)
<1>1. Run.args = args /\ Run.world = world
  BY DEF Run
<1>2. Request = RequestOf(Run)
  BY <1>1 DEF Request, RequestOf
<1> QED
  BY <1>1, <1>2 DEF Expected, ExpectedOf

(* What the contract says of a run does not change during the run.         *)
LEMMA SameRun ==
  ASSUME UNCHANGED <<args, world>>
  PROVE  /\ Run' = Run /\ C!Before' = C!Before /\ C!AsksForFlag' = C!AsksForFlag
         /\ C!NothingToReport' = C!NothingToReport
BY DEF Run, C!Before, C!AsksForFlag, C!NothingToReport, C!Fails

LEMMA NextKeepsRun ==
  ASSUME [Next]_vars
  PROVE  UNCHANGED <<args, world>>
BY DEF Next, vars, AnswerFlag, AnswerFlagFails, NoFiles, StartRun, ReadConfig, AddFlags,
       LoadDescriptors, ResolveFilenames, ParseFiles, Lint, LintFailed, LintSucceeded, CreateOutput,
       Marshal, Write, WriteFails, Exit, CallFails, Over

LEMMA RunInvInit == Init => RunInv
<1> SUFFICES ASSUME Init PROVE RunInv
  OBVIOUS
<1>1. file = C!Before
  BY DEF Init, C!Before, Run, Only, C!Only
<1> QED
  BY <1>1 DEF Init, RunInv, BeforeLint, AfterLint, PastConfig, PastFlags, PastDescriptors,
              PastResolve, PastParse

(* An answer without complaints comes of files without complaints.         *)
LEMMA ResultsAreClean ==
  ASSUME L!IsAnswer(Request, answer), answer.kind = "results"
  PROVE  L!Clean(Request, Len(args.files))
<1>1. Request.files = args.files
  BY DEF Request
<1>2. \A m : L!Failure(m).kind = "error"
  BY DEF L!Failure
<1> QED
  BY <1>1, <1>2 DEF L!IsAnswer

LEMMA ErrorsAreComplaints ==
  ASSUME L!IsAnswer(Request, answer), answer.kind = "error", Len(args.files) \in Nat
  PROVE  ~ L!Clean(Request, Len(args.files))
<1>1. Request.files = args.files
  BY DEF Request
<1>2. \A r : L!Results(r).kind = "results"
  BY DEF L!Results
<1>3. PICK k \in 1..Len(args.files) : L!Complaints(Request, Request.files[k]) # {}
  BY <1>1, <1>2 DEF L!IsAnswer
<1> QED
  BY <1>3 DEF L!Clean

LEMMA RunInvStep ==
  ASSUME TypeOK, CommandInv, RunInv, [Next]_vars
  PROVE  RunInv'
<1> USE DEF BeforeLint, AfterLint, PastConfig, PastFlags, PastDescriptors, PastResolve, PastParse
<1>0. /\ UNCHANGED <<args, world>>
      /\ Run' = Run /\ C!Before' = C!Before
      /\ FromFile(Run)' = FromFile(Run) /\ ConfigsOf(Run)' = ConfigsOf(Run)
  BY NextKeepsRun, SameRun DEF FromFile, ConfigsOf
<1>00. Run.args = args /\ Run.world = world
  BY DEF Run
<1>1. CASE UNCHANGED vars
  <2>1. Request' = Request /\ C!Created' = C!Created
    BY <1>0, <1>1, SameRequest DEF vars, C!Created
  <2> QED
    BY <1>0, <1>1, <2>1 DEF vars, RunInv, L!Clean
<1>2. CASE \/ AnswerFlag \/ AnswerFlagFails \/ NoFiles \/ LintFailed \/ WriteFails
           \/ CallFails \/ Exit
  BY <1>2 DEF AnswerFlag, AnswerFlagFails, NoFiles, LintFailed, WriteFails, CallFails, Fail,
              Exit, RunInv
<1>3. CASE StartRun
  <2>1. configs = <<>> /\ (~ args.config => FromFile(Run) = <<>>)
    BY <1>00, <1>3 DEF StartRun, RunInv, FromFile
  <2> QED
    BY <1>0, <1>3, <2>1 DEF StartRun, RunInv
<1>4. CASE ReadConfig
  <2>1. configs' = FromFile(Run)
    <3>1. configs' = <<>> \o world.configFile /\ args.config
      BY <1>4 DEF ReadConfig, Returns, RunInv, CommandInv
    <3>2. world.configFile \in Seq([included : SUBSET Globs, excluded : SUBSET Globs,
                                    enabled : SUBSET Patterns, disabled : SUBSET Patterns])
      BY RunsHaveFiles DEF Configs
    <3>3. <<>> \o world.configFile = world.configFile
      BY <3>2
    <3> QED
      BY <1>00, <3>1, <3>3 DEF FromFile
  <2> QED
    BY <1>0, <1>4, <2>1 DEF ReadConfig, Returns, RunInv
<1>5. CASE AddFlags
  <2>1. configs' = ConfigsOf(Run)
    BY <1>00, <1>5 DEF AddFlags, RunInv, ConfigsOf
  <2> QED
    BY <1>0, <1>5, <2>1 DEF AddFlags, RunInv
<1>6. CASE LoadDescriptors \/ ResolveFilenames \/ ParseFiles \/ Lint
  BY <1>0, <1>6 DEF LoadDescriptors, ResolveFilenames, ParseFiles, Lint, Returns, RunInv
<1>7. CASE LintSucceeded
  <2>1. L!Clean(Request, Len(args.files))
    BY <1>7, ResultsAreClean DEF LintSucceeded, CommandInv
  <2>2. L!Clean(Request, Len(args.files))'
    BY <1>0, <1>7, <2>1, SameRequest DEF LintSucceeded, L!Clean
  <2>3. ~ args.output => C!Created'
    BY <1>00, <1>0 DEF C!Created
  <2> QED
    BY <1>0, <1>7, <2>2, <2>3 DEF LintSucceeded, RunInv
<1>8. CASE CreateOutput \/ Marshal \/ Write
  <2>1. L!Clean(Request, Len(args.files))'
    <3>1. L!Clean(Request, Len(args.files)) /\ Request' = Request
      BY <1>8, SameRequest DEF CreateOutput, Marshal, Write, Returns, RunInv
    <3> QED
      BY <1>0, <3>1 DEF L!Clean
  <2>2. CASE CreateOutput
    <3>1. C!Created'
      BY <2>2 DEF CreateOutput, C!Created, Only, C!Only
    <3> QED
      BY <1>0, <2>1, <2>2, <3>1 DEF CreateOutput, Returns, RunInv
  <2>3. CASE Marshal
    <3>1. C!Created'
      BY <1>0, <2>3 DEF Marshal, Returns, RunInv, C!Created
    <3> QED
      BY <1>0, <2>1, <2>3, <3>1 DEF Marshal, Returns, RunInv
  <2>4. CASE Write
    BY <1>0, <2>1, <2>4 DEF Write, Returns, RunInv
  <2> QED
    BY <1>8, <2>2, <2>3, <2>4
<1> QED
  BY <1>1, <1>2, <1>3, <1>4, <1>5, <1>6, <1>7, <1>8 DEF Next, Over

LEMMA RunInvariant == Spec => []RunInv
<1>1. TypeOK /\ CommandInv /\ RunInv /\ [Next]_vars => RunInv'
  BY RunInvStep
<1> QED
  BY <1>1, RunInvInit, CommandTypeCorrect, CommandInvariant, PTL DEF Spec

-----------------------------------------------------------------------------

(* A call that fails before linting leaves nothing to report.              *)
LEMMA EarlyFailure ==
  ASSUME TypeOK, CommandInv, NEW call \in {"config", "descriptors", "resolve", "parse"},
         ReturnsError(call)
  PROVE  C!NothingToReport
<1>1. Run.args = args /\ Run.world = world
  BY DEF Run
<1>2. call = "config" => args.config
  BY DEF ReturnsError, CommandInv
<1> QED
  BY <1>1, <1>2 DEF ReturnsError, C!NothingToReport, C!Fails

(* Nothing stands in the way of a report once the linter has returned its  *)
(* responses.                                                              *)
LEMMA RunReports ==
  ASSUME TypeOK, CommandInv, RunInv, stage \in AfterLint
  PROVE  C!Reports /\ Expected = ExpectedOf(Run) /\ Run \in Runs
<1> USE DEF AfterLint, PastConfig, PastFlags, PastDescriptors, PastResolve, PastParse
<1>1. Run \in Runs /\ Run.args = args /\ Run.world = world
  BY RunIsGiven
<1>2. Request = RequestOf(Run) /\ Expected = ExpectedOf(Run)
  BY RequestOfRun DEF RunInv
<1>3. L!Clean(RequestOf(Run), Len(Run.args.files))
  BY <1>1, <1>2 DEF RunInv
<1>4. ~ C!NothingToReport
  <2>1. Run \notin {r \in Runs : ~ L!Clean(RequestOf(r), Len(r.args.files))}
    BY <1>3
  <2>2. /\ args.files # <<>>
        /\ args.config => "config" \notin world.failing
        /\ \A call \in {"descriptors", "resolve", "parse"} : call \notin world.failing
    BY DEF RunInv
  <2> QED
    BY <1>1, <2>1, <2>2 DEF C!NothingToReport, C!Fails
<1>5. exit = "running" /\ ~ C!AsksForFlag
  BY <1>1 DEF CommandInv, Linting, C!AsksForFlag
<1> QED
  BY <1>1, <1>2, <1>4, <1>5 DEF C!Reports

LEMMA StepIsContracts ==
  ASSUME TypeOK, CommandInv, RunInv, [Next]_vars
  PROVE  [C!Next]_<<Run, file, stdout, exit>>
<1> USE DEF BeforeLint, AfterLint, PastConfig, PastFlags, PastDescriptors, PastResolve, PastParse
<1>0. Run' = Run
  BY NextKeepsRun, SameRun
<1>00. Run \in Runs /\ Run.args = args /\ Run.world = world
  BY RunIsGiven
<1>1. CASE UNCHANGED vars
  BY <1>0, <1>1 DEF vars
<1>2. CASE StartRun \/ ReadConfig \/ AddFlags \/ LoadDescriptors \/ ResolveFilenames
           \/ ParseFiles \/ Lint \/ LintSucceeded \/ Marshal \/ Over
  BY <1>0, <1>2 DEF StartRun, ReadConfig, AddFlags, LoadDescriptors, ResolveFilenames,
                    ParseFiles, Lint, LintSucceeded, Marshal, Over, vars
<1>3. CASE AnswerFlag
  <2>1. exit = "running" /\ C!AsksForFlag
    BY <1>00, <1>3 DEF AnswerFlag, CommandInv, C!AsksForFlag
  <2>2. stdout' = C!Only(IF Run.args.version THEN "version" ELSE "rules")
    BY <1>00, <1>3 DEF AnswerFlag, Only, C!Only
  <2>3. C!AnswerFlag
    BY <1>0, <1>00, <1>3, <2>1, <2>2 DEF AnswerFlag, C!AnswerFlag, C!Fails
  <2> QED
    BY <2>3 DEF C!Next
<1>10. CASE AnswerFlagFails
  <2>1. exit = "running" /\ C!AsksForFlag
    BY <1>00, <1>10 DEF AnswerFlagFails, CommandInv, C!AsksForFlag
  <2>2. C!Scraps = Scraps
    BY DEF Scraps, C!Scraps, Only, C!Only
  <2>3. \/ ~ Run.args.version /\ C!Fails("marshal") /\ stdout' = stdout
        \/ C!Fails("write") /\ stdout' \in C!Scraps
    BY <1>00, <1>10, <2>2 DEF AnswerFlagFails, C!Fails
  <2>4. C!MissFlag
    BY <1>0, <1>00, <1>10, <2>1, <2>3 DEF AnswerFlagFails, C!MissFlag
  <2> QED
    BY <2>4 DEF C!Next
<1>4. ASSUME NoFiles \/ LintFailed \/ \E call \in Calls \ {"create", "marshal", "write"} :
                                        ReturnsError(call) /\ CallFails
      PROVE  C!Refuse
  <2>1. C!NothingToReport
    <3>1. CASE NoFiles
      BY <1>00, <3>1 DEF NoFiles, C!NothingToReport
    <3>2. CASE LintFailed
      <4>1. ~ L!Clean(Request, Len(args.files))
        BY <3>2, RunsHaveFiles, ErrorsAreComplaints DEF LintFailed, CommandInv
      <4>2. Request = RequestOf(Run)
        BY <3>2, RequestOfRun DEF LintFailed, RunInv
      <4>3. Run \in {r \in Runs : ~ L!Clean(RequestOf(r), Len(r.args.files))}
        BY <1>00, <4>1, <4>2
      <4> QED
        BY <4>3 DEF C!NothingToReport
    <3>3. CASE \E call \in Calls \ {"create", "marshal", "write"} : ReturnsError(call)
      BY <3>3, EarlyFailure DEF Calls
    <3> QED
      BY <1>4, <3>1, <3>2, <3>3
  <2>2. /\ stage \in BeforeLint \cup {"linted"}
        /\ exit' = "error" /\ UNCHANGED <<file, stdout>>
        /\ Linting
    BY <1>4 DEF NoFiles, LintFailed, CallFails, ReturnsError, Fail, CommandInv, Linting, Calls
  <2>3. exit = "running" /\ ~ C!AsksForFlag /\ file = C!Before
    BY <1>00, <2>2 DEF CommandInv, RunInv, Linting, C!AsksForFlag
  <2> QED
    BY <1>0, <2>1, <2>2, <2>3 DEF C!Refuse
<1>5. ASSUME CallFails, NEW call \in {"create", "marshal"}, ReturnsError(call)
      PROVE  C!Miss
  <2>1. C!Reports
    BY <1>5, RunReports DEF ReturnsError
  <2>2. C!Fails(call)
    BY <1>00, <1>5 DEF ReturnsError, C!Fails
  <2>3. exit' = "error" /\ UNCHANGED <<file, stdout>>
    BY <1>5 DEF CallFails, Fail
  <2>4. CASE call = "create"
    <3>1. Run.args.output /\ file = C!Before
      BY <1>00, <1>5, <2>4 DEF ReturnsError, CommandInv, RunInv
    <3> QED
      BY <1>0, <2>1, <2>2, <2>3, <2>4, <3>1 DEF C!Miss
  <2>5. CASE call = "marshal"
    <3>1. C!Created
      BY <1>5, <2>5 DEF ReturnsError, RunInv
    <3> QED
      BY <1>0, <2>1, <2>2, <2>3, <2>5, <3>1 DEF C!Miss
  <2> QED
    BY <1>5, <2>4, <2>5
<1>6. CASE CallFails
  <2>1. PICK call \in Calls \ {"write"} : ReturnsError(call)
    BY <1>6 DEF CallFails
  <2>2. CASE call \in {"create", "marshal"}
    BY <1>5, <1>6, <2>1, <2>2 DEF C!Next
  <2>3. CASE call \notin {"create", "marshal"}
    BY <1>4, <1>6, <2>1, <2>3 DEF C!Next
  <2> QED
    BY <2>2, <2>3
<1>7. CASE CreateOutput
  <2>1. C!Reports
    BY <1>7, RunReports DEF CreateOutput, Returns
  <2>2. Run.args.output /\ ~ C!Fails("create") /\ file = C!Before
    BY <1>00, <1>7 DEF CreateOutput, Returns, CommandInv, RunInv, C!Fails
  <2>3. file' = C!Only("empty") /\ UNCHANGED <<stdout, exit>>
    BY <1>7 DEF CreateOutput, Only, C!Only
  <2>4. C!Create
    BY <1>0, <2>1, <2>2, <2>3 DEF C!Create
  <2> QED
    BY <2>4 DEF C!Next
<1>8. CASE Write \/ WriteFails
  <2>1. C!Reports /\ Expected = ExpectedOf(Run)
    BY <1>8, RunReports DEF Write, WriteFails, Returns, ReturnsError
  <2>2. C!Created /\ stdout = C!Only("nothing") /\ ~ C!Fails("marshal")
    BY <1>00, <1>8 DEF Write, WriteFails, Returns, ReturnsError, RunInv, C!Fails, Only, C!Only
  <2>3. \A content : WriteOutput(content) => C!Put(content)
    BY <1>00 DEF WriteOutput, C!Put
  <2>4. CASE Write
    <3>1. answer.responses = ExpectedOf(Run)
      BY <2>1, <2>4 DEF Write, Returns, CommandInv, L!Results
    <3>2. C!Put(C!Report([r \in Runs |-> ExpectedOf(r)][Run]))
      BY <1>00, <2>3, <2>4, <3>1 DEF Write, Report, C!Report
    <3>3. ~ C!Fails("write") /\ exit' = exit
      BY <1>00, <2>4 DEF Write, Returns, C!Fails
    <3>4. C!Deliver
      BY <1>0, <2>1, <2>2, <3>2, <3>3 DEF C!Deliver
    <3> QED
      BY <3>4 DEF C!Next
  <2>5. CASE WriteFails
    <3>1. PICK scrap \in Scraps : WriteOutput(scrap)
      BY <2>5 DEF WriteFails
    <3>2. C!Put(scrap) /\ scrap \in C!Scraps
      BY <2>3, <3>1 DEF Scraps, C!Scraps, Only, C!Only
    <3>3. C!Fails("write") /\ exit' = "error"
      BY <1>00, <2>5 DEF WriteFails, ReturnsError, Fail, C!Fails
    <3>4. C!Miss
      BY <1>0, <2>1, <2>2, <3>2, <3>3 DEF C!Miss
    <3> QED
      BY <3>4 DEF C!Next
  <2> QED
    BY <1>8, <2>4, <2>5
<1>9. CASE Exit
  <2>1. C!Reports /\ Expected = ExpectedOf(Run)
    BY <1>9, RunReports DEF Exit
  <2>2. Destination = Report(Expected) /\ answer.responses = Expected
    BY <1>9 DEF Exit, CommandInv, L!Results
  <2>3. [r \in Runs |-> ExpectedOf(r)][Run] = Expected
    BY <1>00, <2>1
  <2>4. C!Destination = C!Report(Expected)
    BY <1>00, <2>2 DEF Destination, C!Destination, Report, C!Report
  <2>5. DOMAIN Expected = 1..Len(Expected)
    <3>1. Len(args.files) \in Nat
      BY RunsHaveFiles
    <3> QED
      BY <3>1 DEF Expected
  <2>6. exit' = IF /\ Run.args.setExitStatus
                   /\ \E k \in DOMAIN Expected : Expected[k].problems # {}
                THEN "error" ELSE "ok"
    BY <1>00, <1>9, <2>2, <2>5 DEF Exit, AnyProblems
  <2>7. UNCHANGED <<file, stdout>>
    BY <1>9 DEF Exit
  <2>8. C!End
    BY <1>0, <2>1, <2>3, <2>4, <2>6, <2>7 DEF C!End
  <2> QED
    BY <2>8 DEF C!Next
<1> QED
  BY <1>1, <1>2, <1>3, <1>4, <1>6, <1>7, <1>8, <1>9, <1>10 DEF Next, C!Next

(* Whatever calls fail, whoever watches the output file, the terminal and  *)
(* the exit status sees a run of the contract.                             *)
THEOREM CommandImplementsContract == Spec => ImplementsCommandContract
<1>1. Init => C!Init
  <2> SUFFICES ASSUME Init PROVE C!Init
    OBVIOUS
  <2>1. Run \in Runs
    <3>1. PICK r \in Runs : args = r.args /\ world = r.world
      BY DEF Init
    <3> QED
      BY <3>1, CommandAssumption DEF Run
  <2>2. file = C!Before
    BY DEF Init, Run, Only, C!Before, C!Only
  <2> QED
    BY <2>1, <2>2 DEF Init, Only, C!Init, C!Only
<1>2. TypeOK /\ CommandInv /\ RunInv /\ [Next]_vars => [C!Next]_<<Run, file, stdout, exit>>
  BY StepIsContracts
<1> QED
  BY <1>1, <1>2, CommandTypeCorrect, CommandInvariant, RunInvariant, PTL
  DEF Spec, ImplementsCommandContract, C!Spec

-----------------------------------------------------------------------------

(* How many stages a run has before it at most.                            *)
Stages == {"flags", "add flags", "lint", "linted", "written", "over"} \cup Calls

After == [s \in Stages |->
  CASE s = "flags" -> 12
    [] s = "config" -> 11
    [] s = "add flags" -> 10
    [] s = "descriptors" -> 9
    [] s = "resolve" -> 8
    [] s = "parse" -> 7
    [] s = "lint" -> 6
    [] s = "linted" -> 5
    [] s = "create" -> 4
    [] s = "marshal" -> 3
    [] s = "write" -> 2
    [] s = "written" -> 1
    [] s = "over" -> 0]

Left == After[stage]

LEMMA AfterIs ==
  /\ After["flags"] = 12
  /\ After["config"] = 11
  /\ After["add flags"] = 10
  /\ After["descriptors"] = 9
  /\ After["resolve"] = 8
  /\ After["parse"] = 7
  /\ After["lint"] = 6
  /\ After["linted"] = 5
  /\ After["create"] = 4
  /\ After["marshal"] = 3
  /\ After["write"] = 2
  /\ After["written"] = 1
  /\ After["over"] = 0
BY DEF After, Stages, Calls

LEMMA AfterDrops ==
  /\ After["over"] < After["flags"] /\ After["config"] < After["flags"]
  /\ After["add flags"] < After["flags"] /\ After["add flags"] < After["config"]
  /\ After["descriptors"] < After["add flags"] /\ After["resolve"] < After["descriptors"]
  /\ After["parse"] < After["resolve"] /\ After["lint"] < After["parse"]
  /\ After["linted"] < After["lint"] /\ After["over"] < After["linted"]
  /\ After["create"] < After["linted"] /\ After["marshal"] < After["linted"]
  /\ After["marshal"] < After["create"] /\ After["write"] < After["marshal"]
  /\ After["written"] < After["write"] /\ After["over"] < After["write"]
  /\ After["over"] < After["written"]
  /\ \A call \in Calls : After["over"] < After[call]
<1>1. /\ 0 < 12 /\ 11 < 12 /\ 10 < 12 /\ 10 < 11 /\ 9 < 10 /\ 8 < 9 /\ 7 < 8 /\ 6 < 7 /\ 5 < 6
      /\ 0 < 5 /\ 4 < 5 /\ 3 < 5 /\ 3 < 4 /\ 2 < 3 /\ 1 < 2 /\ 0 < 2 /\ 0 < 1
      /\ 0 < 11 /\ 0 < 9 /\ 0 < 8 /\ 0 < 7 /\ 0 < 4 /\ 0 < 3
  OBVIOUS
<1> QED
  BY <1>1, AfterIs, Zenon DEF Calls

LEMMA StepComesCloser ==
  ASSUME Next, ~ UNCHANGED vars
  PROVE  Left' < Left
<1>1. Left = After[stage] /\ Left' = After[stage']
  BY DEF Left
<1>2. CASE AnswerFlag \/ AnswerFlagFails \/ NoFiles
  <2>1. stage = "flags" /\ stage' = "over"
    BY <1>2 DEF AnswerFlag, AnswerFlagFails, NoFiles, Fail
  <2> QED
    BY <1>1, <2>1, AfterDrops, Zenon
<1>3. CASE StartRun
  <2>1. stage = "flags" /\ stage' \in {"config", "add flags"}
    BY <1>3, Zenon DEF StartRun
  <2> QED
    BY <1>1, <2>1, AfterDrops, Zenon
<1>4. CASE ReadConfig \/ AddFlags \/ LoadDescriptors \/ ResolveFilenames \/ ParseFiles
  BY <1>1, <1>4, AfterDrops, Zenon
     DEF ReadConfig, AddFlags, LoadDescriptors, ResolveFilenames, ParseFiles, Returns
<1>5. CASE Lint \/ LintFailed
  BY <1>1, <1>5, AfterDrops, Zenon DEF Lint, LintFailed, Fail
<1>6. CASE LintSucceeded
  <2>1. stage = "linted" /\ stage' \in {"create", "marshal"}
    BY <1>6, Zenon DEF LintSucceeded
  <2> QED
    BY <1>1, <2>1, AfterDrops, Zenon
<1>7. CASE CreateOutput \/ Marshal \/ Write \/ WriteFails \/ Exit
  BY <1>1, <1>7, AfterDrops, Zenon
     DEF CreateOutput, Marshal, Write, WriteFails, Exit, Returns, ReturnsError, Fail
<1>8. CASE CallFails
  <2>1. stage \in Calls /\ stage' = "over"
    BY <1>8 DEF CallFails, ReturnsError, Fail
  <2> QED
    BY <1>1, <2>1, AfterDrops, Zenon
<1> QED
  BY <1>2, <1>3, <1>4, <1>5, <1>6, <1>7, <1>8 DEF Next, Over

LEMMA LeftIsSmall == TypeOK => Left \in 0..12
<1>1. \A n \in {0, 1, 2, 3, 4, 5, 6, 7, 8, 9, 10, 11, 12} : n \in 0..12
  OBVIOUS
<1>2. \A s \in Stages : After[s] \in {0, 1, 2, 3, 4, 5, 6, 7, 8, 9, 10, 11, 12}
  BY AfterIs, Zenon DEF Stages, Calls
<1>3. TypeOK => stage \in Stages
  BY DEF TypeOK, Stages
<1> QED
  BY <1>1, <1>2, <1>3, Zenon DEF Left

(* A run takes at most twelve steps, whichever calls fail: none is tried   *)
(* again and nothing waits (cmd/api-linter/cli.go; the run has Ends).      *)
THEOREM RunComesCloser == Spec => [](Left \in 0..12) /\ [][Left' < Left]_vars
<1>1. [Next]_vars => [Left' < Left]_vars
  BY StepComesCloser
<1> QED
  BY <1>1, LeftIsSmall, CommandTypeCorrect, PTL DEF Spec

=============================================================================
