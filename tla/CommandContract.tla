-------------------------- MODULE CommandContract --------------------------
(***************************************************************************)
(* What a run of api-linter promises to whoever watches the terminal, the  *)
(* output file and the exit status (cmd/api-linter/cli.go, main.go).  The  *)
(* file holds what was there before, then nothing, then the report or what *)
(* a failed write left of it; and it changes only if there is something to *)
(* report.  How a run comes to know that, call by call, does not show.     *)
(***************************************************************************)
CONSTANTS
  Runs,          \* the arguments and surroundings considered
  Expected,      \* run -> the responses of the linter's contract
  Complaining    \* the runs in which a rule panics or misplaces a problem

VARIABLES run, file, stdout, exit

(* What a file or the terminal holds.                                      *)
Only(what) == [what |-> what, responses |-> <<>>]
Report(responses) == [what |-> "report", responses |-> responses]

(* What a write that fails may leave.                                      *)
Scraps == {Only("empty"), Only("part of a report")}

Before == IF run.world.oldReport THEN Only("old report") ELSE Only("no file")

Fails(call) == call \in run.world.failing

-----------------------------------------------------------------------------

AsksForFlag == run.args.version \/ run.args.listRules

(* There is nothing to report: no file to lint, or none that can be        *)
(* linted, or a rule that fails on one.                                    *)
NothingToReport ==
  \/ run.args.files = <<>>
  \/ run.args.config /\ Fails("config")
  \/ \E call \in {"descriptors", "resolve", "parse"} : Fails(call)
  \/ run \in Complaining

Reports == exit = "running" /\ ~ AsksForFlag /\ ~ NothingToReport

(* The output file has been created, if there is one.                      *)
Created == run.args.output => file = Only("empty")

Put(content) ==
  IF run.args.output THEN file' = content /\ stdout' = stdout
                     ELSE stdout' = content /\ file' = file

Destination == IF run.args.output THEN file ELSE stdout

-----------------------------------------------------------------------------

Init ==
  /\ run \in Runs
  /\ file = Before
  /\ stdout = Only("nothing")
  /\ exit = "running"

AnswerFlag ==
  /\ exit = "running" /\ AsksForFlag
  /\ ~ Fails("write") /\ (run.args.version \/ ~ Fails("marshal"))
  /\ stdout' = Only(IF run.args.version THEN "version" ELSE "rules")
  /\ exit' = "ok"
  /\ UNCHANGED <<run, file>>

(* Nothing or a part of the answer is printed, which is no error when the  *)
(* version was asked for.                                                  *)
MissFlag ==
  /\ exit = "running" /\ AsksForFlag
  /\ \/ ~ run.args.version /\ Fails("marshal") /\ stdout' = stdout
     \/ Fails("write") /\ stdout' \in Scraps
  /\ exit' = IF run.args.version THEN "ok" ELSE "error"
  /\ UNCHANGED <<run, file>>

(* An earlier report stays as it is.                                       *)
Refuse ==
  /\ exit = "running" /\ ~ AsksForFlag /\ NothingToReport
  /\ file = Before
  /\ exit' = "error"
  /\ UNCHANGED <<run, file, stdout>>

Create ==
  /\ Reports /\ run.args.output /\ ~ Fails("create")
  /\ file = Before
  /\ file' = Only("empty")
  /\ UNCHANGED <<run, stdout, exit>>

Deliver ==
  /\ Reports /\ Created
  /\ stdout = Only("nothing")
  /\ \A call \in {"marshal", "write"} : ~ Fails(call)
  /\ Put(Report(Expected[run]))
  /\ UNCHANGED <<run, exit>>

(* The report does not get where it was to go.                             *)
Miss ==
  /\ Reports
  /\ \/ run.args.output /\ Fails("create") /\ file = Before /\ UNCHANGED <<file, stdout>>
     \/ Fails("marshal") /\ Created /\ UNCHANGED <<file, stdout>>
     \/ Fails("write") /\ Created /\ \E scrap \in Scraps : Put(scrap)
  /\ exit' = "error"
  /\ UNCHANGED run

End ==
  /\ Reports
  /\ Destination = Report(Expected[run])
  /\ LET problems == \E k \in DOMAIN Expected[run] : Expected[run][k].problems # {}
     IN  exit' = IF run.args.setExitStatus /\ problems THEN "error" ELSE "ok"
  /\ UNCHANGED <<run, file, stdout>>

Next == AnswerFlag \/ MissFlag \/ Refuse \/ Create \/ Deliver \/ Miss \/ End

Spec == Init /\ [][Next]_<<run, file, stdout, exit>>

=============================================================================
