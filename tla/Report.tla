------------------------------- MODULE Report -------------------------------
(***************************************************************************)
(* What the linter's responses become in each output format: the locations *)
(* of the JSON and YAML forms (lint/problem.go), the workflow commands of  *)
(* the GitHub form (cmd/api-linter/github_actions.go) and the table of the *)
(* summary form (cmd/api-linter/summary.go).                               *)
(***************************************************************************)
EXTENDS Naturals, Sequences, FiniteSets, Functions

CONSTANTS Paths, RuleIDs,
          Spans,        \* the spans of source locations considered
          NoLoc,        \* a nil location
          Reports       \* the lists of responses considered

(* A problem has the span of its Location, and that of its descriptor's    *)
(* source info; either may be nil.                                         *)
Problem == [rule : RuleIDs, loc : Spans \cup {NoLoc}, own : Spans \cup {NoLoc}]

(* A span of three numbers is within a line, one of four over several; the *)
(* end is exclusive, and what is located has at least one character.       *)
IsSpan(s) ==
  /\ s \in Seq(Nat)
  /\ \/ Len(s) = 3 /\ s[2] < s[3]
     \/ Len(s) = 4 /\ (s[1] < s[3] \/ (s[1] = s[3] /\ s[2] < s[4]))

ASSUME ReportAssumption ==
  /\ \A s \in Spans : IsSpan(s)
  /\ NoLoc \in Seq(Nat) /\ NoLoc \notin Spans
  /\ \A r \in Reports : r \in Seq([path : Paths, problems : Seq(Problem)])

VARIABLES
  responses,  \* the responses, fixed by Init
  format,     \* "yaml", "github" or "summary", fixed by Init
  i, j,       \* the response being formatted, and its next problem
  output,     \* the entries written so far
  counts,     \* createSummary: rule ID -> path -> violations
  stage       \* "format", "rows", "sort" or "done"

reportVars == <<responses, format, i, j, output, counts, stage>>

ReportInit ==
  /\ responses \in Reports
  /\ format \in {"yaml", "github", "summary"}
  /\ i = 1 /\ j = 1
  /\ output = <<>> /\ counts = <<>>
  /\ stage = "format"

-----------------------------------------------------------------------------

(* marshal: the Location has precedence over the descriptor's source info. *)
Place(p) == IF p.loc # NoLoc THEN p.loc ELSE p.own

(* Mutant, which the runs must refuse: the start column is not shifted.    *)
FileLocationUnshifted(span) ==
  LET s == IF span = NoLoc THEN <<0, 0, 1>> ELSE span
      n == Len(s)
  IN  [start |-> [line |-> s[1] + 1, column |-> s[2]],
       end   |-> [line |-> (IF n = 4 THEN s[3] ELSE s[1]) + 1, column |-> s[n]]]

(* fileLocationFromPBLocation: spans count from zero and exclude their     *)
(* end, positions count from one and include it.                           *)
FileLocation(span) ==
  LET s == IF span = NoLoc THEN <<0, 0, 1>> ELSE span
      n == Len(s)
  IN  [start |-> [line |-> s[1] + 1, column |-> s[2] + 1],
       end   |-> [line |-> (IF n = 4 THEN s[3] ELSE s[1]) + 1, column |-> s[n]]]

(* The parameters of a workflow command: as many numbers as the span of    *)
(* the Location has.                                                       *)
Annotation(span) ==
  [k \in {<<"line", "col", "endLine", "endColumn">>[m] : m \in 1..Len(span)} |->
     span[CHOOSE m \in 1..Len(span) : <<"line", "col", "endLine", "endColumn">>[m] = k]]

Here == responses[i]

HasProblem == stage = "format" /\ i <= Len(responses) /\ j <= Len(Here.problems)

MarshalProblem ==
  /\ HasProblem /\ format = "yaml"
  /\ output' = Append(output, [rule |-> Here.problems[j].rule, path |-> Here.path,
                               at |-> FileLocation(Place(Here.problems[j]))])
  /\ j' = j + 1
  /\ UNCHANGED <<responses, format, i, counts, stage>>

EmitCommand ==
  /\ HasProblem /\ format = "github"
  /\ output' = Append(output, [rule |-> Here.problems[j].rule, path |-> Here.path,
                               at |-> Annotation(Here.problems[j].loc)])
  /\ j' = j + 1
  /\ UNCHANGED <<responses, format, i, counts, stage>>

(* Mutant: a rule's map is made anew for every problem.                    *)
CountedAfresh(rule, path) ==
  [x \in DOMAIN counts \cup {rule} |-> IF x = rule THEN [y \in {path} |-> 1] ELSE counts[x]]

(* summary[rule][path]++, with the inner map made when it is missing.      *)
Counted(rule, path) ==
  LET inner == IF rule \in DOMAIN counts THEN counts[rule] ELSE <<>>
      was == IF path \in DOMAIN inner THEN inner[path] ELSE 0
  IN  [x \in DOMAIN counts \cup {rule} |->
         IF x = rule
         THEN [y \in DOMAIN inner \cup {path} |-> IF y = path THEN was + 1 ELSE inner[y]]
         ELSE counts[x]]

CountProblem ==
  /\ HasProblem /\ format = "summary"
  /\ counts' = Counted(Here.problems[j].rule, Here.path)
  /\ j' = j + 1
  /\ UNCHANGED <<responses, format, i, output, stage>>

NextResponse ==
  /\ stage = "format" /\ i <= Len(responses) /\ j > Len(Here.problems)
  /\ i' = i + 1 /\ j' = 1
  /\ UNCHANGED <<responses, format, output, counts, stage>>

EndResponses ==
  /\ stage = "format" /\ i > Len(responses)
  /\ stage' = IF format = "summary" THEN "rows" ELSE "done"
  /\ UNCHANGED <<responses, format, i, j, output, counts>>

(* printSummaryTable ranges over the map of the rules in any order.        *)
AddRow(rule) ==
  /\ stage = "rows" /\ rule \in DOMAIN counts \ {output[k].rule : k \in 1..Len(output)}
  /\ output' = Append(output, [rule |-> rule,
                               violations |-> FoldFunction(+, 0, counts[rule]),
                               files |-> Cardinality(DOMAIN counts[rule])])
  /\ UNCHANGED <<responses, format, i, j, counts, stage>>

EndRows ==
  /\ stage = "rows" /\ Len(output) = Cardinality(DOMAIN counts)
  /\ stage' = "sort"
  /\ UNCHANGED <<responses, format, i, j, output, counts>>

(* sort.SliceStable by violations: the rearrangement that is in order and  *)
(* keeps the order of rows with as many.                                   *)
Sorted(rows) ==
  LET place == CHOOSE f \in [1..Len(rows) -> 1..Len(rows)] :
        \A a, b \in 1..Len(rows) :
          f[a] < f[b] <=> \/ rows[a].violations < rows[b].violations
                          \/ (rows[a].violations = rows[b].violations /\ a < b)
  IN  [k \in 1..Len(rows) |-> rows[CHOOSE a \in 1..Len(rows) : place[a] = k]]

SortRows ==
  /\ stage = "sort"
  /\ stage' = "done"
  /\ output' = Sorted(output)
  /\ UNCHANGED <<responses, format, i, j, counts>>

Done == stage = "done" /\ UNCHANGED reportVars

ReportNext ==
  \/ MarshalProblem \/ EmitCommand \/ CountProblem
  \/ NextResponse \/ EndResponses
  \/ \E rule \in DOMAIN counts : AddRow(rule)
  \/ EndRows \/ SortRows \/ Done

ReportSpec == ReportInit /\ [][ReportNext]_reportVars

-----------------------------------------------------------------------------

ReportTypeOK ==
  /\ responses \in Reports
  /\ i \in 1..Len(responses) + 1 /\ j \in Nat \ {0}
  /\ i <= Len(responses) => j <= Len(Here.problems) + 1
  /\ DOMAIN counts \subseteq RuleIDs
  /\ \A r \in DOMAIN counts :
       DOMAIN counts[r] \subseteq Paths /\ \A p \in DOMAIN counts[r] : counts[r][p] \in Nat \ {0}
  /\ stage \in {"format", "rows", "sort", "done"}

(* The problems, by response and place, in the order of the loops.         *)
All == UNION {{<<a, b>> : b \in DOMAIN responses[a].problems} : a \in DOMAIN responses}
Of(x) == responses[x[1]].problems[x[2]]
Before(x) == {y \in All : y[1] < x[1] \/ (y[1] = x[1] /\ y[2] < x[2])}
Nth(k) == Of(CHOOSE x \in All : Cardinality(Before(x)) = k - 1)

(* The table has one row for every rule with problems, whose numbers are   *)
(* those of its problems and of the paths that have any: the nested maps   *)
(* lose no count, and a file that is given twice counts as one.            *)
SummaryAddsUp ==
  (stage = "done" /\ format = "summary") =>
    /\ {output[k].rule : k \in 1..Len(output)} = {Of(x).rule : x \in All}
    /\ \A k \in 1..Len(output) :
         LET mine == {x \in All : Of(x).rule = output[k].rule}
         IN  /\ output[k].violations = Cardinality(mine)
             /\ output[k].files = Cardinality({responses[x[1]].path : x \in mine})
    /\ \A k \in 2..Len(output) : output[k - 1].violations <= output[k].violations

(* In YAML and JSON every location is one a human can find: it starts at   *)
(* line and column 1 or later, does not end before it starts, and begins   *)
(* where the location, or else the descriptor, begins.                     *)
LocationsArePositions ==
  (stage = "done" /\ format = "yaml") =>
    \A k \in 1..Len(output) :
      LET s == output[k].at.start  e == output[k].at.end
          place == Place(Nth(k))
      IN  /\ s.line >= 1 /\ s.column >= 1
          /\ place # NoLoc => s.line = place[1] + 1 /\ s.column = place[2] + 1
          /\ s.line < e.line \/ (s.line = e.line /\ s.column <= e.column)

=============================================================================
