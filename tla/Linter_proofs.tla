---------------------------- MODULE Linter_proofs ---------------------------
(***************************************************************************)
(* Proofs about Linter: its inductive invariant, that it implements        *)
(* LintContract and comes to an answer, and that the contract has one      *)
(* answer to each request, for every set of rules and descriptors and      *)
(* every request.                                                          *)
(***************************************************************************)
EXTENDS Linter, FiniteSetTheorems, SequenceTheorems, WellFoundedInduction,
        TLAPS

USE LinterAssumption DEF C!ContractAssumption

(* The walk of ruleIsEnabled visits exactly the descriptors of Above.      *)
LEMMA AboveSelf ==
  ASSUME NEW d \in Descriptors
  PROVE  d \in C!Above(d)
BY DEF C!Above

LEMMA AboveRoot ==
  ASSUME NEW d \in Descriptors, Parent[d] = NoDesc
  PROVE  C!Above(d) = {d}
<1>1. C!ClosedUpwards({d})
  BY DEF C!ClosedUpwards
<1>2. C!Above(d) \subseteq {d}
  BY <1>1 DEF C!Above
<1> QED
  BY <1>2, AboveSelf

LEMMA AboveParent ==
  ASSUME NEW d \in Descriptors, Parent[d] # NoDesc
  PROVE  /\ Parent[d] \in Descriptors
         /\ C!Above(d) = {d} \cup C!Above(Parent[d])
<1>1. Parent[d] \in Descriptors
  OBVIOUS
<1>2. ASSUME NEW a \in C!Above(Parent[d]) PROVE a \in C!Above(d)
  BY <1>1, <1>2 DEF C!Above, C!ClosedUpwards
<1>3. ASSUME NEW a \in C!Above(d), a # d PROVE a \in C!Above(Parent[d])
  <2>1. a \in Descriptors
    BY DEF C!Above
  <2>2. ASSUME NEW S \in SUBSET Descriptors, Parent[d] \in S, C!ClosedUpwards(S)
        PROVE  a \in S
    <3>1. C!ClosedUpwards(S \cup {d})
      BY <2>2 DEF C!ClosedUpwards
    <3>2. a \in S \cup {d}
      BY <3>1 DEF C!Above
    <3> QED
      BY <1>3, <3>2
  <2> QED
    BY <2>1, <2>2 DEF C!Above
<1> QED
  BY <1>1, <1>2, <1>3, AboveSelf

(* Filtering one more problem of a rule.                                   *)
LEMMA KeptOneMore ==
  ASSUME NEW r, NEW S, NEW p, p.desc # NoDesc
  PROVE  /\ C!Suppressed(q, r, p) => C!Kept(q, r, S \cup {p}) = C!Kept(q, r, S)
         /\ ~ C!Suppressed(q, r, p) =>
              C!Kept(q, r, S \cup {p}) =
                C!Kept(q, r, S) \cup {[rule |-> r, problem |-> p]}
         /\ C!Unplaced(r, S \cup {p}) = C!Unplaced(r, S)
BY DEF C!Kept, C!Unplaced

LEMMA RejectOneMore ==
  ASSUME NEW r, NEW S, NEW p, p.desc = NoDesc
  PROVE  /\ C!Kept(q, r, S \cup {p}) = C!Kept(q, r, S)
         /\ C!Unplaced(r, S \cup {p}) = C!Unplaced(r, S) \cup {C!NoDescriptorMessage(r)}
BY DEF C!Kept, C!Unplaced

(* Nothing filtered yet.                                                   *)
LEMMA NothingSeen ==
  ASSUME NEW r
  PROVE  C!Kept(q, r, {}) = {} /\ C!Unplaced(r, {}) = {}
BY DEF C!Kept, C!Unplaced

(* The contract's instance of RuleConfig is the one Linter extends.        *)
LEMMA SameMatchRule ==
  ASSUME NEW name, NEW patterns
  PROVE  MatchRule(name, patterns) <=> C!MatchRule(name, patterns)
BY DEF MatchRule, IsSegmentRun, Normalize, TrimPrefix, TrimSuffix, ToLower,
       C!MatchRule, C!IsSegmentRun, C!Normalize, C!TrimPrefix, C!TrimSuffix, C!ToLower

LEMMA SameIsRuleEnabled ==
  ASSUME NEW cs, NEW r, NEW path
  PROVE  IsRuleEnabled(cs, r, path) <=> C!IsRuleEnabled(cs, r, path)
<1>1. \A c : ConfigMatchesPath(c, path) <=> C!ConfigMatchesPath(c, path)
  BY DEF ConfigMatchesPath, MatchPath, C!ConfigMatchesPath, C!MatchPath
<1>2. \A c : Mentions(c, r) <=> C!Mentions(c, r)
  BY SameMatchRule DEF Mentions, C!Mentions
<1>3. \A n : Deciding(cs, n, r, path) = C!Deciding(cs, n, r, path)
  BY <1>1, <1>2 DEF Deciding, C!Deciding
<1> QED
  BY <1>3, SameMatchRule
  DEF IsRuleEnabled, EnabledAfter, DefaultDisabledRules,
      C!IsRuleEnabled, C!EnabledAfter, C!DefaultDisabledRules

(* The code's test at one descriptor is the contract's.                    *)
LEMMA DisabledHereIs ==
  DisabledHere <=> C!DisabledAt(q, rule, at, loc)
<1>1. \A name, lines :
        MatchRule(name, ExtractDisabledRules(lines)) <=>
          C!MatchRule(name, C!ExtractDisabledRules(lines))
  BY SameMatchRule DEF ExtractDisabledRules, C!ExtractDisabledRules
<1>2. Names = {rule, C!AliasOf(rule)}
  BY DEF Names, C!AliasOf, EmptyName, C!EmptyName
<1> QED
  BY <1>1, <1>2 DEF DisabledHere, C!DisabledAt, C!DisableDeprecated, C!RuleIsDisabledByComments

-----------------------------------------------------------------------------

(* The file in hand and the problems a rule finds in it.                   *)
LEMMA FileFacts ==
  ASSUME TypeOK, next <= Len(q.files)
  PROVE  /\ q \in C!Request
         /\ Len(q.files) \in Nat
         /\ next \in 1..Len(q.files)
         /\ File \in C!Files
         /\ File \in Descriptors
         /\ \A r \in Rules : q.problems[r, File] \subseteq C!Problem
<1>1. q \in C!Request
  BY DEF TypeOK
<1>2. /\ q.files \in Seq(C!Files)
      /\ q.problems \in [Rules \X C!Files -> SUBSET C!Problem]
  BY <1>1 DEF C!Request
<1>3. Len(q.files) \in Nat
  BY <1>2
<1>7. next \in 1..Len(q.files)
  <2>1. next \in 1..(Len(q.files) + 1)
    BY DEF TypeOK
  <2> QED
    BY <1>3, <2>1
<1>4. File \in C!Files
  BY <1>2, <1>7 DEF File
<1>5. File \in Descriptors
  BY <1>4 DEF C!Files
<1>6. \A r \in Rules : <<r, File>> \in Rules \X C!Files
  BY <1>4
<1> QED
  BY <1>1, <1>2, <1>3, <1>7, <1>4, <1>5, <1>6

LEMMA InitLinter == Init => LinterInv
<1> SUFFICES ASSUME Init PROVE LinterInv
  OBVIOUS
<1>1. q \in C!Request
  BY DEF Init
<1>6. q.files \in Seq(C!Files)
  BY <1>1 DEF C!Request
<1>5. next \in 1..(Len(q.files) + 1)
  BY <1>6 DEF Init
<1>2. TypeOK
  BY <1>5 DEF Init, TypeOK, C!Lines
<1>3. C!Clean(q, 0)
  BY DEF C!Clean
<1>4. responses = [k \in 1..0 |-> C!Response(q, q.files[k])]
  BY DEF Init
<1> QED
  BY <1>2, <1>3, <1>4
  DEF Init, LinterInv, WalkInv, RuleInv, LoopInv, FilesInv, InLoop, InRule

-----------------------------------------------------------------------------

LEMMA SameVisited ==
  ASSUME q' = q, File' = File, Visited' = Visited
  PROVE  Gathered' = Gathered /\ Failures' = Failures
BY DEF Gathered, Failures

LEMMA VisitOneMore ==
  ASSUME NEW r, q' = q, File' = File, Visited' = Visited \cup {r}
  PROVE  /\ Gathered' = Gathered \cup C!Contribution(q, r, File)
         /\ Failures' = Failures \cup C!Complaint(q, r, File)
BY DEF Gathered, Failures

(* Each lemma below is one action.                                         *)
LEMMA StepStartFile == LinterInv /\ StartFile => LinterInv'
<1> SUFFICES ASSUME LinterInv, StartFile PROVE LinterInv'
  OBVIOUS
<1> USE DEF LinterInv, StartFile
<1>1. TypeOK'
  BY DEF TypeOK
<1>2. Visited' = {} /\ Seen' = {}
  BY DEF Visited, Seen, InRule
<1>3. LoopInv'
  BY <1>2, NothingSeen DEF LoopInv, Gathered, Failures
<1> QED
  BY <1>1, <1>3 DEF WalkInv, RuleInv, FilesInv, InRule

LEMMA StepSkipRule ==
  ASSUME NEW r \in Rules, LinterInv, SkipRule(r)
  PROVE  LinterInv'
<1> USE DEF LinterInv, SkipRule
<1>1. TypeOK'
  BY DEF TypeOK
<1>2. Visited' = Visited \cup {r} /\ Seen' = {} /\ Seen = {} /\ File' = File
  BY DEF Visited, Seen, InRule, File
<1>3. C!Contribution(q, r, File) = {} /\ C!Complaint(q, r, File) = {}
  BY SameIsRuleEnabled DEF C!Contribution, C!Complaint, C!RuleRuns
<1>4. LoopInv'
  BY <1>2, <1>3, VisitOneMore, NothingSeen DEF LoopInv, InLoop
<1> QED
  BY <1>1, <1>4 DEF WalkInv, RuleInv, FilesInv, InRule

LEMMA StepRulePanics ==
  ASSUME NEW r \in Rules, LinterInv, RulePanics(r)
  PROVE  LinterInv'
<1> USE DEF LinterInv, RulePanics
<1>1. TypeOK'
  <2>1. C!PanicMessage \in C!Messages
    BY DEF C!Messages
  <2> QED
    BY <2>1 DEF TypeOK
<1>2. Visited' = Visited \cup {r} /\ Seen' = {} /\ Seen = {} /\ File' = File
  BY DEF Visited, Seen, InRule, File
<1>3. C!Contribution(q, r, File) = {} /\ C!Complaint(q, r, File) = {C!PanicMessage}
  BY SameIsRuleEnabled DEF C!Contribution, C!Complaint, C!RuleRuns
<1>4. LoopInv'
  BY <1>2, <1>3, VisitOneMore, NothingSeen DEF LoopInv, InLoop
<1> QED
  BY <1>1, <1>4 DEF WalkInv, RuleInv, FilesInv, InRule

LEMMA StepRunRule ==
  ASSUME NEW r \in Rules, LinterInv, RunRule(r)
  PROVE  LinterInv'
<1> USE DEF LinterInv, RunRule
<1>1. File' = File /\ next <= Len(q.files)
  BY DEF File, LoopInv, InLoop
<1>2. TypeOK'
  <2>1. q.problems[r, File] \subseteq C!Problem
    BY <1>1, FileFacts
  <2> QED
    BY <2>1 DEF TypeOK
<1>3. Visited' = Visited /\ Seen' = {} /\ Seen = {}
  BY <1>1 DEF Visited, Seen, InRule
<1>4. LoopInv'
  BY <1>1, <1>3, SameVisited, NothingSeen DEF LoopInv, InLoop
<1>5. RuleInv'
  BY <1>1, SameIsRuleEnabled DEF RuleInv, C!RuleRuns, TypeOK
<1> QED
  BY <1>2, <1>4, <1>5 DEF WalkInv, FilesInv

LEMMA StepRejectProblem ==
  ASSUME NEW p \in batch, LinterInv, RejectProblem(p)
  PROVE  LinterInv'
<1> USE DEF LinterInv, RejectProblem
<1>1. File' = File
  BY DEF File
<1>2. rule \in Rules /\ batch \subseteq q.problems[rule, File]
  BY DEF RuleInv, InRule
<1>3. TypeOK'
  <2>1. C!NoDescriptorMessage(rule) \in C!Messages
    BY <1>2 DEF C!Messages
  <2> QED
    BY <2>1 DEF TypeOK
<1>4. Visited' = Visited /\ Seen' = Seen \cup {p}
  BY <1>1, <1>2 DEF Visited, Seen, InRule
<1>5. LoopInv'
  <2>1. /\ C!Kept(q, rule, Seen') = C!Kept(q, rule, Seen)
        /\ C!Unplaced(rule, Seen') =
             C!Unplaced(rule, Seen) \cup {C!NoDescriptorMessage(rule)}
    BY <1>4, RejectOneMore
  <2>2. Gathered' = Gathered /\ Failures' = Failures
    BY <1>1, <1>4, SameVisited
  <2> QED
    BY <1>1, <2>1, <2>2 DEF LoopInv, InLoop
<1>6. RuleInv'
  BY <1>1 DEF RuleInv, InRule
<1> QED
  BY <1>3, <1>5, <1>6 DEF WalkInv, FilesInv

LEMMA StepEnterWalk ==
  ASSUME NEW p \in batch, LinterInv, EnterWalk(p)
  PROVE  LinterInv'
<1> USE DEF LinterInv, EnterWalk
<1>1. File' = File
  BY DEF File
<1>2. rule \in Rules /\ batch \subseteq q.problems[rule, File]
  BY DEF RuleInv, InRule
<1>3. p \in C!Problem /\ p.desc \in Descriptors /\ p.lines \in C!Lines
  BY DEF TypeOK, C!Problem
<1>4. TypeOK'
  BY <1>2, <1>3 DEF TypeOK
<1>5. Visited' = Visited /\ Seen' = Seen
  BY <1>1, <1>2 DEF Visited, Seen, InRule
<1>6. LoopInv'
  BY <1>1, <1>5, SameVisited DEF LoopInv, InLoop
<1>7. RuleInv'
  BY <1>1 DEF RuleInv, InRule
<1>8. WalkInv'
  BY <1>1, <1>2, <1>3, AboveSelf DEF WalkInv
<1> QED
  BY <1>4, <1>6, <1>7, <1>8 DEF FilesInv

-----------------------------------------------------------------------------

(* What the walk knows at a descriptor.                                    *)
LEMMA WalkFacts ==
  ASSUME LinterInv, pc = "walk"
  PROVE  /\ rule \in Rules /\ prob \in C!Problem /\ prob.desc \in Descriptors
         /\ at \in Descriptors /\ at \in C!Above(prob.desc)
         /\ loc = IF at = prob.desc THEN prob.lines ELSE {}
         /\ DisabledHere <=>
              C!DisabledAt(q, rule, at, IF at = prob.desc THEN prob.lines ELSE {})
<1> USE DEF LinterInv
<1>1. next <= Len(q.files) /\ rule \in Rules
  BY DEF LoopInv, InLoop, RuleInv, InRule
<1>2. prob \in C!Problem
  BY <1>1, FileFacts DEF WalkInv
<1>3. prob.desc \in Descriptors
  BY <1>2 DEF WalkInv, C!Problem
<1>4. at \in C!Above(prob.desc) /\ at \in Descriptors
  BY DEF WalkInv, C!Above
<1>5. loc = IF at = prob.desc THEN prob.lines ELSE {}
  BY <1>4, AboveSelf DEF WalkInv
<1> QED
  BY <1>1, <1>2, <1>3, <1>4, <1>5, DisabledHereIs

(* The end of a walk that has kept or dropped the problem as the contract  *)
(* says.                                                                   *)
LEMMA StepWalkEnds ==
  ASSUME LinterInv, pc = "walk", WalkEnds,
         found' = IF C!Suppressed(q, rule, prob) THEN found
                  ELSE found \cup {[rule |-> rule, problem |-> prob]}
  PROVE  LinterInv'
<1> USE DEF LinterInv, WalkEnds
<1>1. File' = File
  BY DEF File
<1>2. TypeOK'
  <2>1. found' \subseteq [rule : Rules, problem : C!Problem]
    <3>1. [rule |-> rule, problem |-> prob] \in [rule : Rules, problem : C!Problem]
      BY WalkFacts
    <3>2. found \subseteq [rule : Rules, problem : C!Problem]
      BY DEF TypeOK
    <3> QED
      BY <3>1, <3>2
  <2>2. {} \in C!Lines
    BY DEF C!Lines
  <2> QED
    BY <2>1, <2>2 DEF TypeOK
<1>3. Visited' = Visited /\ Seen' = Seen \cup {prob}
  BY <1>1 DEF Visited, Seen, InRule, WalkInv
<1>4. LoopInv'
  <2>1. prob.desc # NoDesc
    BY DEF WalkInv
  <2>2. /\ C!Unplaced(rule, Seen') = C!Unplaced(rule, Seen)
        /\ C!Kept(q, rule, Seen') =
             IF C!Suppressed(q, rule, prob) THEN C!Kept(q, rule, Seen)
             ELSE C!Kept(q, rule, Seen) \cup {[rule |-> rule, problem |-> prob]}
    <3>1. /\ C!Suppressed(q, rule, prob) =>
               C!Kept(q, rule, Seen \cup {prob}) = C!Kept(q, rule, Seen)
          /\ ~ C!Suppressed(q, rule, prob) =>
               C!Kept(q, rule, Seen \cup {prob}) =
                 C!Kept(q, rule, Seen) \cup {[rule |-> rule, problem |-> prob]}
          /\ C!Unplaced(rule, Seen \cup {prob}) = C!Unplaced(rule, Seen)
      BY <2>1, KeptOneMore
    <3> QED
      BY <1>3, <3>1
  <2>3. Gathered' = Gathered /\ Failures' = Failures
    BY <1>1, <1>3, SameVisited
  <2> QED
    BY <1>1, <2>2, <2>3 DEF LoopInv, InLoop
<1>5. RuleInv'
  BY <1>1 DEF RuleInv, InRule
<1> QED
  BY <1>2, <1>4, <1>5 DEF WalkInv, FilesInv

LEMMA StepKeepMust == LinterInv /\ KeepMust => LinterInv'
<1> SUFFICES ASSUME LinterInv, KeepMust PROVE LinterInv'
  OBVIOUS
<1>1. ~ C!Suppressed(q, rule, prob)
  BY DEF KeepMust, C!Suppressed
<1> QED
  BY <1>1, StepWalkEnds DEF KeepMust, Keep

LEMMA StepSuppress == LinterInv /\ Suppress => LinterInv'
<1> SUFFICES ASSUME LinterInv, Suppress PROVE LinterInv'
  OBVIOUS
<1>1. C!Suppressed(q, rule, prob)
  BY WalkFacts DEF Suppress, C!Suppressed
<1> QED
  BY <1>1, StepWalkEnds DEF Suppress

LEMMA StepKeepAtRoot == LinterInv /\ KeepAtRoot => LinterInv'
<1> SUFFICES ASSUME LinterInv, KeepAtRoot PROVE LinterInv'
  OBVIOUS
<1>1. C!Above(at) = {at}
  BY WalkFacts, AboveRoot DEF KeepAtRoot
<1>2. \A a \in C!Above(prob.desc) :
        ~ C!DisabledAt(q, rule, a, IF a = prob.desc THEN prob.lines ELSE {})
  BY <1>1, WalkFacts DEF LinterInv, WalkInv, KeepAtRoot
<1>3. ~ C!Suppressed(q, rule, prob)
  BY <1>2 DEF C!Suppressed
<1> QED
  BY <1>3, StepWalkEnds DEF KeepAtRoot, Keep

LEMMA StepAscend == LinterInv /\ Ascend => LinterInv'
<1> SUFFICES ASSUME LinterInv, Ascend PROVE LinterInv'
  OBVIOUS
<1> USE DEF LinterInv, Ascend
<1>1. File' = File
  BY DEF File
<1>2. /\ Parent[at] \in Descriptors
      /\ C!Above(at) = {at} \cup C!Above(Parent[at])
  BY WalkFacts, AboveParent
<1>3. TypeOK'
  <2>1. {} \in C!Lines
    BY DEF C!Lines
  <2> QED
    BY <1>2, <2>1 DEF TypeOK
<1>4. Visited' = Visited /\ Seen' = Seen
  BY <1>1 DEF Visited, Seen, InRule
<1>5. LoopInv'
  BY <1>1, <1>4, SameVisited DEF LoopInv, InLoop
<1>6. RuleInv'
  BY <1>1 DEF RuleInv, InRule
<1>7. Parent[at] \in C!Above(prob.desc)
  <2>1. at \in C!Above(prob.desc)
    BY WalkFacts
  <2> QED
    BY <1>2, <2>1 DEF C!Above, C!ClosedUpwards
<1>8. prob.desc \notin C!Above(Parent[at])
  BY <1>2, WalkFacts DEF WalkInv
<1>9. \A a \in C!Above(prob.desc) :
        \/ a \in C!Above(Parent[at])
        \/ ~ C!DisabledAt(q, rule, a, IF a = prob.desc THEN prob.lines ELSE {})
  BY <1>2, WalkFacts DEF WalkInv
<1>10. WalkInv'
  BY <1>1, <1>7, <1>8, <1>9 DEF WalkInv
<1> QED
  BY <1>3, <1>5, <1>6, <1>10 DEF FilesInv

-----------------------------------------------------------------------------

LEMMA StepEndRule == LinterInv /\ EndRule => LinterInv'
<1> SUFFICES ASSUME LinterInv, EndRule PROVE LinterInv'
  OBVIOUS
<1> USE DEF LinterInv, EndRule
<1>1. File' = File
  BY DEF File
<1>2. TypeOK'
  BY DEF TypeOK
<1>3. /\ rule \in Rules \ pending /\ C!RuleRuns(q, rule, File)
      /\ <<rule, File>> \notin q.panics
  BY DEF RuleInv, InRule
<1>4. Visited' = Visited \cup {rule} /\ Seen' = {} /\ Seen = q.problems[rule, File]
  BY <1>1, <1>3 DEF Visited, Seen, InRule, TypeOK
<1>5. /\ C!Contribution(q, rule, File) = C!Kept(q, rule, Seen)
      /\ C!Complaint(q, rule, File) = C!Unplaced(rule, Seen)
  BY <1>3, <1>4 DEF C!Contribution, C!Complaint
<1>6. /\ Gathered' = Gathered \cup C!Contribution(q, rule, File)
      /\ Failures' = Failures \cup C!Complaint(q, rule, File)
  BY <1>1, <1>4, VisitOneMore
<1>7. C!Kept(q, rule', {}) = {} /\ C!Unplaced(rule', {}) = {}
  BY NothingSeen
<1>8. LoopInv'
  BY <1>1, <1>4, <1>5, <1>6, <1>7 DEF LoopInv, InLoop
<1> QED
  BY <1>2, <1>8 DEF WalkInv, RuleInv, FilesInv, InRule

(* When the file's loop has visited every entry of the registry, it has    *)
(* collected what the contract reports.                                    *)
LEMMA LoopDone ==
  ASSUME LinterInv, pc = "rules", pending = {}
  PROVE  found = C!Reported(q, File) /\ messages = C!Complaints(q, File)
<1>1. Visited = Rules /\ Seen = {}
  BY DEF Visited, Seen, InRule
<1>2. C!Kept(q, rule, {}) = {} /\ C!Unplaced(rule, {}) = {}
  BY NothingSeen
<1> QED
  BY <1>1, <1>2
  DEF LinterInv, LoopInv, InLoop, Gathered, Failures, C!Reported, C!Complaints

LEMMA StepEndFile == LinterInv /\ EndFile => LinterInv'
<1> SUFFICES ASSUME LinterInv, EndFile PROVE LinterInv'
  OBVIOUS
<1> USE DEF LinterInv, EndFile
<1>1. /\ next <= Len(q.files) /\ Len(q.files) \in Nat
      /\ next \in 1..Len(q.files) /\ File \in C!Files
  BY FileFacts DEF LoopInv, InLoop
<1>2. found = C!Reported(q, File) /\ C!Complaints(q, File) = {}
  BY LoopDone
<1>3. TypeOK'
  <2>1. [file |-> File, problems |-> found] \in
          [file : C!Files, problems : SUBSET [rule : Rules, problem : C!Problem]]
    BY <1>1 DEF TypeOK
  <2>2. responses' \in Seq([file : C!Files,
                            problems : SUBSET [rule : Rules, problem : C!Problem]])
    BY <2>1 DEF TypeOK
  <2>3. next' \in 1..(Len(q.files) + 1)
    BY <1>1
  <2> QED
    BY <2>2, <2>3 DEF TypeOK
<1>4. C!Clean(q, next)
  <2>1. C!Clean(q, next - 1) /\ C!Complaints(q, q.files[next]) = {}
    BY <1>2 DEF FilesInv, File
  <2>2. \A k \in 1..next : k \in 1..(next - 1) \/ k = next
    BY <1>1
  <2> QED
    BY <2>1, <2>2 DEF C!Clean
<1>5. responses' = [k \in 1..next |-> C!Response(q, q.files[k])]
  <2>1. responses = [k \in 1..(next - 1) |-> C!Response(q, q.files[k])]
    BY DEF FilesInv
  <2>2. Len(responses) = next - 1
    BY <1>1, <2>1
  <2>3. [file |-> File, problems |-> found] = C!Response(q, q.files[next])
    BY <1>2 DEF C!Response, File
  <2>4. responses' = [k \in 1..((next - 1) + 1) |->
                        IF k = (next - 1) + 1 THEN C!Response(q, q.files[next])
                        ELSE responses[k]]
    BY <1>1, <2>2, <2>3
  <2>5. \A k \in 1..next :
          (IF k = (next - 1) + 1 THEN C!Response(q, q.files[next]) ELSE responses[k])
            = C!Response(q, q.files[k])
    BY <1>1, <2>1
  <2>6. (next - 1) + 1 = next
    BY <1>1
  <2> QED
    BY <2>4, <2>5, <2>6
<1>6. next' - 1 = next
  BY <1>1
<1>7. FilesInv'
  BY <1>4, <1>5, <1>6 DEF FilesInv
<1> QED
  BY <1>3, <1>7 DEF WalkInv, RuleInv, LoopInv, InLoop, InRule

LEMMA StepFailFile == LinterInv /\ FailFile => LinterInv'
<1> SUFFICES ASSUME LinterInv, FailFile PROVE LinterInv'
  OBVIOUS
<1> USE DEF LinterInv, FailFile
<1>1. File' = File
  BY DEF File
<1>2. TypeOK'
  <2>1. <<>> \in Seq([file : C!Files,
                      problems : SUBSET [rule : Rules, problem : C!Problem]])
    OBVIOUS
  <2> QED
    BY <2>1 DEF TypeOK
<1>3. FilesInv'
  BY <1>1, LoopDone DEF FilesInv, LoopInv, InLoop
<1> QED
  BY <1>2, <1>3 DEF WalkInv, RuleInv, LoopInv, InLoop, InRule

LEMMA StepEndFiles == LinterInv /\ EndFiles => LinterInv'
<1> SUFFICES ASSUME LinterInv, EndFiles PROVE LinterInv'
  OBVIOUS
<1> USE DEF LinterInv, EndFiles
<1>1. TypeOK'
  BY DEF TypeOK
<1>2. next = Len(q.files) + 1
  <2>1. q \in C!Request
    BY DEF TypeOK
  <2>2. q.files \in Seq(C!Files)
    BY <2>1 DEF C!Request
  <2>3. Len(q.files) \in Nat
    BY <2>2
  <2>4. next \in 1..(Len(q.files) + 1)
    BY DEF TypeOK
  <2> QED
    BY <2>3, <2>4
<1> QED
  BY <1>1, <1>2 DEF WalkInv, RuleInv, LoopInv, FilesInv, InLoop, InRule

LEMMA StepReturned == LinterInv /\ (Returned \/ UNCHANGED vars) => LinterInv'
<1> SUFFICES ASSUME LinterInv, UNCHANGED vars PROVE LinterInv'
  BY DEF Returned
<1> USE DEF LinterInv, vars
<1>1. File' = File /\ InRule' = InRule /\ InLoop' = InLoop
  BY DEF File, InRule, InLoop
<1>2. TypeOK'
  BY DEF TypeOK
<1>3. WalkInv'
  BY <1>1 DEF WalkInv
<1>4. RuleInv'
  BY <1>1 DEF RuleInv
<1>5. LoopInv'
  <2>1. Visited' = Visited /\ Seen' = Seen
    BY <1>1 DEF Visited, Seen
  <2> QED
    BY <1>1, <2>1, SameVisited DEF LoopInv
<1>6. FilesInv'
  BY <1>1 DEF FilesInv
<1> QED
  BY <1>2, <1>3, <1>4, <1>5, <1>6

LEMMA StepLinter == LinterInv /\ [Next]_vars => LinterInv'
BY StepStartFile, StepSkipRule, StepRulePanics, StepRunRule, StepRejectProblem,
   StepEnterWalk, StepKeepMust, StepSuppress, StepAscend, StepKeepAtRoot,
   StepEndRule, StepEndFile, StepFailFile, StepEndFiles, StepReturned
DEF Next, Walk

(* The inductive invariant, for every registry, descriptor tree, list of   *)
(* files, configs and outcome of the rules.                                *)
THEOREM LinterCorrect == Spec => []LinterInv
<1> QED
  BY InitLinter, StepLinter, PTL DEF Spec

-----------------------------------------------------------------------------

(* The variables keep their types.                                         *)
THEOREM LinterTypeCorrect == Spec => []TypeOK
<1>1. LinterInv => TypeOK
  BY DEF LinterInv
<1> QED
  BY <1>1, LinterCorrect, PTL

(* At the end of a file's loop every rule has had its turn, also after a   *)
(* panic of another (lintFileDescriptor, lint/lint.go).                    *)
THEOREM EveryRuleVisited == Spec => []FileVisitedInFull
<1>1. LinterInv => FileVisitedInFull
  BY LoopDone DEF FileVisitedInFull
<1> QED
  BY <1>1, LinterCorrect, PTL

(* The responses of a call that ended well.                                *)
LEMMA DoneFacts ==
  ASSUME LinterInv, pc = "done"
  PROVE  /\ q \in C!Request /\ Len(q.files) \in Nat
         /\ responses = [k \in 1..Len(q.files) |-> C!Response(q, q.files[k])]
         /\ C!Clean(q, Len(q.files))
<1>1. q \in C!Request
  BY DEF LinterInv, TypeOK
<1>2. q.files \in Seq(C!Files)
  BY <1>1 DEF C!Request
<1>3. Len(q.files) \in Nat /\ next - 1 = Len(q.files)
  BY <1>2 DEF LinterInv, FilesInv
<1> QED
  BY <1>1, <1>3 DEF LinterInv, FilesInv

(* A response per file and no failed rule, or an error and no response     *)
(* (LintProtos, lint/lint.go).                                             *)
THEOREM AllOrNothingHolds == Spec => []AllOrNothing
<1>1. LinterInv => AllOrNothing
  <2> SUFFICES ASSUME LinterInv PROVE AllOrNothing
    OBVIOUS
  <2>1. CASE pc = "done"
    <3>1. Len(responses) = Len(q.files)
      BY <2>1, DoneFacts
    <3>2. ASSUME NEW n \in 1..Len(q.files)
          PROVE  /\ responses[n].file = q.files[n]
                 /\ C!Complaints(q, q.files[n]) = {}
      <4>1. responses[n] = C!Response(q, q.files[n])
        BY <2>1, DoneFacts
      <4> QED
        BY <2>1, <4>1, DoneFacts DEF C!Clean, C!Response
    <3> QED
      BY <2>1, <3>1, <3>2 DEF AllOrNothing
  <2>2. CASE pc = "failed"
    BY <2>2 DEF LinterInv, FilesInv, AllOrNothing
  <2> QED
    BY <2>1, <2>2 DEF AllOrNothing
<1> QED
  BY <1>1, LinterCorrect, PTL

(* Comments and deprecation never hide a problem of a Must rule            *)
(* (ruleIsEnabled, lint/rule_enabled.go).                                  *)
THEOREM MustReported == Spec => []MustProblemsReported
<1>1. LinterInv => MustProblemsReported
  <2> SUFFICES ASSUME LinterInv, pc = "done",
                      NEW n \in 1..Len(q.files), NEW r \in MustRules,
                      IsRuleEnabled(q.configs, r, q.files[n]),
                      NEW p \in q.problems[r, q.files[n]]
               PROVE  [rule |-> r, problem |-> p] \in responses[n].problems
    BY DEF MustProblemsReported
  <2> DEFINE f == q.files[n]
  <2>1. r \in Rules /\ C!RuleRuns(q, r, f)
    BY SameIsRuleEnabled DEF C!RuleRuns
  <2>2. C!Complaint(q, r, f) = {}
    <3>1. C!Clean(q, Len(q.files))
      BY DoneFacts
    <3>2. C!Complaints(q, f) = {}
      BY <3>1 DEF C!Clean
    <3> QED
      BY <2>1, <3>2 DEF C!Complaints
  <2>3. <<r, f>> \notin q.panics /\ p.desc # NoDesc
    BY <2>1, <2>2 DEF C!Complaint, C!Unplaced
  <2>4. [rule |-> r, problem |-> p] \in C!Contribution(q, r, f)
    BY <2>1, <2>3 DEF C!Contribution, C!Kept, C!Suppressed
  <2>5. responses[n].problems = C!Reported(q, f)
    <3>1. responses[n] = C!Response(q, f)
      BY DoneFacts
    <3>2. C!Response(q, f).problems = C!Reported(q, f)
      <4> HIDE DEF f
      <4> QED
        BY DEF C!Response
    <3> QED
      BY <3>1, <3>2
  <2> QED
    BY <2>1, <2>4, <2>5 DEF C!Reported
<1> QED
  BY <1>1, LinterCorrect, PTL

-----------------------------------------------------------------------------

(* Every step of the linter is a step of the contract or changes nothing   *)
(* the caller can see: the answer is the contract's in every order of the  *)
(* rules.                                                                  *)
LEMMA AnswerStep == LinterInv /\ [Next]_vars => [C!Next]_<<q, Answer>>
<1> SUFFICES ASSUME LinterInv, [Next]_vars
             PROVE  C!Next \/ UNCHANGED <<q, Answer>>
  OBVIOUS
<1>1. CASE EndFiles
  <2>1. LinterInv' /\ pc' = "done" /\ q' = q /\ pc = "files"
    BY <1>1, StepEndFiles DEF EndFiles
  <2>2. q \in C!Request /\ Len(q.files) \in Nat
    <3>1. q \in C!Request
      BY DEF LinterInv, TypeOK
    <3>2. q.files \in Seq(C!Files)
      BY <3>1 DEF C!Request
    <3> QED
      BY <3>1, <3>2
  <2>3. next' - 1 = Len(q.files)
    BY <2>1, <2>2 DEF LinterInv, FilesInv
  <2>4. /\ C!Clean(q, Len(q.files))
        /\ responses' = [k \in 1..Len(q.files) |-> C!Response(q, q.files[k])]
    BY <2>1, <2>3 DEF LinterInv, FilesInv
  <2>5. Answer' = C!Results([k \in 1..Len(q.files) |-> C!Response(q, q.files[k])])
    BY <2>1, <2>4 DEF Answer, C!Results
  <2>6. C!IsAnswer(q, Answer')
    BY <2>4, <2>5 DEF C!IsAnswer
  <2>7. Answer = C!NoAnswer
    BY <2>1 DEF Answer, C!NoAnswer
  <2> QED
    BY <2>1, <2>6, <2>7 DEF C!Next, C!LintProtos
<1>2. CASE FailFile
  <2>1. /\ LinterInv /\ pc' = "failed" /\ q' = q /\ pc = "rules"
        /\ messages' = messages /\ messages # {} /\ pending = {}
    BY <1>2 DEF FailFile
  <2>2. messages = C!Complaints(q, File)
    BY <2>1, LoopDone
  <2>3. next \in 1..Len(q.files) /\ C!Clean(q, next - 1)
    BY <2>1, FileFacts DEF LinterInv, LoopInv, InLoop, FilesInv
  <2>4. Answer' = C!Failure(C!Complaints(q, q.files[next]))
    BY <2>1, <2>2 DEF Answer, C!Failure, File
  <2>5. C!IsAnswer(q, Answer')
    BY <2>1, <2>2, <2>3, <2>4 DEF C!IsAnswer, File
  <2>6. Answer = C!NoAnswer
    BY <2>1 DEF Answer, C!NoAnswer
  <2> QED
    BY <2>1, <2>5, <2>6 DEF C!Next, C!LintProtos
<1>3. CASE Returned \/ UNCHANGED vars
  BY <1>3 DEF Returned, vars, Answer
<1>4. ASSUME q' = q, pc \notin {"done", "failed"}, pc' \notin {"done", "failed"}
      PROVE  UNCHANGED <<q, Answer>>
  BY <1>4 DEF Answer
<1>5. CASE StartFile \/ EndFile \/ EndRule \/ Walk
  BY <1>4, <1>5
  DEF StartFile, EndFile, EndRule, Walk, KeepMust, Suppress, Ascend, KeepAtRoot, WalkEnds
<1>6. CASE \E r \in Rules : SkipRule(r) \/ RulePanics(r) \/ RunRule(r)
  BY <1>4, <1>6 DEF SkipRule, RulePanics, RunRule
<1>7. CASE \E p \in batch : RejectProblem(p) \/ EnterWalk(p)
  BY <1>4, <1>7 DEF RejectProblem, EnterWalk
<1> QED
  BY <1>1, <1>2, <1>3, <1>5, <1>6, <1>7 DEF Next

(* LintProtos implements its contract.                                     *)
THEOREM LinterImplementsContract == Spec => ImplementsContract
<1>1. Init => C!Init
  BY DEF Init, C!Init, Answer, C!NoAnswer
<1>2. LinterInv /\ [Next]_vars => [C!Next]_<<q, Answer>>
  BY AnswerStep
<1> QED
  BY <1>1, <1>2, LinterCorrect, PTL DEF Spec, ImplementsContract, C!Spec

(* To honour comments is only to hide problems: what is reported then is   *)
(* reported with --ignore-comment-disables too (ruleIsEnabled).            *)
THEOREM CommentsHide == Spec => []CommentsOnlyHide
<1>1. LinterInv => CommentsOnlyHide
  <2> SUFFICES ASSUME LinterInv, pc = "done", NEW n \in 1..Len(q.files)
               PROVE  responses[n].problems \subseteq
                        C!Reported([q EXCEPT !.ignoreCommentDisables = TRUE], q.files[n])
    BY DEF CommentsOnlyHide
  <2> DEFINE f == q.files[n]
             all == [q EXCEPT !.ignoreCommentDisables = TRUE]
  <2>1. q \in C!Request
    BY DEF LinterInv, TypeOK
  <2>2. /\ all.configs = q.configs /\ all.panics = q.panics /\ all.problems = q.problems
        /\ all.deprecated = q.deprecated /\ all.ignoreCommentDisables
    BY <2>1 DEF C!Request
  <2>3. responses[n].problems = C!Reported(q, f)
    <3>1. responses[n] = C!Response(q, f)
      BY DoneFacts
    <3>2. C!Response(q, f).problems = C!Reported(q, f)
      <4> HIDE DEF f
      <4> QED
        BY DEF C!Response
    <3> QED
      BY <3>1, <3>2
  <2> HIDE DEF f, all
  <2>4. ASSUME NEW r, NEW p, C!Suppressed(all, r, p) PROVE C!Suppressed(q, r, p)
    BY <2>2, <2>4 DEF C!Suppressed, C!DisabledAt, C!DisableDeprecated
  <2>5. ASSUME NEW r \in Rules PROVE C!Contribution(q, r, f) \subseteq C!Contribution(all, r, f)
    <3>1. C!Kept(q, r, q.problems[r, f]) \subseteq C!Kept(all, r, all.problems[r, f])
      BY <2>2, <2>4 DEF C!Kept
    <3> QED
      BY <2>2, <3>1 DEF C!Contribution, C!RuleRuns
  <2>6. C!Reported(q, f) \subseteq C!Reported(all, f)
    BY <2>5 DEF C!Reported
  <2> QED
    BY <2>3, <2>6 DEF f, all
<1> QED
  BY <1>1, LinterCorrect, PTL

-----------------------------------------------------------------------------
(***************************************************************************)
(* LintProtos comes to an end: each step leaves less to do, in the order   *)
(* of dictionaries.                                                        *)
(***************************************************************************)

(* What is left: files; rules on this file; problems of this rule; and the *)
(* descriptors that the walk has not passed.                               *)
Left ==
  <<IF pc \in {"done", "failed"} THEN 0 ELSE Len(q.files) + 2 - next,
    IF InLoop THEN Cardinality(pending) ELSE Cardinality(Rules) + 1,
    IF InRule THEN Cardinality(batch) + 1 ELSE 0,
    IF pc = "walk" THEN Cardinality(C!Above(at)) ELSE 0>>

Less == LexProductOrdering(OpToRel(<, Nat), Nat, 4)

Closer == <<Left', Left>> \in Less

(* A rule finds finitely many problems in a file.                          *)
FewProblems == \A r \in Rules, f \in C!Files : IsFiniteSet(q.problems[r, f])

(* No endless sequence gets less and less.                                 *)
LEMMA LessComesToAnEnd == IsWellFoundedOn(Less, [1..4 -> Nat])
BY NatLessThanWellFounded, WFLexProductOrdering DEF Less

LEMMA Fours ==
  ASSUME NEW a \in Nat, NEW b \in Nat, NEW c \in Nat, NEW d \in Nat
  PROVE  <<a, b, c, d>> \in [1..4 -> Nat]
<1>1. <<a, b, c, d>> \in Seq(Nat) /\ Len(<<a, b, c, d>>) = 4
  OBVIOUS
<1>2. <<a, b, c, d>> \in [1..Len(<<a, b, c, d>>) -> Nat]
  BY <1>1, LenProperties
<1> QED
  BY <1>1, <1>2

LEMMA LessAt ==
  ASSUME NEW a \in Nat, NEW b \in Nat, NEW c \in Nat, NEW d \in Nat,
         NEW e \in Nat, NEW f \in Nat, NEW g \in Nat, NEW h \in Nat,
         \/ e < a
         \/ e = a /\ f < b
         \/ e = a /\ f = b /\ g < c
         \/ e = a /\ f = b /\ g = c /\ h < d
  PROVE  <<<<e, f, g, h>>, <<a, b, c, d>>>> \in Less
<1> DEFINE k == <<e, f, g, h>>
           l == <<a, b, c, d>>
<1>1. k \in [1..4 -> Nat] /\ l \in [1..4 -> Nat]
  BY Fours
<1>2. k[1] = e /\ k[2] = f /\ k[3] = g /\ k[4] = h
  OBVIOUS
<1>3. l[1] = a /\ l[2] = b /\ l[3] = c /\ l[4] = d
  OBVIOUS
<1> HIDE DEF k, l
<1>4. SUFFICES \E j \in 1..4 : (\A i \in 1..(j - 1) : k[i] = l[i]) /\ k[j] < l[j]
  <2>1. \A j \in 1..4 : k[j] < l[j] => <<k[j], l[j]>> \in OpToRel(<, Nat)
    BY <1>1 DEF OpToRel
  <2>2. ASSUME NEW j \in 1..4, \A i \in 1..(j - 1) : k[i] = l[i], k[j] < l[j]
        PROVE  <<k, l>> \in Less
    BY <1>1, <2>1, <2>2 DEF Less, LexProductOrdering
  <2> QED
    BY <1>4, <2>2 DEF k, l
<1>5. CASE e < a
  <2>1. \A i \in 1..(1 - 1) : k[i] = l[i]
    OBVIOUS
  <2> QED
    BY <1>2, <1>3, <1>5, <2>1
<1>6. CASE e = a /\ f < b
  <2>1. \A i \in 1..(2 - 1) : k[i] = l[i]
    BY <1>2, <1>3, <1>6
  <2> QED
    BY <1>2, <1>3, <1>6, <2>1
<1>7. CASE e = a /\ f = b /\ g < c
  <2>1. \A i \in 1..(3 - 1) : k[i] = l[i]
    <3>1. \A i \in 1..(3 - 1) : i = 1 \/ i = 2
      OBVIOUS
    <3> QED
      BY <1>2, <1>3, <1>7, <3>1
  <2> QED
    BY <1>2, <1>3, <1>7, <2>1
<1>8. CASE e = a /\ f = b /\ g = c /\ h < d
  <2>1. \A i \in 1..(4 - 1) : k[i] = l[i]
    <3>1. \A i \in 1..(4 - 1) : i = 1 \/ i = 2 \/ i = 3
      OBVIOUS
    <3> QED
      BY <1>2, <1>3, <1>8, <3>1
  <2> QED
    BY <1>2, <1>3, <1>8, <2>1
<1> QED
  BY <1>5, <1>6, <1>7, <1>8

(* What Left counts is finite.                                             *)
Countable ==
  /\ Len(q.files) \in Nat /\ next \in 1..(Len(q.files) + 1)
  /\ Len(q.files) + 2 - next \in Nat \ {0}
  /\ IsFiniteSet(pending) /\ Cardinality(pending) \in Nat
  /\ Cardinality(Rules) \in Nat
  /\ InRule => IsFiniteSet(batch) /\ Cardinality(batch) \in Nat
  /\ pc = "walk" =>
       IsFiniteSet(C!Above(at)) /\ Cardinality(C!Above(at)) \in Nat \ {0}

LEMMA LeftIsCountable ==
  ASSUME IsFiniteSet(Rules), IsFiniteSet(Descriptors), FewProblems, LinterInv
  PROVE  Countable
<1> USE DEF LinterInv
<1>1. Len(q.files) \in Nat /\ next \in 1..(Len(q.files) + 1)
  <2>1. q.files \in Seq(C!Files)
    BY DEF TypeOK, C!Request
  <2>2. Len(q.files) \in Nat
    BY <2>1
  <2>3. next \in 1..(Len(q.files) + 1)
    BY DEF TypeOK
  <2> QED
    BY <2>2, <2>3
<1>2. Len(q.files) + 2 - next \in Nat \ {0}
  BY <1>1
<1>3. IsFiniteSet(pending) /\ Cardinality(pending) \in Nat /\ Cardinality(Rules) \in Nat
  BY FS_Subset, FS_CardinalityType DEF TypeOK
<1>4. ASSUME InRule PROVE IsFiniteSet(batch) /\ Cardinality(batch) \in Nat
  <2>1. rule \in Rules /\ batch \in SUBSET q.problems[rule, File]
    BY <1>4 DEF RuleInv
  <2>2. File \in C!Files
    BY <1>4, FileFacts DEF LoopInv, InLoop, InRule
  <2>3. IsFiniteSet(q.problems[rule, File])
    BY <2>1, <2>2, Zenon DEF FewProblems
  <2> QED
    BY <2>1, <2>3, FS_Subset, FS_CardinalityType
<1>5. ASSUME pc = "walk"
      PROVE  IsFiniteSet(C!Above(at)) /\ Cardinality(C!Above(at)) \in Nat \ {0}
  <2>1. C!Above(at) \in SUBSET Descriptors /\ at \in C!Above(at)
    BY <1>5, WalkFacts, AboveSelf DEF C!Above
  <2>2. IsFiniteSet(C!Above(at)) /\ Cardinality(C!Above(at)) \in Nat
    BY <2>1, FS_Subset, FS_CardinalityType
  <2>3. Cardinality(C!Above(at)) # 0
    BY <2>1, <2>2, FS_EmptySet
  <2> QED
    BY <2>2, <2>3
<1> QED
  BY <1>1, <1>2, <1>3, <1>4, <1>5 DEF Countable

LEMMA OneLess ==
  ASSUME NEW S, NEW x \in S, IsFiniteSet(S)
  PROVE  Cardinality(S \ {x}) \in Nat /\ Cardinality(S \ {x}) < Cardinality(S)
<1>1. Cardinality(S) \in Nat /\ Cardinality(S \ {x}) \in Nat
  BY FS_RemoveElement, FS_CardinalityType
<1>2. Cardinality(S \ {x}) = Cardinality(S) - 1
  BY FS_RemoveElement
<1> QED
  BY <1>1, <1>2

(* One case for each loop of which the step is.                            *)
LEMMA StepComesCloser ==
  ASSUME LinterInv, Countable, Countable', Next, ~ UNCHANGED vars
  PROVE  Closer
<1> DEFINE files == IF pc \in {"done", "failed"} THEN 0 ELSE Len(q.files) + 2 - next
           rules == IF InLoop THEN Cardinality(pending) ELSE Cardinality(Rules) + 1
           probs == IF InRule THEN Cardinality(batch) + 1 ELSE 0
           descs == IF pc = "walk" THEN Cardinality(C!Above(at)) ELSE 0
<1>1. /\ files \in Nat /\ rules \in Nat /\ probs \in Nat /\ descs \in Nat
      /\ (files \in Nat /\ rules \in Nat /\ probs \in Nat /\ descs \in Nat)'
  BY DEF Countable
<1>2. SUFFICES \/ files' < files
               \/ files' = files /\ rules' < rules
               \/ files' = files /\ rules' = rules /\ probs' < probs
               \/ files' = files /\ rules' = rules /\ probs' = probs /\ descs' < descs
  <2>1. Left = <<files, rules, probs, descs>> /\ Left' = <<files', rules', probs', descs'>>
    BY DEF Left
  <2> HIDE DEF files, rules, probs, descs
  <2> QED
    BY <1>1, <1>2, <2>1, LessAt DEF Closer
<1>3. CASE EndFile \/ FailFile \/ EndFiles
  BY <1>3 DEF EndFile, FailFile, EndFiles, Countable
<1>4. CASE StartFile
  BY <1>4 DEF StartFile, Countable, InLoop
<1>5. CASE \E r \in Rules : SkipRule(r) \/ RulePanics(r) \/ RunRule(r)
  <2>1. PICK r \in pending :
          /\ pending' = pending \ {r} /\ q' = q /\ next' = next
          /\ pc = "rules" /\ pc' \in {"rules", "filter"}
    BY <1>5 DEF SkipRule, RulePanics, RunRule
  <2>2. Cardinality(pending') < Cardinality(pending)
    BY <2>1, OneLess DEF Countable
  <2> QED
    BY <2>1, <2>2 DEF InLoop
<1>6. CASE \E p \in batch : RejectProblem(p) \/ EnterWalk(p)
  <2>1. PICK p \in batch :
          /\ batch' = batch \ {p} /\ q' = q /\ next' = next /\ pending' = pending
          /\ pc = "filter" /\ pc' \in {"filter", "walk"}
    BY <1>6 DEF RejectProblem, EnterWalk
  <2>2. Cardinality(batch') < Cardinality(batch) /\ Cardinality(batch') \in Nat /\ Cardinality(batch) \in Nat
    BY <2>1, OneLess DEF Countable, InRule
  <2> QED
    BY <2>1, <2>2 DEF InLoop, InRule
<1>7. CASE KeepMust \/ Suppress \/ KeepAtRoot
  <2>1. /\ pc = "walk" /\ pc' = "filter"
        /\ q' = q /\ next' = next /\ pending' = pending /\ batch' = batch
    BY <1>7 DEF KeepMust, Suppress, KeepAtRoot, WalkEnds
  <2>2. descs = Cardinality(C!Above(at)) /\ descs' = 0
    BY <2>1
  <2>3. descs' < descs
    BY <2>1, <2>2 DEF Countable
  <2> QED
    BY <2>1, <2>3 DEF InLoop, InRule
<1>8. CASE Ascend
  <2>1. /\ pc = "walk" /\ pc' = "walk" /\ at \in Descriptors
        /\ Parent[at] # NoDesc /\ at' = Parent[at]
        /\ q' = q /\ next' = next /\ pending' = pending /\ batch' = batch
    BY <1>8, WalkFacts DEF Ascend
  <2>2. C!Above(at') = C!Above(at) \ {at} /\ at \in C!Above(at)
    BY <2>1, AboveParent, AboveSelf
  <2>3. Cardinality(C!Above(at')) < Cardinality(C!Above(at))
    BY <2>1, <2>2, OneLess DEF Countable
  <2>4. descs' = Cardinality(C!Above(at')) /\ descs = Cardinality(C!Above(at))
    BY <2>1
  <2> QED
    BY <2>1, <2>3, <2>4 DEF InLoop, InRule
<1>9. CASE EndRule
  BY <1>9 DEF EndRule, Countable, InLoop, InRule
<1> QED
  BY <1>3, <1>4, <1>5, <1>6, <1>7, <1>8, <1>9 DEF Next, Walk, Returned

(* Every step of LintProtos leaves less to do, in an order in which        *)
(* nothing gets less for ever: whatever the files, rules, comments and     *)
(* panics, it comes to an answer (lint/lint.go, lint/rule_enabled.go; the  *)
(* run has Returns).                                                       *)
THEOREM LintProtosComesCloser ==
  ASSUME IsFiniteSet(Rules), IsFiniteSet(Descriptors)
  PROVE  /\ IsWellFoundedOn(Less, [1..4 -> Nat])
         /\ Spec /\ FewProblems => [][Closer]_vars
<1>1. FewProblems /\ [Next]_vars => FewProblems'
  <2>1. [Next]_vars => q' = q
    BY DEF Next, StartFile, EndFile, FailFile, EndFiles, SkipRule, RulePanics, RunRule,
           RejectProblem, EnterWalk, Walk, KeepMust, Suppress, Ascend, KeepAtRoot, WalkEnds,
           EndRule, Returned, vars
  <2> QED
    BY <2>1 DEF FewProblems
<1>2. FewProblems /\ LinterInv => Countable
  BY LeftIsCountable
<1>3. LinterInv /\ Countable /\ Countable' /\ [Next]_vars => [Closer]_vars
  BY StepComesCloser
<1>4. Spec /\ FewProblems => [][Closer]_vars
  BY <1>1, <1>2, <1>3, InitLinter, StepLinter, PTL DEF Spec
<1> QED
  BY <1>4, LessComesToAnEnd

-----------------------------------------------------------------------------

(* Of the positions with property S there is a first.                      *)
LEMMA FirstOf ==
  ASSUME NEW S \in SUBSET Nat, S # {}
  PROVE  \E x \in S : \A y \in S : x <= y
<1>1. PICK x \in S : \A y \in S : <<y, x>> \notin OpToRel(<, Nat)
  BY NatLessThanWellFounded, WFMin
<1>2. \A y \in Nat : y < x <=> <<y, x>> \in OpToRel(<, Nat)
  BY DEF OpToRel
<1>3. \A y \in S : ~ (y < x)
  BY <1>1, <1>2
<1> QED
  BY <1>3

(* The contract leaves no choice: for a call of LintProtos it allows       *)
(* exactly one answer.  An answer here is the problems of each file, or    *)
(* the messages of the first file with any, as sets; their order in the    *)
(* report and in the error is that in which Go goes through the registry   *)
(* (lint/lint.go).                                                         *)
THEOREM OneAnswer ==
  ASSUME NEW request \in C!Request
  PROVE  \E a : C!IsAnswer(request, a) /\ \A b : C!IsAnswer(request, b) => b = a
<1> DEFINE n == Len(request.files)
           bad == {k \in 1..n : C!Complaints(request, request.files[k]) # {}}
<1>1. n \in Nat /\ bad \in SUBSET Nat /\ \A k \in 1..n : k - 1 \in Nat
  <2>1. request.files \in Seq(C!Files)
    BY DEF C!Request
  <2>2. n \in Nat
    BY <2>1
  <2> QED
    BY <2>2
<1>2. CASE bad = {}
  <2>1. \A k \in 1..n : C!Complaints(request, request.files[k]) = {}
    BY <1>2
  <2> QED
    BY <2>1 DEF C!IsAnswer, C!Clean
<1>3. CASE bad # {}
  <2>1. PICK k \in bad : \A l \in bad : k <= l
    <3> HIDE DEF bad
    <3> QED
      BY <1>1, <1>3, FirstOf
  <2>2. k \in 1..n /\ C!Complaints(request, request.files[k]) # {}
    OBVIOUS
  <2>3. \A l \in 1..(k - 1) : C!Complaints(request, request.files[l]) = {}
    <3>1. ASSUME NEW l \in 1..(k - 1) PROVE l \in 1..n /\ ~ (k <= l)
      <4> HIDE DEF n
      <4> QED
        BY <1>1, <2>2
    <3> QED
      BY <2>1, <3>1
  <2>4. ~ C!Clean(request, n)
    BY <2>2 DEF C!Clean
  <2>5. ASSUME NEW l \in 1..n, C!Clean(request, l - 1),
               C!Complaints(request, request.files[l]) # {}
        PROVE  l = k
    <3>1. k <= l
      BY <2>1, <2>5
    <3>2. k \notin 1..(l - 1)
      BY <2>2, <2>5 DEF C!Clean
    <3> HIDE DEF n
    <3> QED
      BY <1>1, <2>2, <3>1, <3>2
  <2>6. C!IsAnswer(request, C!Failure(C!Complaints(request, request.files[k])))
    BY <2>2, <2>3 DEF C!IsAnswer, C!Clean
  <2> QED
    BY <2>4, <2>5, <2>6 DEF C!IsAnswer
<1> QED
  BY <1>2, <1>3

=============================================================================
