---------------------------- MODULE LintContract ----------------------------
(***************************************************************************)
(* What Linter.LintProtos promises (lint/lint.go), as one step from a      *)
(* request to its answer.  It says which problems a response holds and     *)
(* which messages an error has, in no order: the program lists both in the *)
(* order in which Go goes through the registry, which differs from run to  *)
(* run.  It says which problems comments and deprecation hide in terms of  *)
(* the descriptors above a problem, with no traversal.                     *)
(***************************************************************************)
EXTENDS RuleConfig

CONSTANTS
  Rules,          \* the names of the registered rules
  MustRules,      \* the rules of type MustRule
  Alias,          \* aliasMap: rule name -> legacy name
  Descriptors, NoDesc,
  Parent,         \* Descriptor.GetParent, NoDesc for a file
  Patterns, Globs, ProblemIds,
  Requests        \* the calls considered

Files == {d \in Descriptors : Parent[d] = NoDesc}

Lines == SUBSET CommentLines(Patterns)

(* A problem a rule returns.  "lines" are the leading comments of its      *)
(* Location, none when that is nil.                                        *)
Problem == [id : ProblemIds, desc : Descriptors \cup {NoDesc}, lines : Lines]

(* A call of LintProtos: the files, the linter's configs and options, what *)
(* the files say, and what each rule would do on each file.  "lines" are a *)
(* descriptor's leading comments, for a file its header.                   *)
Request ==
  [files : Seq(Files), configs : Configs(Globs, Patterns),
   ignoreCommentDisables : BOOLEAN,
   deprecated : SUBSET Descriptors, lines : [Descriptors -> Lines],
   panics : SUBSET (Rules \X Files),
   problems : [Rules \X Files -> SUBSET Problem]]

-----------------------------------------------------------------------------

(* The descriptor and the ones it is declared in, up to the file: the      *)
(* least set that holds d and is closed under Parent.                      *)
ClosedUpwards(S) == \A d \in S : Parent[d] # NoDesc => Parent[d] \in S

Above(d) ==
  {a \in Descriptors :
     \A S \in SUBSET Descriptors : (d \in S /\ ClosedUpwards(S)) => a \in S}

ContractAssumption ==
  /\ MustRules \subseteq Rules
  /\ NoDesc \notin Descriptors
  /\ Parent \in [Descriptors -> Descriptors \cup {NoDesc}]
  /\ \A d \in Descriptors : Parent[d] # NoDesc => d \notin Above(Parent[d])
  /\ Requests \subseteq Request

-----------------------------------------------------------------------------

AliasOf(r) == IF r \in DOMAIN Alias THEN Alias[r] ELSE EmptyName

RuleIsDisabledByComments(q, r, d, lines) ==
  \E name \in {r, AliasOf(r)} :
    MatchRule(name, ExtractDisabledRules(lines \cup q.lines[d]))

DisableDeprecated(q, d) == d \in q.deprecated

(* The descriptor itself turns the rule off: it is deprecated, or its      *)
(* comments name the rule.                                                 *)
DisabledAt(q, r, d, lines) ==
  \/ DisableDeprecated(q, d)
  \/ ~ q.ignoreCommentDisables /\ RuleIsDisabledByComments(q, r, d, lines)

Suppressed(q, r, p) ==
  /\ r \notin MustRules
  /\ \E d \in Above(p.desc) :
       DisabledAt(q, r, d, IF d = p.desc THEN p.lines ELSE {})

RuleRuns(q, r, f) == IsRuleEnabled(q.configs, r, f)

Kept(q, r, S) ==
  {[rule |-> r, problem |-> p] :
     p \in {x \in S : x.desc # NoDesc /\ ~ Suppressed(q, r, x)}}

(* What rule r adds to the response for f, and to its error messages.      *)
Contribution(q, r, f) ==
  IF RuleRuns(q, r, f) /\ <<r, f>> \notin q.panics
  THEN Kept(q, r, q.problems[r, f]) ELSE {}

(* The message for a problem without a descriptor names the rule.  That of *)
(* a panic is the text recovered, whichever rule it was; so the messages   *)
(* of two panics are here the same.                                        *)
NoDescriptorMessage(r) == <<"no descriptor", r>>
PanicMessage == <<"panic">>

Messages == {PanicMessage} \cup {NoDescriptorMessage(r) : r \in Rules}

Unplaced(r, S) ==
  IF \E p \in S : p.desc = NoDesc THEN {NoDescriptorMessage(r)} ELSE {}

Complaint(q, r, f) ==
  IF ~ RuleRuns(q, r, f) THEN {}
  ELSE IF <<r, f>> \in q.panics THEN {PanicMessage}
  ELSE Unplaced(r, q.problems[r, f])

Reported(q, f) == UNION {Contribution(q, r, f) : r \in Rules}
Complaints(q, f) == UNION {Complaint(q, r, f) : r \in Rules}

Response(q, f) == [file |-> f, problems |-> Reported(q, f)]

NoAnswer == [kind |-> "none", responses |-> <<>>, messages |-> {}]
Results(responses) == [kind |-> "results", responses |-> responses, messages |-> {}]
Failure(messages) == [kind |-> "error", responses |-> <<>>, messages |-> messages]

Clean(q, n) == \A k \in 1..n : Complaints(q, q.files[k]) = {}

(* All the files' responses, or the complaints of the first file with any. *)
IsAnswer(q, a) ==
  \/ /\ Clean(q, Len(q.files))
     /\ a = Results([k \in 1..Len(q.files) |-> Response(q, q.files[k])])
  \/ \E k \in 1..Len(q.files) :
       /\ Clean(q, k - 1)
       /\ Complaints(q, q.files[k]) # {}
       /\ a = Failure(Complaints(q, q.files[k]))

-----------------------------------------------------------------------------

VARIABLES request, answer

Init == request \in Requests /\ answer = NoAnswer

LintProtos ==
  /\ answer = NoAnswer
  /\ IsAnswer(request, answer')
  /\ UNCHANGED request

Next == LintProtos

Spec == Init /\ [][Next]_<<request, answer>>

=============================================================================
