----------------------------- MODULE MCCommand -----------------------------
(***************************************************************************)
(* Two files, a Must rule and an ordinary one, a comment that disables the *)
(* latter, at most one failing call, and every combination of the flags    *)
(* that matter with each other.                                            *)
(***************************************************************************)
EXTENDS Command, TLC

must == <<"core", "0131", "must">>
should == <<"core", "0132", "should">>
MCRules == {must, should}
MCMustRules == {must}

MCSegments == {"", "all", "cloud", "core", "0131", "0132", "must", "should"}
MCLower == [s \in MCSegments |-> s]
MCGlob == "a" :> {"fileA"}
MCParent == "fileA" :> "none" @@ "fileB" :> "none"
MCAlias == <<>>
MCPatterns == {<<"0131">>, <<"should">>, <<"all">>}

entry(no) == [included |-> {"a"}, excluded |-> {}, enabled |-> {}, disabled |-> no]

on(i, d) == [id |-> i, desc |-> d, lines |-> {}]
Quiet == [x \in MCRules \X {"fileA", "fileB"} |-> {}]
ProblemChoices ==
  {Quiet, [Quiet EXCEPT ![must, "fileA"] = {on("p1", "fileA")},
                        ![should, "fileA"] = {on("p2", "fileA")}],
   [Quiet EXCEPT ![should, "fileB"] = {on("p3", "fileB")}]}

NoLines == [d \in DOMAIN MCParent |-> {}]
LineChoices == {NoLines, [NoLines EXCEPT !["fileA"] = {[name |-> <<"should">>, blank |-> FALSE]}]}

LintArgs ==
  [version : {FALSE}, listRules : {FALSE},
   files : {<<"fileA">>, <<"fileB", "fileA">>},
   config : BOOLEAN, enable : {{}, {<<"all">>}}, disable : {{}, {<<"0131">>}},
   setExitStatus : BOOLEAN, output : BOOLEAN, ignoreCommentDisables : BOOLEAN]

OtherArgs ==
  [version : BOOLEAN, listRules : BOOLEAN, files : {<<>>},
   config : BOOLEAN, enable : {{}}, disable : {{}},
   setExitStatus : BOOLEAN, output : BOOLEAN, ignoreCommentDisables : {FALSE}]

Worlds ==
  [failing : {{}} \cup {{c} : c \in Calls},
   configFile : {<<entry({<<"should">>})>>}, oldReport : BOOLEAN,
   deprecated : {{}}, lines : LineChoices,
   panics : {{}, {<<should, "fileB">>}}, problems : ProblemChoices]

MCRuns ==
  [args : LintArgs, world : Worlds] \cup
  [args : OtherArgs, world : {w \in Worlds : w.problems = Quiet /\ w.panics = {}}]

=============================================================================
