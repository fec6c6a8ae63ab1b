------------------------------ MODULE MCLinter ------------------------------
(***************************************************************************)
(* Two files, one with a message that has a field; a Must rule, an         *)
(* ordinary rule and a rule of the default-disabled group; every placement *)
(* of one disable comment, one deprecated option, one panic and one        *)
(* misplaced problem, with the options and configs that interact with      *)
(* them.                                                                   *)
(***************************************************************************)
EXTENDS Linter, TLC

must == <<"core", "0131", "must">>
should == <<"core", "0132", "should">>
cloud == <<"cloud", "2500", "must">>

MCRules == {must, should, cloud}
MCMustRules == {must}

MCSegments == {"", "all", "cloud", "core", "0131", "0132", "2500", "must", "should", "old"}
MCLower == [s \in MCSegments |-> s]
MCGlob == "a" :> {"fileA"} @@ "b" :> {"fileB"}
MCAlias == should :> <<"old", "should">>
MCParent == "fileA" :> "none" @@ "fileB" :> "none" @@ "msg" :> "fileA" @@ "field" :> "msg"

off == [name |-> <<"0132", "should">>, blank |-> FALSE]
everyRule == [name |-> <<"", "">>, blank |-> FALSE]
byAlias == [name |-> <<"old">>, blank |-> FALSE]
spaced == [name |-> <<"should">>, blank |-> TRUE]
offMust == [name |-> <<"must">>, blank |-> FALSE]

MCPatterns == {l.name : l \in {off, everyRule, byAlias, spaced, offMust}} \cup {<<"cloud">>}

entry(paths, on, no) ==
  [included |-> paths, excluded |-> {}, enabled |-> on, disabled |-> no]

ConfigChoices ==
  {<<>>, <<entry({"b"}, {}, {<<"must">>}), entry({}, {<<"cloud">>}, {})>>}

NoLines == [d \in DOMAIN MCParent |-> {}]
LineChoices ==
  {NoLines} \cup
  {[NoLines EXCEPT ![d] = {l}] : d \in {"fileA", "msg", "field"},
                                 l \in {off, everyRule, offMust}} \cup
  {[NoLines EXCEPT !["msg"] = {byAlias, spaced}],
   [NoLines EXCEPT !["fileB"] = {off}], [NoLines EXCEPT !["field"] = {spaced}]}

on(i, d, ls) == [id |-> i, desc |-> d, lines |-> ls]
Quiet == [x \in {must, should, cloud} \X {"fileA", "fileB"} |-> {}]
ProblemChoices ==
  {[Quiet EXCEPT ![must, "fileA"] = {on("p1", "field", {})},
                 ![should, "fileA"] = {on("p2", "msg", {}), on("p3", "field", at0)},
                 ![cloud, "fileA"] = bad,
                 ![should, "fileB"] = {on("p5", "fileB", {})},
                 ![must, "fileB"] = {on("p6", "fileB", {})}] :
     at0 \in {{}, {off}}, bad \in {{on("p4", "msg", {})}, {on("p4", "none", {})}}}

MCRequests ==
  [files : {<<"fileA", "fileB">>, <<"fileB", "fileA">>},
   configs : ConfigChoices,
   ignoreCommentDisables : BOOLEAN,
   deprecated : {{}, {"msg"}},
   lines : LineChoices,
   panics : {{}, {<<should, "fileA">>}, {<<must, "fileB">>}},
   problems : ProblemChoices]

=============================================================================
