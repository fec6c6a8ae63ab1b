------------------------------ MODULE MCPlugin ------------------------------
(***************************************************************************)
(* Lists of two packages, of a core and of a cloud AEP, with rules that    *)
(* are fine, misplaced, repeated, invalid or of a form that only the       *)
(* plugin refuses.  A check of two files of the module and an import, with *)
(* a disabling comment, a deprecated message, a problem without a          *)
(* descriptor and a panic.                                                 *)
(***************************************************************************)
EXTENDS Plugin, TLC

must == <<"core", "0131", "must-be">>
should == <<"core", "0132", "should">>

MCPadded == 131 :> "0131" @@ 132 :> "0132" @@ 2500 :> "2500" @@ 1500 :> "1500"

misplaced == <<"core", "2500", "must-be">>
inCloud == <<"cloud", "2500", "synonyms">>
long == <<"core", "0131", "must", "be">>
invalid == <<"core", "0131", "HTTP">>
MCValidNames == {must, should, misplaced, inCloud, long}

MCSpelled ==
  "core" :> <<"CORE">> @@ "cloud" :> <<"CLOUD">> @@ "0131" :> <<"0131">> @@
  "0132" :> <<"0132">> @@ "2500" :> <<"2500">> @@ "must-be" :> <<"MUST", "BE">> @@
  "must" :> <<"MUST">> @@ "be" :> <<"BE">> @@ "should" :> <<"SHOULD">> @@
  "synonyms" :> <<"SYNONYMS">>

Singles == {<<>>} \cup {<<n>> : n \in MCValidNames \cup {invalid}}
Pairs == {<<m, n>> : m, n \in {must, should, long}}

MCPackages ==
  {<<[aep |-> a, names |-> ms], [aep |-> b, names |-> ns]>> :
     a \in {131, 132}, b \in {132, 2500, 1500},
     ms \in Singles \cup Pairs, ns \in Singles \cup Pairs}

MCRules == {must, should}
MCMustRules == {must}

MCSegments == {"", "all", "cloud", "core", "0131", "0132", "must-be", "should"}
MCLower == [s \in MCSegments |-> s]
MCGlob == "b" :> {"fileB"}
MCAlias == <<>>
MCParent == [d \in {"fileA", "fileB", "fileI"} |-> "none"] @@ "msg" :> "fileA"

off == [name |-> <<"should">>, blank |-> FALSE]
MCPatterns == {off.name, <<"must-be">>}

NoLines == [d \in DOMAIN MCParent |-> {}]

prob(i, d, l) == [id |-> i, desc |-> d, lines |-> {}, located |-> l]
Quiet == [x \in {must, should} \X {"fileA", "fileB", "fileI"} |-> <<>>]
ProblemChoices ==
  {[Quiet EXCEPT ![must, "fileA"] = <<prob("p1", "msg", l)>>,
                 ![should, "fileA"] = <<prob("p2", "fileA", FALSE), prob("p3", d, l),
                                        prob("p4", "msg", FALSE)>>,
                 ![should, "fileB"] = <<prob("p5", "fileB", l)>>,
                 ![must, "fileI"] = <<prob("p6", "fileI", FALSE)>>] :
     d \in {"msg", "none"}, l \in BOOLEAN}

own(f) == [file |-> f, import |-> FALSE]
imported(f) == [file |-> f, import |-> TRUE]

MCChecks ==
  [files : {<<own("fileA"), imported("fileI"), own("fileB")>>, <<imported("fileI")>>},
   selected : SUBSET {must, should},
   malformed : BOOLEAN,
   deprecated : {{}, {"msg"}},
   lines : {NoLines, [NoLines EXCEPT !["fileA"] = {off}]},
   sourced : {{"fileA", "fileB", "fileI"}},
   panics : {{}, {<<must, "fileB">>}, {<<should, "fileI">>}},
   problems : ProblemChoices]

entry(paths, on, no) ==
  [included |-> paths, excluded |-> {}, enabled |-> on, disabled |-> no]
MCConfigChoices == {<<>>, <<entry({"b"}, {}, {<<"must-be">>})>>}

=============================================================================
