---------------------------- MODULE MCConfigScan ----------------------------
(***************************************************************************)
(* Config files of at most two entries over two patterns, one of which     *)
(* only matches after normalization, with and without each flag, for a     *)
(* core and a cloud rule at two paths.                                     *)
(***************************************************************************)
EXTENDS ConfigScan, TLC

MCSegments == {"", "all", "cloud", "Cloud", "core", "2500", "0131", "fmt"}
MCLower == [s \in MCSegments |-> IF s = "Cloud" THEN "cloud" ELSE s]
MCGlob == "any.proto" :> {"p", "q"} @@ "malformed" :> {} @@ "q.proto" :> {"q"}

MCRules == {<<"core", "0131", "fmt">>, <<"cloud", "2500", "fmt">>}
MCPatterns == {<<"", "Cloud", "">>, <<"fmt">>}
MCGlobs == {"any.proto", "q.proto", "malformed"}

Entries ==
  {[included |-> paths[1], excluded |-> paths[2], enabled |-> on, disabled |-> off] :
     paths \in {<<{}, {}>>, <<{"any.proto"}, {"q.proto"}>>, <<{"malformed"}, {}>>},
     on \in {{}} \cup {{p} : p \in MCPatterns}, off \in {{}, {<<"fmt">>}}}

MCCommands ==
  [defaults : {<<>>}, file : {<<>>} \cup {<<e>> : e \in Entries}
                             \cup {<<e, f>> : e, f \in Entries},
   enable : {{}, {<<"", "Cloud", "">>}}, disable : {{}, {<<"fmt">>}},
   rule : MCRules, path : {"p", "q"}]

=============================================================================
