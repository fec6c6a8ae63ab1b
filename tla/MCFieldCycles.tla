--------------------------- MODULE MCFieldCycles ----------------------------
(***************************************************************************)
(* Three resources with two fields each: no reference, a mutable reference *)
(* to any of the types or to one that does not resolve, an OUTPUT_ONLY     *)
(* one, one by child type and one with two types.  Two are in one file and *)
(* one in a file it imports, or that imports it; or each is in a file of   *)
(* its own, which imports the next.  The last resource may have the type   *)
(* of the second; with three files both are then found, from different     *)
(* files.                                                                  *)
(***************************************************************************)
EXTENDS FieldCycles, TLC

ref(t) == [types |-> <<t>>, childTypes |-> <<>>, outputOnly |-> FALSE]
none == [types |-> <<>>, childTypes |-> <<>>, outputOnly |-> FALSE]
output(t) == [types |-> <<t>>, childTypes |-> <<>>, outputOnly |-> TRUE]
child(t) == [types |-> <<t>>, childTypes |-> <<t>>, outputOnly |-> FALSE]
two(t, u) == [types |-> <<t, u>>, childTypes |-> <<>>, outputOnly |-> FALSE]

FirstFields == {none, ref("a"), ref("b"), ref("c"), ref("gone")}
OtherFields == {none, ref("a"), ref("b"), output("a"), child("a"), two("gone", "a")}

Fields == {none, ref("a"), ref("b")}

MCInputs ==
  [top : {"main" :> <<"A", "B">> @@ "lib" :> <<"C">> @@ "far" :> <<>>},
   imports : {"main" :> <<"lib">> @@ "lib" :> <<>> @@ "far" :> <<>>,
              "main" :> <<>> @@ "lib" :> <<"main">> @@ "far" :> <<>>},
   file : {"A" :> "main" @@ "B" :> "main" @@ "C" :> "lib"},
   type : {"A" :> "a" @@ "B" :> "b" @@ "C" :> t : t \in {"b", "c"}},
   fields : {"A" :> <<f, g>> @@ "B" :> <<h, k>> @@ "C" :> <<l>> :
               f \in FirstFields, g \in OtherFields, h \in FirstFields,
               k \in {none, ref("a"), ref("c")}, l \in Fields},
   start : {"A", "B"}]
  \cup
  [top : {"main" :> <<"A">> @@ "lib" :> <<"B">> @@ "far" :> <<"C">>},
   imports : {"main" :> <<"lib">> @@ "lib" :> <<"far">> @@ "far" :> <<>>},
   file : {"A" :> "main" @@ "B" :> "lib" @@ "C" :> "far"},
   type : {"A" :> "a" @@ "B" :> "b" @@ "C" :> t : t \in {"b", "c"}},
   fields : {"A" :> <<f, g>> @@ "B" :> <<h, k>> @@ "C" :> <<l>> :
               f \in Fields, g \in Fields, h \in FirstFields,
               k \in Fields, l \in Fields},
   start : {"A", "B"}]

=============================================================================
