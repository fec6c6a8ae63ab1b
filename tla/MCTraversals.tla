---------------------------- MODULE MCTraversals ----------------------------
(***************************************************************************)
(* Files with three messages, one of which may be the entry of a map       *)
(* field, two fields, two enums, a value, an extension and two methods of  *)
(* two services.  The order of the source mixes the kinds.  One of them    *)
(* has every source information of up to three locations on two lines.     *)
(***************************************************************************)
EXTENDS Traversals, TLC

MCComments == {"license", "disables"}

MCLocation ==
  [element : {12, 3, 4}, line : 0..1, column : {0, 2},
   leading : {NoComment, "disables"}, detached : {{}, {"license"}}]

Distinct(s) ==
  \A m, n \in DOMAIN s :
    m # n => s[m].line # s[n].line \/ s[m].column # s[n].column

(* In any order; the third location is there when all three are above one  *)
(* another in a known way.                                                 *)
MCInfos ==
  {s \in UNION {[1..n -> MCLocation] : n \in 0..2} : Distinct(s)}
    \cup {<<a, b, c>> \in {l \in MCLocation : l.line = 0 /\ l.detached = {}}
            \X {l \in MCLocation : l.line = 1 /\ l.column = 0}
            \X {l \in MCLocation : l.line = 1 /\ l.column = 2} : TRUE}

MCOrder == <<"s1", "M1", "f1", "E1", "M2", "r1", "v1", "f2", "M3", "s2", "x1", "E2", "r2">>

MCKind ==
  [d \in {"M1", "M2", "M3"} |-> "message"] @@ [d \in {"f1", "f2"} |-> "field"]
    @@ [d \in {"E1", "E2"} |-> "enum"] @@ "v1" :> "value" @@ "x1" :> "extension"
    @@ [d \in {"s1", "s2"} |-> "service"] @@ [d \in {"r1", "r2"} |-> "method"]

Messages == {"M1", "M2", "M3"}

(* M2 may be in M1, M3 in either.                                          *)
Nestings ==
  {file \in
    {[parent |-> "M1" :> "file" @@ "M2" :> m2 @@ "M3" :> m3
                 @@ "f1" :> f1 @@ "f2" :> f2 @@ "E1" :> e1 @@ "E2" :> e2 @@ "v1" :> v1
                 @@ "x1" :> x1 @@ "s1" :> "file" @@ "s2" :> "file" @@ "r1" :> r1 @@ "r2" :> "s1",
      entries |-> entries, info |-> <<>>] :
        m2 \in {"file", "M1"}, m3 \in {"file", "M1", "M2"},
        f1 \in Messages, f2 \in {"M1", "M3"},
        e1 \in {"file", "M2"}, e2 \in {"file", "M3"}, v1 \in {"E1", "E2"},
        x1 \in {"file", "M2"}, r1 \in {"s1", "s2"},
        entries \in {{}, {"M2"}, {"M3"}}} :
    WellNested(file)}

MCFiles ==
  LET one == CHOOSE f \in Nestings : TRUE
  IN  Nestings \cup {[one EXCEPT !.info = i] : i \in MCInfos}

=============================================================================
