---------------------------- MODULE CreateRules ----------------------------
(***************************************************************************)
(* The rules of AEP-133 (rules/aep0133).                                   *)
(***************************************************************************)
EXTENDS Method

(* The message whose field the request must have: that of a field whose    *)
(* name is in the request's name, or else all of that name.                *)
GetResourceMsgNameFromReq(d) ==
  LET found == {n \in Parts[d.in[2]] : \E f \in DOMAIN d.fields : d.fields[f].type = Bare(n)}
  IN  IF found = {} THEN d.in[2] ELSE CHOOSE n \in found : TRUE

FieldsOf(d, noun) == {f \in DOMAIN d.fields : d.fields[f].type = Bare(noun)}

CreateHTTPBody(d) ==
  LET name   == GetResourceMessageName(d)
      fields == FieldsOf(d, name)
  IN  When(IsCreateMethod(d),
           LintHTTPBody(d, IF fields = {} THEN Lower[name] ELSE CHOOSE f \in fields : TRUE))

CreateHTTPMethod(d) == When(IsCreateMethod(d), LintHTTPMethod(d, "POST"))

CreateRule(d) ==
  [verb |-> "POST", body |-> Lower[d.noun], vars |-> {"parent"},
   last |-> Collection[d.noun], colon |-> ""]

(* An operation_info stands for the response, an unresolved one for a skip.*)
CreateHTTPURIParent(d) ==
  LET res    == IF d.info.set THEN GetOperationResponseType(d) ELSE d.out
      parent == LintHTTPURIHasVariable(d, "parent")
  IN  When(IsCreateMethod(d) /\ res # NoName /\ ~ HasNoParent(d, res),
           IF parent # {} THEN parent ELSE LintHTTPURIOneVariable(d, CreateRule(d)))

CreateHTTPURIResource(d) ==
  LET last == d.http[1].last
  IN  When(IsCreateMethod(d) /\ d.http # <<>>,
           IF last = "" THEN {[d EXCEPT !.http[1].last = Collection[d.noun]]}
           ELSE When(IsResource(d, d.out),
                     Advice(\E p \in d.patterns[d.out[2]] : last \notin p.collections,
                            [d EXCEPT !.patterns[d.out[2]] =
                               {[p EXCEPT !.collections = @ \cup {last}] : p \in @}])))

(* Looks at the response itself, an Operation too.                         *)
CreateMethodSignature(d) ==
  LET name   == GetResourceMessageName(d)
      parent == IF HasNoParent(d, d.out) THEN <<>> ELSE <<"parent">>
      id     == IF HasField(d, IdField[name]) THEN <<IdField[name]>> ELSE <<>>
  IN  When(IsCreateMethod(d), LintSignature(d, parent \o <<Snake[name]>> \o id))

CreateRequestIDField(d) ==
  When(IsCreateRequestMessage(d.in),
       IF HasField(d, "id") THEN LintSingularField(d, "id", String)
                            ELSE LintFieldPresent(d, "id", String))

CreateInputName(d) == When(IsCreateMethod(d), LintMethodHasMatchingRequestName(d))

CreateHasParent(d) == IsCreateRequestMessage(d.in) /\ HasField(d, "parent")

CreateRequestParentBehavior(d) == When(CreateHasParent(d), LintRequiredField(d, "parent"))

CreateRequestParentField(d) == When(CreateHasParent(d), LintSingularField(d, "parent", String))

CreateRequestParentRequired(d) ==
  LET f == Snake[GetResourceMsgNameFromReq(d)]
  IN  When(/\ IsCreateRequestMessage(d.in)
           /\ ~ (HasField(d, f) /\ HasNoParent(d, d.fields[f].type)),
           LintFieldPresent(d, "parent", String))

CreateRequestRequiredFields(d) ==
  When(IsCreateMethod(d), OnlyRequiresBut(d, {"parent", "id"}, GetResponseType(d)))

CreateRequestResourceBehavior(d) ==
  When(IsCreateRequestMessage(d.in),
       UNION {LintRequiredField(d, f) : f \in FieldsOf(d, GetResourceMsgNameFromReq(d))})

CreateResourceField(d) ==
  LET name   == GetResourceMsgNameFromReq(d)
      fields == FieldsOf(d, name)
  IN  When(IsCreateRequestMessage(d.in),
           IF fields = {} THEN {SetField(d, Snake[name], NewField(Bare(name)))}
           ELSE LET f == CHOOSE f \in fields : TRUE
                IN  Advice(f # Snake[name], RenameField(d, f, Snake[name])))

CreateUnknownFields(d) ==
  When(IsCreateRequestMessage(d.in),
       OnlyHas(d, {"parent", "request_id", "validate_only", "id"}
                    \cup FieldsOf(d, GetResourceMsgNameFromReq(d))))

CreateResourceReferenceType(d) ==
  LET m == GetResponseType(d)
  IN  When(/\ IsCreateMethod(d) /\ HasField(d, "parent") /\ IsResource(d, m)
           /\ HasReference(d.fields["parent"]),
           Advice(~ References(d.fields["parent"], m[2]),
                  [d EXCEPT !.fields["parent"].childTypes = <<m[2]>>]))

(* The name is NoName when the operation has no annotation.                *)
CreateOutputName(d) ==
  LET want == Bare(GetResourceMessageName(d))
  IN  When(IsCreateMethod(d),
           Advice(ResponseTypeOf(d) \notin {want, NoName}, SetResponse(d, want)))

CreateSynonyms(d) == Advice(d.verb \in {"Insert", "Make", "Post"}, [d EXCEPT !.verb = "Create"])

CreateAdvice(d) ==
  UNION {CreateHTTPBody(d), CreateHTTPURIParent(d), CreateHTTPURIResource(d),
         CreateHTTPMethod(d), CreateInputName(d), CreateMethodSignature(d), CreateOutputName(d),
         CreateRequestIDField(d), CreateRequestParentBehavior(d), CreateRequestParentField(d),
         CreateRequestParentRequired(d), CreateRequestRequiredFields(d),
         CreateRequestResourceBehavior(d), CreateResourceField(d),
         CreateResourceReferenceType(d), CreateSynonyms(d), CreateUnknownFields(d)}

=============================================================================
