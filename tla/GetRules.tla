------------------------------ MODULE GetRules ------------------------------
(***************************************************************************)
(* The rules of AEP-131 (rules/aep0131).                                   *)
(***************************************************************************)
EXTENDS Method

GetHTTPBody(d) == When(IsGetMethod(d), LintHTTPBody(d, ""))

GetHTTPMethod(d) == When(IsGetMethod(d), LintHTTPMethod(d, "GET"))

GetHTTPURIPath(d) == When(IsGetMethod(d), LintHTTPURIHasVariable(d, "path"))

GetMethodSignature(d) == When(IsGetMethod(d), LintSignature(d, <<"path">>))

GetRequestMessageName(d) == When(IsGetMethod(d), LintMethodHasMatchingRequestName(d))

GetHasPath(d) == IsGetRequestMessage(d.in) /\ HasField(d, "path")

GetRequestPathBehavior(d) == When(GetHasPath(d), LintRequiredField(d, "path"))

GetRequestPathField(d) == When(GetHasPath(d), LintSingularField(d, "path", String))

GetRequestPathReference(d) == When(GetHasPath(d), LintFieldResourceReference(d, "path"))

GetRequestPathReferenceType(d) ==
  When(GetHasPath(d) /\ HasReference(d.fields["path"]),
       Advice(d.fields["path"].types = <<>>,
              [d EXCEPT !.fields["path"].types = <<Singular[d.noun]>>]))

GetRequestPathRequired(d) ==
  When(IsGetRequestMessage(d.in), LintFieldPresent(d, "path", String))

(* Mutant: forgets the path.                                               *)
GetRequiresNothing(d) == When(IsGetRequestMessage(d.in), OnlyRequires(d, {}))

GetRequestRequiredFields(d) == When(IsGetRequestMessage(d.in), OnlyRequires(d, {"path"}))

GetRequestUnknownFields(d) ==
  When(IsGetRequestMessage(d.in),
       OnlyHas(d, {"path", "request_id", "read_mask", "view", "show_deleted"}))

GetResponseMessageName(d) ==
  When(IsGetMethod(d), Advice(d.out # Bare(d.noun), [d EXCEPT !.out = Bare(d.noun)]))

GetSynonyms(d) ==
  Advice(d.verb \in {"Acquire", "Fetch", "Lookup", "Read", "Retrieve"}, [d EXCEPT !.verb = "Get"])

GetAdvice(d) ==
  UNION {GetHTTPBody(d), GetHTTPMethod(d), GetHTTPURIPath(d), GetMethodSignature(d),
         GetResponseMessageName(d), GetRequestMessageName(d), GetRequestPathBehavior(d),
         GetRequestPathField(d), GetRequestPathReference(d), GetRequestPathReferenceType(d),
         GetRequestPathRequired(d), GetRequestRequiredFields(d), GetSynonyms(d),
         GetRequestUnknownFields(d)}

=============================================================================
