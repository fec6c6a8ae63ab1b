---------------------------- MODULE UpdateRules ----------------------------
(***************************************************************************)
(* The rules of AEP-134 (rules/aep0134).                                   *)
(***************************************************************************)
EXTENDS Method

UpdateHTTPBody(d) == When(IsUpdateMethod(d), LintHTTPBody(d, Snake[d.noun]))

UpdateHTTPMethod(d) == When(IsUpdateMethod(d), LintHTTPMethod(d, "PATCH"))

UpdateHTTPURIPath(d) == When(IsUpdateMethod(d), LintHTTPURIHasVariable(d, "path"))

UpdateMethodSignature(d) ==
  When(IsUpdateMethod(d), LintSignature(d, <<Snake[d.noun], "update_mask">>))

IsSingletonResource(d, noun) == \E p \in d.patterns[noun] : p.singleton

UpdateAllowMissing(d) ==
  When(/\ IsUpdateRequestMessage(d.in)
       /\ IsDeclarativeFriendlyMethod(d)
       /\ ~ IsSingletonResource(d, DeclarativeFriendlyResource(d)),
       IF HasField(d, "allow_missing") THEN LintSingularField(d, "allow_missing", Bool)
                                       ELSE LintFieldPresent(d, "allow_missing", Bool))

UpdateRequestMaskField(d) ==
  When(IsUpdateRequestMessage(d.in) /\ HasField(d, "update_mask"),
       LintSingularField(d, "update_mask", FieldMask))

UpdateRequestMaskRequired(d) ==
  When(IsUpdateRequestMessage(d.in), LintFieldPresent(d, "update_mask", FieldMask))

UpdateRequestMessageName(d) == When(IsUpdateMethod(d), LintMethodHasMatchingRequestName(d))

(* Mutant: asks with the predicate of another AEP.                         *)
UpdatePathUnasked(d) == When(IsDeleteRequestMessage(d.in), LintFieldPresent(d, "path", String))

UpdateRequestPathRequired(d) ==
  When(IsUpdateRequestMessage(d.in), LintFieldPresent(d, "path", String))

UpdateRequestRequiredFields(d) ==
  When(IsUpdateMethod(d), OnlyRequiresBut(d, {"update_mask", "path"}, GetResponseType(d)))

UpdateRequestResourceField(d) ==
  When(IsUpdateRequestMessage(d.in),
       {RenameField(d, f, Snake[d.in[2]]) :
          f \in {g \in DOMAIN d.fields \ {Snake[d.in[2]]} : d.fields[g].type = Bare(d.in[2])}})

UpdateRequestResourceRequired(d) ==
  When(IsUpdateRequestMessage(d.in),
       Advice(\A f \in DOMAIN d.fields : d.fields[f].type # Bare(d.in[2]),
              SetField(d, Snake[d.in[2]], NewField(Bare(d.in[2])))))

UpdateUnknownFields(d) ==
  When(IsUpdateRequestMessage(d.in),
       OnlyHas(d, {Snake[d.in[2]], "allow_missing", "path", "request_id", "update_mask",
                   "validate_only"}))

UpdateResponseLRO(d) ==
  When(IsUpdateMethod(d) /\ IsDeclarativeFriendlyMethod(d), UseOperation(d))

(* Mutant: takes any operation.                                            *)
UpdateAnyOperation(d) ==
  When(IsUpdateMethod(d),
       Advice(d.out \notin {Bare(d.noun), Operation}, SetResponse(d, Bare(d.noun))))

UpdateResponseMessageName(d) ==
  When(IsUpdateMethod(d),
       Advice(ResponseTypeOf(d) \notin {Bare(d.noun), NoName}, SetResponse(d, Bare(d.noun))))

UpdateSynonyms(d) ==
  Advice(d.verb \in {"Patch", "Put", "Set"} /\ <<d.verb, d.noun>> # <<"Set", "IamPolicy">>,
         [d EXCEPT !.verb = "Update"])

UpdateAdvice(d) ==
  UNION {UpdateAllowMissing(d), UpdateHTTPBody(d), UpdateHTTPMethod(d), UpdateHTTPURIPath(d),
         UpdateMethodSignature(d), UpdateResponseMessageName(d), UpdateRequestMaskField(d),
         UpdateRequestMaskRequired(d), UpdateRequestMessageName(d),
         UpdateRequestPathRequired(d), UpdateRequestRequiredFields(d),
         UpdateRequestResourceField(d), UpdateRequestResourceRequired(d), UpdateResponseLRO(d),
         UpdateSynonyms(d), UpdateUnknownFields(d)}

=============================================================================
