---------------------------- MODULE DeleteRules ----------------------------
(***************************************************************************)
(* The rules of AEP-135 (rules/aep0135) and AEP-164 (rules/aep0164).       *)
(***************************************************************************)
EXTENDS Method, SequencesExt

DeleteHasPath(d) == IsDeleteRequestMessage(d.in) /\ HasField(d, "path")

DeleteForceField(d) ==
  When(DeleteHasPath(d) /\ d.fields["path"].types # <<>>,
       LET type == d.fields["path"].types[1]
       IN  When(type \in DOMAIN d.patterns /\ type \in d.children,
                LintFieldPresent(d, "force", Bool)))

DeleteHTTPBody(d) == When(IsDeleteMethod(d), LintHTTPBody(d, ""))

DeleteHTTPMethod(d) == When(IsDeleteMethod(d), LintHTTPMethod(d, "DELETE"))

DeleteHTTPURIPath(d) == When(IsDeleteMethod(d), LintHTTPURIHasVariable(d, "path"))

(* A signature may leave out the fields that are not the path.             *)
DeleteMethodSignature(d) ==
  LET named(f) == IF HasField(d, f) THEN <<f>> ELSE <<>>
      fields == <<"path">> \o named("etag") \o named("force")
      first  == ToSet(d.signatures[1])
  IN  When(/\ IsDeleteMethod(d)
           /\ d.signatures = <<>> \/ ~ (first \subseteq ToSet(fields) /\ "path" \in first),
           LintSignature(d, fields))

DeleteRequestForceField(d) ==
  When(IsDeleteRequestMessage(d.in) /\ HasField(d, "force"), LintSingularField(d, "force", Bool))

DeleteRequestMessageName(d) == When(IsDeleteMethod(d), LintMethodHasMatchingRequestName(d))

DeleteRequestPathBehavior(d) == When(DeleteHasPath(d), LintRequiredField(d, "path"))

DeleteRequestPathField(d) == When(DeleteHasPath(d), LintSingularField(d, "path", String))

DeleteRequestPathReference(d) == When(DeleteHasPath(d), LintFieldResourceReference(d, "path"))

DeleteRequestPathRequired(d) ==
  When(IsDeleteRequestMessage(d.in), LintFieldPresent(d, "path", String))

DeleteRequestRequiredFields(d) ==
  When(IsDeleteRequestMessage(d.in), OnlyRequires(d, {"path"}))

DeleteUnknownFields(d) ==
  When(IsDeleteRequestMessage(d.in),
       OnlyHas(d, {"path", "force", "allow_missing", "etag", "request_id", "validate_only"}))

DeleteResponseLRO(d) ==
  When(IsDeleteMethod(d) /\ IsDeclarativeFriendlyMethod(d), UseOperation(d))

DeleteResponseMessageName(d) ==
  When(IsDeleteMethod(d) /\ ResponseTypeOf(d) \notin {Bare(d.noun), Empty, NoName},
       {SetResponse(d, m) : m \in {Bare(d.noun), Empty}})

DeleteAdvice(d) ==
  UNION {DeleteForceField(d), DeleteHTTPBody(d), DeleteHTTPMethod(d), DeleteHTTPURIPath(d),
         DeleteMethodSignature(d), DeleteResponseMessageName(d), DeleteRequestMessageName(d),
         DeleteRequestForceField(d), DeleteRequestPathBehavior(d), DeleteRequestPathField(d),
         DeleteRequestPathReference(d), DeleteRequestPathRequired(d),
         DeleteRequestRequiredFields(d), DeleteResponseLRO(d), DeleteUnknownFields(d)}

-----------------------------------------------------------------------------

IsUndeleteMethod(d) == d.verb = "Undelete"
IsUndeleteRequestMessage(m) == m[1] = "Undelete" /\ m[3] = "Request"

UndeleteHTTPBody(d) == When(IsUndeleteMethod(d), LintHTTPBody(d, "*"))

UndeleteHTTPMethod(d) == When(IsUndeleteMethod(d), LintHTTPMethod(d, "POST"))

(* The URI ends with the variable name and the colon's suffix.             *)
UndeleteHTTPURISuffix(d) ==
  When(IsUndeleteMethod(d),
       Advice(\E k \in DOMAIN d.http :
                ~ /\ "name" \in d.http[k].vars
                  /\ d.http[k].last = "" /\ d.http[k].colon = "undelete",
              [d EXCEPT !.http = [k \in DOMAIN @ |->
                 [@[k] EXCEPT !.vars = {"name"}, !.last = "", !.colon = "undelete"]]]))

UndeleteRequestMessageName(d) ==
  When(IsUndeleteMethod(d), LintMethodHasMatchingRequestName(d))

UndeleteHasName(d) == IsUndeleteRequestMessage(d.in) /\ HasField(d, "name")

UndeleteRequestNameBehavior(d) == When(UndeleteHasName(d), LintRequiredField(d, "name"))

UndeleteRequestNameField(d) ==
  When(IsUndeleteRequestMessage(d.in),
       IF HasField(d, "name") THEN LintSingularField(d, "name", String)
                              ELSE LintFieldPresent(d, "name", String))

UndeleteRequestNameReference(d) ==
  When(UndeleteHasName(d), LintFieldResourceReference(d, "name"))

UndeleteUnknownFields(d) ==
  When(IsUndeleteRequestMessage(d.in),
       OnlyHas(d, {"name", "etag", "request_id", "validate_only"}))

(* One problem for each resource of the file that an Undelete method of    *)
(* the file is named for.                                                  *)
ResourceExpireTimeField(d) ==
  {[d EXCEPT !.expiring = @ \cup {r}] :
     r \in {n \in DOMAIN d.patterns :
              /\ n \in d.undelete \/ (IsUndeleteMethod(d) /\ n = d.noun)
              /\ n \notin d.expiring}}

UndeleteResponseLRO(d) ==
  When(IsUndeleteMethod(d) /\ IsDeclarativeFriendlyMethod(d), UseOperation(d))

UndeleteResponseMessageName(d) ==
  When(IsUndeleteMethod(d),
       Advice(ResponseTypeOf(d) \notin {Bare(d.noun), NoName}, SetResponse(d, Bare(d.noun))))

UndeleteAdvice(d) ==
  UNION {UndeleteHTTPBody(d), UndeleteHTTPMethod(d), UndeleteHTTPURISuffix(d),
         UndeleteRequestMessageName(d), UndeleteRequestNameBehavior(d),
         UndeleteRequestNameField(d), UndeleteRequestNameReference(d),
         UndeleteUnknownFields(d), ResourceExpireTimeField(d), UndeleteResponseLRO(d),
         UndeleteResponseMessageName(d)}

=============================================================================
