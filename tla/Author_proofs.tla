---------------------------- MODULE Author_proofs ----------------------------
(***************************************************************************)
(* What holds of every design that no rule complains of, for any drafts    *)
(* and any texts.  "api-linter" reports nothing on such a design only if   *)
(* each of its rules does: what two rules ask of two parts of a design can *)
(* then be put together.                                                   *)
(***************************************************************************)
EXTENDS Author, WellFoundedInduction, TLAPS

LEMMA UnionEmpty == ASSUME NEW S, UNION S = {}, NEW x \in S PROVE x = {}
OBVIOUS

LEMMA WhenEmpty ==
  ASSUME NEW applies, NEW advice, When(applies, advice) = {}, applies PROVE advice = {}
BY DEF When

LEMMA AdviceEmpty ==
  ASSUME NEW problem, NEW fixed, Advice(problem, fixed) = {} PROVE ~ problem
BY DEF Advice

-----------------------------------------------------------------------------

(* The rules of methods, one by one, when none complains.                  *)

LEMMA CleanMethod ==
  ASSUME NEW d, Clean("method", d)
  PROVE  /\ ~ RulePanics(d)
         /\ GetAdvice(d) = {} /\ ListAdvice(d) = {} /\ CreateAdvice(d) = {} /\ UpdateAdvice(d) = {}
         /\ DeleteAdvice(d) = {} /\ UndeleteAdvice(d) = {} /\ OperationAdvice(d) = {}
<1>1. ~ RulePanics(d) /\ MethodAdvice(d) = {}
  BY DEF Clean, Reported, Panics
<1> QED
  BY <1>1, UnionEmpty, Zenon DEF MethodAdvice

LEMMA MatchingRequest ==
  ASSUME NEW d, LintMethodHasMatchingRequestName(d) = {} PROVE d.in = <<d.verb, d.noun, "Request">>
BY AdviceEmpty, Zenon DEF LintMethodHasMatchingRequestName, RequestName

LEMMA BodyAsked ==
  ASSUME NEW d, NEW want, LintHTTPBody(d, want) = {}
  PROVE  \A k \in DOMAIN d.http : d.http[k].body = want
BY AdviceEmpty, Zenon DEF LintHTTPBody

LEMMA SignatureAsked ==
  ASSUME NEW d, NEW want, LintSignature(d, want) = {}
  PROVE  d.signatures # <<>> /\ d.signatures[1] = want
BY AdviceEmpty, Zenon DEF LintSignature

LEMMA FieldAsked ==
  ASSUME NEW d, NEW f, NEW type, LintFieldPresent(d, f, type) = {} PROVE HasField(d, f)
BY AdviceEmpty, Zenon DEF LintFieldPresent

LEMMA TypeAsked ==
  ASSUME NEW d, NEW f, NEW type, LintSingularField(d, f, type) = {} PROVE d.fields[f].type = type
BY AdviceEmpty, Zenon DEF LintSingularField

LEMMA BehaviorAsked ==
  ASSUME NEW d, NEW f, LintRequiredField(d, f) = {} PROVE d.fields[f].required
BY AdviceEmpty, Zenon DEF LintRequiredField

LEMMA BareParts == ASSUME NEW n PROVE Bare(n)[1] = "" /\ Bare(n)[2] = n /\ Bare(n)[3] = ""
BY DEF Bare

LEMMA BareIsNoScalar == ASSUME NEW n PROVE IsMessage(Bare(n)) /\ Bare(n) # String
BY DEF IsMessage, Bare, String, Scalar

LEMMA BareTells == ASSUME NEW n, NEW k, Bare(n) = Bare(k) PROVE n = k
<1>1. Bare(n)[2] = n /\ Bare(k)[2] = k
  BY BareParts, Zenon
<1> QED
  BY <1>1, Zenon

LEMMA OtherRequired ==
  ASSUME NEW d, NEW allowed, NEW m, OnlyRequiresBut(d, allowed, m) = {},
         NEW f \in DOMAIN d.fields \ allowed
  PROVE  ~ (d.fields[f].required /\ d.fields[f].type # m)
<1> DEFINE advice(g) == Advice(d.fields[g].required /\ d.fields[g].type # m,
                              [d EXCEPT !.fields[g].required = FALSE])
<1>1. UNION {advice(g) : g \in DOMAIN d.fields \ allowed} = {}
  BY Zenon DEF OnlyRequiresBut
<1>2. advice(f) = {}
  <2> HIDE DEF advice
  <2> QED
    BY <1>1, Zenon
<1> QED
  BY <1>2, AdviceEmpty, Zenon

LEMMA CleanGet ==
  ASSUME NEW d, GetAdvice(d) = {}, IsGetMethod(d)
  PROVE  /\ HasField(d, "path")
         /\ \A k \in DOMAIN d.http : d.http[k].body = ""
         /\ d.signatures # <<>> /\ d.signatures[1] = <<"path">>
<1>1. /\ GetHTTPBody(d) = {} /\ GetMethodSignature(d) = {} /\ GetRequestMessageName(d) = {}
      /\ GetRequestPathRequired(d) = {}
  BY UnionEmpty, Zenon DEF GetAdvice
<1>2. d.in = <<d.verb, d.noun, "Request">>
  BY <1>1, WhenEmpty, MatchingRequest, Zenon DEF GetRequestMessageName
<1>3. IsGetRequestMessage(d.in)
  BY <1>2, SMT DEF IsGetRequestMessage, IsGetMethod
<1>4. /\ LintHTTPBody(d, "") = {} /\ LintSignature(d, <<"path">>) = {}
      /\ LintFieldPresent(d, "path", String) = {}
  BY <1>1, <1>3, WhenEmpty, Zenon DEF GetHTTPBody, GetMethodSignature, GetRequestPathRequired
<1> QED
  BY <1>4, BodyAsked, SignatureAsked, FieldAsked, Zenon

LEMMA CleanList ==
  ASSUME NEW d, ListAdvice(d) = {}, IsListMethod(d)
  PROVE  /\ \A k \in DOMAIN d.http : d.http[k].body = ""
         /\ HasField(d, "parent") => d.signatures # <<>> /\ d.signatures[1] = <<"parent">>
         /\ HasField(d, "parent") /\ d.noun \notin Revisions =>
              \A n \in DOMAIN d.patterns :
                Bare(n) \in GetRepeatedMessages(d)
                  => d.fields["parent"].childTypes # <<>> /\ d.fields["parent"].childTypes[1] = n
<1>1. /\ ListHTTPBody(d) = {} /\ ListMethodSignature(d) = {} /\ ListRequestMessageName(d) = {}
      /\ ListResponseMessageName(d) = {} /\ ListRequestParentReference(d) = {}
      /\ ListRequestParentValidReference(d) = {} /\ ListResourceReferenceType(d) = {}
  BY UnionEmpty, Zenon DEF ListAdvice
<1>2. \A k \in DOMAIN d.http : d.http[k].body = ""
  BY <1>1, WhenEmpty, BodyAsked, Zenon DEF ListHTTPBody
<1>3. ASSUME HasField(d, "parent")
      PROVE  d.signatures # <<>> /\ d.signatures[1] = <<"parent">>
  BY <1>1, <1>3, WhenEmpty, SignatureAsked, Zenon DEF ListMethodSignature
<1>4. ASSUME HasField(d, "parent"), d.noun \notin Revisions, NEW n \in DOMAIN d.patterns,
             Bare(n) \in GetRepeatedMessages(d)
      PROVE  d.fields["parent"].childTypes # <<>> /\ d.fields["parent"].childTypes[1] = n
  <2> DEFINE parent == d.fields["parent"]
  <2>1. d.in = <<d.verb, d.noun, "Request">> /\ d.out = <<d.verb, d.noun, "Response">>
    BY <1>1, WhenEmpty, MatchingRequest, AdviceEmpty, Zenon
       DEF ListRequestMessageName, ListResponseMessageName, LintMethodHasMatchingResponseName,
           ResponseName
  <2>2. ListHasParent(d) /\ ListHasResponse(d)
    BY <1>4, <2>1, SMT DEF ListHasParent, ListHasResponse, IsListRequestMessage, IsListMethod
  <2>3. HasReference(parent)
    BY <1>1, <2>2, WhenEmpty, Zenon DEF ListRequestParentReference, LintFieldResourceReference
  <2>4. Bare(n)[2] = n /\ IsResource(d, Bare(n))
    BY <1>4, BareParts, Zenon DEF IsResource
  <2>5. References(parent, n)
    <3> DEFINE others == {r \in GetRepeatedMessages(d) :
                            IsResource(d, r) /\ ~ References(parent, r[2])}
    <3>1. {[d EXCEPT !.fields["parent"].childTypes = <<m[2]>>] : m \in others} = {}
      BY <1>1, <1>4, <2>3, WhenEmpty, Zenon DEF ListResourceReferenceType
    <3>2. others = {}
      <4> HIDE DEF others
      <4> QED
        BY <3>1, Zenon
    <3>3. Bare(n) \notin others
      BY <3>2
    <3> QED
      BY <1>4, <2>4, <3>3, Zenon
  <2>6. parent.types = <<>> \/ parent.types[1] # n
    <3>1. PICK f \in DOMAIN d.resp : d.resp[f].type = Bare(n)
      BY <1>4, Zenon DEF GetRepeatedMessages
    <3>2. SUFFICES ASSUME parent.types # <<>>, parent.types[1] = n PROVE FALSE
      OBVIOUS
    <3> QED
      BY <1>1, <2>2, <2>4, <3>1, <3>2, WhenEmpty, AdviceEmpty, Zenon
         DEF ListRequestParentValidReference
  <2> QED
    BY <2>3, <2>5, <2>6, Zenon DEF HasReference, References
<1> QED
  BY <1>2, <1>3, <1>4

(* All four rules on the resource of a Create mean one field: the one that *)
(* is named for the message in the request's name is required, so it is of *)
(* the type of the response, and the method's name leads to it too.        *)
LEMMA CleanCreate ==
  ASSUME NEW d, CreateAdvice(d) = {}, OperationAdvice(d) = {}, IsCreateMethod(d), ~ RulePanics(d)
  PROVE  LET m == GetResponseType(d)
             f == Snake[GetResourceMessageName(d)]
         IN  /\ m = Bare(GetResourceMessageName(d))
             /\ HasField(d, f)
             /\ \A k \in DOMAIN d.http :
                  HasField(d, d.http[k].body) /\ d.fields[d.http[k].body].type = m
             /\ HasNoParent(d, m) \/ HasField(d, "parent")
             /\ LintSignature(d, (IF HasNoParent(d, d.out) THEN <<>> ELSE <<"parent">>)
                                   \o <<f>>
                                   \o (IF HasField(d, IdField[GetResourceMessageName(d)])
                                         THEN <<IdField[GetResourceMessageName(d)]>> ELSE <<>>)) = {}
             /\ HasField(d, "parent") /\ IsResource(d, m) /\ HasReference(d.fields["parent"])
                  => References(d.fields["parent"], m[2])
<1> DEFINE noun == GetResourceMsgNameFromReq(d)
           name == GetResourceMessageName(d)
           m == GetResponseType(d)
           f == Snake[noun]
<1>1. /\ CreateHTTPBody(d) = {} /\ CreateMethodSignature(d) = {} /\ CreateInputName(d) = {}
      /\ CreateRequestParentField(d) = {} /\ CreateRequestParentRequired(d) = {}
      /\ CreateRequestIDField(d) = {} /\ CreateRequestRequiredFields(d) = {}
      /\ CreateRequestResourceBehavior(d) = {} /\ CreateResourceField(d) = {}
      /\ CreateResourceReferenceType(d) = {} /\ CreateOutputName(d) = {}
  BY UnionEmpty, Zenon DEF CreateAdvice
<1>2. IsCreateRequestMessage(d.in)
  <2>1. d.in = <<d.verb, d.noun, "Request">>
    BY <1>1, WhenEmpty, MatchingRequest, Zenon DEF CreateInputName
  <2> QED
    BY <2>1, SMT DEF IsCreateRequestMessage, IsCreateMethod
<1>3. FieldsOf(d, noun) # {} /\ f = CHOOSE g \in FieldsOf(d, noun) : TRUE
  <2> DEFINE fields == FieldsOf(d, noun)
             chosen == CHOOSE g \in fields : TRUE
  <2>1. (IF fields = {} THEN {SetField(d, Snake[noun], NewField(Bare(noun)))}
         ELSE Advice(chosen # Snake[noun], RenameField(d, chosen, Snake[noun]))) = {}
    BY <1>1, <1>2, WhenEmpty, Zenon DEF CreateResourceField
  <2>2. fields # {}
    BY <2>1, Zenon
  <2>3. Advice(chosen # Snake[noun], RenameField(d, chosen, Snake[noun])) = {}
    BY <2>1, <2>2, Zenon
  <2> QED
    BY <2>2, <2>3, AdviceEmpty, Zenon
<1>4. f \in DOMAIN d.fields /\ d.fields[f].type = Bare(noun) /\ d.fields[f].required
  <2>1. f \in FieldsOf(d, noun)
    BY <1>3, Zenon
  <2>2. LintRequiredField(d, f) = {}
    BY <1>1, <1>2, <2>1, WhenEmpty, UnionEmpty, Zenon DEF CreateRequestResourceBehavior
  <2> QED
    BY <2>1, <2>2, BehaviorAsked, Zenon DEF FieldsOf
<1>5. f \notin {"parent", "id"}
  <2>1. Bare(noun) # String
    BY BareIsNoScalar, Zenon
  <2>2. f # "parent"
    BY <1>1, <1>2, <1>4, <2>1, WhenEmpty, TypeAsked, Zenon
       DEF CreateRequestParentField, CreateHasParent, HasField
  <2>3. f # "id"
    BY <1>1, <1>2, <1>4, <2>1, WhenEmpty, TypeAsked, Zenon DEF CreateRequestIDField, HasField
  <2> QED
    BY <2>2, <2>3, Zenon
<1>6. m = Bare(noun)
  <2>1. OnlyRequiresBut(d, {"parent", "id"}, m) = {}
    BY <1>1, WhenEmpty, Zenon DEF CreateRequestRequiredFields
  <2>2. ~ (d.fields[f].required /\ d.fields[f].type # m)
    BY <1>4, <1>5, <2>1, OtherRequired, Zenon
  <2> QED
    BY <1>4, <2>2, Zenon
<1>7. m # NoName
  <2>1. IsMessage(Bare(noun))
    BY BareIsNoScalar, Zenon
  <2> QED
    BY <1>4, <2>1, Zenon DEF RulePanics, NilName
<1>8. m = Bare(name)
  <2>1. ResponseTypeOf(d) \in {Bare(name), NoName}
    BY <1>1, WhenEmpty, AdviceEmpty, Zenon DEF CreateOutputName
  <2>2. m = ResponseTypeOf(d)
    BY <1>7, Zenon DEF GetResponseType, GetOperationResponseType, ResponseTypeOf
  <2> QED
    BY <1>7, <2>1, <2>2, Zenon
<1>9. name = noun
  BY <1>6, <1>8, BareTells, Zenon
<1>10. ASSUME NEW k \in DOMAIN d.http PROVE d.http[k].body = f
  <2>1. LintHTTPBody(d, IF FieldsOf(d, name) = {} THEN Lower[name]
                        ELSE CHOOSE g \in FieldsOf(d, name) : TRUE) = {}
    BY <1>1, WhenEmpty, Zenon DEF CreateHTTPBody
  <2>2. LintHTTPBody(d, f) = {}
    BY <1>3, <1>9, <2>1, Zenon
  <2> QED
    BY <2>2, BodyAsked, Zenon
<1>11. HasNoParent(d, m) \/ HasField(d, "parent")
  BY <1>1, <1>2, <1>4, <1>6, WhenEmpty, FieldAsked, Zenon DEF CreateRequestParentRequired, HasField
<1>12. LintSignature(d, (IF HasNoParent(d, d.out) THEN <<>> ELSE <<"parent">>) \o <<Snake[name]>>
                          \o (IF HasField(d, IdField[name]) THEN <<IdField[name]>> ELSE <<>>)) = {}
  BY <1>1, WhenEmpty, Zenon DEF CreateMethodSignature
<1>13. HasField(d, "parent") /\ IsResource(d, m) /\ HasReference(d.fields["parent"])
         => References(d.fields["parent"], m[2])
  BY <1>1, WhenEmpty, AdviceEmpty, Zenon DEF CreateResourceReferenceType
<1> QED
  BY <1>4, <1>6, <1>8, <1>9, <1>10, <1>11, <1>12, <1>13, Zenon DEF HasField

LEMMA CleanUpdate ==
  ASSUME NEW d, UpdateAdvice(d) = {}, OperationAdvice(d) = {}, IsUpdateMethod(d)
  PROVE  LET f == Snake[d.noun]
         IN  /\ HasField(d, "path") /\ HasField(d, "update_mask")
             /\ HasField(d, f) /\ d.fields[f].type = Bare(d.noun)
             /\ \A k \in DOMAIN d.http : d.http[k].body = f
             /\ d.signatures # <<>> /\ d.signatures[1] = <<f, "update_mask">>
             /\ d.out # NoName => GetResponseType(d) = Bare(d.noun)
<1> DEFINE f == Snake[d.noun]
<1>1. /\ UpdateHTTPBody(d) = {} /\ UpdateMethodSignature(d) = {} /\ UpdateRequestMessageName(d) = {}
      /\ UpdateRequestPathRequired(d) = {} /\ UpdateRequestMaskRequired(d) = {}
      /\ UpdateRequestResourceField(d) = {} /\ UpdateRequestResourceRequired(d) = {}
      /\ UpdateResponseMessageName(d) = {}
  BY UnionEmpty, Zenon DEF UpdateAdvice
<1>2. IsUpdateRequestMessage(d.in) /\ d.in[2] = d.noun
  <2>1. d.in = <<d.verb, d.noun, "Request">>
    BY <1>1, WhenEmpty, MatchingRequest, Zenon DEF UpdateRequestMessageName
  <2> QED
    BY <2>1, SMT DEF IsUpdateRequestMessage, IsUpdateMethod
<1>3. HasField(d, "path") /\ HasField(d, "update_mask")
  BY <1>1, <1>2, WhenEmpty, FieldAsked, Zenon DEF UpdateRequestPathRequired, UpdateRequestMaskRequired
<1>4. HasField(d, f) /\ d.fields[f].type = Bare(d.noun)
  <2>1. PICK g \in DOMAIN d.fields : d.fields[g].type = Bare(d.noun)
    BY <1>1, <1>2, WhenEmpty, AdviceEmpty, Zenon DEF UpdateRequestResourceRequired
  <2>2. g = f
    BY <1>1, <1>2, <2>1, WhenEmpty, Zenon DEF UpdateRequestResourceField
  <2> QED
    BY <2>1, <2>2, Zenon DEF HasField
<1>5. \A k \in DOMAIN d.http : d.http[k].body = f
  BY <1>1, WhenEmpty, BodyAsked, Zenon DEF UpdateHTTPBody
<1>6. d.signatures # <<>> /\ d.signatures[1] = <<f, "update_mask">>
  BY <1>1, WhenEmpty, SignatureAsked, Zenon DEF UpdateMethodSignature
<1>7. ASSUME d.out # NoName PROVE GetResponseType(d) = Bare(d.noun)
  <2>1. ResponseTypeOf(d) \in {Bare(d.noun), NoName}
    BY <1>1, WhenEmpty, AdviceEmpty, Zenon DEF UpdateResponseMessageName
  <2>2. CASE d.out # Operation
    BY <1>7, <2>1, <2>2, Zenon DEF ResponseTypeOf, GetResponseType
  <2>3. CASE d.out = Operation
    <3>1. LroAnnotationExists(d) = {} /\ LroResponse(d) = {} /\ LroResponseReachable(d) = {}
      BY UnionEmpty, Zenon DEF OperationAdvice
    <3>2. d.info.set
      BY <2>3, <3>1, WhenEmpty, AdviceEmpty, Zenon DEF LroAnnotationExists, IsLRO
    <3>3. IsAnnotatedLRO(d)
      BY <2>3, <3>2, Zenon DEF IsAnnotatedLRO, IsLRO
    <3>4. d.info.response # NoName
            /\ ~ (d.info.response = Empty /\ d.verb \notin {"Delete", "BatchDelete"})
      BY <3>1, <3>3, WhenEmpty, AdviceEmpty, Zenon DEF LroResponse
    <3>5. d.verb \notin {"Delete", "BatchDelete"}
      BY SMT DEF IsUpdateMethod
    <3>6. FindMessage(d, d.info.response)
      BY <3>1, <3>3, <3>4, <3>5, WhenEmpty, AdviceEmpty, Zenon DEF LroResponseReachable, CheckReachable
    <3> QED
      BY <2>1, <2>3, <3>2, <3>4, <3>6, Zenon
         DEF ResponseTypeOf, GetResponseType, GetOperationResponseType
  <2> QED
    BY <2>2, <2>3
<1> QED
  BY <1>3, <1>4, <1>5, <1>6, <1>7, Zenon

LEMMA CleanDelete ==
  ASSUME NEW d, DeleteAdvice(d) = {}, IsDeleteMethod(d)
  PROVE  /\ HasField(d, "path")
         /\ \A k \in DOMAIN d.http : d.http[k].body = ""
         /\ d.signatures # <<>> /\ ToSet(d.signatures[1]) \subseteq DOMAIN d.fields
<1> DEFINE named(f) == IF HasField(d, f) THEN <<f>> ELSE <<>>
           fields == <<"path">> \o named("etag") \o named("force")
           first == ToSet(d.signatures[1])
<1>1. /\ DeleteHTTPBody(d) = {} /\ DeleteMethodSignature(d) = {} /\ DeleteRequestMessageName(d) = {}
      /\ DeleteRequestPathRequired(d) = {}
  BY UnionEmpty, Zenon DEF DeleteAdvice
<1>2. IsDeleteRequestMessage(d.in)
  <2>1. d.in = <<d.verb, d.noun, "Request">>
    BY <1>1, WhenEmpty, MatchingRequest, Zenon DEF DeleteRequestMessageName
  <2> QED
    BY <2>1, SMT DEF IsDeleteRequestMessage, IsDeleteMethod
<1>3. HasField(d, "path")
  BY <1>1, <1>2, WhenEmpty, FieldAsked, Zenon DEF DeleteRequestPathRequired
<1>4. \A k \in DOMAIN d.http : d.http[k].body = ""
  BY <1>1, WhenEmpty, BodyAsked, Zenon DEF DeleteHTTPBody
<1>5. ToSet(fields) \subseteq DOMAIN d.fields
  BY <1>3, SMT DEF ToSet, HasField
<1>6. d.signatures # <<>> /\ first \subseteq ToSet(fields)
  <2>1. CASE d.signatures = <<>> \/ ~ (first \subseteq ToSet(fields) /\ "path" \in first)
    <3>1. LintSignature(d, fields) = {}
      BY <1>1, <2>1, WhenEmpty, Zenon DEF DeleteMethodSignature
    <3> HIDE DEF fields
    <3>2. d.signatures # <<>> /\ d.signatures[1] = fields
      BY <3>1, SignatureAsked, Zenon
    <3> QED
      BY <3>2, Zenon
  <2> QED
    BY <2>1, Zenon
<1> QED
  BY <1>3, <1>4, <1>5, <1>6, Zenon

LEMMA CleanUndelete ==
  ASSUME NEW d, UndeleteAdvice(d) = {}, IsUndeleteMethod(d) PROVE HasField(d, "name")
<1>1. UndeleteRequestMessageName(d) = {} /\ UndeleteRequestNameField(d) = {}
  BY UnionEmpty, Zenon DEF UndeleteAdvice
<1>2. IsUndeleteRequestMessage(d.in)
  <2>1. d.in = <<d.verb, d.noun, "Request">>
    BY <1>1, WhenEmpty, MatchingRequest, Zenon DEF UndeleteRequestMessageName
  <2> QED
    BY <2>1, SMT DEF IsUndeleteRequestMessage, IsUndeleteMethod
<1> QED
  BY <1>1, <1>2, WhenEmpty, FieldAsked, Zenon DEF UndeleteRequestNameField

-----------------------------------------------------------------------------

LEMMA StandardVerbs ==
  ASSUME NEW d
  PROVE  /\ IsGetMethod(d) => d.verb = "Get"
         /\ IsListMethod(d) => d.verb = "List"
         /\ IsCreateMethod(d) => d.verb = "Create"
         /\ IsUpdateMethod(d) => d.verb = "Update"
         /\ IsDeleteMethod(d) => d.verb = "Delete"
         /\ IsUndeleteMethod(d) => d.verb = "Undelete"
BY Zenon DEF IsGetMethod, IsListMethod, IsCreateMethod, IsUpdateMethod, IsDeleteMethod, IsUndeleteMethod

LEMMA AskedAreFields ==
  ASSUME NEW d, Clean("method", d) PROVE AskedVariables(d) \subseteq DOMAIN d.fields
<1>1. CASE IsGetMethod(d) \/ IsUpdateMethod(d) \/ IsDeleteMethod(d)
  <2>1. AskedVariables(d) = {"path"}
    BY <1>1, StandardVerbs, SMT DEF AskedVariables
  <2> QED
    BY <1>1, <2>1, CleanMethod, CleanGet, CleanUpdate, CleanDelete, Zenon DEF HasField
<1>2. CASE IsCreateMethod(d)
  <2>1. AskedVariables(d) = IF HasNoParent(d, GetResponseType(d)) THEN {} ELSE {"parent"}
    BY <1>2, StandardVerbs, SMT DEF AskedVariables
  <2>2. HasNoParent(d, GetResponseType(d)) \/ HasField(d, "parent")
    BY <1>2, CleanMethod, CleanCreate, Zenon
  <2> QED
    BY <2>1, <2>2, Zenon DEF HasField
<1>3. CASE IsUndeleteMethod(d)
  <2>1. AskedVariables(d) = {"name"}
    BY <1>3, StandardVerbs, SMT DEF AskedVariables
  <2> QED
    BY <1>3, <2>1, CleanMethod, CleanUndelete, Zenon DEF HasField
<1> QED
  BY <1>1, <1>2, <1>3, Zenon DEF AskedVariables

LEMMA BodiesAreFields ==
  ASSUME NEW d, Clean("method", d), IsStandardMethod(d), NEW k \in DOMAIN d.http
  PROVE  d.http[k].body \in DOMAIN d.fields \cup {""}
<1>1. CASE IsGetMethod(d) \/ IsListMethod(d) \/ IsDeleteMethod(d)
  BY <1>1, CleanMethod, CleanGet, CleanList, CleanDelete, Zenon
<1>2. CASE IsCreateMethod(d)
  BY <1>2, CleanMethod, CleanCreate, Zenon DEF HasField
<1>3. CASE IsUpdateMethod(d)
  BY <1>3, CleanMethod, CleanUpdate, Zenon DEF HasField
<1> QED
  BY <1>1, <1>2, <1>3, Zenon DEF IsStandardMethod

LEMMA SignatureIsOfFields ==
  ASSUME NEW d, Clean("method", d), IsStandardMethod(d), IsListMethod(d) => HasField(d, "parent")
  PROVE  /\ d.signatures # <<>>
         /\ ToSet(d.signatures[1]) \subseteq
              DOMAIN d.fields \cup
                IF /\ IsCreateMethod(d) /\ d.out = Operation
                   /\ HasNoParent(d, GetResponseType(d)) THEN {"parent"} ELSE {}
<1>1. CASE IsGetMethod(d) \/ IsListMethod(d)
  <2>1. PICK f \in DOMAIN d.fields : d.signatures # <<>> /\ d.signatures[1] = <<f>>
    BY <1>1, CleanMethod, CleanGet, CleanList, Zenon DEF HasField
  <2> QED
    BY <2>1, SMT DEF ToSet
<1>2. CASE IsDeleteMethod(d)
  BY <1>2, CleanMethod, CleanDelete, Zenon
<1>3. CASE IsUpdateMethod(d)
  <2>1. /\ d.signatures # <<>> /\ d.signatures[1] = <<Snake[d.noun], "update_mask">>
        /\ Snake[d.noun] \in DOMAIN d.fields /\ "update_mask" \in DOMAIN d.fields
    BY <1>3, CleanMethod, CleanUpdate, Zenon DEF HasField
  <2> QED
    BY <2>1, SMT DEF ToSet
<1>4. CASE IsCreateMethod(d)
  <2> DEFINE name == GetResourceMessageName(d)
             parent == IF HasNoParent(d, d.out) THEN <<>> ELSE <<"parent">>
             id == IF HasField(d, IdField[name]) THEN <<IdField[name]>> ELSE <<>>
  <2>1. d.signatures # <<>> /\ d.signatures[1] = parent \o <<Snake[name]>> \o id
    BY <1>4, CleanMethod, CleanCreate, SignatureAsked, Zenon
  <2>2. Snake[name] \in DOMAIN d.fields
    BY <1>4, CleanMethod, CleanCreate, Zenon DEF HasField
  <2>3. \/ HasNoParent(d, d.out)
        \/ "parent" \in DOMAIN d.fields
        \/ d.out = Operation /\ HasNoParent(d, GetResponseType(d))
    BY <1>4, CleanMethod, CleanCreate, Zenon DEF HasField, GetResponseType
  <2>4. ToSet(parent \o <<Snake[name]>> \o id) \subseteq
          {Snake[name]} \cup (IF HasNoParent(d, d.out) THEN {} ELSE {"parent"})
                        \cup (IF HasField(d, IdField[name]) THEN {IdField[name]} ELSE {})
    BY SMT DEF ToSet
  <2> HIDE DEF name, parent, id
  <2> QED
    BY <1>4, <2>1, <2>2, <2>3, <2>4, SMT DEF HasField
<1> QED
  BY <1>1, <1>2, <1>3, <1>4, Zenon DEF IsStandardMethod

(* In a method without problems, what the rules ask of its annotations are *)
(* fields of the request, whatever the method, its messages and the texts. *)
THEOREM CallableWhenClean == Spec => []CleanIsCallable
<1>1. CleanIsCallable
  <2> SUFFICES ASSUME kind = "method", Clean("method", design) PROVE CleanIsCallable
    BY Zenon DEF CleanIsCallable
  <2>1. AskedVariables(design) \subseteq DOMAIN design.fields
    BY AskedAreFields, Zenon
  <2>2. IsStandardMethod(design) =>
          \A k \in DOMAIN design.http : design.http[k].body \in DOMAIN design.fields \cup {""}
    BY BodiesAreFields, Zenon
  <2> QED
    BY <2>1, <2>2, SignatureIsOfFields, Zenon DEF CleanIsCallable
<1> QED
  BY <1>1, PTL

(* In a method without problems the body and the references are those of   *)
(* the message that comes back.                                            *)
THEOREM ResourceKnownWhenClean == Spec => []CleanKnowsItsResource
<1>1. CleanKnowsItsResource
  <2> SUFFICES ASSUME kind = "method", Clean("method", design), design.out # NoName,
                      IsStandardMethod(design)
               PROVE  CleanKnowsItsResource
    BY Zenon DEF CleanKnowsItsResource
  <2> DEFINE parent == design.fields["parent"]
             created == GetResponseType(design)
  <2>1. ASSUME NEW k \in DOMAIN design.http, design.http[k].body # ""
        PROVE  design.fields[design.http[k].body].type = created
    <3>1. CASE IsCreateMethod(design)
      BY <3>1, CleanMethod, CleanCreate, Zenon
    <3>2. CASE IsUpdateMethod(design)
      BY <3>2, CleanMethod, CleanUpdate, Zenon
    <3> QED
      BY <2>1, <3>1, <3>2, CleanMethod, CleanGet, CleanList, CleanDelete, Zenon DEF IsStandardMethod
  <2>2. HasField(design, "parent") /\ IsCreateMethod(design) =>
          (IsResource(design, created) /\ HasReference(parent) => References(parent, created[2]))
    BY CleanMethod, CleanCreate, Zenon
  <2>3. HasField(design, "parent") /\ IsListMethod(design) /\ design.noun \notin Revisions =>
          \A n \in DOMAIN design.patterns :
            Bare(n) \in GetRepeatedMessages(design)
              => parent.childTypes # <<>> /\ parent.childTypes[1] = n
    BY CleanMethod, CleanList, Zenon
  <2> QED
    BY <2>1, <2>2, <2>3, Zenon DEF CleanKnowsItsResource
<1> QED
  BY <1>1, PTL

-----------------------------------------------------------------------------

(* The rules of an API, when none complains.                               *)

LEMMA ImagesEmpty ==
  ASSUME NEW d, UNION {{SetMethod(d, m, n) : n \in URIAdvice(d, m)} : m \in d.methods} = {},
         NEW m \in d.methods
  PROVE  URIAdvice(d, m) = {}
OBVIOUS

LEMMA ResourceImagesEmpty ==
  ASSUME NEW d,
         UNION {{SetResource(d, n, m) :
                   m \in ResourceAdvice(d.resources[n]) \cup FieldAdvice(d.resources[n])} :
                  n \in DOMAIN d.resources} = {},
         NEW n \in DOMAIN d.resources
  PROVE  ResourceAdvice(d.resources[n]) = {}
OBVIOUS

LEMMA TemplatesEmpty ==
  ASSUME NEW d, NEW m,
         UNION {{SetTemplate(d, m, n, k) : k \in Unmatched(d, m, n)} :
                  n \in FindResource(d, m.reference)} = {},
         NEW n \in FindResource(d, m.reference)
  PROVE  Unmatched(d, m, n) = {}
OBVIOUS

LEMMA MatchedWhenClean ==
  ASSUME NEW d, NEW m, HTTPTemplatePattern(d, m) = {}, NEW n \in FindResource(d, m.reference)
  PROVE  Unmatched(d, m, n) = {}
BY TemplatesEmpty, Zenon DEF HTTPTemplatePattern

LEMMA CleanAPI ==
  ASSUME NEW d, Clean("api", d)
  PROVE  /\ ResourceMustSupportGet(d) = {} /\ ResourceMustSupportList(d) = {}
         /\ DuplicateResource(d) = {}
         /\ \A m \in d.methods : URIAdvice(d, m) = {}
         /\ \A n \in DOMAIN d.resources : ResourceAdvice(d.resources[n]) = {}
<1>1. APIAdvice(d) = {}
  BY DEF Clean, Reported
<1>2. /\ ResourceMustSupportGet(d) = {} /\ ResourceMustSupportList(d) = {}
      /\ DuplicateResource(d) = {}
      /\ UNION {{SetMethod(d, m, n) : n \in URIAdvice(d, m)} : m \in d.methods} = {}
      /\ UNION {{SetResource(d, n, m) :
                   m \in ResourceAdvice(d.resources[n]) \cup FieldAdvice(d.resources[n])} :
                  n \in DOMAIN d.resources} = {}
  BY <1>1, UnionEmpty, Zenon DEF APIAdvice
<1> QED
  BY <1>2, ImagesEmpty, ResourceImagesEmpty, Zenon

(* A type is that of one message.                                          *)
LEMMA OneOfEachType ==
  ASSUME NEW d, DuplicateResource(d) = {}, NEW n, IsTyped(d, n)
  PROVE  OfType(d, TypeOf(d, n)) = {n}
BY Zenon DEF DuplicateResource, IsTyped

LEMMA SupportedGet ==
  ASSUME NEW d, DuplicateResource(d) = {}, ResourceMustSupportGet(d) = {},
         NEW m \in Unary(d, {"Create", "Update", "List"})
  PROVE  \E n \in Unary(d, {"Get"}) : n.out = m.out /\ ~ n.operation
<1>1. IsTyped(d, m.out) /\ m.out \in OfType(d, TypeOf(d, m.out))
  BY Zenon DEF Unary, OfType, IsTyped
<1>2. TypeOf(d, m.out) \in TypesOf(d, {n \in Unary(d, {"Get"}) : ~ n.operation})
  <2>1. TypeOf(d, m.out) \in TypesOf(d, Unary(d, {"Create", "Update", "List"}))
    BY Zenon DEF TypesOf
  <2> SUFFICES ASSUME TypeOf(d, m.out) \notin TypesOf(d, {n \in Unary(d, {"Get"}) : ~ n.operation})
               PROVE  FALSE
    OBVIOUS
  <2> DEFINE wanted == TypesOf(d, Unary(d, {"Create", "Update", "List"}))
                       \ TypesOf(d, {n \in Unary(d, {"Get"}) : ~ n.operation})
  <2>2. TypeOf(d, m.out) \in wanted
    BY <2>1
  <2>3. UNION {{AddMethod(d, "Get", n) : n \in OfType(d, t)} : t \in wanted} = {}
    BY Zenon DEF ResourceMustSupportGet
  <2> HIDE DEF wanted
  <2>4. OfType(d, TypeOf(d, m.out)) = {}
    BY <2>2, <2>3
  <2> QED
    BY <1>1, <2>4
<1>3. PICK n \in Unary(d, {"Get"}) : TypeOf(d, n.out) = TypeOf(d, m.out) /\ ~ n.operation
  BY <1>2, Zenon DEF TypesOf
<1>4. n.out \in OfType(d, TypeOf(d, m.out))
  BY <1>3, Zenon DEF Unary, OfType, IsTyped
<1>5. OfType(d, TypeOf(d, m.out)) = {m.out}
  BY <1>1, OneOfEachType, Zenon
<1> QED
  BY <1>3, <1>4, <1>5, Zenon

LEMMA SupportedList ==
  ASSUME NEW d, DuplicateResource(d) = {}, ResourceMustSupportList(d) = {},
         NEW m \in Unary(d, {"Create", "Update", "Get"}), ~ IsSingleton(d.resources[m.out])
  PROVE  \E n \in Unary(d, {"List"}) : n.out = m.out
<1>1. IsTyped(d, m.out) /\ m.out \in OfType(d, TypeOf(d, m.out))
  BY Zenon DEF Unary, OfType, IsTyped
<1>2. TypeOf(d, m.out) \in TypesOf(d, Unary(d, {"List"}))
  <2> DEFINE several == {n \in Unary(d, {"Create", "Update", "Get"}) :
                           ~ IsSingleton(d.resources[n.out])}
  <2>1. TypeOf(d, m.out) \in TypesOf(d, several)
    BY Zenon DEF TypesOf
  <2> SUFFICES ASSUME TypeOf(d, m.out) \notin TypesOf(d, Unary(d, {"List"})) PROVE FALSE
    OBVIOUS
  <2> DEFINE wanted == TypesOf(d, several) \ TypesOf(d, Unary(d, {"List"}))
  <2>2. TypeOf(d, m.out) \in wanted
    BY <2>1
  <2>3. UNION {{AddMethod(d, "List", n) : n \in OfType(d, t)} : t \in wanted} = {}
    BY Zenon DEF ResourceMustSupportList
  <2> HIDE DEF wanted
  <2>4. OfType(d, TypeOf(d, m.out)) = {}
    BY <2>2, <2>3
  <2> QED
    BY <1>1, <2>4
<1>3. PICK n \in Unary(d, {"List"}) : TypeOf(d, n.out) = TypeOf(d, m.out)
  BY <1>2, Zenon DEF TypesOf
<1>4. n.out \in OfType(d, TypeOf(d, m.out))
  BY <1>3, Zenon DEF Unary, OfType, IsTyped
<1>5. OfType(d, TypeOf(d, m.out)) = {m.out}
  BY <1>1, OneOfEachType, Zenon
<1> QED
  BY <1>3, <1>4, <1>5, Zenon

(* In an API without problems, every resource that a method makes, changes *)
(* or finds can be got, and every one that is no singleton listed.         *)
THEOREM CompleteWhenClean == Spec => []CleanServiceIsComplete
<1>1. CleanServiceIsComplete
  <2> SUFFICES ASSUME kind = "api", Clean("api", design),
                      NEW m \in Unary(design, {"Get", "List", "Create", "Update"})
               PROVE  /\ m.verb # "Get" =>
                           \E n \in Unary(design, {"Get"}) : n.out = m.out /\ ~ n.operation
                      /\ ~ IsSingleton(design.resources[m.out]) =>
                           \E n \in Unary(design, {"List"}) : n.out = m.out
    BY Zenon DEF CleanServiceIsComplete
  <2>1. ASSUME m.verb # "Get"
        PROVE  \E n \in Unary(design, {"Get"}) : n.out = m.out /\ ~ n.operation
    <3>1. m \in Unary(design, {"Create", "Update", "List"})
      BY <2>1, Zenon DEF Unary
    <3> QED
      BY <3>1, CleanAPI, SupportedGet, Zenon
  <2>2. ASSUME ~ IsSingleton(design.resources[m.out])
        PROVE  \E n \in Unary(design, {"List"}) : n.out = m.out
    <3>1. CASE m.verb = "List"
      BY <3>1, Zenon DEF Unary
    <3>2. CASE m.verb # "List"
      <4>1. m \in Unary(design, {"Create", "Update", "Get"})
        BY <3>2, Zenon DEF Unary
      <4> QED
        BY <2>2, <4>1, CleanAPI, SupportedList, Zenon
    <3> QED
      BY <3>1, <3>2
  <2> QED
    BY <2>1, <2>2, Zenon
<1> QED
  BY <1>1, PTL

-----------------------------------------------------------------------------

(* The rules that stop at the first HTTP rule or pattern with a problem    *)
(* need a first one: HTTP rules are numbered, whatever advice is followed. *)

HasRules(m) == "http" \in DOMAIN m /\ DOMAIN m.http \subseteq Nat

LEMMA RuleSet == ASSUME NEW m, HasRules(m), NEW k, NEW h PROVE HasRules(SetRule(m, k, h))
BY DEF HasRules, SetRule

LEMMA RulesSet ==
  ASSUME NEW m, HasRules(m), NEW part, NEW value PROVE HasRules(SetHTTP(m, part, value))
BY DEF HasRules, SetHTTP

LEMMA AdviceGives == ASSUME NEW problem, NEW fixed, NEW x \in Advice(problem, fixed) PROVE x = fixed
BY DEF Advice

LEMMA WhenGives == ASSUME NEW applies, NEW advice, NEW x \in When(applies, advice) PROVE x \in advice
BY DEF When

LEMMA URIAdviceHasRules ==
  ASSUME NEW d, NEW m, HasRules(m), NEW n \in URIAdvice(d, m) PROVE HasRules(n)
<1>1. CASE n \in HasAnnotation(m)
  <2>1. PICK h : n = [m EXCEPT !.http = h] /\ (h = <<>> \/ h = <<StandardRule(m.verb, m.noun)>>)
    BY <1>1, AdviceGives, Zenon DEF HasAnnotation
  <2> QED
    BY <2>1, SMT DEF HasRules
<1>2. CASE n \in LeadingSlash(m)
  BY <1>2, RuleSet, Zenon DEF LeadingSlash
<1>3. CASE n \in HTTPTemplateSyntax(m)
  BY <1>3, RuleSet, Zenon DEF HTTPTemplateSyntax
<1>4. CASE n \in ResourcePathExtraction(m)
  BY <1>4, RuleSet, Zenon DEF ResourcePathExtraction
<1>5. CASE n \in HTTPTemplatePattern(d, m)
  <2>1. \E k, h : n = SetRule(m, k, h)
    BY <1>5 DEF HTTPTemplatePattern, SetTemplate
  <2> QED
    BY <2>1, RuleSet, Zenon
<1>6. CASE n \in KebabCaseURIs(m)
  BY <1>6, RuleSet, Zenon DEF KebabCaseURIs
<1>7. CASE n \in HardcodedHyphen(m)
  BY <1>7, RuleSet, Zenon DEF HardcodedHyphen
<1>8. CASE n \in AddRemoveHTTPBody(m)
  <2>1. n \in LintHTTPBody(m, "*")
    BY <1>8, WhenGives, Zenon DEF AddRemoveHTTPBody
  <2>2. n = SetHTTP(m, "body", "*")
    BY <2>1, AdviceGives, Zenon DEF LintHTTPBody
  <2> QED
    BY <2>2, RulesSet, Zenon
<1>9. CASE n \in AddRemoveHTTPMethod(m)
  <2>1. n \in LintHTTPMethod(m, "POST")
    BY <1>9, WhenGives, Zenon DEF AddRemoveHTTPMethod
  <2>2. n = SetHTTP(m, "verb", "POST")
    BY <2>1, AdviceGives, Zenon DEF LintHTTPMethod
  <2> QED
    BY <2>2, RulesSet, Zenon
<1> QED
  BY <1>1, <1>2, <1>3, <1>4, <1>5, <1>6, <1>7, <1>8, <1>9, Zenon DEF URIAdvice

LEMMA MethodsSet ==
  ASSUME NEW d, IsAPI(d), NEW methods, \A m \in methods : HasRules(m)
  PROVE  IsAPI([d EXCEPT !.methods = methods])
BY DEF IsAPI, HasRules

LEMMA ResourcesSet == ASSUME NEW d, IsAPI(d), NEW n, NEW m PROVE IsAPI(SetResource(d, n, m))
BY DEF IsAPI, SetResource

LEMMA MethodAdded == ASSUME NEW d, IsAPI(d), NEW verb, NEW noun PROVE IsAPI(AddMethod(d, verb, noun))
<1>1. HasRules(StandardMethod(verb, noun, TypeOf(d, noun)))
  BY SMT DEF HasRules, StandardMethod
<1>2. \A m \in d.methods : HasRules(m)
  BY DEF IsAPI, HasRules
<1> QED
  BY <1>1, <1>2, MethodsSet, Zenon DEF AddMethod

LEMMA APIStaysAPI == ASSUME NEW d, IsAPI(d), NEW e \in APIAdvice(d) PROVE IsAPI(e)
<1> USE DEF HasRules
<1>0. \A m \in d.methods : HasRules(m)
  BY DEF IsAPI
<1> HIDE DEF HasRules
<1>1. CASE e \in ResourceMustSupportGet(d)
  <2>1. \E n : e = AddMethod(d, "Get", n)
    BY <1>1 DEF ResourceMustSupportGet
  <2> QED
    BY <2>1, MethodAdded, Zenon
<1>2. CASE e \in ResourceMustSupportList(d)
  <2>1. \E n : e = AddMethod(d, "List", n)
    BY <1>2 DEF ResourceMustSupportList
  <2> QED
    BY <2>1, MethodAdded, Zenon
<1>3. CASE e \in DuplicateResource(d)
  BY <1>3, ResourcesSet, Zenon DEF DuplicateResource
<1>4. CASE e \in ForbiddenMethods(d)
  <2>1. PICK m : e = [d EXCEPT !.methods = d.methods \ {m}]
    BY <1>4, Zenon DEF ForbiddenMethods
  <2> QED
    BY <1>0, <2>1, MethodsSet, Zenon
<1>5. CASE e \in UNION {{SetMethod(d, m, n) : n \in URIAdvice(d, m)} : m \in d.methods}
  <2>1. PICK m \in d.methods : \E n \in URIAdvice(d, m) : e = SetMethod(d, m, n)
    BY <1>5, Zenon
  <2>2. PICK n \in URIAdvice(d, m) : e = SetMethod(d, m, n)
    BY <2>1
  <2>3. HasRules(n)
    BY <1>0, <2>1, URIAdviceHasRules, Zenon
  <2> QED
    BY <1>0, <2>2, <2>3, MethodsSet, Zenon DEF SetMethod
<1>6. CASE e \in UNION {{SetResource(d, n, m) :
                           m \in ResourceAdvice(d.resources[n]) \cup FieldAdvice(d.resources[n])} :
                          n \in DOMAIN d.resources}
  BY <1>6, ResourcesSet, Zenon
<1> QED
  BY <1>1, <1>2, <1>3, <1>4, <1>5, <1>6, Zenon DEF APIAdvice

LEMMA SomeIsFirst ==
  ASSUME NEW S \in SUBSET Nat, S # {}
  PROVE  \E k \in S : \A l \in S : k <= l
<1>1. PICK k \in S : \A l \in S : <<l, k>> \notin OpToRel(<, Nat)
  BY NatLessThanWellFounded, WFMin
<1>2. \A l \in Nat : l < k <=> <<l, k>> \in OpToRel(<, Nat)
  BY DEF OpToRel
<1>3. \A l \in S : ~ (l < k)
  BY <1>1, <1>2
<1> QED
  BY <1>3

LEMMA NoneIsFirst == ASSUME NEW S \in SUBSET Nat, FirstOf(S) = {} PROVE S = {}
BY SomeIsFirst, Zenon DEF FirstOf

(* A URI that no rule of AEP-127 or AEP-122 complains of is in kebab case. *)
LEMMA KebabWhenClean ==
  ASSUME NEW d, NEW m, HasRules(m), URIAdvice(d, m) = {}, NEW k \in DOMAIN m.http,
         NEW s \in ToSet(PlainURI(m.http[k]))
  PROVE  IsKebab(s)
<1>1. HTTPTemplateSyntax(m) = {} /\ KebabCaseURIs(m) = {}
  BY UnionEmpty, Zenon DEF URIAdvice
<1>2. PICK i \in DOMAIN PlainURI(m.http[k]) : s = PlainURI(m.http[k])[i]
  BY Zenon DEF ToSet
<1>3. ~ Uses(m.http[k], (Upper \cup Capital \cup Spaced) \ {"*", "**"})
  BY <1>1, Zenon DEF HTTPTemplateSyntax
<1>4. ~ Uses(m.http[k], Upper \cup Underscored)
  <2> DEFINE wrong == {l \in DOMAIN m.http :
                         Uses(m.http[l], Upper \cup Underscored) \/ m.http[l].var \in Upper}
  <2>1. FirstOf(wrong) = {}
    BY <1>1, Zenon DEF KebabCaseURIs
  <2>2. wrong = {}
    BY <2>1, NoneIsFirst DEF HasRules
  <2> QED
    BY <2>2, Zenon
<1> QED
  BY <1>2, <1>3, <1>4, TextAssumption, Zenon DEF Uses, IsKebab

LEMMA ResourceWhenClean ==
  ASSUME NEW r, ResourceAdvice(r) = {}, Annotated(r) \/ IsResourceMessage(r)
  PROVE  /\ HasType(r)
         /\ \A k \in DOMAIN r.annotation.patterns : Alternates(r.annotation.patterns[k])
<1>1. /\ ResourceAnnotation(r) = {} /\ ResourceTypeName(r) = {}
      /\ ResourceNameComponentsAlternate(r) = {}
  <2>1. ResourceAnnotation(r) = {} /\ ResourceTypeName(r) = {} /\ PatternAdvice(r) = {}
    BY UnionEmpty, Zenon DEF ResourceAdvice
  <2> QED
    BY <2>1, UnionEmpty, Zenon DEF PatternAdvice
<1>2. Annotated(r)
  BY <1>1, WhenEmpty, AdviceEmpty, Zenon DEF ResourceAnnotation
<1>3. SplitsInTwo(r.annotation.type)
  BY <1>1, <1>2, WhenEmpty, Zenon DEF ResourceTypeName
<1>4. HasType(r)
  <2>1. r.annotation.type # <<"">>
    <3>1. Len(<<"">>) # 2
      OBVIOUS
    <3> QED
      BY <1>3, <3>1, Zenon DEF SplitsInTwo
  <2> QED
    BY <1>2, <2>1, Zenon DEF HasType
<1>5. \A k \in DOMAIN r.annotation.patterns : Alternates(r.annotation.patterns[k])
  BY <1>1, <1>4, WhenEmpty, Zenon DEF ResourceNameComponentsAlternate
<1> QED
  BY <1>4, <1>5

APITypeOK == kind = "api" => IsAPI(design)

LEMMA APITypeCorrect == Spec => []APITypeOK
<1>1. Init => APITypeOK
  BY DraftsAssumption, Zenon DEF Init, APITypeOK
<1>2. APITypeOK /\ [Next]_vars => APITypeOK'
  <2> SUFFICES ASSUME APITypeOK, [Next]_vars, kind' = "api" PROVE IsAPI(design')
    BY DEF APITypeOK
  <2>1. CASE Next
    <3>1. kind = "api" /\ design' \in APIAdvice(design)
      BY <2>1 DEF Next, Reported
    <3> QED
      BY <3>1, APIStaysAPI DEF APITypeOK
  <2>2. CASE UNCHANGED vars
    BY <2>2 DEF vars, APITypeOK
  <2> QED
    BY <2>1, <2>2
<1> QED
  BY <1>1, <1>2, PTL DEF Spec

(* In an API without problems the rules on a resource's patterns and those *)
(* on the URIs whose variables refer to its type agree, for any APIs and   *)
(* any texts: a reference that resolves has been looked at, since no two   *)
(* resources have the type, and every URI is in kebab case whether its     *)
(* reference resolves or not.                                              *)
THEOREM AddressableWhenClean == Spec => []CleanIsAddressable
<1>1. APITypeOK => CleanIsAddressable
  <2> SUFFICES ASSUME APITypeOK, kind = "api", Clean("api", design), NEW m \in design.methods
               PROVE  /\ m.http = <<>> <=> m.streaming = "both"
                      /\ \A k \in DOMAIN m.http : \A s \in ToSet(PlainURI(m.http[k])) : IsKebab(s)
                      /\ \A n \in DOMAIN design.resources :
                           LET a == design.resources[n].annotation
                           IN  Annotated(design.resources[n]) /\ a.type = m.reference =>
                                 \A k \in {l \in DOMAIN m.http : m.http[l].var # ""} :
                                   \E i \in DOMAIN a.patterns :
                                     /\ Alternates(a.patterns[i])
                                     /\ Matches(m.http[k].template, a.patterns[i])
    BY Zenon DEF CleanIsAddressable
  <2>1. URIAdvice(design, m) = {} /\ HasRules(m)
    BY CleanAPI DEF APITypeOK, IsAPI, HasRules
  <2>2. HasAnnotation(m) = {} /\ HTTPTemplatePattern(design, m) = {}
    BY <2>1, UnionEmpty, Zenon DEF URIAdvice
  <2>3. m.http = <<>> <=> m.streaming = "both"
    BY <2>2, AdviceEmpty, Zenon DEF HasAnnotation
  <2>4. \A k \in DOMAIN m.http : \A s \in ToSet(PlainURI(m.http[k])) : IsKebab(s)
    BY <2>1, KebabWhenClean, Zenon
  <2>5. ASSUME NEW n \in DOMAIN design.resources, Annotated(design.resources[n]),
               TypeOf(design, n) = m.reference, NEW k \in DOMAIN m.http, m.http[k].var # ""
        PROVE  \E i \in DOMAIN design.resources[n].annotation.patterns :
                 /\ Alternates(design.resources[n].annotation.patterns[i])
                 /\ Matches(m.http[k].template, design.resources[n].annotation.patterns[i])
    <3> DEFINE patterns == design.resources[n].annotation.patterns
    <3>1. HasType(design.resources[n]) /\ \A i \in DOMAIN patterns : Alternates(patterns[i])
      BY <2>5, CleanAPI, ResourceWhenClean, Zenon
    <3>2. FindResource(design, m.reference) = {n}
      <4>1. IsTyped(design, n)
        BY <3>1, Zenon DEF IsTyped
      <4>2. OfType(design, m.reference) = {n}
        BY <2>5, <4>1, CleanAPI, OneOfEachType, Zenon
      <4>3. {l \in OfType(design, m.reference) : Annotated(design.resources[l])} = {n}
        BY <2>5, <4>2
      <4>4. (CHOOSE l \in {n} : TRUE) = n
        OBVIOUS
      <4>5. {n} # {}
        OBVIOUS
      <4> QED
        BY <4>3, <4>4, <4>5, Zenon DEF FindResource
    <3>3. Unmatched(design, m, n) = {}
      BY <2>2, <3>2, MatchedWhenClean, Zenon
    <3>4. AnyMatch(m.http[k].template, patterns)
      BY <2>5, <3>3, Zenon DEF Unmatched
    <3> QED
      BY <3>1, <3>4, Zenon DEF AnyMatch
  <2> QED
    BY <2>3, <2>4, <2>5, Zenon DEF TypeOf
<1> QED
  BY <1>1, APITypeCorrect, PTL

-----------------------------------------------------------------------------

(* The elements of a file are a sequence, of whatever the advice has made  *)
(* of the elements of the draft.                                           *)
HasElements(f) == "elements" \in DOMAIN f /\ \E S : f.elements \in Seq(S)

FileTypeOK == kind = "file" => HasElements(design)

LEMMA ElementMoved ==
  ASSUME NEW S, NEW s \in Seq(S), NEW from \in 1..Len(s), NEW to \in 1..Len(s)
  PROVE  Move(s, from, to) \in Seq(S)
<1> DEFINE r == RemoveAt(s, from)
<1>1. r \in Seq(S) /\ Len(r) = Len(s) - 1
  <2> DEFINE before == SubSeq(s, 1, from - 1)
             after == SubSeq(s, from + 1, Len(s))
  <2>1. before \in Seq(S) /\ Len(before) = from - 1
    OBVIOUS
  <2>2. after \in Seq(S) /\ Len(after) = Len(s) - from
    OBVIOUS
  <2>3. r = before \o after
    BY DEF RemoveAt
  <2> HIDE DEF before, after, r
  <2>4. before \o after \in Seq(S) /\ Len(before \o after) = Len(before) + Len(after)
    BY <2>1, <2>2
  <2> QED
    BY <2>1, <2>2, <2>3, <2>4
<1> HIDE DEF r
<1>2. InsertAt(r, to, s[from]) \in Seq(S)
  BY <1>1 DEF InsertAt
<1> QED
  BY <1>2 DEF Move, r

LEMMA ElementsMoved ==
  ASSUME NEW f, HasElements(f), NEW from \in DOMAIN f.elements, NEW to \in DOMAIN f.elements
  PROVE  HasElements([f EXCEPT !.elements = Move(@, from, to)])
<1>1. PICK S : f.elements \in Seq(S)
  BY DEF HasElements
<1>2. Move(f.elements, from, to) \in Seq(S)
  BY <1>1, ElementMoved
<1> QED
  BY <1>2 DEF HasElements

LEMMA ElementSet ==
  ASSUME NEW f, HasElements(f), NEW k \in DOMAIN f.elements, NEW e
  PROVE  HasElements(SetElement(f, k, e))
<1>1. PICK S : f.elements \in Seq(S)
  BY DEF HasElements
<1>2. [f.elements EXCEPT ![k] = e] \in Seq(S \cup {e})
  BY <1>1
<1> QED
  BY <1>2 DEF HasElements, SetElement

LEMMA FirstIsFirst ==
  ASSUME NEW S \in SUBSET Nat, S # {}
  PROVE  First(S) \in S /\ \A k \in S : First(S) <= k
BY SomeIsFirst DEF First

LEMMA PlacesAreNumbers ==
  ASSUME NEW f, HasElements(f), NEW k
  PROVE  At(f, k) \in SUBSET Nat /\ At(f, k) \subseteq DOMAIN f.elements
BY DEF HasElements, At

LEMMA FileStaysFile ==
  ASSUME NEW f, HasElements(f), NEW g \in FileAdvice(f) PROVE HasElements(g)
<1>1. CASE g \in ServicesBeforeMessages(f)
  <2>1. At(f, "message") # {}
    BY <1>1 DEF ServicesBeforeMessages, When
  <2>2. First(At(f, "message")) \in DOMAIN f.elements
    BY <2>1, PlacesAreNumbers, FirstIsFirst
  <2>3. PICK k \in At(f, "service") :
          g = [f EXCEPT !.elements = Move(@, k, First(At(f, "message")))]
    BY <1>1 DEF ServicesBeforeMessages, When
  <2>4. k \in DOMAIN f.elements
    BY PlacesAreNumbers
  <2> QED
    BY <2>2, <2>3, <2>4, ElementsMoved
<1>2. CASE g \in MessagesBeforeEnums(f)
  <2>1. At(f, "enum") # {} /\ g = [f EXCEPT !.elements = Move(@, First(At(f, "enum")), Len(@))]
    BY <1>2 DEF MessagesBeforeEnums, When, Advice
  <2>2. First(At(f, "enum")) \in DOMAIN f.elements
    BY <2>1, PlacesAreNumbers, FirstIsFirst
  <2>3. Len(f.elements) \in DOMAIN f.elements
    BY <2>2 DEF HasElements
  <2> QED
    BY <2>1, <2>2, <2>3, ElementsMoved
<1>3. CASE g \in FileName(f) \cup ProtoPkg(f) \cup Syntax(f)
  BY <1>3 DEF FileName, ProtoPkg, Syntax, Advice, HasElements
<1>4. CASE \E k \in DOMAIN f.elements : \E e : g = SetElement(f, k, e)
  BY <1>4, ElementSet
<1> QED
  BY <1>1, <1>2, <1>3, <1>4 DEF FileAdvice, FileLayout

LEMMA FileTypeCorrect == Spec => []FileTypeOK
<1>1. Init => FileTypeOK
  BY DraftsAssumption DEF Init, FileTypeOK, HasElements, File
<1>2. FileTypeOK /\ [Next]_vars => FileTypeOK'
  <2> SUFFICES ASSUME FileTypeOK, [Next]_vars, kind' = "file" PROVE HasElements(design')
    BY DEF FileTypeOK
  <2>1. CASE Next
    <3>1. kind = "file" /\ design' \in FileAdvice(design)
      BY <2>1 DEF Next, Reported
    <3> QED
      BY <3>1, FileStaysFile DEF FileTypeOK
  <2>2. CASE UNCHANGED vars
    BY <2>2 DEF vars, FileTypeOK
  <2> QED
    BY <2>1, <2>2
<1> QED
  BY <1>1, <1>2, PTL DEF Spec

LEMMA InOrderWhenClean ==
  ASSUME NEW f, HasElements(f), FileLayout(f) = {}, At(f, "message") # {},
         NEW k \in At(f, "service"), NEW l \in At(f, "enum")
  PROVE  ~ IsBefore(f, l, k) \/ ~ IsShown(f, k) \/ ~ IsShown(f, First(At(f, "enum")))
<1> DEFINE message == First(At(f, "message"))
           enum == First(At(f, "enum"))
<1>1. /\ message \in At(f, "message") /\ enum \in At(f, "enum") /\ enum <= l
      /\ k \in Nat /\ l \in Nat /\ message \in Nat /\ enum \in Nat
  BY PlacesAreNumbers, FirstIsFirst
<1>2. ServicesBeforeMessages(f) = {} /\ MessagesBeforeEnums(f) = {}
  BY DEF FileLayout
<1> SUFFICES ASSUME IsShown(f, k), IsShown(f, enum) PROVE ~ IsBefore(f, l, k)
  OBVIOUS
<1>3. ~ IsBefore(f, message, k)
  BY <1>2, WhenEmpty, Zenon DEF ServicesBeforeMessages
<1>4. ~ IsBefore(f, enum, message)
  BY <1>1, <1>2, WhenEmpty, AdviceEmpty, Zenon DEF MessagesBeforeEnums
<1> HIDE DEF message, enum
<1> QED
  BY <1>1, <1>3, <1>4 DEF IsBefore

LEMMA CommentsEmpty ==
  ASSUME NEW f,
         UNION {{SetElement(f, k, e) : e \in CommentAdvice(f.elements[k])} :
                  k \in DOMAIN f.elements} = {},
         NEW k \in DOMAIN f.elements
  PROVE  CommentAdvice(f.elements[k]) = {}
<1> SUFFICES ASSUME NEW e \in CommentAdvice(f.elements[k]) PROVE FALSE
  OBVIOUS
<1>1. {SetElement(f, k, x) : x \in CommentAdvice(f.elements[k])} = {}
  <2> DEFINE given == {SetElement(f, k, x) : x \in CommentAdvice(f.elements[k])}
  <2>1. given \in {{SetElement(f, l, x) : x \in CommentAdvice(f.elements[l])} :
                    l \in DOMAIN f.elements}
    OBVIOUS
  <2> QED
    BY <2>1, UnionEmpty, Zenon
<1>2. SetElement(f, k, e) \in {SetElement(f, k, x) : x \in CommentAdvice(f.elements[k])}
  OBVIOUS
<1> QED
  BY <1>1, <1>2

LEMMA SaidAbove ==
  ASSUME NEW e, CommentAdvice(e) = {}
  PROVE  /\ External(e.leading) # <<>>
         /\ External(e.trailing) = <<>> /\ External(e.detached) = <<>>
         /\ e.deprecated => External(e.leading)[1].deprecated
<1>1. HasComments(e) = {} /\ DeprecatedComment(e) = {} /\ OnlyLeadingComments(e) = {}
  BY UnionEmpty, Zenon DEF CommentAdvice
<1>2. External(e.leading) # <<>>
  BY <1>1, WhenEmpty, Zenon DEF HasComments
<1>3. External(e.trailing) = <<>> /\ External(e.detached) = <<>>
  <2>1. SUFFICES ASSUME External(e.trailing) # <<>> \/ External(e.detached) # <<>> PROVE FALSE
    OBVIOUS
  <2>2. Moved(e) = {}
    BY <1>1, <2>1, WhenEmpty, Zenon DEF OnlyLeadingComments
  <2> DEFINE leads == e.leading # <<>> /\ e.leading[1].deprecated
             first == IF leads THEN 1 ELSE 0
             trailing == Advice(External(e.trailing) # <<>>,
               [e EXCEPT !.trailing = Internal(@), !.leading = @ \o External(e.trailing)])
             detached == Advice(External(e.detached) # <<>>,
               [e EXCEPT !.detached = Internal(@),
                         !.leading = SubSeq(@, 1, first) \o External(e.detached)
                                       \o SubSeq(@, first + 1, Len(@))])
  <2>3. UNION {trailing, detached} = {}
    BY <2>2, Zenon DEF Moved
  <2>4. trailing = {} /\ detached = {}
    <3> HIDE DEF trailing, detached
    <3> QED
      BY <2>3, UnionEmpty, Zenon
  <2> QED
    BY <2>1, <2>4, AdviceEmpty, Zenon
<1>4. e.deprecated => External(e.leading)[1].deprecated
  BY <1>1, WhenEmpty, AdviceEmpty, Zenon DEF DeprecatedComment
<1> QED
  BY <1>2, <1>3, <1>4

(* In a file without problems the rules on the order of its elements and   *)
(* those on the comments of each agree, however many elements it has and   *)
(* in whatever order the author has moved them, but for the places of the  *)
(* services and the first enum when these, or the file, are deprecated.    *)
THEOREM FileInOrderWhenClean == Spec => []CleanFileIsInOrder
<1>1. FileTypeOK => CleanFileIsInOrder
  <2> SUFFICES ASSUME FileTypeOK, kind = "file", Clean("file", design) PROVE CleanFileIsInOrder
    BY Zenon DEF CleanFileIsInOrder
  <2>1. HasElements(design) /\ FileAdvice(design) = {}
    BY DEF FileTypeOK, Clean, Reported
  <2>2. /\ FileLayout(design) = {}
        /\ UNION {{SetElement(design, k, e) : e \in CommentAdvice(design.elements[k])} :
                    k \in DOMAIN design.elements} = {}
    BY <2>1, UnionEmpty, Zenon DEF FileAdvice
  <2>3. \A k \in DOMAIN design.elements : CommentAdvice(design.elements[k]) = {}
    BY <2>2, CommentsEmpty, Zenon
  <2> QED
    BY <2>1, <2>2, <2>3, InOrderWhenClean, SaidAbove, Zenon DEF CleanFileIsInOrder, IsShown
<1> QED
  BY <1>1, FileTypeCorrect, PTL

-----------------------------------------------------------------------------

(* The author never meets a method that a rule panics on.                  *)

(* What Answerable looks at is left alone.                                 *)
Kept(d, e) ==
  /\ e.verb = d.verb /\ e.noun = d.noun /\ e.out = d.out /\ e.info = d.info
  /\ e.messages = d.messages /\ DOMAIN e.patterns = DOMAIN d.patterns /\ DOMAIN e = DOMAIN d

LEMMA FieldsKept ==
  ASSUME NEW d, IsMethod(d), NEW x PROVE Kept(d, [d EXCEPT !.fields = x])
BY SMT DEF IsMethod, Kept

LEMMA HTTPKept ==
  ASSUME NEW d, IsMethod(d), NEW x PROVE Kept(d, [d EXCEPT !.http = x])
BY SMT DEF IsMethod, Kept

LEMMA FieldSetKept ==
  ASSUME NEW d, IsMethod(d), NEW f, NEW x
  PROVE Kept(d, SetField(d, f, x))  /\ Kept(d, DropField(d, f))
BY FieldsKept DEF SetField, DropField

LEMMA FieldRenamedKept ==
  ASSUME NEW d, IsMethod(d), NEW f, NEW g PROVE Kept(d, RenameField(d, f, g))
<1>1. Kept(d, DropField(d, f)) /\ IsMethod(DropField(d, f))
  BY FieldSetKept DEF Kept, IsMethod
<1>2. Kept(DropField(d, f), RenameField(d, f, g))
  BY <1>1, FieldSetKept, Zenon DEF RenameField
<1> QED
  BY <1>1, <1>2, Zenon DEF Kept

LEMMA SingularFieldKept ==
  ASSUME NEW d, IsMethod(d), NEW f, NEW type, NEW e \in LintSingularField(d, f, type) PROVE Kept(d, e)
<1> DEFINE once == [d EXCEPT !.fields[f].type = type]
<1>1. Kept(d, once)
  BY FieldsKept
<1>2. IsMethod(once)
  BY <1>1, Zenon DEF Kept, IsMethod
<1>3. e = [once EXCEPT !.fields[f].repeated = FALSE]
  BY DEF LintSingularField, Advice
<1> HIDE DEF once
<1>4. Kept(once, e)
  BY <1>2, <1>3, FieldsKept
<1> QED
  BY <1>1, <1>4, Zenon DEF Kept

LEMMA FieldPresentKept ==
  ASSUME NEW d, IsMethod(d), NEW f, NEW type, NEW e \in LintFieldPresent(d, f, type) PROVE Kept(d, e)
BY FieldSetKept, AdviceGives, Zenon DEF LintFieldPresent

LEMMA RequiredKept ==
  ASSUME NEW d, IsMethod(d), NEW f, NEW e \in LintRequiredField(d, f) PROVE Kept(d, e)
BY FieldsKept DEF LintRequiredField, Advice

LEMMA ReferenceKept ==
  ASSUME NEW d, IsMethod(d), NEW f, NEW e \in LintFieldResourceReference(d, f) PROVE Kept(d, e)
BY FieldsKept DEF LintFieldResourceReference, When

LEMMA SetHTTPKept ==
  ASSUME NEW d, IsMethod(d), NEW part, NEW x PROVE Kept(d, SetHTTP(d, part, x))
BY HTTPKept DEF SetHTTP

LEMMA BodyKept ==
  ASSUME NEW d, IsMethod(d), NEW x, NEW e \in LintHTTPBody(d, x) PROVE Kept(d, e)
BY SetHTTPKept, AdviceGives, Zenon DEF LintHTTPBody

LEMMA OneVariableKept ==
  ASSUME NEW d, IsMethod(d), NEW x, NEW e \in LintHTTPURIOneVariable(d, x) PROVE Kept(d, e)
BY SetHTTPKept, HTTPKept, AdviceGives DEF LintHTTPURIOneVariable

LEMMA RequiresKept ==
  ASSUME NEW d, IsMethod(d), NEW x, NEW e \in OnlyRequires(d, x) PROVE Kept(d, e)
BY FieldsKept DEF OnlyRequires

LEMMA RequiresButKept ==
  ASSUME NEW d, IsMethod(d), NEW x, NEW m, NEW e \in OnlyRequiresBut(d, x, m) PROVE Kept(d, e)
BY FieldsKept DEF OnlyRequiresBut, Advice

LEMMA SignatureKept ==
  ASSUME NEW d, IsMethod(d), NEW x, NEW e \in LintSignature(d, x) PROVE Kept(d, e)
BY SMT DEF LintSignature, Advice, IsMethod, Kept

LEMMA RequestNameKept ==
  ASSUME NEW d, IsMethod(d), NEW e \in LintMethodHasMatchingRequestName(d) PROVE Kept(d, e)
BY SMT DEF LintMethodHasMatchingRequestName, Advice, IsMethod, Kept

LEMMA HasKept ==
  ASSUME NEW d, IsMethod(d), NEW x, NEW e \in OnlyHas(d, x) PROVE Kept(d, e)
BY FieldSetKept, Zenon DEF OnlyHas


LEMMA HTTPMethodKept ==
  ASSUME NEW d, IsMethod(d), NEW x, NEW e \in LintHTTPMethod(d, x) PROVE Kept(d, e)
BY SetHTTPKept, AdviceGives, Zenon DEF LintHTTPMethod

LEMMA VariableKept ==
  ASSUME NEW d, IsMethod(d), NEW x, NEW e \in LintHTTPURIHasVariable(d, x) PROVE Kept(d, e)
<1>1. e = SetHTTP(d, "vars", {x})
  BY DEF LintHTTPURIHasVariable, Advice
<1> QED
  BY <1>1, SetHTTPKept

(* A method that the author has set right so far.                          *)
InForm(d) == IsMethod(d) /\ Answerable(d)

LEMMA KeptInForm ==
  ASSUME NEW d, InForm(d), NEW e, Kept(d, e) PROVE InForm(e)
BY Zenon DEF InForm, Kept, IsMethod, Answerable

Asked == {"Create", "Insert", "Make", "Post", "Update", "Patch", "Put", "Set"}

(* An answer is asked of none but a Create or an Update.                   *)
LEMMA OthersInForm ==
  ASSUME NEW d, IsMethod(d), NEW e, DOMAIN e = DOMAIN d, DOMAIN e.info = DOMAIN d.info,
         e.verb \notin Asked
  PROVE  InForm(e)
BY Zenon DEF InForm, IsMethod, Answerable, Asked


(* What the checks that rules share make of a design: those on a method's  *)
(* annotations and its request's name, and those on a request's fields.    *)
OfMethod(d, e) ==
  \/ \E x : \/ e \in LintHTTPBody(d, x) \/ e \in LintHTTPMethod(d, x)
            \/ e \in LintHTTPURIHasVariable(d, x) \/ e \in LintHTTPURIOneVariable(d, x)
            \/ e \in LintSignature(d, x)
  \/ e \in LintMethodHasMatchingRequestName(d)

OfFields(d, e) ==
  \/ \E x : \/ e \in OnlyRequires(d, x) \/ e \in OnlyHas(d, x)
            \/ e \in LintRequiredField(d, x) \/ e \in LintFieldResourceReference(d, x)
  \/ \E x, y : \/ e \in LintFieldPresent(d, x, y) \/ e \in LintSingularField(d, x, y)
               \/ e \in OnlyRequiresBut(d, x, y)
               \/ e = SetField(d, x, y) \/ e = RenameField(d, x, y)

LEMMA CheckedInForm ==
  ASSUME NEW d, InForm(d), NEW e, OfMethod(d, e) \/ OfFields(d, e) PROVE InForm(e)
<1>1. IsMethod(d)
  BY DEF InForm
<1>2. ASSUME OfMethod(d, e) PROVE Kept(d, e)
  BY <1>1, <1>2, BodyKept, HTTPMethodKept, VariableKept, OneVariableKept, SignatureKept,
     RequestNameKept, Zenon DEF OfMethod
<1>3. ASSUME OfFields(d, e) PROVE Kept(d, e)
  BY <1>1, <1>3, RequiresKept, HasKept, RequiredKept, ReferenceKept, FieldPresentKept,
     SingularFieldKept, RequiresButKept, FieldSetKept, FieldRenamedKept, Zenon DEF OfFields
<1> QED
  BY <1>2, <1>3, KeptInForm

(* Or only its fields are other ones.                                      *)
LEMMA FieldsInForm ==
  ASSUME NEW d, InForm(d), NEW x PROVE InForm([d EXCEPT !.fields = x])
BY FieldsKept, KeptInForm, Zenon DEF InForm

LEMMA HTTPInForm ==
  ASSUME NEW d, InForm(d), NEW x PROVE InForm([d EXCEPT !.http = x])
BY HTTPKept, KeptInForm, Zenon DEF InForm

LEMMA RespInForm ==
  ASSUME NEW d, InForm(d), NEW x PROVE InForm([d EXCEPT !.resp = x])
<1>1. Kept(d, [d EXCEPT !.resp = x])
  BY SMT DEF InForm, IsMethod, Kept
<1> QED
  BY <1>1, KeptInForm, Zenon

LEMMA UnaryInForm ==
  ASSUME NEW d, InForm(d) PROVE InForm([d EXCEPT !.streaming = FALSE])
<1>1. Kept(d, [d EXCEPT !.streaming = FALSE])
  BY SMT DEF InForm, IsMethod, Kept
<1> QED
  BY <1>1, KeptInForm, Zenon

(* A method that is neither may return anything.                           *)
LEMMA OtherOutInForm ==
  ASSUME NEW d, InForm(d), d.verb \notin Asked, NEW m
  PROVE  InForm([d EXCEPT !.out = m]) /\ InForm([d EXCEPT !.info.response = m])
<1>1. IsMethod([d EXCEPT !.out = m]) /\ IsMethod([d EXCEPT !.info.response = m])
  BY SMT DEF InForm, IsMethod
<1>2. [d EXCEPT !.out = m].verb = d.verb /\ [d EXCEPT !.info.response = m].verb = d.verb
  BY SMT DEF InForm, IsMethod
<1> QED
  BY <1>1, <1>2, Zenon DEF InForm, Answerable, Asked

LEMMA OtherResponseInForm ==
  ASSUME NEW d, InForm(d), d.verb \notin Asked, NEW m PROVE InForm(SetResponse(d, m))
BY OtherOutInForm DEF SetResponse

LEMMA VerbInForm ==
  ASSUME NEW d, InForm(d), NEW v, v \in Asked => d.verb \in Asked
  PROVE  InForm([d EXCEPT !.verb = v])
<1> DEFINE e == [d EXCEPT !.verb = v]
<1>1. /\ DOMAIN e = DOMAIN d /\ e.verb = v /\ e.noun = d.noun /\ e.out = d.out /\ e.info = d.info
      /\ e.messages = d.messages /\ e.patterns = d.patterns
  BY SMT DEF InForm, IsMethod
<1> HIDE DEF e
<1>2. InForm(e)
  BY <1>1, Zenon DEF InForm, IsMethod, Answerable, Asked
<1> QED
  BY <1>2 DEF e

LEMMA GetInForm ==
  ASSUME NEW d, InForm(d), NEW e \in GetAdvice(d) PROVE InForm(e)
<1>1. CASE e \in UNION {GetHTTPBody(d), GetHTTPMethod(d), GetHTTPURIPath(d),
                        GetMethodSignature(d), GetRequestMessageName(d)}
  <2>1. OfMethod(d, e)
    BY <1>1 DEF When, OfMethod, GetHTTPBody, GetHTTPMethod, GetHTTPURIPath,
                GetMethodSignature, GetRequestMessageName
  <2> QED
    BY <2>1, CheckedInForm
<1>2. CASE e \in UNION {GetRequestPathBehavior(d), GetRequestPathField(d),
                         GetRequestPathReference(d), GetRequestPathRequired(d),
                         GetRequestRequiredFields(d), GetRequestUnknownFields(d)}
  <2>1. OfFields(d, e)
    BY <1>2 DEF When, OfFields, GetRequestPathBehavior, GetRequestPathField,
                 GetRequestPathReference, GetRequestPathRequired, GetRequestRequiredFields,
                 GetRequestUnknownFields
  <2> QED
    BY <2>1, CheckedInForm
<1>3. CASE e \in GetRequestPathReferenceType(d)
  BY <1>3, FieldsInForm DEF GetRequestPathReferenceType, When, Advice
<1>4. CASE e \in GetResponseMessageName(d)
  <2>1. d.verb = "Get" /\ e = [d EXCEPT !.out = Bare(d.noun)]
    BY <1>4 DEF GetResponseMessageName, When, Advice, IsGetMethod
  <2>2. d.verb \notin Asked
    BY <2>1 DEF Asked
  <2> QED
    BY <2>1, <2>2, OtherOutInForm
<1>5. CASE e \in GetSynonyms(d)
  BY <1>5, VerbInForm DEF GetSynonyms, Advice, Asked
<1> QED
  BY <1>1, <1>2, <1>3, <1>4, <1>5 DEF GetAdvice

LEMMA ListInForm ==
  ASSUME NEW d, InForm(d), NEW e \in ListAdvice(d) PROVE InForm(e)
<1>1. CASE e \in UNION {ListHTTPBody(d), ListHTTPMethod(d), ListMethodSignature(d),
                        ListRequestMessageName(d)}
  <2>1. OfMethod(d, e)
    BY <1>1 DEF When, OfMethod, ListHTTPBody, ListHTTPMethod, ListMethodSignature,
                ListRequestMessageName
  <2> QED
    BY <2>1, CheckedInForm
<1>2. CASE e \in UNION {ListRequestParentBehavior(d), ListRequestParentField(d),
                         ListRequestParentReference(d), ListRequestParentRequired(d),
                         ListRequestRequiredFields(d), ListRequestShowDeletedRequired(d),
                         ListRequestUnknownFields(d)}
  <2>1. OfFields(d, e)
    BY <1>2 DEF When, OfFields, ListRequestParentBehavior, ListRequestParentField,
                 ListRequestParentReference, ListRequestParentRequired,
                 ListRequestRequiredFields, ListRequestShowDeletedRequired,
                 ListRequestUnknownFields
  <2> QED
    BY <2>1, CheckedInForm
<1>3. CASE e \in ListRequestFieldTypes(d)
  <2>1. OfFields(d, e)
    BY <1>3 DEF When, OfFields, ListRequestFieldTypes
  <2> QED
    BY <2>1, CheckedInForm
<1>4. CASE e \in ListRequestParentValidReference(d) \cup ListResourceReferenceType(d)
  BY <1>4, FieldsInForm DEF ListRequestParentValidReference, ListResourceReferenceType, When, Advice
<1>5. CASE e \in ListResponseMessageName(d)
  <2>1. d.verb = "List" /\ e = [d EXCEPT !.out = ResponseName(d)]
    BY <1>5 DEF ListResponseMessageName, LintMethodHasMatchingResponseName, When, Advice,
       IsListMethod
  <2>2. d.verb \notin Asked
    BY <2>1 DEF Asked
  <2> QED
    BY <2>1, <2>2, OtherOutInForm
<1>6. CASE e \in ListResponseUnknownFields(d)
  <2>1. \E x : e = [d EXCEPT !.resp = x]
    BY <1>6 DEF ListResponseUnknownFields, When, DropResp
  <2> QED
    BY <2>1, RespInForm
<1> QED
  BY <1>1, <1>2, <1>3, <1>4, <1>5, <1>6 DEF ListAdvice

LEMMA PaginationInForm ==
  ASSUME NEW d, InForm(d), NEW e \in PaginationAdvice(d) PROVE InForm(e)
<1>1. CASE e \in UNION {RequestMaxPageSizeField(d), RequestPageTokenField(d),
                         RequestSkipField(d)}
  <2>1. OfFields(d, e)
    BY <1>1 DEF When, OfFields, RequestMaxPageSizeField, RequestPageTokenField,
                 RequestSkipField, LintPaginationField
  <2> QED
    BY <2>1, CheckedInForm
<1>2. CASE e \in ResponseNextPageTokenField(d) \cup ResponseRepeatedField(d)
  BY <1>2, RespInForm DEF ResponseNextPageTokenField, ResponseRepeatedField, When, Advice, SetResp
<1>3. CASE e \in PaginatedResponseUnary(d)
  BY <1>3, UnaryInForm DEF PaginatedResponseUnary, When, Advice
<1> QED
  BY <1>1, <1>2, <1>3 DEF PaginationAdvice

LEMMA NoResource == ASSUME NEW d PROVE ~ IsDeclarativeFriendlyMethod(d)
BY DEF IsDeclarativeFriendlyMethod, DeclarativeFriendlyResource

LEMMA DeleteInForm ==
  ASSUME NEW d, InForm(d), NEW e \in DeleteAdvice(d) PROVE InForm(e)
<1>1. CASE e \in UNION {DeleteHTTPBody(d), DeleteHTTPMethod(d), DeleteHTTPURIPath(d),
                        DeleteMethodSignature(d), DeleteRequestMessageName(d)}
  <2>1. OfMethod(d, e)
    <3>1. ASSUME e \in DeleteMethodSignature(d) PROVE \E x : e \in LintSignature(d, x)
      BY <3>1, WhenGives, Zenon DEF DeleteMethodSignature
    <3> QED
      BY <1>1, <3>1 DEF When, OfMethod, DeleteHTTPBody, DeleteHTTPMethod, DeleteHTTPURIPath,
         DeleteRequestMessageName
  <2> QED
    BY <2>1, CheckedInForm
<1>2. CASE e \in UNION {DeleteForceField(d), DeleteRequestForceField(d),
                         DeleteRequestPathBehavior(d), DeleteRequestPathField(d),
                         DeleteRequestPathReference(d), DeleteRequestPathRequired(d),
                         DeleteRequestRequiredFields(d), DeleteUnknownFields(d)}
  <2>1. OfFields(d, e)
    BY <1>2 DEF When, OfFields, DeleteForceField, DeleteRequestForceField,
                 DeleteRequestPathBehavior, DeleteRequestPathField,
                 DeleteRequestPathReference, DeleteRequestPathRequired,
                 DeleteRequestRequiredFields, DeleteUnknownFields
  <2> QED
    BY <2>1, CheckedInForm
<1>3. CASE e \in DeleteResponseMessageName(d)
  BY <1>3, OtherResponseInForm DEF DeleteResponseMessageName, When, IsDeleteMethod, Asked
<1>4. e \notin DeleteResponseLRO(d)
  BY NoResource DEF DeleteResponseLRO, When
<1> QED
  BY <1>1, <1>2, <1>3, <1>4 DEF DeleteAdvice

LEMMA UndeleteInForm ==
  ASSUME NEW d, InForm(d), NEW e \in UndeleteAdvice(d) PROVE InForm(e)
<1>1. CASE e \in UNION {UndeleteHTTPBody(d), UndeleteHTTPMethod(d),
                        UndeleteRequestMessageName(d)}
  <2>1. OfMethod(d, e)
    BY <1>1 DEF When, OfMethod, UndeleteHTTPBody, UndeleteHTTPMethod,
                UndeleteRequestMessageName
  <2> QED
    BY <2>1, CheckedInForm
<1>2. CASE e \in UNION {UndeleteRequestNameBehavior(d), UndeleteRequestNameField(d),
                         UndeleteRequestNameReference(d), UndeleteUnknownFields(d)}
  <2>1. OfFields(d, e)
    BY <1>2 DEF When, OfFields, UndeleteRequestNameBehavior, UndeleteRequestNameField,
                 UndeleteRequestNameReference, UndeleteUnknownFields
  <2> QED
    BY <2>1, CheckedInForm
<1>3. CASE e \in UndeleteHTTPURISuffix(d)
  <2>1. \E x : e = [d EXCEPT !.http = x]
    BY <1>3 DEF UndeleteHTTPURISuffix, When, Advice
  <2> QED
    BY <2>1, HTTPInForm
<1>4. CASE e \in ResourceExpireTimeField(d)
  <2>1. PICK r : e = [d EXCEPT !.expiring = @ \cup {r}]
    BY <1>4 DEF ResourceExpireTimeField
  <2>2. Kept(d, e)
    BY <2>1, SMT DEF InForm, IsMethod, Kept
  <2> QED
    BY <2>2, KeptInForm
<1>5. CASE e \in UndeleteResponseMessageName(d)
  BY <1>5, OtherResponseInForm DEF UndeleteResponseMessageName, When, Advice, IsUndeleteMethod, Asked
<1>6. e \notin UndeleteResponseLRO(d)
  BY NoResource DEF UndeleteResponseLRO, When
<1> QED
  BY <1>1, <1>2, <1>3, <1>4, <1>5, <1>6 DEF UndeleteAdvice


(* A Create or an Update that is told what to return is told the message   *)
(* that it is named for, which is there.                                   *)
LEMMA NamedInForm ==
  ASSUME NEW d, InForm(d), d.verb \in Asked PROVE InForm(SetResponse(d, Bare(d.noun)))
<1> DEFINE e == SetResponse(d, Bare(d.noun))
<1>1. IsMethod(d) /\ Answerable(d)
  BY DEF InForm
<1>2. CASE d.out = Operation
  <2>1. e = [d EXCEPT !.info.response = Bare(d.noun)]
    BY <1>2 DEF SetResponse
  <2>2. /\ DOMAIN e = DOMAIN d /\ DOMAIN e.info = DOMAIN d.info
        /\ e.verb = d.verb /\ e.noun = d.noun /\ e.out = d.out /\ e.messages = d.messages
        /\ e.patterns = d.patterns /\ e.info.set = d.info.set /\ e.info.response = Bare(d.noun)
    BY <1>1, <2>1, SMT DEF IsMethod
  <2> HIDE DEF e
  <2>3. InForm(e)
    BY <1>1, <1>2, <2>2 DEF InForm, IsMethod, Answerable, Asked
  <2> QED
    BY <2>3 DEF e
<1>3. CASE d.out # Operation
  <2>1. e = [d EXCEPT !.out = Bare(d.noun)]
    BY <1>3 DEF SetResponse
  <2>2. /\ DOMAIN e = DOMAIN d /\ e.info = d.info
        /\ e.verb = d.verb /\ e.noun = d.noun /\ e.out = Bare(d.noun)
        /\ e.messages = d.messages /\ e.patterns = d.patterns
    BY <1>1, <2>1, SMT DEF IsMethod
  <2> HIDE DEF e
  <2>3. e.out # NoName /\ e.out # Operation
    BY <1>1, <2>2, Zenon DEF Answerable, Asked
  <2>4. InForm(e)
    BY <1>1, <2>2, <2>3, Zenon DEF InForm, IsMethod, Answerable, Asked
  <2> QED
    BY <2>4 DEF e
<1> QED
  BY <1>2, <1>3

LEMMA CreateInForm ==
  ASSUME NEW d, InForm(d), NEW e \in CreateAdvice(d) PROVE InForm(e)
<1>1. CASE e \in UNION {CreateHTTPBody(d), CreateHTTPURIParent(d), CreateHTTPMethod(d),
                        CreateInputName(d), CreateMethodSignature(d)}
  <2>1. OfMethod(d, e)
    BY <1>1 DEF When, OfMethod, CreateHTTPBody, CreateHTTPURIParent, CreateHTTPMethod,
       CreateInputName, CreateMethodSignature
  <2> QED
    BY <2>1, CheckedInForm
<1>2. CASE e \in UNION {CreateRequestIDField(d), CreateRequestParentBehavior(d),
                        CreateRequestParentField(d), CreateRequestParentRequired(d),
                        CreateRequestRequiredFields(d), CreateRequestResourceBehavior(d),
                        CreateUnknownFields(d)}
  <2>1. OfFields(d, e)
    BY <1>2 DEF When, OfFields, CreateRequestIDField, CreateRequestParentBehavior,
       CreateRequestParentField, CreateRequestParentRequired, CreateRequestRequiredFields,
       CreateRequestResourceBehavior, CreateUnknownFields
  <2> QED
    BY <2>1, CheckedInForm
<1>3. CASE e \in CreateResourceField(d)
  <2>1. OfFields(d, e)
    BY <1>3 DEF When, Advice, OfFields, CreateResourceField
  <2> QED
    BY <2>1, CheckedInForm
<1>4. CASE e \in CreateResourceReferenceType(d)
  BY <1>4, FieldsInForm DEF CreateResourceReferenceType, When, Advice
<1>5. CASE e \in CreateHTTPURIResource(d)
  <2>1. \/ \E x : e = [d EXCEPT !.http = x]
        \/ \E x, n : e = [d EXCEPT !.patterns[n] = x]
    BY <1>5 DEF CreateHTTPURIResource, When, Advice
  <2>2. ASSUME NEW x, NEW n PROVE Kept(d, [d EXCEPT !.patterns[n] = x])
    BY SMT DEF InForm, IsMethod, Kept
  <2> QED
    BY <2>1, <2>2, HTTPInForm, KeptInForm
<1>6. CASE e \in CreateOutputName(d)
  <2> DEFINE name == GetResourceMessageName(d)
  <2>1. d.verb \in Asked /\ ResponseTypeOf(d) # Bare(name) /\ e = SetResponse(d, Bare(name))
    BY <1>6 DEF CreateOutputName, When, Advice, IsCreateMethod, Asked
  <2>2. name = d.noun
    <3>1. CASE d.out = Operation
      BY <3>1 DEF GetResourceMessageName
    <3>2. CASE d.out # Operation
      <4>1. d.out # Bare(name)
        BY <2>1, <3>2 DEF ResponseTypeOf
      <4>2. ASSUME NEW n, d.out = Bare(n) PROVE d.out = Bare(d.out[2])
        BY <4>2, BareParts, Zenon
      <4> QED
        BY <4>1, <4>2, Zenon DEF GetResourceMessageName
    <3> QED
      BY <3>1, <3>2
  <2> QED
    BY <2>1, <2>2, NamedInForm
<1>7. CASE e \in CreateSynonyms(d)
  BY <1>7, VerbInForm DEF CreateSynonyms, Advice, Asked
<1> QED
  BY <1>1, <1>2, <1>3, <1>4, <1>5, <1>6, <1>7 DEF CreateAdvice

LEMMA UpdateInForm ==
  ASSUME NEW d, InForm(d), NEW e \in UpdateAdvice(d) PROVE InForm(e)
<1>1. CASE e \in UNION {UpdateHTTPBody(d), UpdateHTTPMethod(d), UpdateHTTPURIPath(d),
                        UpdateMethodSignature(d), UpdateRequestMessageName(d)}
  <2>1. OfMethod(d, e)
    BY <1>1 DEF When, OfMethod, UpdateHTTPBody, UpdateHTTPMethod, UpdateHTTPURIPath,
       UpdateMethodSignature, UpdateRequestMessageName
  <2> QED
    BY <2>1, CheckedInForm
<1>2. CASE e \in UNION {UpdateAllowMissing(d), UpdateRequestMaskField(d),
                        UpdateRequestMaskRequired(d), UpdateRequestPathRequired(d),
                        UpdateRequestRequiredFields(d), UpdateRequestResourceField(d),
                        UpdateUnknownFields(d)}
  <2>1. OfFields(d, e)
    BY <1>2 DEF When, OfFields, UpdateAllowMissing, UpdateRequestMaskField,
       UpdateRequestMaskRequired, UpdateRequestPathRequired, UpdateRequestRequiredFields,
       UpdateRequestResourceField, UpdateUnknownFields
  <2> QED
    BY <2>1, CheckedInForm
<1>3. CASE e \in UpdateRequestResourceRequired(d)
  <2>1. OfFields(d, e)
    BY <1>3 DEF When, Advice, OfFields, UpdateRequestResourceRequired
  <2> QED
    BY <2>1, CheckedInForm
<1>4. CASE e \in UpdateResponseMessageName(d)
  <2>1. d.verb \in Asked /\ e = SetResponse(d, Bare(d.noun))
    BY <1>4 DEF UpdateResponseMessageName, When, Advice, IsUpdateMethod, Asked
  <2> QED
    BY <2>1, NamedInForm
<1>5. CASE e \in UpdateSynonyms(d)
  BY <1>5, VerbInForm DEF UpdateSynonyms, Advice, Asked
<1>6. e \notin UpdateResponseLRO(d)
  BY NoResource DEF UpdateResponseLRO, When
<1> QED
  BY <1>1, <1>2, <1>3, <1>4, <1>5, <1>6 DEF UpdateAdvice

LEMMA ReachableInForm ==
  ASSUME NEW d, InForm(d), NEW m, NEW e \in CheckReachable(d, m) PROVE InForm(e)
<1>1. e = [d EXCEPT !.messages = @ \cup {m}]
  BY DEF CheckReachable, Advice
<1>2. /\ DOMAIN e = DOMAIN d /\ e.verb = d.verb /\ e.noun = d.noun /\ e.out = d.out
      /\ e.info = d.info /\ e.messages = d.messages \cup {m} /\ e.patterns = d.patterns
  BY <1>1, SMT DEF InForm, IsMethod
<1> QED
  BY <1>2 DEF InForm, IsMethod, Answerable

LEMMA OperationInForm ==
  ASSUME NEW d, InForm(d), NEW e \in OperationAdvice(d) PROVE InForm(e)
<1>1. IsMethod(d) /\ Answerable(d)
  BY DEF InForm
<1>2. CASE e \in LroAnnotationExists(d) \cup LroResponse(d)
  <2>1. d.verb \notin Asked
    <3>1. \/ d.out = Operation /\ ~ d.info.set
          \/ d.out = Operation /\ d.info.response \in {NoName, Empty}
      BY <1>2 DEF LroAnnotationExists, LroResponse, IsLRO, IsAnnotatedLRO, When, Advice
    <3> QED
      BY <1>1, <3>1 DEF Answerable, Asked
  <2>2. e = [d EXCEPT !.info.set = TRUE] \/ e = [d EXCEPT !.info.response = Bare(d.noun)]
    BY <1>2 DEF LroAnnotationExists, LroResponse, When, Advice
  <2>3. DOMAIN e = DOMAIN d /\ DOMAIN e.info = DOMAIN d.info /\ e.verb = d.verb
    BY <1>1, <2>2, SMT DEF IsMethod
  <2> QED
    BY <1>1, <2>1, <2>3, OthersInForm
<1>3. CASE e \in LroMetadata(d)
  <2>1. e = [d EXCEPT !.info.metadata = Bare("Metadata")]
    BY <1>3 DEF LroMetadata, When, Advice
  <2>2. /\ DOMAIN e = DOMAIN d /\ e.verb = d.verb /\ e.noun = d.noun /\ e.out = d.out
        /\ e.messages = d.messages /\ e.patterns = d.patterns
        /\ DOMAIN e.info = DOMAIN d.info /\ e.info.set = d.info.set
        /\ e.info.response = d.info.response
    BY <1>1, <2>1, SMT DEF IsMethod
  <2> QED
    BY <1>1, <2>2, Zenon DEF InForm, IsMethod, Answerable
<1>4. CASE e \in LroMetadataReachable(d) \cup LroResponseReachable(d)
  BY <1>4, ReachableInForm DEF LroMetadataReachable, LroResponseReachable, When
<1>5. CASE e \in LroResponseUnary(d)
  BY <1>5, UnaryInForm DEF LroResponseUnary, When, Advice
<1> QED
  BY <1>2, <1>3, <1>4, <1>5 DEF OperationAdvice

LEMMA CustomInForm ==
  ASSUME NEW d, InForm(d), NEW e \in CustomAdvice(d) PROVE InForm(e)
<1>1. IsMethod(d) /\ Answerable(d)
  BY DEF InForm
<1>2. CASE e \in CustomHTTPBody(d)
  <2>1. \E x : e = [d EXCEPT !.http = x]
    BY <1>2 DEF CustomHTTPBody, When, Advice
  <2> QED
    BY <2>1, HTTPInForm
<1>3. CASE e \in CustomHTTPMethod(d)
  <2>1. \E x : e = [d EXCEPT !.http = x]
    BY <1>3 DEF CustomHTTPMethod, When, SetHTTP
  <2> QED
    BY <2>1, HTTPInForm
<1>4. CASE e \in NoPrepositions(d) \cup VerbNoun(d)
  <2>1. PICK n : /\ e = [d EXCEPT !.noun = n]
                 /\ d.noun = "" \/ n = WithoutPrepositions[d.noun]
    BY <1>4 DEF NoPrepositions, VerbNoun, When, Advice
  <2>2. /\ DOMAIN e = DOMAIN d /\ e.verb = d.verb /\ e.noun = n /\ e.out = d.out
        /\ e.info = d.info /\ e.messages = d.messages /\ e.patterns = d.patterns
    <3>1. IsMethod(d) /\ e = [d EXCEPT !.noun = n]
      BY <1>1, <2>1
    <3> QED
      BY <3>1, SMT DEF IsMethod
  <2>3. CASE d.verb \in Asked
    <3>1. d.noun \in DOMAIN WithoutPrepositions /\ d.noun # ""
      BY <1>1, <2>3, Zenon DEF Answerable, Asked, NoName
    <3>2. /\ n = WithoutPrepositions[d.noun] /\ n \in DOMAIN WithoutPrepositions
          /\ WithoutPrepositions[n] = n
      BY <2>1, <3>1, PrepositionsAssumption
    <3> QED
      BY <1>1, <2>2, <2>3, <3>2, SMT DEF InForm, IsMethod, Answerable, Asked
  <2>4. CASE d.verb \notin Asked
    BY <1>1, <2>2, <2>4, OthersInForm
  <2> QED
    BY <2>3, <2>4
<1>5. e \notin StandardMethodsOnly(d)
  BY NoResource DEF StandardMethodsOnly, When
<1> QED
  BY <1>2, <1>3, <1>4, <1>5 DEF CustomAdvice

MethodInForm == kind = "method" => InForm(design)

(* If the methods of the drafts can be answered for, the author is never   *)
(* led to one that cannot: whatever advice is followed, in any order, from *)
(* any number of mistakes.                                                 *)
THEOREM AnsweredThroughout ==
  ASSUME AnswerableDrafts PROVE Spec => []AdviceIsAnswered
<1>1. Init => MethodInForm
  BY DraftsAssumption DEF Init, MethodInForm, InForm, AnswerableDrafts
<1>2. MethodInForm /\ [Next]_vars => MethodInForm'
  <2> SUFFICES ASSUME MethodInForm, [Next]_vars, kind' = "method" PROVE InForm(design')
    BY DEF MethodInForm
  <2>1. CASE Next
    <3>1. kind = "method" /\ design' \in MethodAdvice(design)
      BY <2>1 DEF Next, Reported
    <3>2. InForm(design)
      BY <3>1 DEF MethodInForm
    <3> QED
      BY <3>1, <3>2, GetInForm, ListInForm, PaginationInForm, CreateInForm, UpdateInForm,
         DeleteInForm, UndeleteInForm, OperationInForm, CustomInForm DEF MethodAdvice
  <2>2. CASE UNCHANGED vars
    BY <2>2 DEF vars, MethodInForm
  <2> QED
    BY <2>1, <2>2
<1>3. MethodInForm => AdviceIsAnswered
  <2> SUFFICES ASSUME MethodInForm, kind = "method", RulePanics(design) PROVE FALSE
    BY DEF AdviceIsAnswered, Panics
  <2>1. InForm(design) /\ design.verb \in Asked /\ GetResponseType(design) = NoName
    BY DEF MethodInForm, RulePanics, IsCreateMethod, IsUpdateMethod, Asked, NilName
  <2>2. design.out = Operation /\ GetOperationResponseType(design) = NoName
    BY <2>1, Zenon DEF InForm, Answerable, Asked, GetResponseType
  <2>3. /\ design.info.set /\ design.info.response # NoName
        /\ FindMessage(design, design.info.response)
    BY <2>1, <2>2 DEF InForm, Answerable, Asked, FindMessage
  <2> QED
    BY <2>2, <2>3, Zenon DEF GetOperationResponseType
<1> QED
  BY <1>1, <1>2, <1>3, PTL DEF Spec

=============================================================================
