------------------------------ MODULE ListRules ------------------------------
(***************************************************************************)
(* The rules of AEP-132 and, for pagination, AEP-158 (rules/aep0132,       *)
(* rules/aep0158).                                                         *)
(***************************************************************************)
EXTENDS Method

ListHTTPBody(d) == When(IsListMethod(d), LintHTTPBody(d, ""))

ListHTTPMethod(d) == When(IsListMethod(d), LintHTTPMethod(d, "GET"))

ListMethodSignature(d) ==
  When(IsListMethod(d) /\ HasField(d, "parent"), LintSignature(d, <<"parent">>))

ListRequestFieldTypes(d) ==
  UNION {When(IsListRequestMessage(d.in) /\ HasField(d, f),
              LintSingularField(d, f, IF f = "show_deleted" THEN Bool ELSE String)) :
           f \in {"filter", "order_by", "show_deleted"}}

ListRequestMessageName(d) == When(IsListMethod(d), LintMethodHasMatchingRequestName(d))

ListHasParent(d) == IsListRequestMessage(d.in) /\ HasField(d, "parent")

ListRequestParentBehavior(d) == When(ListHasParent(d), LintRequiredField(d, "parent"))

ListRequestParentField(d) == When(ListHasParent(d), LintSingularField(d, "parent", String))

ListRequestParentReference(d) == When(ListHasParent(d), LintFieldResourceReference(d, "parent"))

(* The response that the request's name leads to.                          *)
ListHasResponse(d) == d.out = <<"List", d.in[2], "Response">>

(* The message of its field that has the plural's name.                    *)
ListPaged(d) ==
  IF ListHasResponse(d) /\ Snake[d.in[2]] \in DOMAIN d.resp
    THEN d.resp[Snake[d.in[2]]].type ELSE NoName

ListRequestParentRequired(d) ==
  When(IsListRequestMessage(d.in) /\ ~ HasNoParent(d, ListPaged(d)),
       LintFieldPresent(d, "parent", String))

ListRequestParentValidReference(d) ==
  When(ListHasParent(d) /\ d.fields["parent"].types # <<>> /\ ListHasResponse(d),
       Advice(\E f \in DOMAIN d.resp : d.resp[f].type = Bare(d.fields["parent"].types[1])
                                         /\ IsResource(d, d.resp[f].type),
              [d EXCEPT !.fields["parent"].types = <<ParentType[d.noun]>>]))

ListRequestRequiredFields(d) == When(IsListRequestMessage(d.in), OnlyRequires(d, {"parent"}))

ListRequestShowDeletedRequired(d) ==
  When(IsListRequestMessage(d.in) /\ IsMessage(ListPaged(d)) /\ ListPaged(d)[2] \in d.undelete,
       LintFieldPresent(d, "show_deleted", Bool))

ListRequestUnknownFields(d) ==
  When(IsListRequestMessage(d.in),
       OnlyHas(d, {"parent", "max_page_size", "page_token", "skip", "filter", "order_by",
                   "show_deleted", "request_id", "read_mask", "view"}))

(* The messages that the response repeats; a response has at most one.     *)
GetRepeatedMessages(d) ==
  {d.resp[f].type : f \in {g \in DOMAIN d.resp : d.resp[g].repeated /\ IsMessage(d.resp[g].type)}}

ListResourceReferenceType(d) ==
  When(IsListMethod(d) /\ HasField(d, "parent") /\ HasReference(d.fields["parent"]),
       {[d EXCEPT !.fields["parent"].childTypes = <<m[2]>>] :
          m \in {r \in GetRepeatedMessages(d) :
                   IsResource(d, r) /\ ~ References(d.fields["parent"], r[2])}})

ListResponseMessageName(d) == When(IsListMethod(d), LintMethodHasMatchingResponseName(d))

ListResponseUnknownFields(d) ==
  When(IsListResponseMessage(d.out),
       {DropResp(d, f) : f \in DOMAIN d.resp \ {"results", "max_page_size", "next_page_token",
                                                "total_size", "unreachable",
                                                "unreachable_locations"}})

-----------------------------------------------------------------------------

IsPaginatedRequestMessage(d) ==
  /\ d.in[3] = "Request"
  /\ d.in[1] \in {"List", "Search"} \/ HasField(d, "page_size") \/ HasField(d, "page_token")

IsPaginatedResponseMessage(d) ==
  \/ d.out[1] \in {"List", "Search"} /\ d.out[3] = "Response"
  \/ "next_page_token" \in DOMAIN d.resp

LintPaginationField(d, f, type) ==
  When(IsPaginatedRequestMessage(d),
       LintFieldPresent(d, f, type) \cup When(HasField(d, f), LintSingularField(d, f, type)))

RequestMaxPageSizeField(d) == LintPaginationField(d, "max_page_size", Int32)

RequestPageTokenField(d) == LintPaginationField(d, "page_token", String)

RequestSkipField(d) ==
  When(IsPaginatedRequestMessage(d) /\ HasField(d, "skip"), LintSingularField(d, "skip", Int32))

ResponseNextPageTokenField(d) ==
  LET f == "next_page_token"
  IN  When(IsPaginatedResponseMessage(d),
           Advice(~ /\ f \in DOMAIN d.resp
                    /\ d.resp[f].type = String /\ ~ d.resp[f].repeated,
                  SetResp(d, f, [type |-> String, repeated |-> FALSE])))

ResponseRepeatedField(d) ==
  When(IsPaginatedResponseMessage(d) /\ DOMAIN d.resp # {},
       Advice(\A f \in DOMAIN d.resp : ~ d.resp[f].repeated,
              SetResp(d, "results", [type |-> Bare(Singular[d.noun]), repeated |-> TRUE])))

PaginatedResponseUnary(d) ==
  When(IsPaginatedRequestMessage(d) /\ IsPaginatedResponseMessage(d),
       Advice(d.streaming, [d EXCEPT !.streaming = FALSE]))

ListAdvice(d) ==
  UNION {ListHTTPBody(d), ListHTTPMethod(d), ListMethodSignature(d), ListRequestFieldTypes(d),
         ListRequestMessageName(d), ListRequestParentBehavior(d), ListRequestParentField(d),
         ListRequestParentReference(d), ListRequestParentValidReference(d),
         ListRequestParentRequired(d), ListRequestRequiredFields(d),
         ListRequestShowDeletedRequired(d), ListResourceReferenceType(d),
         ListResponseMessageName(d), ListResponseUnknownFields(d), ListRequestUnknownFields(d)}

PaginationAdvice(d) ==
  UNION {RequestMaxPageSizeField(d), RequestPageTokenField(d), RequestSkipField(d),
         ResponseNextPageTokenField(d), ResponseRepeatedField(d), PaginatedResponseUnary(d)}

=============================================================================
