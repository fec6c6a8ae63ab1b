------------------------------- MODULE Method -------------------------------
(***************************************************************************)
(* A method with its request and response messages, as the rules of the    *)
(* standard methods look at it (rules/internal/utils), and the checks that *)
(* the rules share.  A check gives the set of designs that follow the      *)
(* advice of one of its problems, which is empty when it has none.         *)
(***************************************************************************)
EXTENDS Naturals, Sequences, FiniteSets

CONSTANTS
  Snake,       \* noun -> strcase.SnakeCase of it
  Lower,       \* noun -> strings.ToLower of it
  IdField,     \* noun -> its snake case followed by "_id"
  Parts,       \* noun -> the nouns its text contains
  Singular,    \* noun -> the noun of one of them
  Collection,  \* noun -> the collection identifier of its resources
  ParentType,  \* noun -> the type of the parent of its resource
  Revision,    \* the nouns that end with "Revision"
  Revisions    \* the nouns that end with "Revisions"

(* The name of a message, <<"Get", "Book", "Request">>; a resource's has   *)
(* its noun only.  The type of a resource is told by its noun.             *)
Bare(noun) == <<"", noun, "">>
NoName == Bare("")
Operation == Bare("Operation")
Empty == Bare("Empty")
FieldMask == Bare("FieldMask")

Scalar(type) == <<"scalar", type, "">>
String == Scalar("string")
Bool == Scalar("bool")
Int32 == Scalar("int32")

(* A design has:                                                           *)
(*   verb, noun     the parts of the method's name                         *)
(*   in, out        the names of the request and response messages         *)
(*   fields, resp   their fields                                           *)
(*   info           the operation_info annotation                          *)
(*   http           the HTTP rules: verb, body, variables, and the last    *)
(*                  segment of the URI, before and after its colon         *)
(*   signatures     the method_signature annotations                       *)
(*   streaming      whether the response is a stream                       *)
(*   messages       other messages of the file                             *)
(*   patterns       the patterns of each resource of the file: how many    *)
(*                  variables, which collections, whether it ends in one   *)
(*   children       the resources with children                            *)
(*   undelete       the resources with an Undelete method                  *)
(*   expiring       the resources with an expire_time or a purge_time      *)
(*   imperative     whether the comment says "Imperative only."            *)

IsMethod(d) ==
  /\ DOMAIN d = {"verb", "noun", "in", "out", "fields", "resp", "info", "http", "signatures",
                 "streaming", "messages", "patterns", "children", "undelete", "expiring",
                 "imperative"}
  /\ DOMAIN d.info = {"set", "response", "metadata"}

NewField(type) ==
  [type |-> type, repeated |-> FALSE, required |-> FALSE, types |-> <<>>, childTypes |-> <<>>]

NoInfo == [set |-> FALSE, response |-> NoName, metadata |-> NoName]

HasField(d, f) == f \in DOMAIN d.fields

SetField(d, f, field) ==
  [d EXCEPT !.fields = [g \in DOMAIN d.fields \cup {f} |->
                          IF g = f THEN field ELSE d.fields[g]]]

DropField(d, f) ==
  [d EXCEPT !.fields = [g \in DOMAIN d.fields \ {f} |-> d.fields[g]]]

RenameField(d, f, g) == SetField(DropField(d, f), g, d.fields[f])

SetResp(d, f, field) ==
  [d EXCEPT !.resp = [g \in DOMAIN d.resp \cup {f} |-> IF g = f THEN field ELSE d.resp[g]]]

DropResp(d, f) == [d EXCEPT !.resp = [g \in DOMAIN d.resp \ {f} |-> d.resp[g]]]

SetHTTP(d, part, value) ==
  [d EXCEPT !.http = [k \in DOMAIN d.http |-> [d.http[k] EXCEPT ![part] = value]]]

Advice(problem, fixed) == IF problem THEN {fixed} ELSE {}
When(applies, advice) == IF applies THEN advice ELSE {}

-----------------------------------------------------------------------------

(* The forms of methods and messages, by their names.                      *)

IsGetMethod(d) == d.verb = "Get" /\ d.noun # "IamPolicy"

IsLegacyListRevisions(d) ==
  /\ d.noun \in Revisions
  /\ HasField(d, "name")
  /\ d.http # <<>> => d.http[1].colon = "listRevisions"

IsListMethod(d) == d.verb = "List" /\ ~ IsLegacyListRevisions(d)
IsCreateMethod(d) == d.verb = "Create"
IsUpdateMethod(d) == d.verb = "Update"
IsDeleteMethod(d) == d.verb = "Delete" /\ d.noun \notin Revision

IsGetRequestMessage(m) == m[1] = "Get" /\ m[3] = "Request"
IsListRequestMessage(m) == m[1] = "List" /\ m[3] = "Request" /\ m[2] \notin Revisions
IsListResponseMessage(m) == m[1] = "List" /\ m[3] = "Response" /\ m[2] \notin Revisions
IsCreateRequestMessage(m) == m[1] = "Create" /\ m[3] = "Request"
IsUpdateRequestMessage(m) == m[1] = "Update" /\ m[3] = "Request"
IsDeleteRequestMessage(m) == m[1] = "Delete" /\ m[3] = "Request"

IsMessage(type) == type[1] # "scalar"

IsResource(d, m) == m[1] = "" /\ m[3] = "" /\ m[2] \in DOMAIN d.patterns

HasReference(f) == f.types # <<>> \/ f.childTypes # <<>>

(* The reference is to the type, by its child type, or by its type when    *)
(* that is all there is.                                                   *)
References(field, type) ==
  IF field.childTypes # <<>> THEN field.childTypes[1] = type ELSE field.types[1] = type

(* Mutant: finds only the messages that no other part of the file uses.    *)
FindUnused(d, m) == m \in d.messages \ {d.in, d.out}

(* The messages of the file's package; Operation and Empty have their own. *)
FindMessage(d, m) ==
  m \in (d.messages \cup {d.in, d.out} \cup {Bare(n) : n \in DOMAIN d.patterns})
         \ {Operation, Empty, NoName}

(* NoName is a nil.                                                        *)
GetOperationResponseType(d) ==
  IF d.info.set /\ FindMessage(d, d.info.response) THEN d.info.response ELSE NoName

GetResponseType(d) == IF d.out = Operation THEN GetOperationResponseType(d) ELSE d.out

(* The noun of the response when the method's name has it.                 *)
GetResourceMessageName(d) ==
  IF \E n \in Parts[d.noun] : d.out = Bare(n) /\ d.out # Operation
    THEN d.out[2] ELSE d.noun

-----------------------------------------------------------------------------

LintFieldPresent(d, f, type) == Advice(~ HasField(d, f), SetField(d, f, NewField(type)))

LintSingularField(d, f, type) ==
  Advice(d.fields[f].type # type \/ d.fields[f].repeated,
         [d EXCEPT !.fields[f].type = type, !.fields[f].repeated = FALSE])

LintRequiredField(d, f) ==
  Advice(~ d.fields[f].required, [d EXCEPT !.fields[f].required = TRUE])

(* Which type to reference is the author's choice.                         *)
LintFieldResourceReference(d, f) ==
  When(~ HasReference(d.fields[f]),
       {[d EXCEPT !.fields[f].types = <<t>>] : t \in {Singular[d.noun], ParentType[d.noun]}})

LintHTTPBody(d, want) ==
  Advice(\E k \in DOMAIN d.http : d.http[k].body # want, SetHTTP(d, "body", want))

LintHTTPMethod(d, verb) ==
  Advice(\E k \in DOMAIN d.http : d.http[k].verb # verb, SetHTTP(d, "verb", verb))

LintHTTPURIHasVariable(d, v) ==
  Advice(\E k \in DOMAIN d.http : v \notin d.http[k].vars, SetHTTP(d, "vars", {v}))

(* The largest number of variables of any URI is one.                      *)
LintHTTPURIOneVariable(d, rule) ==
  Advice(~ /\ \A k \in DOMAIN d.http : Cardinality(d.http[k].vars) <= 1
           /\ \E k \in DOMAIN d.http : d.http[k].vars # {},
         IF d.http = <<>> THEN [d EXCEPT !.http = <<rule>>]
                          ELSE SetHTTP(d, "vars", rule.vars))

(* A pattern of the message's resource has only one variable.              *)
HasNoParent(d, m) == IsResource(d, m) /\ \E p \in d.patterns[m[2]] : p.vars = 1

(* Whatever it meets on its way, the search ends with a nil (Declarative). *)
DeclarativeFriendlyResource(d) == ""

IsDeclarativeFriendlyMethod(d) == DeclarativeFriendlyResource(d) # ""

RequestName(d) == <<d.verb, d.noun, "Request">>
ResponseName(d) == <<d.verb, d.noun, "Response">>

LintMethodHasMatchingRequestName(d) ==
  Advice(d.in # RequestName(d), [d EXCEPT !.in = RequestName(d)])

LintMethodHasMatchingResponseName(d) ==
  Advice(d.out # ResponseName(d), [d EXCEPT !.out = ResponseName(d)])

(* Only the first signature is looked at.                                  *)
LintSignature(d, want) ==
  Advice(d.signatures = <<>> \/ d.signatures[1] # want,
         [d EXCEPT !.signatures = <<want>> \o IF @ = <<>> THEN <<>> ELSE Tail(@)])

(* One problem for each field.                                             *)
OnlyRequires(d, allowed) ==
  {[d EXCEPT !.fields[f].required = FALSE] :
     f \in {g \in DOMAIN d.fields : d.fields[g].required /\ g \notin allowed}}

(* Fields of the message m are let pass; rules of methods ask m for its    *)
(* name even when it is nil.                                               *)
OnlyRequiresBut(d, allowed, m) ==
  UNION {Advice(d.fields[f].required /\ d.fields[f].type # m,
                [d EXCEPT !.fields[f].required = FALSE]) : f \in DOMAIN d.fields \ allowed}

NilName(d) ==
  /\ GetResponseType(d) = NoName
  /\ \E f \in DOMAIN d.fields : d.fields[f].required /\ IsMessage(d.fields[f].type)

OnlyHas(d, allowed) == {DropField(d, f) : f \in DOMAIN d.fields \ allowed}

(* The message of the response, or of the operation that stands for it.    *)
SetResponse(d, m) ==
  IF d.out = Operation THEN [d EXCEPT !.info.response = m] ELSE [d EXCEPT !.out = m]

(* What the operation's annotation gives, "" when there is none.           *)
ResponseTypeOf(d) == IF d.out = Operation THEN d.info.response ELSE d.out

UseOperation(d) ==
  Advice(d.out # Operation,
         [d EXCEPT !.out = Operation, !.messages = @ \cup {d.out},
                   !.info = [set |-> TRUE, response |-> d.out, metadata |-> Bare("Metadata")]])

=============================================================================
