------------------------------- MODULE Author -------------------------------
(***************************************************************************)
(* The author of an API who follows the advice of the linter, one problem  *)
(* at a time and in any order, until there is none.  What `api-linter`     *)
(* reports depends on the file alone, and is nothing at all when a rule    *)
(* panics: LintProtos then returns an error.                               *)
(*                                                                         *)
(* The author works on one thing at a time: a method with its request and  *)
(* response, an API with its resources and its service, a file with its    *)
(* comments, or an enum.  The rules are each written, and tested, on their *)
(* own; what they ask for together is what the author finds out.           *)
(***************************************************************************)
EXTENDS GetRules, ListRules, CreateRules, UpdateRules, DeleteRules,
        OperationRules, CustomRules, ServiceRules, FileRules

CONSTANT Drafts  \* kind -> the designs the author may start with

ASSUME DraftsAssumption ==
  /\ "method" \in DOMAIN Drafts => \A d \in Drafts["method"] : IsMethod(d)
  /\ "api" \in DOMAIN Drafts => \A d \in Drafts["api"] : IsAPI(d)
  /\ "file" \in DOMAIN Drafts => Drafts["file"] \subseteq File

VARIABLES kind, design

vars == <<kind, design>>

(* request-required-fields of AEP-133 and AEP-134 ask a nil response type  *)
(* for its name.                                                           *)
RulePanics(d) == (IsCreateMethod(d) \/ IsUpdateMethod(d)) /\ NilName(d)

(* A method of one of the five forms, and the rules on its form apply.     *)
IsStandardMethod(d) ==
  IsGetMethod(d) \/ IsListMethod(d) \/ IsCreateMethod(d) \/ IsUpdateMethod(d) \/ IsDeleteMethod(d)

MethodAdvice(d) ==
  UNION {GetAdvice(d), ListAdvice(d), PaginationAdvice(d), CreateAdvice(d), UpdateAdvice(d),
         DeleteAdvice(d), UndeleteAdvice(d), OperationAdvice(d), CustomAdvice(d)}

(* The problems of the names of the method, its request and its response.  *)
NamingAdvice(d) ==
  UNION {GetSynonyms(d), GetRequestMessageName(d), GetResponseMessageName(d),
         ListRequestMessageName(d), ListResponseMessageName(d), CreateSynonyms(d),
         CreateInputName(d), CreateOutputName(d), UpdateSynonyms(d),
         UpdateRequestMessageName(d), UpdateResponseMessageName(d),
         DeleteRequestMessageName(d), DeleteResponseMessageName(d),
         UndeleteRequestMessageName(d), UndeleteResponseMessageName(d), NoPrepositions(d)}

(* The problems of the HTTP method.                                        *)
HTTPMethodAdvice(d) ==
  UNION {GetHTTPMethod(d), ListHTTPMethod(d), CreateHTTPMethod(d), UpdateHTTPMethod(d),
         DeleteHTTPMethod(d), UndeleteHTTPMethod(d)}

(* The fields that rules ask to be variables of the URI.                   *)
AskedVariables(d) ==
  CASE IsGetMethod(d) \/ IsUpdateMethod(d) \/ IsDeleteMethod(d) -> {"path"}
    [] IsCreateMethod(d) -> IF HasNoParent(d, GetResponseType(d)) THEN {} ELSE {"parent"}
    [] IsUndeleteMethod(d) -> {"name"}
    [] OTHER -> {}

-----------------------------------------------------------------------------

Panics(k, d) == k = "method" /\ RulePanics(d)

(* What `api-linter` prints.  Of the designs only a file and its elements  *)
(* may be deprecated, which hides what file-layout and filenames say; the  *)
(* other rules on files and comments are Must rules.  No comment in a      *)
(* design disables a rule.                                                 *)
Reported(k, d) ==
  CASE k = "method" -> IF RulePanics(d) THEN {} ELSE MethodAdvice(d)
    [] k = "api"    -> APIAdvice(d)
    [] k = "file"   -> FileAdvice(d)
    [] k = "enum"   -> EnumAdvice(d)

Clean(k, d) == Reported(k, d) = {} /\ ~ Panics(k, d)

(* The problems that come back as long as others are left: a wrong name of *)
(* a method or a message, and a resource's pattern.                        *)
Underlying(k, d) ==
  CASE k = "method" -> NamingAdvice(d)
    [] k = "api"    -> PatternsAdvice(d)
    [] OTHER        -> {}

Init == kind \in DOMAIN Drafts /\ design \in Drafts[kind]

Follow(advice) == kind' = kind /\ design' \in Reported(kind, design) \cap advice

Next == kind' = kind /\ design' \in Reported(kind, design)

Rename == Follow(Underlying(kind, design))

ChangeHTTPMethod == kind = "method" /\ Follow(HTTPMethodAdvice(design))

(* The author does not stop while a problem is left, and does not put off  *)
(* a wrong name, pattern or HTTP method for ever.  As long as an           *)
(* operation's response is not what the method's name says,                *)
(* request-resource-behavior wants the resource required and               *)
(* request-required-fields does not; as long as an Undelete uses GET,      *)
(* AEP-164 wants a body and AEP-136 none; and as long as a pattern is in   *)
(* snake case, http-template-pattern wants a URI like it, which            *)
(* kebab-case-uris refuses.                                                *)
Spec ==
  Init /\ [][Next]_vars /\ WF_vars(Next) /\ SF_vars(Rename) /\ SF_vars(ChangeHTTPMethod)

-----------------------------------------------------------------------------

(* Whatever problem the author takes up first, following the advice ends   *)
(* with a design without problems: no two rules want what the other        *)
(* forbids (the lists of allowed and required fields of each AEP's         *)
(* request-unknown-fields and request-required-fields against the rules    *)
(* that demand fields; the case of a pattern, of a URI and of a name).     *)
Converges == <>Clean(kind, design)

(* A Create or an Update, by any of its names, that says what it returns:  *)
(* a message, or an operation whose response is a message of the file, as  *)
(* is the message that the method is named for, with its prepositions and  *)
(* without.                                                                *)
Answerable(d) ==
  d.verb \in {"Create", "Insert", "Make", "Post", "Update", "Patch", "Put", "Set"} =>
    LET named == {Bare(d.noun), Bare(WithoutPrepositions[d.noun])}
        known == d.messages \cup {Bare(n) : n \in DOMAIN d.patterns}
    IN  /\ d.noun \in DOMAIN WithoutPrepositions
        /\ d.out # NoName /\ Operation \notin named /\ NoName \notin named
        /\ d.out = Operation =>
             d.info.set /\ {d.info.response} \cup named \subseteq known \ {Operation, Empty, NoName}

AnswerableDrafts == "method" \in DOMAIN Drafts => \A d \in Drafts["method"] : Answerable(d)

(* Following advice never leads to a method the linter cannot answer for:  *)
(* the response type of a Create or an Update that GetOperationResponse-   *)
(* Type has found is found whatever else is repaired.                      *)
AdviceIsAnswered == ~ Panics(kind, design)

(* In a method without problems, what the rules ask to be a variable of    *)
(* the URI, the body and the first signature are fields of the request:    *)
(* the rules on the annotations of the method and those on the fields of   *)
(* the request agree.  (But for the signature of a Create at the top that  *)
(* returns an operation: method-signature asks it for a parent.  No rule   *)
(* minds a variable that it does not ask for, or what the body of a        *)
(* custom method names.)                                                   *)
CleanIsCallable ==
  kind = "method" /\ Clean(kind, design) =>
    LET fields == DOMAIN design.fields
        needless == /\ IsCreateMethod(design) /\ design.out = Operation
                    /\ HasNoParent(design, GetResponseType(design))
    IN  /\ AskedVariables(design) \subseteq fields
        /\ IsStandardMethod(design) =>
             \A k \in DOMAIN design.http : design.http[k].body \in fields \cup {""}
        /\ IsStandardMethod(design) /\ (IsListMethod(design) => HasField(design, "parent")) =>
             /\ design.signatures # <<>>
             /\ ToSet(design.signatures[1]) \subseteq
                  fields \cup IF needless THEN {"parent"} ELSE {}

(* In a method without problems that returns anything, what is sent is     *)
(* what comes back: the body is a field of the type of the response, or of *)
(* the operation's response, and a reference on the parent is to the type  *)
(* of what is created, or by child type to that of what is listed.         *)
CleanKnowsItsResource ==
  kind = "method" /\ Clean(kind, design) /\ design.out # NoName /\ IsStandardMethod(design) =>
    LET parent == design.fields["parent"]
        created == GetResponseType(design)
    IN  /\ \A k \in DOMAIN design.http :
             design.http[k].body # "" => design.fields[design.http[k].body].type = created
        /\ HasField(design, "parent") =>
             /\ IsCreateMethod(design) /\ IsResource(design, created) /\ HasReference(parent)
                  => References(parent, created[2])
             /\ IsListMethod(design) /\ design.noun \notin Revisions =>
                  \A n \in DOMAIN design.patterns :
                    Bare(n) \in GetRepeatedMessages(design)
                      => parent.childTypes # <<>> /\ parent.childTypes[1] = n

(* In an API without problems, what a standard method makes, changes or    *)
(* finds can be got at once, and what is no singleton can be listed: what  *)
(* the two rules of AEP-121 demand of each other's methods ends there.     *)
CleanServiceIsComplete ==
  kind = "api" /\ Clean(kind, design) =>
    \A m \in Unary(design, {"Get", "List", "Create", "Update"}) :
      /\ m.verb # "Get" =>
           \E n \in Unary(design, {"Get"}) : n.out = m.out /\ ~ n.operation
      /\ ~ IsSingleton(design.resources[m.out]) =>
           \E n \in Unary(design, {"List"}) : n.out = m.out

(* In an API without problems, every URI is in kebab case, and one whose   *)
(* variable refers to the type of a resource matches a pattern of the      *)
(* resource, in which collections and identifiers take turns: the rules on *)
(* patterns (AEP-4, AEP-122) and those on URIs (AEP-127, AEP-122), each    *)
(* about one annotation, agree.  Nothing is said of a reference to a type  *)
(* that no resource has, which is what resource-type-name's advice makes   *)
(* of one: http-template-pattern passes over it.                           *)
CleanIsAddressable ==
  kind = "api" /\ Clean(kind, design) =>
    \A m \in design.methods :
      /\ m.http = <<>> <=> m.streaming = "both"
      /\ \A k \in DOMAIN m.http : \A s \in ToSet(PlainURI(m.http[k])) : IsKebab(s)
      /\ \A n \in DOMAIN design.resources :
           LET a == design.resources[n].annotation
           IN  Annotated(design.resources[n]) /\ a.type = m.reference =>
                 \A k \in {l \in DOMAIN m.http : m.http[l].var # ""} :
                   \E i \in DOMAIN a.patterns :
                     Alternates(a.patterns[i]) /\ Matches(m.http[k].template, a.patterns[i])

(* In a file without problems that has messages, no service comes after an *)
(* enum, which no rule demands of the two, and all that is said of an      *)
(* element in public is above it, with its deprecation first.  (If the     *)
(* service, the first enum or the file is deprecated, they may stand in    *)
(* any order: file-layout is a ShouldRule, and ruleIsEnabled drops its     *)
(* problem.  No comment of the file disables a rule.)                      *)
CleanFileIsInOrder ==
  kind = "file" /\ Clean(kind, design) =>
    /\ At(design, "message") # {} =>
         \A k \in At(design, "service"), l \in At(design, "enum") :
           IsBefore(design, l, k) =>
             \/ design.deprecated
             \/ design.elements[k].deprecated
             \/ design.elements[First(At(design, "enum"))].deprecated
    /\ \A k \in DOMAIN design.elements :
         LET e == design.elements[k]
         IN  /\ External(e.leading) # <<>>
             /\ External(e.trailing) = <<>> /\ External(e.detached) = <<>>
             /\ e.deprecated => External(e.leading)[1].deprecated

(* An operation without annotation is always reported, as the comment in   *)
(* rules/aep0133/response_message_name.go says: "The AEP-151 rule will     *)
(* whine about that".                                                      *)
UnannotatedIsReported ==
  kind = "method" /\ design.out = Operation /\ ~ design.info.set
    => LroAnnotationExists(design) \subseteq Reported(kind, design)

=============================================================================
