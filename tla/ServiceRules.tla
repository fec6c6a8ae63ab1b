---------------------------- MODULE ServiceRules ----------------------------
(***************************************************************************)
(* The rules on a service and its resources: AEP-121 on the methods that   *)
(* resources must have, AEP-127, 122 and 159 on URIs, AEP-144 on methods   *)
(* that add and remove, AEP-156 on singletons, and AEP-4 on resources of   *)
(* the same type.                                                          *)
(***************************************************************************)
EXTENDS ResourceRules

(* An API has:                                                             *)
(*   resources  noun -> the message of a resource                          *)
(*   methods    the methods of its service                                 *)
(* and a method:                                                           *)
(*   verb, noun the parts of its name                                      *)
(*   out        the noun of what it returns, lists or promises             *)
(*   operation  whether that is by way of an operation                     *)
(*   streaming  "none", "server" or "both"                                 *)
(*   reference  the type that the field of the URI's variable refers to,   *)
(*              split like that of an annotation, <<>> for none or for a   *)
(*              child type                                                 *)
(*   http       the HTTP rules: verb, body, whether the URI starts with a  *)
(*              slash, its variable, the variable's template, the rest     *)

IsAPI(d) ==
  /\ DOMAIN d = {"resources", "methods"}
  /\ \A m \in d.methods : "http" \in DOMAIN m /\ DOMAIN m.http \subseteq Nat

SetMethod(d, m, fixed) == [d EXCEPT !.methods = (@ \ {m}) \cup {fixed}]
SetResource(d, n, fixed) == [d EXCEPT !.resources[n] = fixed]

TypeOf(d, n) == d.resources[n].annotation.type
IsTyped(d, n) == n \in DOMAIN d.resources /\ HasType(d.resources[n])
OfType(d, type) == {n \in DOMAIN d.resources : TypeOf(d, n) = type}

Template(p) == [k \in DOMAIN p |-> IF p[k].var THEN "*" ELSE p[k].name]

(* How the author writes the URI of a method: a List or a Create is at the *)
(* resource's collection, the rest at the resource.  (The HTTP method and  *)
(* the body are those of a Get: for all but Add and Remove they are the    *)
(* matter of the modules on methods.)                                      *)
StandardRule(verb, noun) ==
  LET p == Template(Pattern[noun])
      above == SubSeq(p, 1, Len(p) - 2)
      rule == [verb |-> "GET", body |-> "", slash |-> TRUE, var |-> "path", template |-> p,
               tail |-> <<>>]
  IN  IF verb \notin {"List", "Create"} THEN rule
      ELSE [rule EXCEPT !.var = IF above = <<>> THEN "" ELSE "parent", !.template = above,
                        !.tail = <<p[Len(p) - 1]>>]

StandardMethod(verb, noun, type) ==
  [verb |-> verb, noun |-> noun, out |-> noun, operation |-> FALSE, streaming |-> "none",
   reference |-> IF verb \in {"List", "Create"} THEN <<>> ELSE type,
   http |-> <<StandardRule(verb, noun)>>]

(* A new method refers to its resource by the type that it has by then.    *)
AddMethod(d, verb, noun) ==
  [d EXCEPT !.methods = {m \in @ : m.verb # verb \/ m.noun # noun}
                          \cup {StandardMethod(verb, noun, TypeOf(d, noun))}]

-----------------------------------------------------------------------------

(* The methods that may stand for a standard one, and the types they are   *)
(* for.                                                                    *)
Unary(d, verbs) ==
  {m \in d.methods : m.streaming = "none" /\ m.verb \in verbs /\ IsTyped(d, m.out)}

TypesOf(d, methods) == {TypeOf(d, m.out) : m \in methods}

(* Mutant: a resource that is only listed needs no Get.                    *)
SupportGetUnlessListed(d) ==
  UNION {{AddMethod(d, "Get", n) : n \in OfType(d, t)} :
           t \in TypesOf(d, Unary(d, {"Create", "Update"}))
                   \ TypesOf(d, {m \in Unary(d, {"Get"}) : ~ m.operation})}

(* The type of a Get that returns an operation is that of the operation.   *)
ResourceMustSupportGet(d) ==
  UNION {{AddMethod(d, "Get", n) : n \in OfType(d, t)} :
           t \in TypesOf(d, Unary(d, {"Create", "Update", "List"}))
                   \ TypesOf(d, {m \in Unary(d, {"Get"}) : ~ m.operation})}

ResourceMustSupportList(d) ==
  LET several == {m \in Unary(d, {"Create", "Update", "Get"}) :
                    ~ IsSingleton(d.resources[m.out])}
  IN  UNION {{AddMethod(d, "List", n) : n \in OfType(d, t)} :
               t \in TypesOf(d, several) \ TypesOf(d, Unary(d, {"List"}))}

(* Each of the messages is reported, and the author gives it the type of   *)
(* its name.                                                               *)
DuplicateResource(d) ==
  {SetResource(d, n, Annotate(d.resources[n], "type", <<Service, ToKebabCase[n]>>)) :
     n \in {k \in DOMAIN d.resources : IsTyped(d, k) /\ OfType(d, TypeOf(d, k)) # {k}}}

-----------------------------------------------------------------------------

HasAnnotation(m) ==
  LET both == m.streaming = "both"
  IN  Advice((m.http # <<>>) <=> both,
             [m EXCEPT !.http = IF both THEN <<>> ELSE <<StandardRule(m.verb, m.noun)>>])

SetRule(m, k, h) == [m EXCEPT !.http[k] = h]

(* The segments of the URI without its variable.                           *)
PlainURI(h) == h.template \o h.tail

Uses(h, names) == \E k \in DOMAIN PlainURI(h) : PlainURI(h)[k] \in names

Rewrite(h, Fix(_)) ==
  [h EXCEPT !.template = [k \in DOMAIN @ |-> Fix(@[k])], !.tail = [k \in DOMAIN @ |-> Fix(@[k])]]

LeadingSlash(m) ==
  {SetRule(m, k, [m.http[k] EXCEPT !.slash = TRUE]) :
     k \in FirstOf({l \in DOMAIN m.http : ~ m.http[l].slash})}

HTTPTemplateSyntax(m) ==
  LET fix(s) == IF s = "-" THEN "*" ELSE ToKebabCase[s]
  IN  {SetRule(m, k, [Rewrite(m.http[k], fix) EXCEPT !.slash = TRUE]) :
         k \in {l \in DOMAIN m.http :
                  \/ ~ m.http[l].slash
                  \/ Uses(m.http[l], (Upper \cup Capital \cup Spaced) \ {"*", "**"})}}

ResourcePathExtraction(m) ==
  {SetRule(m, k, [m.http[k] EXCEPT !.template = StandardRule(m.verb, m.noun).template]) :
     k \in FirstOf({l \in DOMAIN m.http :
                      m.http[l].template = <<"*">> /\ m.http[l].var \notin {"", "$api_version"}})}

(* A segment of a template against one of a pattern.                       *)
SegmentMatches(s, segment) ==
  IF segment.var THEN s = "*" ELSE s \in {"*", segment.name} /\ segment.name # ""

(* "**" stands for any number of segments, after a slash.                  *)
Matches(t, p) ==
  \/ Len(t) = Len(p) /\ \A k \in DOMAIN t : SegmentMatches(t[k], p[k])
  \/ \E k \in DOMAIN t :
       /\ t[k] = "**" /\ Len(p) >= Len(t)
       /\ \A l \in 1..(k - 1) : SegmentMatches(t[l], p[l])
       /\ \A l \in (k + 1)..Len(t) : SegmentMatches(t[l], p[Len(p) - Len(t) + l])

AnyMatch(t, patterns) == \E k \in DOMAIN patterns : Matches(t, patterns[k])

(* The first resource whose annotation has the type, as it is written, if  *)
(* there is one: a reference to a type that no resource has any more is    *)
(* passed over.                                                            *)
FindResource(d, type) ==
  LET found == {n \in OfType(d, type) : Annotated(d.resources[n])}
  IN  IF found = {} THEN {} ELSE {CHOOSE n \in found : TRUE}

(* The HTTP rules whose URI is none of the patterns of the resource n.     *)
Unmatched(d, m, n) ==
  {k \in DOMAIN m.http :
     m.http[k].var # "" /\ ~ AnyMatch(m.http[k].template, d.resources[n].annotation.patterns)}

(* The author takes the first pattern, or one of the resource's own.       *)
SetTemplate(d, m, n, k) ==
  LET patterns == d.resources[n].annotation.patterns
  IN  SetRule(m, k, [m.http[k] EXCEPT !.template =
                       Template(IF patterns = <<>> THEN Pattern[n] ELSE patterns[1])])

(* Mutant: looks at the first HTTP rule only.                              *)
FirstTemplatePattern(d, m) ==
  UNION {{SetTemplate(d, m, n, k) : k \in Unmatched(d, m, n) \cap {1}} :
           n \in FindResource(d, m.reference)}

HTTPTemplatePattern(d, m) ==
  UNION {{SetTemplate(d, m, n, k) : k \in Unmatched(d, m, n)} :
           n \in FindResource(d, m.reference)}

(* The problems of the first rule with any.                                *)
KebabCaseURIs(m) ==
  {SetRule(m, k, LET kebab(s) == ToKebabCase[s] IN
                 [Rewrite(m.http[k], kebab) EXCEPT !.var = SnakeCase[@]]) :
     k \in FirstOf({l \in DOMAIN m.http :
                      Uses(m.http[l], Upper \cup Underscored) \/ m.http[l].var \in Upper})}

(* Between two slashes.                                                    *)
HardcodedHyphen(m) ==
  {SetRule(m, k, LET any(s) == IF s = "-" THEN "*" ELSE s IN Rewrite(m.http[k], any)) :
     k \in FirstOf({l \in DOMAIN m.http :
                      \E i \in 1..(Len(PlainURI(m.http[l])) - 1) : PlainURI(m.http[l])[i] = "-"})}

AddRemoveHTTPBody(m) == When(m.verb \in {"Add", "Remove"}, LintHTTPBody(m, "*"))
AddRemoveHTTPMethod(m) == When(m.verb \in {"Add", "Remove"}, LintHTTPMethod(m, "POST"))

(* Tells a singleton by the template of the variable path, which a Create  *)
(* has no use for.                                                         *)
ForbiddenMethods(d) ==
  {[d EXCEPT !.methods = @ \ {m}] :
     m \in {n \in d.methods :
              /\ n.verb \in {"Create", "Delete"}
              /\ \E k \in DOMAIN n.http :
                   n.http[k].var = "path" /\ Last(n.http[k].template) \notin {"*", "**"}}}

-----------------------------------------------------------------------------

URIAdvice(d, m) ==
  UNION {HasAnnotation(m), LeadingSlash(m), HTTPTemplateSyntax(m), ResourcePathExtraction(m),
         HTTPTemplatePattern(d, m), KebabCaseURIs(m), HardcodedHyphen(m), AddRemoveHTTPBody(m),
         AddRemoveHTTPMethod(m)}

(* The advice on the patterns of the resources, which the URIs follow.     *)
PatternsAdvice(d) ==
  UNION {{SetResource(d, n, m) : m \in PatternAdvice(d.resources[n])} : n \in DOMAIN d.resources}

APIAdvice(d) ==
  UNION {ResourceMustSupportGet(d), ResourceMustSupportList(d), DuplicateResource(d),
         ForbiddenMethods(d),
         UNION {{SetMethod(d, m, n) : n \in URIAdvice(d, m)} : m \in d.methods},
         UNION {{SetResource(d, n, m) :
                   m \in ResourceAdvice(d.resources[n]) \cup FieldAdvice(d.resources[n])} :
                  n \in DOMAIN d.resources}}

=============================================================================
