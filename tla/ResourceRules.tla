--------------------------- MODULE ResourceRules ---------------------------
(***************************************************************************)
(* The rules on the message of a resource and its annotation: AEP-4,       *)
(* AEP-122 and the field behavior of AEP-148.  A name in an annotation is  *)
(* one of few texts, and the constants below say what the helpers on text  *)
(* make of each, so that the differences between kebab case, snake case    *)
(* and camel case show.                                                    *)
(***************************************************************************)
EXTENDS FieldRules, SequencesExt

CONSTANTS
  ToKebabCase,      \* text -> utils.ToKebabCase of it
  SnakeCase,        \* text -> strcase.SnakeCase of it
  LowerCamelCase,   \* text -> strcase.LowerCamelCase of it
  Upper,            \* the texts with an upper case letter
  Capital,          \* the texts that start with no lower case letter
  Underscored,      \* the texts with an underscore
  Spaced,           \* the texts with a space
  Identifiers,      \* the texts that are an identifier when they are in braces
  Service,          \* what the author puts before the slash of a type
  Plural,           \* noun -> the plural of its resource
  Pattern           \* noun -> the pattern of its resource

(* A text that is in kebab case, and has no dots as no text here does.     *)
IsKebab(s) == s \notin Upper \cup Underscored \cup Spaced

ASSUME TextAssumption ==
  /\ \A s \in DOMAIN ToKebabCase : ToKebabCase[s] = s <=> IsKebab(s)
  /\ IsKebab("*") /\ IsKebab("**")

(* An annotation has a type, split at its slashes, a singular, a plural,   *)
(* and patterns, each split at its slashes.                                *)
Blank == [type |-> <<"">>, singular |-> "", plural |-> "", patterns |-> <<>>]
NoAnnotation == [Blank EXCEPT !.type = <<>>]

Constant(name) == [var |-> FALSE, name |-> name]
Variable(name) == [var |-> TRUE, name |-> name]

Annotate(m, part, value) == [m EXCEPT !.annotation[part] = value]
SetPattern(m, k, p) == [m EXCEPT !.annotation.patterns[k] = p]

Annotated(m) == m.annotation # NoAnnotation
HasType(m) == Annotated(m) /\ m.annotation.type # <<"">>

SplitsInTwo(type) == Len(type) = 2 /\ type[1] # "" /\ type[2] # ""
TypeName(m) == IF SplitsInTwo(m.annotation.type) THEN m.annotation.type[2] ELSE ""

(* One of its patterns ends in no variable.                                *)
IsSingleton(m) ==
  \E k \in DOMAIN m.annotation.patterns : ~ Last(m.annotation.patterns[k]).var

IsResourceMessage(m) == m.form = "resource" /\ HasField(m, "path")

-----------------------------------------------------------------------------

(* The annotation to add is left to the author, and to the other rules.    *)
ResourceAnnotation(m) ==
  When(IsResourceMessage(m), Advice(~ Annotated(m), [m EXCEPT !.annotation = Blank]))

ResourceTypeName(m) ==
  When(Annotated(m),
       IF SplitsInTwo(m.annotation.type)
         THEN Advice(ToKebabCase[TypeName(m)] # TypeName(m),
                     Annotate(m, "type", <<m.annotation.type[1], ToKebabCase[TypeName(m)]>>))
         ELSE {Annotate(m, "type", <<Service, m.noun>>)})

(* Without a type to split, the advice is to have no singular.             *)
ResourceSingular(m) ==
  LET want == ToKebabCase[TypeName(m)]
  IN  When(Annotated(m),
           Advice(\/ m.annotation.singular \notin {want} \ {""}
                  \/ ~ SplitsInTwo(m.annotation.type),
                  Annotate(m, "singular", want)))

ResourcePlural(m) ==
  LET plural == m.annotation.plural
  IN  When(Annotated(m),
           IF plural = "" THEN {Annotate(m, "plural", Plural[m.noun])}
           ELSE Advice(ToKebabCase[plural] # plural, Annotate(m, "plural", ToKebabCase[plural])))

(* The first of the patterns that are wrong.                               *)
FirstOf(wrong) == {k \in wrong : \A l \in wrong : k <= l}

GetDesiredPattern(p) ==
  [k \in DOMAIN p |-> IF p[k].var THEN Variable(SnakeCase[p[k].name])
                                  ELSE Constant(LowerCamelCase[p[k].name])]

SnakeVariables(p) ==
  [k \in DOMAIN p |-> IF p[k].var THEN Variable(SnakeCase[p[k].name]) ELSE p[k]]

Kebab(p) == [k \in DOMAIN p |-> IF p[k].var THEN p[k] ELSE Constant(ToKebabCase[p[k].name])]

HasConstant(p, names) == \E k \in DOMAIN p : ~ p[k].var /\ p[k].name \in names
HasVariable(p, names) == \E k \in DOMAIN p : p[k].var /\ p[k].name \in names

(* Asks for camel case, which AEP-122 refuses.                             *)
ResourcePattern(m) ==
  LET patterns == m.annotation.patterns
      wrong == {k \in DOMAIN patterns : HasConstant(patterns[k], Underscored \cup Spaced)}
  IN  When(Annotated(m),
           IF patterns = <<>> THEN {Annotate(m, "patterns", <<Pattern[m.noun]>>)}
           ELSE {SetPattern(m, k, IF HasConstant(patterns[k], Underscored)
                                    THEN GetDesiredPattern(patterns[k])
                                    ELSE Kebab(patterns[k])) : k \in FirstOf(wrong)})

ResourceVariables(m) ==
  LET patterns == m.annotation.patterns
  IN  {SetPattern(m, k, GetDesiredPattern(patterns[k])) :
         k \in FirstOf({l \in DOMAIN patterns : HasVariable(patterns[l], Upper)})}

IsIdentifier(segment) == segment.var /\ segment.name \in Identifiers

Alternates(p) == \A k \in DOMAIN p : IsIdentifier(p[k]) <=> k % 2 = 0

(* The author writes the pattern anew, unless the case of its variables is *)
(* all that is wrong.                                                      *)
ResourceNameComponentsAlternate(m) ==
  LET patterns == m.annotation.patterns
  IN  When(HasType(m),
           {SetPattern(m, k, LET snake == SnakeVariables(patterns[k])
                             IN  IF Alternates(snake) THEN snake ELSE Pattern[m.noun]) :
              k \in {l \in DOMAIN patterns : ~ Alternates(patterns[l])}})

LintFieldPresentAndSingularString(m, f) ==
  IF HasField(m, f)
    THEN Advice(m.fields[f].type # "string" \/ m.fields[f].repeated,
                [m EXCEPT !.fields[f].type = "string", !.fields[f].repeated = FALSE])
    ELSE {SetField(m, f, PlainField("string"))}

ResourcePathField(m) == When(HasType(m), LintFieldPresentAndSingularString(m, "path"))

PathNeverOptional(m) ==
  When(HasType(m) /\ HasField(m, "path"),
       Advice(m.fields["path"].optional, SetAttribute(m, "path", "optional", FALSE)))

-----------------------------------------------------------------------------

StartsLower(p) == ~ p[1].var /\ p[1].name \notin Capital

(* No pattern after one that starts with anything but a lower case letter  *)
(* is looked at.                                                           *)
LookedAt(patterns) ==
  {k \in DOMAIN patterns : \A l \in 1..(k - 1) : StartsLower(patterns[l])}

LowerStart(m, k) ==
  LET p == m.annotation.patterns[k]
  IN  SetPattern(m, k, IF p[1].var THEN Pattern[m.noun] ELSE Kebab(p))

ResourceCollectionIdentifiers(m) ==
  LET patterns == m.annotation.patterns
      seen == {k \in LookedAt(patterns) : StartsLower(patterns[k])}
  IN  When(Annotated(m),
           UNION {{LowerStart(m, k) : k \in LookedAt(patterns) \ seen},
                  {SetPattern(m, k, Kebab(patterns[k])) :
                     k \in {l \in seen : HasConstant(patterns[l], Upper \cup Underscored)}},
                  {SetPattern(m, k, SnakeVariables(patterns[k])) :
                     k \in {l \in seen : HasVariable(patterns[l], Upper)}}})

IdName(m) ==
  (IF m.annotation.singular # "" THEN m.annotation.singular ELSE SnakeCase[TypeName(m)]) \o "_id"

(* Only a field that is called by the singular as it is written.           *)
ResourceIdOutputOnly(m) ==
  When(HasType(m),
       Each(m, {f \in DOMAIN m.fields \cap {"uid", IdName(m)} : ~ m.fields[f].outputOnly},
            "outputOnly", TRUE))

NoSelfLinks(m) ==
  When(HasType(m), {DropField(m, f) : f \in NamesOf(m, "string") \cap {"self_link"}})

FieldBehavior(m) ==
  When(HasType(m),
       Each(m, {f \in DOMAIN m.fields \cap {"create_time", "delete_time", "uid", "update_time"} :
                  ~ m.fields[f].outputOnly}, "outputOnly", TRUE))

PatternAdvice(m) ==
  UNION {ResourcePattern(m), ResourceVariables(m), ResourceNameComponentsAlternate(m),
         ResourceCollectionIdentifiers(m)}

ResourceAdvice(m) ==
  UNION {ResourceAnnotation(m), ResourceTypeName(m), ResourceSingular(m), ResourcePlural(m),
         ResourcePathField(m), PathNeverOptional(m), ResourceIdOutputOnly(m), NoSelfLinks(m),
         FieldBehavior(m), PatternAdvice(m)}

=============================================================================
