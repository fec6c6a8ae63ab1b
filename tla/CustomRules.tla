---------------------------- MODULE CustomRules ----------------------------
(***************************************************************************)
(* The rules of AEP-136 (rules/aep0136).  The first word of a method's     *)
(* name is taken for its verb, the rest for its noun.                      *)
(***************************************************************************)
EXTENDS Method

CONSTANT WithoutPrepositions  \* noun -> the noun without its prepositions

ASSUME PrepositionsAssumption ==
  \A n \in DOMAIN WithoutPrepositions :
    /\ WithoutPrepositions[n] \in DOMAIN WithoutPrepositions
    /\ WithoutPrepositions[WithoutPrepositions[n]] = WithoutPrepositions[n]

(* A colon in any of its URIs makes every method a custom one.             *)
IsCustomMethod(d) ==
  \/ \E k \in DOMAIN d.http : d.http[k].colon # ""
  \/ d.verb \notin {"Get", "List", "Create", "Update", "Delete", "Replace", "Apply"}

CustomHasBody(d, rule) ==
  IF rule.verb \in {"GET", "DELETE"} THEN rule.body = ""
                                     ELSE rule.body \in {Snake[d.noun], "*"}

CustomHTTPBody(d) ==
  When(IsCustomMethod(d),
       Advice(\E k \in DOMAIN d.http : ~ CustomHasBody(d, d.http[k]),
              [d EXCEPT !.http = [k \in DOMAIN @ |->
                 IF CustomHasBody(d, @[k]) THEN @[k]
                 ELSE [@[k] EXCEPT !.body =
                         IF d.http[k].verb \in {"GET", "DELETE"} THEN "" ELSE "*"]]]))

(* Which of the two methods to use is the author's choice.                 *)
CustomHTTPMethod(d) ==
  When(/\ IsCustomMethod(d)
       /\ ~ (d.verb = "Delete" /\ d.noun \in Revision)
       /\ \E k \in DOMAIN d.http : d.http[k].verb \notin {"POST", "GET"},
       {SetHTTP(d, "verb", v) : v \in {"POST", "GET"}})

NoPrepositions(d) ==
  Advice(WithoutPrepositions[d.noun] # d.noun,
         [d EXCEPT !.noun = WithoutPrepositions[@]])

(* The problem goes away with "Imperative only." in the comment.           *)
StandardMethodsOnly(d) ==
  When(/\ IsDeclarativeFriendlyMethod(d)
       /\ d.verb \notin {"Get", "List", "Create", "Update", "Delete", "Undelete",
                         "BatchGet", "BatchCreate", "BatchUpdate", "BatchDelete"},
       Advice(~ d.imperative, [d EXCEPT !.imperative = TRUE]))

(* A method named by its verb alone is for one of the resources.           *)
VerbNoun(d) == When(d.noun = "", {[d EXCEPT !.noun = n] : n \in DOMAIN d.patterns})

CustomAdvice(d) ==
  UNION {CustomHTTPBody(d), CustomHTTPMethod(d), NoPrepositions(d), StandardMethodsOnly(d),
         VerbNoun(d)}

=============================================================================
