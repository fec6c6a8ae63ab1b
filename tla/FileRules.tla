----------------------------- MODULE FileRules -----------------------------
(***************************************************************************)
(* The rules on a file and its comments, AEP-191 and AEP-192, and those on *)
(* an enum, AEP-126 and AEP-216.                                           *)
(***************************************************************************)
EXTENDS Method, SequencesExt

CONSTANTS
  Versions,     \* the file names that are a version
  ValidNames,   \* the file names with valid characters only
  Slashed,      \* package -> its name with slashes for dots
  Unspecified,  \* enum -> its name in upper case and "_UNSPECIFIED"
  Stateful,     \* enum called ...Status -> its name with the first Status made a State
  Of            \* enum called ...State, but for State -> what comes before

(* A file has:                                                             *)
(*   dir, base   its directory and its name                                *)
(*   package     its package                                               *)
(*   syntax      "proto2", "proto3" or "2023"                              *)
(*   oneLine     whether all of it is on one line                          *)
(*   deprecated  whether the file itself is                                *)
(*   elements    its services, messages and top-level enums, as written    *)
(* and an element its kind, whether it is deprecated, and its comments:    *)
(* those that lead it, trail it or are detached from it.  A comment is a   *)
(* sequence of parts, and a part says whether it is internal, if it starts *)
(* with "Deprecated:", and the kinds of markup in it.                      *)
NewPart == [internal |-> FALSE, deprecated |-> FALSE, markup |-> {}]

Part == [internal : BOOLEAN, deprecated : BOOLEAN, markup : SUBSET STRING]

File ==
  [dir : STRING, base : STRING, package : STRING, syntax : STRING, oneLine : BOOLEAN,
   deprecated : BOOLEAN,
   elements : Seq([kind : {"service", "message", "enum"}, deprecated : BOOLEAN,
                   leading : Seq(Part), trailing : Seq(Part), detached : Seq(Part)])]

(* SeparateInternalComments.                                               *)
IsExternal(part) == ~ part.internal
External(comment) == SelectSeq(comment, IsExternal)
Internal(comment) == SelectSeq(comment, LAMBDA part : part.internal)

Move(s, from, to) == InsertAt(RemoveAt(s, from), to, s[from])

(* Where the elements of a kind are.                                       *)
At(f, kind) == {k \in DOMAIN f.elements : f.elements[k].kind = kind}
First(places) == CHOOSE k \in places : \A l \in places : k <= l

(* Of two elements on one line none is before the other.                   *)
IsBefore(f, k, l) == ~ f.oneLine /\ k < l

-----------------------------------------------------------------------------

(* ruleIsEnabled drops the problem of a ShouldRule, which file-layout is,  *)
(* on an element that is deprecated or in a file that is.                  *)
IsShown(f, k) == ~ f.deprecated /\ ~ f.elements[k].deprecated

ServicesBeforeMessages(f) ==
  When(At(f, "message") # {},
       LET first == First(At(f, "message"))
       IN  {[f EXCEPT !.elements = Move(@, k, first)] :
              k \in {l \in At(f, "service") : IsBefore(f, first, l) /\ IsShown(f, l)}})

(* The problem is that of the first enum, whatever enums come after it.    *)
MessagesBeforeEnums(f) ==
  When(At(f, "enum") # {},
       LET first == First(At(f, "enum"))
       IN  Advice(IsShown(f, first) /\ \E k \in At(f, "message") : IsBefore(f, first, k),
                  [f EXCEPT !.elements = Move(@, first, Len(@))]))

FileLayout(f) == ServicesBeforeMessages(f) \cup MessagesBeforeEnums(f)

(* A ShouldRule as well.  What to call the file instead is the author's    *)
(* choice.                                                                 *)
FileName(f) == Advice(~ f.deprecated /\ (f.base \in Versions \/ f.base \notin ValidNames),
                      [f EXCEPT !.base = "library"])

(* A file in the directory of the run may have any package.                *)
ProtoPkg(f) == Advice(f.dir \notin {".", Slashed[f.package]}, [f EXCEPT !.dir = Slashed[f.package]])

Syntax(f) == Advice(f.syntax = "proto2", [f EXCEPT !.syntax = "2023"])

-----------------------------------------------------------------------------

(* The rules on comments, each on one element.                             *)

(* The author who is asked for a comment moves what there is, or writes    *)
(* one, in which a deprecated element is said to be so.                    *)
Moved(e) ==
  LET first == IF e.leading # <<>> /\ e.leading[1].deprecated THEN 1 ELSE 0
  IN  UNION {Advice(External(e.trailing) # <<>>,
                    [e EXCEPT !.trailing = Internal(@), !.leading = @ \o External(e.trailing)]),
             Advice(External(e.detached) # <<>>,
                    [e EXCEPT !.detached = Internal(@),
                              !.leading = SubSeq(@, 1, first) \o External(e.detached)
                                            \o SubSeq(@, first + 1, Len(@))])}

Written(e) == [e EXCEPT !.leading = <<[NewPart EXCEPT !.deprecated = e.deprecated]>> \o @]

HasComments(e) ==
  When(External(e.leading) = <<>>, IF Moved(e) # {} THEN Moved(e) ELSE {Written(e)})

(* Only the first of the parts that others may read.                       *)
DeprecatedComment(e) ==
  When(e.deprecated,
       LET x == External(e.leading) IN Advice(x = <<>> \/ ~ x[1].deprecated, Written(e)))

Without(e, mark) ==
  [e EXCEPT !.leading = [k \in DOMAIN @ |-> [@[k] EXCEPT !.markup = @ \ {mark}]]]

NoMarkup(e, mark) ==
  Advice(\E k \in DOMAIN External(e.leading) : mark \in External(e.leading)[k].markup,
         Without(e, mark))

AbsoluteLinks(e) == NoMarkup(e, "relative link")
NoHTML(e) == NoMarkup(e, "HTML")
NoMarkdownHeadings(e) == NoMarkup(e, "heading")
NoMarkdownTables(e) == NoMarkup(e, "table")

(* Mutant: minds only what trails.                                         *)
OnlyNoTrailing(e) == When(External(e.trailing) # <<>>, Moved(e))

(* Parts that others may not read may stay where they are.                 *)
OnlyLeadingComments(e) ==
  When(External(e.trailing) # <<>> \/ External(e.detached) # <<>>, Moved(e))

CommentAdvice(e) ==
  UNION {HasComments(e), DeprecatedComment(e), AbsoluteLinks(e), NoHTML(e),
         NoMarkdownHeadings(e), NoMarkdownTables(e), OnlyLeadingComments(e)}

SetElement(f, k, e) == [f EXCEPT !.elements[k] = e]

FileAdvice(f) ==
  UNION {FileLayout(f), FileName(f), ProtoPkg(f), Syntax(f),
         UNION {{SetElement(f, k, e) : e \in CommentAdvice(f.elements[k])} :
                  k \in DOMAIN f.elements}}

-----------------------------------------------------------------------------

(* An enum has its name, its values with their numbers, the messages of    *)
(* its package, and whether the field of its type is output only.          *)

(* Of two values with the name, the one with the smaller number stays.     *)
RenameValue(e, v, name) ==
  LET same == {v} \cup {w \in ToSet(e.values) : w.name = name}
      stays == CHOOSE w \in same : \A u \in same : w.number <= u.number
      kept == SelectSeq(e.values, LAMBDA w : w \notin same \ {stays})
  IN  [e EXCEPT !.values = [k \in DOMAIN kept |-> IF kept[k] = stays THEN [stays EXCEPT !.name = name]
                                                 ELSE kept[k]]]

IsState(e) == e.name = "State" \/ e.name \in DOMAIN Of

UnspecifiedValue(e) ==
  Advice(~ \E v \in ToSet(e.values) : v.number = 0 /\ v.name \in {Unspecified[e.name], "UNKNOWN"},
         RenameValue(e, e.values[1], Unspecified[e.name]))

StateSynonyms(e) == When(e.name \in DOMAIN Stateful, {[e EXCEPT !.name = Stateful[@]]})

(* Nested in the message it is the state of.                               *)
Nesting(e) ==
  When(e.name \in DOMAIN Of, Advice(Of[e.name] \in e.messages, [e EXCEPT !.name = "State"]))

Preferred ==
  [CANCELED |-> "CANCELLED", CANCELING |-> "CANCELLING", FAIL |-> "FAILED", FAILURE |-> "FAILED",
   READY |-> "ACTIVE", SUCCESS |-> "SUCCEEDED", SUCCESSFUL |-> "SUCCEEDED"]

ValueSynonyms(e) ==
  When(IsState(e),
       {RenameValue(e, v, Preferred[v.name]) : v \in {w \in ToSet(e.values) : w.name \in DOMAIN Preferred}})

StateFieldOutputOnly(e) ==
  When(IsState(e), Advice(~ e.outputOnly, [e EXCEPT !.outputOnly = TRUE]))

EnumAdvice(e) ==
  UNION {UnspecifiedValue(e), StateSynonyms(e), Nesting(e), ValueSynonyms(e), StateFieldOutputOnly(e)}

=============================================================================
