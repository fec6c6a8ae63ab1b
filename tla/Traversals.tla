----------------------------- MODULE Traversals -----------------------------
(***************************************************************************)
(* A rule of each form goes through the descriptors of a file              *)
(* (lint/rule.go): FileRule, MessageRule, FieldRule, ServiceRule,          *)
(* MethodRule, EnumRule, EnumValueRule and DescriptorRule.  When it has    *)
(* looked at something, the linter looks for the file's header.            *)
(***************************************************************************)
EXTENDS FileHeader, SequencesExt

CONSTANTS
  Order,      \* every descriptor but the file, in the order of the source
  Kind,       \* descriptor -> its kind
  File,
  FilesToLint \* the files considered

Kinds == {"message", "field", "extension", "enum", "value", "service", "method"}
Elements == DOMAIN Kind

(* A file is told by where each descriptor is declared and the locations   *)
(* of its source.  The entries are the messages that protoc makes of the   *)
(* file's map fields.                                                      *)
FileDescriptor ==
  [parent : [Elements -> Elements \cup {File}], entries : SUBSET Elements,
   info : Infos]

(* What protoc has seen to: everything is declared in something that can   *)
(* hold it, and a message after the one that it is nested in begins.  An   *)
(* entry is nested in the message of its field and holds fields only.      *)
Holders ==
  [message |-> {"file", "message"}, field |-> {"message"}, extension |-> {"file", "message"},
   enum |-> {"file", "message"}, value |-> {"enum"}, service |-> {"file"}, method |-> {"service"}]

KindOf(d) == IF d = File THEN "file" ELSE Kind[d]

WellNested(file) ==
  /\ \A d \in Elements : KindOf(file.parent[d]) \in Holders[Kind[d]]
  /\ \A m, n \in DOMAIN Order :
       Kind[Order[m]] = "message" /\ file.parent[Order[m]] = Order[n] => n < m
  /\ \A e \in file.entries :
       /\ Kind[e] = "message" /\ file.parent[e] # File
       /\ \A d \in Elements : file.parent[d] = e => Kind[d] = "field"

ASSUME TraversalsAssumption ==
  /\ File \notin Elements
  /\ Kind \in [Elements -> Kinds]
  /\ Order \in Seq(Elements) /\ ToSet(Order) = Elements /\ IsInjective(Order)
  /\ FilesToLint \subseteq FileDescriptor
  /\ \A file \in FilesToLint : WellNested(file)

Forms == {"file", "message", "field", "service", "method", "enum", "value", "descriptor"}

VARIABLES
  fd,         \* the file being linted
  form,       \* the form of the rule
  applies,    \* the descriptors its OnlyIf accepts, all when that is nil
  linted,     \* the descriptors the rule's function is called on, in order
  done

ruleVars == <<fd, form, applies, linted, done>>
traversalVars == <<ruleVars, headerVars>>

TraversalInit ==
  /\ fd \in FilesToLint
  /\ form \in Forms
  /\ applies \in {Elements \cup {File}, ToSet(SubSeq(Order, 1, Len(Order) \div 2))}
  /\ linted = <<>>
  /\ done = FALSE
  /\ info = fd.info /\ Start

-----------------------------------------------------------------------------

(* The elements of s that are in T, in their order.  (SelectSeq, in a form *)
(* that can be reasoned about.)                                            *)
Keep(s, T) ==
  LET kept[n \in 0..Len(s)] ==
        IF n = 0 THEN <<>>
        ELSE IF s[n] \in T THEN Append(kept[n - 1], s[n]) ELSE kept[n - 1]
  IN  kept[Len(s)]

(* GetMessageTypes, GetNestedMessageTypes, GetFields, GetServices, ...     *)
DeclaredIn(d, kind) == Keep(Order, {e \in Elements : Kind[e] = kind /\ fd.parent[e] = d})

(* The sequences that Op gives for each of a sequence's elements, joined.  *)
ForEach(s, Op(_)) == FlattenSeq([n \in DOMAIN s |-> Op(s[n])])

MapEntry(m) == m \in fd.entries

(* Mutant, which the runs must refuse: a message is appended by its parent *)
(* and by itself.                                                          *)
RepeatedNested ==
  LET nested[m \in Elements] ==
        (IF MapEntry(m) THEN <<>> ELSE <<m>>)
          \o ForEach(DeclaredIn(m, "message"), LAMBDA n : <<n>> \o nested[n])
  IN nested

(* Mutant: the nested messages of the nested ones are left out.            *)
ChildrenOnly ==
  LET nested[m \in Elements] ==
        ForEach(DeclaredIn(m, "message"),
                LAMBDA n : IF MapEntry(n) THEN <<>> ELSE <<n>>)
  IN nested

(* A nested message comes before its own nested ones; those of a map       *)
(* entry, which is itself left out, would be visited.                      *)
AllNestedMessages ==
  LET nested[m \in Elements] ==
        ForEach(DeclaredIn(m, "message"),
                LAMBDA n : (IF MapEntry(n) THEN <<>> ELSE <<n>>) \o nested[n])
  IN nested

GetAllMessages ==
  LET top == DeclaredIn(File, "message")
  IN  top \o ForEach(top, LAMBDA m : AllNestedMessages[m])

EnumsIn(m) == DeclaredIn(m, "enum")
ValuesIn(e) == DeclaredIn(e, "value")
FieldsIn(m) == DeclaredIn(m, "field")
MethodsIn(s) == DeclaredIn(s, "method")

GetAllEnums == EnumsIn(File) \o ForEach(GetAllMessages, EnumsIn)
GetServices == DeclaredIn(File, "service")

(* Every service, method, message, field, enum and enum value.             *)
AllDescriptors ==
  ForEach(GetServices, LAMBDA s : <<s>> \o MethodsIn(s))
    \o ForEach(GetAllMessages, LAMBDA m : <<m>> \o FieldsIn(m))
    \o ForEach(GetAllEnums, LAMBDA e : <<e>> \o ValuesIn(e))

Visited ==
  CASE form = "file" -> <<File>>
    [] form = "message" -> GetAllMessages
    [] form = "field" -> ForEach(GetAllMessages, FieldsIn)
    [] form = "service" -> GetServices
    [] form = "method" -> ForEach(GetServices, MethodsIn)
    [] form = "enum" -> GetAllEnums
    [] form = "value" -> ForEach(GetAllEnums, ValuesIn)
    [] form = "descriptor" -> AllDescriptors

Lint ==
  /\ ~ done
  /\ linted' = Keep(Visited, applies)
  /\ done' = TRUE
  /\ UNCHANGED <<fd, form, applies, headerVars>>

(* The problems of the rule are asked about one by one; the header that    *)
(* they are told is the same.                                              *)
FindHeader == done /\ linted # <<>> /\ HeaderNext /\ UNCHANGED ruleVars

TraversalNext == Lint \/ FindHeader

TraversalSpec == TraversalInit /\ [][TraversalNext]_traversalVars

-----------------------------------------------------------------------------

(* What is generated for a map field is not the author's.                  *)
Generated(d) == d # File /\ (MapEntry(d) \/ fd.parent[d] \in fd.entries)

KindsOf(f) == IF f = "descriptor" THEN Kinds \ {"extension"} ELSE {f}

(* A rule looks at every descriptor of its kind, however deeply nested,    *)
(* that its OnlyIf accepts and the author wrote, at no other, and at none  *)
(* twice: no problem is missed and none is reported twice.                 *)
VisitsItsKind ==
  done =>
    /\ IsInjective(linted)
    /\ ToSet(linted) =
         IF form = "file" THEN {File} \cap applies
         ELSE {d \in Elements \cap applies : Kind[d] \in KindsOf(form) /\ ~ Generated(d)}

=============================================================================
