----------------------------- MODULE FieldRules -----------------------------
(***************************************************************************)
(* The rules on the fields of any message: AEP-141, 142, 155 and 157,      *)
(* AEP-148's on names and formats, and those of AEP-4 and 122 on           *)
(* references and names.  As in Method, a rule gives the messages that     *)
(* follow the advice of one of its problems.                               *)
(***************************************************************************)
EXTENDS Method

CONSTANTS
  Trimmed,      \* name that ends with "_path" -> the name without it
  Counted,      \* name that starts with "num_" -> the singular of its rest and "_count"
  Imperative,   \* name with terms such as "created" or "updated" -> what they suggest
  Clocked,      \* the names whose last word is a unit or a kind of time
  InTime,       \* the names that end with "_time"
  InTimes,      \* the names that end with "_times"
  IPAddresses   \* the names that end with the word "ip_address"

(* A message has:                                                          *)
(*   noun        its name, without the suffix "Request" of the form below  *)
(*   form        "resource", "request" or "nested"                         *)
(*   annotation  aep.api.resource, or NoAnnotation                         *)
(*   fields      name -> field                                             *)
PlainField(type) ==
  [type |-> type, repeated |-> FALSE, optional |-> FALSE, outputOnly |-> FALSE,
   format |-> "", references |-> FALSE]

(* The author who is told to use a name that is taken drops the field that *)
(* has the wrong one.                                                      *)
Renamed(m, f, g) == IF HasField(m, g) THEN DropField(m, f) ELSE RenameField(m, f, g)

SetAttribute(m, f, attribute, value) == [m EXCEPT !.fields[f][attribute] = value]

(* The messages that follow from giving the fields that a problem is about *)
(* the value it asks for.                                                  *)
Each(m, wrong, attribute, value) == {SetAttribute(m, f, attribute, value) : f \in wrong}

NamesOf(m, type) == {f \in DOMAIN m.fields : m.fields[f].type = type}

-----------------------------------------------------------------------------

CountSuffix(m) ==
  {Renamed(m, f, Counted[f]) : f \in DOMAIN m.fields \cap DOMAIN Counted}

(* Keeps the number of bits.                                               *)
ForbiddenTypes(m) ==
  Each(m, NamesOf(m, "uint32") \cup NamesOf(m, "fixed32"), "type", "int32")
    \cup Each(m, NamesOf(m, "uint64") \cup NamesOf(m, "fixed64"), "type", "int64")

(* The suggestion is that of any of the terms in the name: the terms are   *)
(* the keys of a Go map.                                                   *)
ImperativeTimes(m) ==
  UNION {{Renamed(m, f, g) : g \in Imperative[f]} :
           f \in NamesOf(m, "Timestamp") \cap DOMAIN Imperative}

(* Which name ends in "_time" is the author's choice.                      *)
TimesInTime(m) ==
  {Renamed(m, f, "other_time") :
     f \in {g \in NamesOf(m, "Timestamp") \ (InTime \cup DOMAIN Imperative) :
              m.fields[g].repeated => g \notin InTimes}}

TimeFieldNames(m) == ImperativeTimes(m) \cup TimesInTime(m)

TimeFieldType(m) ==
  Each(m, {f \in DOMAIN m.fields \cap Clocked :
             m.fields[f].type \notin {"Timestamp", "Date", "DateTime", "TimeOfDay"}},
       "type", "Timestamp")

HumanNames(m) ==
  LET correction == [first_name |-> "given_name", last_name |-> "family_name"]
  IN  {Renamed(m, f, correction[f]) : f \in DOMAIN m.fields \cap DOMAIN correction}

(* Which of the formats is the author's choice.                            *)
IPAddressFormat(m) ==
  Each(m, {f \in NamesOf(m, "string") \cap IPAddresses :
             m.fields[f].format \notin {"IPV4", "IPV6", "IPV4_OR_IPV6"}}, "format", "IPV4")

UidFormat(m) ==
  Each(m, {f \in NamesOf(m, "string") \cap {"uid"} : m.fields[f].format # "UUID4"},
       "format", "UUID4")

RequestIdType(m) ==
  Each(m, (DOMAIN m.fields \ NamesOf(m, "IdempotencyKey")) \cap {"request_id"},
       "type", "IdempotencyKey")

RequestReadMaskField(m) ==
  When(m.form = "request" /\ HasField(m, "read_mask"),
       Advice(m.fields["read_mask"].type # "FieldMask" \/ m.fields["read_mask"].repeated,
              SetField(m, "read_mask", [m.fields["read_mask"] EXCEPT !.type = "FieldMask",
                                                                     !.repeated = FALSE])))

PathSuffix(m) == {Renamed(m, f, Trimmed[f]) : f \in DOMAIN m.fields \cap DOMAIN Trimmed}

(* AEP-4 and AEP-122 each have this rule.                                  *)
ResourceReferenceType(m) ==
  Each(m, {f \in DOMAIN m.fields \ NamesOf(m, "string") : m.fields[f].references},
       "references", FALSE)

FieldAdvice(m) ==
  UNION {CountSuffix(m), ForbiddenTypes(m), TimeFieldNames(m), TimeFieldType(m),
         HumanNames(m), IPAddressFormat(m), UidFormat(m), RequestIdType(m),
         RequestReadMaskField(m), PathSuffix(m), ResourceReferenceType(m)}

=============================================================================
