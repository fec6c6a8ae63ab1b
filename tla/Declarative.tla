---------------------------- MODULE Declarative ----------------------------
(***************************************************************************)
(* DeclarativeFriendlyResource (rules/internal/utils/                      *)
(* declarative_friendly.go): the search for the resource a message or a    *)
(* method belongs to, which calls itself on messages and methods in turn.  *)
(* Names are sequences of camel-case words, so JoinRequest is              *)
(* <<"Join", "Request">>.                                                  *)
(***************************************************************************)
EXTENDS Naturals, Sequences, SequencesExt

CONSTANTS Sees,         \* file -> itself and the imports within its package
          Apis          \* the APIs considered

Nil == [kind |-> "nil", name |-> <<>>]
Message(n) == [kind |-> "message", name |-> n]
Method(n) == [kind |-> "method", name |-> n]

(* Messages of other packages that a method may return.                    *)
Empty == <<"Empty">>
Operation == <<"Operation">>

NoInfo == <<"-">>       \* a method without operation_info

(* An API: the messages and methods of one package, by name.               *)
IsApi(a) ==
  /\ \A n \in DOMAIN a.messages :
       /\ DOMAIN a.messages[n] = {"file", "resource", "fields"}
       /\ a.messages[n].fields \in Seq(DOMAIN a.messages)
  /\ \A n \in DOMAIN a.methods :
       DOMAIN a.methods[n] = {"file", "response", "info"}
  /\ DOMAIN a.messages \subseteq Seq(STRING) /\ DOMAIN a.methods \subseteq Seq(STRING)
  /\ \A n \in DOMAIN a.methods :
       a.methods[n].response \in DOMAIN a.messages \cup {Empty, Operation}

ASSUME ApiAssumption ==
  /\ \A f \in DOMAIN Sees : f \in Sees[f]
  /\ \A a \in Apis : IsApi(a)

VARIABLES api, start,
          at,           \* the argument of the innermost call
          calls,        \* the arguments of all calls, none of which has returned
          answer        \* "none" until they all return

vars == <<api, start, at, calls, answer>>

Nodes(a) == {Message(n) : n \in DOMAIN a.messages} \cup {Method(n) : n \in DOMAIN a.methods}

Init ==
  /\ api \in Apis
  /\ start \in Nodes(api)
  /\ at = start /\ calls = {start}
  /\ answer = "none"

-----------------------------------------------------------------------------

Running == answer = "none"

FileOf(d) == IF d.kind = "message" THEN api.messages[d.name].file ELSE api.methods[d.name].file

(* FindMessage and FindMethod look in the file and in the imports of the   *)
(* same package.                                                           *)
HasMessage(file, n) == n \in DOMAIN api.messages /\ api.messages[n].file \in Sees[file]
HasMethod(file, n) == n \in DOMAIN api.methods /\ api.methods[n].file \in Sees[file]

IsResource(n) == n \in DOMAIN api.messages /\ api.messages[n].resource

(* Every call is the last thing its caller does, so what the innermost one *)
(* returns, they all return.                                               *)
Call(d) == at' = d /\ calls' = calls \cup {d} /\ UNCHANGED <<api, start, answer>>
Return(v) == answer' = v /\ UNCHANGED <<api, start, at, calls>>

EndsWith(n, word) == n # <<>> /\ Last(n) = word
StartsWith(n, word) == n # <<>> /\ Head(n) = word

(* A message is a request when a method has its name without "Request".    *)
HasOwnMethod(d) ==
  EndsWith(d.name, "Request") /\ HasMethod(FileOf(d), Front(d.name))

(* Mutant: the method of a request is one whose name ends with the         *)
(* message's.                                                              *)
RequestMessageBySuffix ==
  /\ Running /\ at.kind = "message"
  /\ EndsWith(at.name, "Request")
  /\ \E m \in DOMAIN api.methods :
       HasMethod(FileOf(at), m) /\ IsSuffix(at.name, m) /\ Call(Method(m))

RequestMessage ==
  /\ Running /\ at.kind = "message"
  /\ HasOwnMethod(at)
  /\ Call(Method(Front(at.name)))

OtherMessage ==
  /\ Running /\ at.kind = "message"
  /\ ~ HasOwnMethod(at)
  /\ Return("nil")

Declared(d) == api.methods[d.name]

(* A Delete method that returns Empty, or an operation, is about the       *)
(* message its name ends with, if there is one.                            *)
DeletesMessage(d) ==
  /\ StartsWith(d.name, "Delete")
  /\ Declared(d).response \in {Empty, Operation}
  /\ HasMessage(FileOf(d), Tail(d.name))

DeleteMethod ==
  /\ Running /\ at.kind = "method"
  /\ DeletesMessage(at)
  /\ Call(Message(Tail(at.name)))

(* The response of a long-running operation is that of its annotation.     *)
IsLro(d) == Declared(d).response = Operation /\ Declared(d).info # NoInfo
Unresolved(d) == IsLro(d) /\ ~ HasMessage(FileOf(d), Declared(d).info)
Response(d) == IF IsLro(d) THEN Declared(d).info ELSE Declared(d).response

UnresolvedOperation ==
  /\ Running /\ at.kind = "method"
  /\ ~ DeletesMessage(at) /\ Unresolved(at)
  /\ Return("nil")

Resolved == Running /\ at.kind = "method" /\ ~ DeletesMessage(at) /\ ~ Unresolved(at)

ResourceResponse ==
  /\ Resolved
  /\ IsResource(Response(at))
  /\ Call(Message(Response(at)))

(* A List response is about the message of its first repeated field.       *)
Listed(d) ==
  LET n == Response(d)
  IN  IF StartsWith(n, "List") /\ EndsWith(n, "Response") /\ n \in DOMAIN api.messages
      THEN api.messages[n].fields ELSE <<>>

ListResponse ==
  /\ Resolved
  /\ ~ IsResource(Response(at)) /\ Listed(at) # <<>>
  /\ Call(Message(Head(Listed(at))))

(* Any other method: its name loses words from the left until a message    *)
(* has what is left of it.                                                 *)
Candidates(d) ==
  {k \in 2..Len(d.name) : HasMessage(FileOf(d), SubSeq(d.name, k, Len(d.name)))}

Custom == Resolved /\ ~ IsResource(Response(at)) /\ Listed(at) = <<>>

CustomMethod ==
  /\ Custom
  /\ \E k \in Candidates(at) :
       /\ \A l \in Candidates(at) : k <= l
       /\ Call(Message(SubSeq(at.name, k, Len(at.name))))

(* Mutant: the search for a name starts again.                             *)
NoCandidateYet == Custom /\ Candidates(at) = {} /\ UNCHANGED vars

NoCandidate ==
  /\ Custom /\ Candidates(at) = {}
  /\ Return("nil")

Finished == answer # "none" /\ UNCHANGED vars

Next ==
  \/ RequestMessage \/ OtherMessage
  \/ DeleteMethod \/ UnresolvedOperation
  \/ ResourceResponse \/ ListResponse \/ CustomMethod \/ NoCandidate
  \/ Finished

Spec == Init /\ [][Next]_vars /\ WF_vars(Next)

-----------------------------------------------------------------------------

TypeOK ==
  /\ IsApi(api) /\ start \in Nodes(api)
  /\ at \in calls /\ calls \subseteq Nodes(api)
  /\ answer \in {"none", "nil"}

(* What a method's response leads to.                                      *)
Leads(a) ==
  {n \in DOMAIN a.messages :
     \E m \in DOMAIN a.methods :
       LET r == IF a.methods[m].response = Operation /\ a.methods[m].info # NoInfo
                THEN a.methods[m].info ELSE a.methods[m].response
       IN  \/ n = r /\ a.messages[n].resource
           \/ r \in DOMAIN a.messages /\ a.messages[r].fields # <<>>
                /\ n = Head(a.messages[r].fields)}

(* No response leads to a message called Request: no resource is.          *)
RequestsAreNoResources == \A n \in Leads(api) : ~ EndsWith(n, "Request")

(* Then no call has the argument of a call it is made from, although every *)
(* other kind of step can meet any message or method.                      *)
NeverAgain ==
  [][(RequestsAreNoResources /\ at' # at) => at' \notin calls]_vars

(* Why: a step to a method drops the word Request, a step to what is left  *)
(* of a name drops words, and a step to a response is the last.  The       *)
(* inductive invariant says that every call is of a lower rank than those  *)
(* it is made from.                                                        *)
Rank(d) ==
  IF d.kind = "method" THEN 2 * Len(d.name) + 1
  ELSE IF EndsWith(d.name, "Request") THEN 2 * Len(d.name) ELSE 0

Descending ==
  /\ IsApi(api)
  /\ at \in Nodes(api) /\ calls \subseteq Nodes(api)
  /\ RequestsAreNoResources =>
       \A d \in calls \ {at} : Rank(at) < Rank(d)

(* The search returns, for any such API.                                   *)
ReturnsWithoutRequestResources == RequestsAreNoResources => <>(answer # "none")

(* "If there is no declarative-friendly resource, it returns nil": the     *)
(* search returns, whatever the API.                                       *)
AlwaysReturns == <>(answer # "none")

=============================================================================
