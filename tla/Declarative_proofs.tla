------------------------- MODULE Declarative_proofs -------------------------
(***************************************************************************)
(* Proofs about Declarative: in every API in which no resource is called   *)
(* Request, the search never meets a message or method twice, and has      *)
(* fewer left to meet with every step, so that it cannot recurse for ever. *)
(***************************************************************************)
EXTENDS Declarative, TLAPS

(* The messages and methods have sequences for names.                      *)
LEMMA NamesAreSequences ==
  ASSUME IsApi(api), NEW d \in Nodes(api)
  PROVE  /\ d.name \in Seq(STRING) /\ Len(d.name) \in Nat
         /\ d.kind \in {"message", "method"}
         /\ d.kind = "message" => d.name \in DOMAIN api.messages
         /\ d.kind = "method" => d.name \in DOMAIN api.methods
BY DEF IsApi, Nodes, Message, Method

LEMMA RanksAreNaturals ==
  ASSUME IsApi(api), NEW d \in Nodes(api)
  PROVE  Rank(d) \in Nat
BY NamesAreSequences DEF Rank

(* The nodes an API has for a name.                                        *)
LEMMA NodesOfNames ==
  /\ \A n \in DOMAIN api.messages : Message(n) \in Nodes(api)
  /\ \A n \in DOMAIN api.methods : Method(n) \in Nodes(api)
  /\ \A n : /\ Message(n).kind = "message" /\ Message(n).name = n
            /\ Method(n).kind = "method" /\ Method(n).name = n
BY DEF Nodes, Message, Method

(* A call of lower rank than the innermost one keeps the invariant.        *)
LEMMA LowerCall ==
  ASSUME Descending, NEW d \in Nodes(api), Call(d),
         RequestsAreNoResources => Rank(d) < Rank(at)
  PROVE  Descending' /\ (RequestsAreNoResources => d \notin calls)
<1>1. api' = api /\ at' = d /\ calls' = calls \cup {d}
  BY DEF Call
<1>2. RequestsAreNoResources' <=> RequestsAreNoResources
  BY <1>1 DEF RequestsAreNoResources
<1>3. IsApi(api) /\ at \in Nodes(api) /\ calls \subseteq Nodes(api)
  BY DEF Descending
<1>4. ASSUME RequestsAreNoResources
      PROVE  d \notin calls /\ \A e \in calls \cup {d} : e # d => Rank(d) < Rank(e)
  <2>1. Rank(d) \in Nat /\ Rank(at) \in Nat /\ \A e \in calls : Rank(e) \in Nat
    BY <1>3, RanksAreNaturals
  <2>2. \A e \in calls : Rank(d) < Rank(e)
    BY <1>4, <2>1 DEF Descending
  <2> QED
    BY <2>1, <2>2
<1>5. /\ IsApi(api') /\ at' \in Nodes(api') /\ calls' \subseteq Nodes(api')
  BY <1>1, <1>3
<1>6. RequestsAreNoResources' => \A e \in calls' \ {at'} : Rank(at') < Rank(e)
  BY <1>1, <1>2, <1>4
<1>7. Descending'
  BY <1>5, <1>6 DEF Descending, Rank, EndsWith
<1> QED
  BY <1>4, <1>7

LEMMA ReturnKeeps ==
  ASSUME Descending, NEW v, Return(v)
  PROVE  Descending' /\ at' = at
<1>1. api' = api /\ at' = at /\ calls' = calls
  BY DEF Return
<1> QED
  BY <1>1 DEF Descending, RequestsAreNoResources

(* The step from a request to its method.                                  *)
LEMMA RequestStep ==
  ASSUME Descending, RequestMessage
  PROVE  \E d \in Nodes(api) : Call(d) /\ Rank(d) < Rank(at)
<1> DEFINE m == Front(at.name)
<1>1. /\ at \in Nodes(api) /\ IsApi(api) /\ at.kind = "message"
      /\ EndsWith(at.name, "Request") /\ m \in DOMAIN api.methods
      /\ Call(Method(m))
  BY DEF Descending, RequestMessage, HasOwnMethod, HasMethod
<1>2. at.name \in Seq(STRING) /\ at.name # <<>>
  BY <1>1, NamesAreSequences DEF EndsWith
<1>3. Len(m) = Len(at.name) - 1 /\ Len(at.name) \in Nat
  BY <1>2 DEF Front
<1>4. Rank(Method(m)) = 2 * Len(m) + 1 /\ Rank(at) = 2 * Len(at.name)
  BY <1>1, NodesOfNames DEF Rank
<1>5. Rank(Method(m)) < Rank(at)
  <2> HIDE DEF m
  <2> QED  BY <1>3, <1>4
<1> QED
  BY <1>1, <1>5, NodesOfNames

(* The steps from a method to the message that the rest of its name gives. *)
LEMMA RestOfName ==
  ASSUME Descending, at.kind = "method", NEW n \in DOMAIN api.messages,
         Len(n) < Len(at.name)
  PROVE  Message(n) \in Nodes(api) /\ Rank(Message(n)) < Rank(at)
<1>1. IsApi(api) /\ at \in Nodes(api) /\ Message(n) \in Nodes(api)
  BY NodesOfNames DEF Descending
<1>2. Len(n) \in Nat /\ Len(at.name) \in Nat
  BY <1>1, NamesAreSequences, NodesOfNames
<1>3. Rank(at) = 2 * Len(at.name) + 1 /\ Rank(Message(n)) \in {0, 2 * Len(n)}
  BY NodesOfNames DEF Rank
<1> QED
  BY <1>1, <1>2, <1>3

LEMMA DeleteStep ==
  ASSUME Descending, DeleteMethod
  PROVE  \E d \in Nodes(api) : Call(d) /\ Rank(d) < Rank(at)
<1> DEFINE n == Tail(at.name)
<1>1. /\ at.kind = "method" /\ at \in Nodes(api) /\ IsApi(api)
      /\ at.name # <<>> /\ n \in DOMAIN api.messages /\ Call(Message(n))
  BY DEF Descending, DeleteMethod, DeletesMessage, StartsWith, HasMessage
<1>2. at.name \in Seq(STRING)
  BY <1>1, NamesAreSequences
<1>3. Len(n) < Len(at.name)
  BY <1>1, <1>2
<1> QED
  BY <1>1, <1>3, RestOfName

LEMMA CustomStep ==
  ASSUME Descending, CustomMethod
  PROVE  \E d \in Nodes(api) : Call(d) /\ Rank(d) < Rank(at)
<1>1. at.kind = "method" /\ at \in Nodes(api) /\ IsApi(api)
  BY DEF Descending, CustomMethod, Custom, Resolved
<1>2. at.name \in Seq(STRING) /\ Len(at.name) \in Nat
  BY <1>1, NamesAreSequences
<1>3. PICK k \in 2..Len(at.name) :
        /\ SubSeq(at.name, k, Len(at.name)) \in DOMAIN api.messages
        /\ Call(Message(SubSeq(at.name, k, Len(at.name))))
  BY DEF CustomMethod, Candidates, HasMessage
<1> DEFINE n == SubSeq(at.name, k, Len(at.name))
<1>4. Len(n) = Len(at.name) - k + 1
  BY <1>2, <1>3
<1>5. Len(n) < Len(at.name)
  <2> HIDE DEF n
  <2> QED  BY <1>2, <1>4
<1> QED
  BY <1>1, <1>3, <1>5, RestOfName

(* A step to what a method returns: its message is not called Request, and *)
(* has the lowest rank.                                                    *)
LEMMA LeadsAreLow ==
  ASSUME Descending, at.kind = "method", NEW n \in Leads(api), RequestsAreNoResources
  PROVE  Rank(Message(n)) < Rank(at)
<1>1. Rank(Message(n)) = 0
  BY NodesOfNames DEF Rank, RequestsAreNoResources
<1>2. Rank(at) = 2 * Len(at.name) + 1 /\ Len(at.name) \in Nat
  BY NamesAreSequences DEF Rank, Descending
<1> QED
  BY <1>1, <1>2

LEMMA ResponseStep ==
  ASSUME Descending, ResourceResponse \/ ListResponse
  PROVE  \E d \in Nodes(api) :
           Call(d) /\ (RequestsAreNoResources => Rank(d) < Rank(at))
<1>1. at.kind = "method" /\ at \in Nodes(api) /\ IsApi(api)
  BY DEF Descending, ResourceResponse, ListResponse, Resolved
<1>2. at.name \in DOMAIN api.methods
  BY <1>1, NamesAreSequences
<1> DEFINE r == Response(at)
<1>3. r = IF api.methods[at.name].response = Operation /\ api.methods[at.name].info # NoInfo
          THEN api.methods[at.name].info ELSE api.methods[at.name].response
  BY DEF Response, IsLro, Declared
<1>4. CASE ResourceResponse
  <2>1. r \in DOMAIN api.messages /\ api.messages[r].resource /\ Call(Message(r))
    BY <1>4 DEF ResourceResponse, IsResource
  <2>2. r \in Leads(api)
    BY <1>2, <1>3, <2>1 DEF Leads
  <2> QED
    BY <1>1, <2>1, <2>2, LeadsAreLow, NodesOfNames
<1>5. CASE ListResponse
  <2>1. /\ r \in DOMAIN api.messages
        /\ api.messages[r].fields # <<>>
        /\ Call(Message(Head(api.messages[r].fields)))
    BY <1>5 DEF ListResponse, Listed
  <2>2. Head(api.messages[r].fields) \in DOMAIN api.messages
    BY <1>1, <2>1 DEF IsApi
  <2>3. Head(api.messages[r].fields) \in Leads(api)
    BY <1>2, <1>3, <2>1, <2>2 DEF Leads
  <2> QED
    BY <1>1, <2>1, <2>2, <2>3, LeadsAreLow, NodesOfNames
<1> QED
  BY <1>4, <1>5

LEMMA Steps ==
  ASSUME Descending, [Next]_vars
  PROVE  Descending' /\ (RequestsAreNoResources /\ at' # at => at' \notin calls)
<1>1. CASE UNCHANGED vars
  BY <1>1 DEF vars, Descending, RequestsAreNoResources
<1>2. CASE OtherMessage \/ UnresolvedOperation \/ NoCandidate
  BY <1>2, ReturnKeeps DEF OtherMessage, UnresolvedOperation, NoCandidate
<1>3. CASE \/ RequestMessage \/ DeleteMethod \/ CustomMethod
           \/ ResourceResponse \/ ListResponse
  <2>1. PICK d \in Nodes(api) :
          Call(d) /\ (RequestsAreNoResources => Rank(d) < Rank(at))
    BY <1>3, RequestStep, DeleteStep, CustomStep, ResponseStep
  <2>2. Descending' /\ (RequestsAreNoResources => d \notin calls)
    BY <2>1, LowerCall
  <2> QED
    BY <2>1, <2>2 DEF Call
<1> QED
  BY <1>1, <1>2, <1>3 DEF Next, Finished

LEMMA DescendingInit == Init => Descending
BY ApiAssumption DEF Init, Descending

(* In an API whose responses lead to no message called Request, no call    *)
(* ever has the argument of a call it is made from.                        *)
THEOREM SearchNeverRepeats == Spec => NeverAgain
<1>1. Descending /\ [Next]_vars => Descending'
  BY Steps
<1>2. Descending /\ [Next]_vars =>
        [(RequestsAreNoResources /\ at' # at) => at' \notin calls]_vars
  BY Steps
<1>3. Spec => []Descending
  BY <1>1, DescendingInit, PTL DEF Spec
<1> QED
  BY <1>2, <1>3, PTL DEF Spec, NeverAgain

-----------------------------------------------------------------------------

(* What is left of the search: the calls that the innermost one may lead   *)
(* to, and its return.                                                     *)
Left == IF answer = "none" THEN Rank(at) + 1 ELSE 0

LEMMA LeftIsNatural == Descending => Left \in Nat
BY RanksAreNaturals DEF Descending, Left

LEMMA StepComesCloser ==
  ASSUME Descending, Descending', Next, ~ UNCHANGED vars, RequestsAreNoResources
  PROVE  Left' < Left
<1>1. Rank(at) \in Nat
  BY RanksAreNaturals DEF Descending
<1>2. CASE OtherMessage \/ UnresolvedOperation \/ NoCandidate
  <2>1. answer = "none" /\ answer' = "nil"
    BY <1>2 DEF OtherMessage, UnresolvedOperation, NoCandidate, Return, Running, Resolved, Custom
  <2> QED
    BY <1>1, <2>1 DEF Left
<1>3. CASE \/ RequestMessage \/ DeleteMethod \/ CustomMethod
           \/ ResourceResponse \/ ListResponse
  <2>1. answer = "none"
    BY <1>3 DEF RequestMessage, DeleteMethod, CustomMethod, ResourceResponse, ListResponse,
                Running, Resolved, Custom
  <2>2. PICK d \in Nodes(api) : Call(d) /\ Rank(d) < Rank(at)
    BY <1>3, RequestStep, DeleteStep, CustomStep, ResponseStep
  <2>3. answer' = "none" /\ at' = d
    BY <2>1, <2>2 DEF Call
  <2>4. Rank(d) \in Nat
    BY <2>2, RanksAreNaturals DEF Descending
  <2>5. Left' = Rank(d) + 1 /\ Left = Rank(at) + 1
    BY <2>1, <2>3 DEF Left, Rank, EndsWith
  <2> QED
    BY <1>1, <2>2, <2>4, <2>5
<1> QED
  BY <1>2, <1>3 DEF Next, Finished

(* In such an API the search has a number of steps left that each step     *)
(* makes smaller: DeclarativeFriendlyResource returns                      *)
(* (rules/internal/utils/declarative_friendly.go; the run has              *)
(* ReturnsWithoutRequestResources).                                        *)
THEOREM SearchComesCloser ==
  Spec => [](Left \in Nat) /\ [][RequestsAreNoResources => Left' < Left]_vars
<1>1. Descending /\ [Next]_vars => Descending'
  BY Steps
<1>2. Spec => []Descending
  BY <1>1, DescendingInit, PTL DEF Spec
<1>3. Descending /\ Descending' /\ [Next]_vars => [RequestsAreNoResources => Left' < Left]_vars
  BY StepComesCloser
<1> QED
  BY <1>2, <1>3, LeftIsNatural, PTL DEF Spec

=============================================================================
