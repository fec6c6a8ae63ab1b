----------------------------- MODULE FieldCycles ----------------------------
(***************************************************************************)
(* findCycles of the no-mutable-cycles rule                                *)
(* (rules/aep0121/no_mutable_cycles.go), a depth-first search for chains   *)
(* of mutable references from a resource back to itself.  The recursion is *)
(* a stack of frames.                                                      *)
(***************************************************************************)
EXTENDS Naturals, Sequences, FiniteSetsExt

CONSTANTS Messages, Types, FilesOf, NoMessage,
          Inputs        \* the sets of files considered

(* A field's reference: types and child types, and whether the field is    *)
(* OUTPUT_ONLY.  A field without a reference has neither types.            *)
Field == [types : Seq(Types), childTypes : Seq(Types), outputOnly : BOOLEAN]

(* A set of files: the top-level messages and the imports of each file,    *)
(* and each message's resource type and fields.  start is the message the  *)
(* rule is run on.                                                         *)
Input ==
  [top : [FilesOf -> Seq(Messages)], imports : [FilesOf -> Seq(FilesOf)],
   file : [Messages -> FilesOf], type : [Messages -> Types],
   fields : [Messages -> Seq(Field)], start : Messages]

ASSUME FieldCyclesAssumption ==
  /\ NoMessage \notin Messages
  /\ Inputs \subseteq Input

VARIABLES in,           \* the input, fixed by Init
          stack,        \* the active calls of findCycles, the first at the bottom
          problems,     \* the fields of the start message that are reported
          returned      \* whether the last call has just found a cycle

vars == <<in, stack, problems, returned>>

(* FindResourceMessage: the first top-level message of the type, in the    *)
(* imports in order, then in the file itself.                              *)
Hits(i, type, g) == {k \in DOMAIN i.top[g] : i.type[i.top[g][k]] = type}

FindResourceMessage(i, type, f) ==
  LET files == Append(i.imports[f], f)
      N == {n \in DOMAIN files : Hits(i, type, files[n]) # {}}
      g == files[Min(N)]
  IN  IF N = {} THEN NoMessage ELSE i.top[g][Min(Hits(i, type, g))]

IsMutableReference(field) == field.types # <<>> /\ ~ field.outputOnly

(* Only the first type is followed, and only without child types.          *)
IsFollowed(field) == IsMutableReference(field) /\ field.childTypes = <<>>

Frame(node, seen) == [node |-> node, next |-> 1, seen |-> seen \cup {in.type[node]}]

Top == stack[Len(stack)]
FieldsOf(node) == in.fields[node]
FieldHere == FieldsOf(Top.node)[Top.next]
RefType == FieldHere.types[1]
StartType == in.type[in.start]
Target == FindResourceMessage(in, RefType, in.file[Top.node])

Init ==
  /\ in \in Inputs
  /\ stack = <<[node |-> in.start, next |-> 1, seen |-> {in.type[in.start]}]>>
  /\ problems = {}
  /\ returned = FALSE

-----------------------------------------------------------------------------

Advance(s) == [s EXCEPT ![Len(s)].next = @ + 1]

AtField == stack # <<>> /\ ~ returned /\ Top.next <= Len(FieldsOf(Top.node))

(* Mutant: continue without taking the next field.                         *)
SkipNothing ==
  /\ AtField
  /\ \/ ~ IsFollowed(FieldHere)
     \/ /\ IsFollowed(FieldHere) /\ RefType # StartType
        /\ RefType \in Top.seen \/ Target = NoMessage
  /\ UNCHANGED vars

(* continue: no mutable reference, an indirect one, one that the walk has  *)
(* passed, or one that does not resolve.                                   *)
SkipField ==
  /\ AtField
  /\ \/ ~ IsFollowed(FieldHere)
     \/ /\ IsFollowed(FieldHere) /\ RefType # StartType
        /\ RefType \in Top.seen \/ Target = NoMessage
  /\ stack' = Advance(stack)
  /\ UNCHANGED <<in, problems, returned>>

(* A reference back to the start: the start message goes on with its other *)
(* fields, a recursive call returns at once.                               *)
CloseCycle ==
  /\ AtField /\ IsFollowed(FieldHere) /\ RefType = StartType
  /\ IF Len(stack) = 1
     THEN /\ problems' = problems \cup {Top.next}
          /\ stack' = Advance(stack)
          /\ returned' = FALSE
     ELSE /\ stack' = SubSeq(stack, 1, Len(stack) - 1)
          /\ returned' = TRUE
          /\ UNCHANGED problems
  /\ UNCHANGED in

(* Mutant: the caller's set of seen types grows with the call.             *)
DescendSharing ==
  /\ AtField /\ IsFollowed(FieldHere) /\ RefType # StartType
  /\ RefType \notin Top.seen /\ Target # NoMessage
  /\ stack' = Append([stack EXCEPT ![Len(stack)].seen = @ \cup {RefType}],
                     Frame(Target, Top.seen))
  /\ UNCHANGED <<in, problems, returned>>

Descend ==
  /\ AtField /\ IsFollowed(FieldHere) /\ RefType # StartType
  /\ RefType \notin Top.seen /\ Target # NoMessage
  /\ stack' = Append(stack, Frame(Target, Top.seen))
  /\ UNCHANGED <<in, problems, returned>>

(* The recursive call came back with its one finding, which becomes the    *)
(* caller's, at the field it descended from.                               *)
TakeFinding ==
  /\ returned /\ stack # <<>>
  /\ IF Len(stack) = 1
     THEN /\ problems' = problems \cup {Top.next}
          /\ stack' = Advance(stack)
          /\ returned' = FALSE
     ELSE /\ stack' = SubSeq(stack, 1, Len(stack) - 1)
          /\ UNCHANGED <<problems, returned>>
  /\ UNCHANGED in

(* Mutant: a call without findings counts as one with.                     *)
ReturnAnything ==
  /\ stack # <<>> /\ ~ returned /\ Top.next > Len(FieldsOf(Top.node))
  /\ stack' = SubSeq(stack, 1, Len(stack) - 1)
  /\ returned' = (Len(stack) > 1)
  /\ UNCHANGED <<in, problems>>

(* All fields seen and no finding to return.                               *)
ReturnNothing ==
  /\ stack # <<>> /\ ~ returned /\ Top.next > Len(FieldsOf(Top.node))
  /\ stack' = IF Len(stack) = 1 THEN <<>>
              ELSE Advance(SubSeq(stack, 1, Len(stack) - 1))
  /\ UNCHANGED <<in, problems, returned>>

Finished == stack = <<>> /\ UNCHANGED vars

Next == SkipField \/ CloseCycle \/ Descend \/ TakeFinding \/ ReturnNothing \/ Finished

Spec == Init /\ [][Next]_vars
FairSpec == Spec /\ WF_vars(Next)

-----------------------------------------------------------------------------
(* The reference: the messages reached from one by chains of followed      *)
(* references, as a least set.                                             *)

Followed(i, m) == {i.fields[m][k] : k \in {j \in DOMAIN i.fields[m] : IsFollowed(i.fields[m][j])}}

Leads(i, m) == {FindResourceMessage(i, f.types[1], i.file[m]) : f \in Followed(i, m)} \ {NoMessage}

ClosedUnder(i, S) == \A m \in S : Leads(i, m) \subseteq S

ReachableFrom(i, m) ==
  {n \in Messages : \A S \in SUBSET Messages : (m \in S /\ ClosedUnder(i, S)) => n \in S}

RefersToStart(i, m) == \E f \in Followed(i, m) : f.types[1] = i.type[i.start]

(* The field starts a chain of followed references to the start's type.    *)
StartsCycle(i, field) ==
  /\ IsFollowed(field)
  /\ \/ field.types[1] = i.type[i.start]
     \/ LET m == FindResourceMessage(i, field.types[1], i.file[i.start])
        IN  m # NoMessage /\ \E n \in ReachableFrom(i, m) : RefersToStart(i, n)

(* Every reported field starts a cycle: giving each branch its own copy of *)
(* the set of seen types reports no chain that does not close.             *)
OnlyCyclesReported ==
  \A k \in problems : StartsCycle(in, FieldsOf(in.start)[k])

(* A type is the same message for all the files that find it.              *)
OneMessageEach(i) ==
  \A type \in Types, f, g \in FilesOf :
    LET m == FindResourceMessage(i, type, f)
        n == FindResourceMessage(i, type, g)
    IN  m = n \/ NoMessage \in {m, n}

(* Every field of the start message that starts a cycle is reported:       *)
(* neither the early return of the recursive calls nor the types seen on   *)
(* an abandoned branch hide one.  (A type that is one message here and     *)
(* another there is followed once, so that a cycle through both is not     *)
(* found.)                                                                 *)
EveryCycleReported ==
  stack = <<>> /\ OneMessageEach(in) =>
    \A k \in 1..Len(FieldsOf(in.start)) :
      StartsCycle(in, FieldsOf(in.start)[k]) => k \in problems

Terminates == <>(stack = <<>>)

=============================================================================
