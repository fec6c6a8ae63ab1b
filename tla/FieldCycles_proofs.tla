------------------------- MODULE FieldCycles_proofs -------------------------
(***************************************************************************)
(* Proofs about FieldCycles: that the fields reported are those that start *)
(* a cycle, and that the search comes to an end, for every graph of        *)
(* resources.                                                              *)
(***************************************************************************)
EXTENDS FieldCycles, FiniteSetTheorems, WellFoundedInduction, SequenceTheorems, TLAPS

Frames == [node : Messages, next : Nat \ {0}, seen : SUBSET Types]

(* A frame calls the next one for the message that its field leads to.     *)
Calls(i, frame, m) ==
  LET fields == i.fields[frame.node]
  IN  /\ frame.next \in 1..Len(fields) /\ IsFollowed(fields[frame.next])
      /\ m # NoMessage
      /\ m = FindResourceMessage(i, fields[frame.next].types[1], i.file[frame.node])

Chain(i, s) ==
  /\ s \in Seq(Frames) /\ (s # <<>> => s[1].node = i.start)
  /\ \A n \in 1..(Len(s) - 1) : Calls(i, s[n], s[n + 1].node)

(* From the message a chain of followed references closes a cycle.         *)
Closes(i, m) == \E n \in ReachableFrom(i, m) : RefersToStart(i, n)

(* The call on top has just been told of a cycle through its field.        *)
HasFound(i, s) ==
  s # <<>> /\ \E m \in Messages : Calls(i, s[Len(s)], m) /\ Closes(i, m)

(* The search is a chain of calls from the start, a finding is about the   *)
(* field of the call it is returned to, and what has been reported starts  *)
(* a cycle.                                                                *)
SearchInv ==
  /\ in \in Input
  /\ Chain(in, stack)
  /\ returned => HasFound(in, stack)
  /\ problems \subseteq 1..Len(FieldsOf(in.start))
  /\ OnlyCyclesReported

-----------------------------------------------------------------------------

LEMMA MinIsIn ==
  ASSUME NEW S \in SUBSET Nat, S # {}
  PROVE  Min(S) \in S
<1>1. PICK x \in S : \A y \in S : <<y, x>> \notin OpToRel(<, Nat)
  BY NatLessThanWellFounded, WFMin
<1>2. \A y \in Nat : y < x <=> <<y, x>> \in OpToRel(<, Nat)
  BY DEF OpToRel
<1>3. \A y \in S : ~ (y < x)
  BY <1>1, <1>2
<1>4. \A y \in S : x <= y
  BY <1>3
<1> QED
  BY <1>4 DEF Min

LEMMA FirstPlace ==
  ASSUME NEW S, NEW s \in Seq(S), NEW T \in SUBSET DOMAIN s, T # {}
  PROVE  Min(T) \in T /\ s[Min(T)] \in S
<1>1. T \in SUBSET Nat
  OBVIOUS
<1>2. Min(T) \in T
  BY <1>1, MinIsIn
<1> QED
  BY <1>2

LEMMA FieldFacts ==
  ASSUME NEW i \in Input, NEW m \in Messages
  PROVE  /\ i.fields[m] \in Seq(Field) /\ Len(i.fields[m]) \in Nat
         /\ DOMAIN i.fields[m] = 1..Len(i.fields[m])
         /\ i.file[m] \in FilesOf
BY DEF Input

(* A type that resolves resolves to a message of that type.                *)
LEMMA Resolves ==
  ASSUME NEW i \in Input, NEW type, NEW f \in FilesOf, FindResourceMessage(i, type, f) # NoMessage
  PROVE  /\ FindResourceMessage(i, type, f) \in Messages
         /\ i.type[FindResourceMessage(i, type, f)] = type
<1> DEFINE files == Append(i.imports[f], f)
           N == {n \in DOMAIN files : Hits(i, type, files[n]) # {}}
           g == files[Min(N)]
<1>1. files \in Seq(FilesOf) /\ N \in SUBSET DOMAIN files
  BY DEF Input
<1>2. N # {} /\ FindResourceMessage(i, type, f) = i.top[g][Min(Hits(i, type, g))]
  BY DEF FindResourceMessage
<1>3. Min(N) \in N /\ g \in FilesOf
  <2> HIDE DEF files, N
  <2> QED
    BY <1>1, <1>2, FirstPlace
<1>4. Hits(i, type, g) # {}
  <2>1. \A n \in N : Hits(i, type, files[n]) # {}
    OBVIOUS
  <2> HIDE DEF files, N
  <2> QED
    BY <1>3, <2>1
<1> HIDE DEF g
<1>5. i.top[g] \in Seq(Messages)
  BY <1>3 DEF Input
<1>6. Hits(i, type, g) \in SUBSET DOMAIN i.top[g]
  BY DEF Hits
<1>7. /\ i.top[g][Min(Hits(i, type, g))] \in Messages
      /\ Min(Hits(i, type, g)) \in Hits(i, type, g)
  BY <1>4, <1>5, <1>6, FirstPlace
<1>8. i.type[i.top[g][Min(Hits(i, type, g))]] = type
  BY <1>7 DEF Hits
<1> QED
  BY <1>2, <1>7, <1>8

LEMMA CalledIsMessage ==
  ASSUME NEW i \in Input, NEW frame \in Frames, NEW m, Calls(i, frame, m)
  PROVE  m \in Messages /\ m \in Leads(i, frame.node)
<1>1. frame.node \in Messages
  BY DEF Frames
<1>2. m \in Messages
  BY <1>1, FieldFacts, Resolves DEF Calls
<1>3. i.fields[frame.node][frame.next] \in Followed(i, frame.node)
  BY <1>1, FieldFacts DEF Calls, Followed
<1> QED
  BY <1>2, <1>3 DEF Calls, Leads

(* A chain from what a message leads to is one from the message.           *)
LEMMA ClosesFurther ==
  ASSUME NEW i, NEW m \in Messages, NEW l \in Leads(i, m), Closes(i, l)
  PROVE  Closes(i, m)
<1>1. PICK n \in ReachableFrom(i, l) : RefersToStart(i, n)
  BY DEF Closes
<1>2. n \in ReachableFrom(i, m)
  BY <1>1 DEF ReachableFrom, ClosedUnder
<1> QED
  BY <1>1, <1>2 DEF Closes

LEMMA ClosesHere ==
  ASSUME NEW i, NEW m \in Messages, RefersToStart(i, m)
  PROVE  Closes(i, m)
<1>1. m \in ReachableFrom(i, m)
  BY DEF ReachableFrom
<1> QED
  BY <1>1 DEF Closes

-----------------------------------------------------------------------------
(* What the steps do to the stack.                                         *)

LEMMA TopFacts ==
  ASSUME NEW i, NEW s, Chain(i, s), s # <<>>
  PROVE  /\ Len(s) \in Nat \ {0} /\ s[Len(s)] \in Frames /\ s[Len(s)].node \in Messages
         /\ Len(s) = 1 => s[Len(s)].node = i.start
<1>1. Len(s) \in Nat \ {0} /\ s[Len(s)] \in Frames
  BY DEF Chain
<1> QED
  BY <1>1 DEF Chain, Frames

LEMMA Places ==
  ASSUME NEW l \in Nat \ {0}
  PROVE  /\ \A n \in 1..(l - 1) : n \in 1..l /\ n # l
         /\ \A n \in 1..l : n \in 1..(l - 1) \/ n = l
         /\ ((l - 1) - 1) + 1 = l - 1
         /\ (IF 1 <= l - 1 THEN ((l - 1) - 1) + 1 ELSE 0) = l - 1
         /\ \A n \in 1..(l - 1) : (1 + n) - 1 = n
OBVIOUS

LEMMA NextField ==
  ASSUME NEW frame \in Frames
  PROVE  LET after == [frame EXCEPT !.next = @ + 1]
         IN  /\ after \in Frames /\ after.next = frame.next + 1
             /\ after.node = frame.node /\ after.seen = frame.seen
BY DEF Frames

LEMMA AdvanceFacts ==
  ASSUME NEW s \in Seq(Frames), s # <<>>
  PROVE  /\ Advance(s) \in Seq(Frames) /\ Len(Advance(s)) = Len(s)
         /\ \A n \in 1..(Len(s) - 1) : Advance(s)[n] = s[n]
         /\ \A n \in 1..Len(s) :
              Advance(s)[n].node = s[n].node /\ Advance(s)[n].seen = s[n].seen
         /\ Advance(s)[Len(s)].next = s[Len(s)].next + 1
<1>1. Len(s) \in Nat \ {0} /\ DOMAIN s = 1..Len(s)
  OBVIOUS
<1> DEFINE top == s[Len(s)]
           after == [top EXCEPT !.next = @ + 1]
<1>2. /\ top \in Frames /\ after \in Frames /\ after.next = top.next + 1
      /\ after.node = top.node /\ after.seen = top.seen
  <2>1. top \in Frames
    BY <1>1
  <2> HIDE DEF top
  <2> QED
    BY <2>1, NextField
<1>3. Advance(s) = [s EXCEPT ![Len(s)] = after]
  BY <1>1 DEF Advance
<1> HIDE DEF after
<1>4. Advance(s) \in Seq(Frames) /\ Len(Advance(s)) = Len(s)
  BY <1>1, <1>2, <1>3
<1>5. ASSUME NEW n \in 1..(Len(s) - 1) PROVE Advance(s)[n] = s[n]
  <2>1. n \in 1..Len(s) /\ n # Len(s)
    BY <1>1, Places
  <2> QED
    BY <1>1, <1>3, <2>1
<1>6. Advance(s)[Len(s)] = after
  BY <1>1, <1>3
<1>7. \A n \in 1..Len(s) : n \in 1..(Len(s) - 1) \/ n = Len(s)
  BY <1>1, Places
<1> QED
  BY <1>2, <1>4, <1>5, <1>6, <1>7

LEMMA AdvanceKeeps ==
  ASSUME NEW i, NEW s, Chain(i, s), s # <<>>
  PROVE  Chain(i, Advance(s))
<1>1. Len(s) \in Nat \ {0} /\ s \in Seq(Frames)
  BY DEF Chain
<1>2. ASSUME NEW n \in 1..(Len(s) - 1)
      PROVE  Calls(i, Advance(s)[n], Advance(s)[n + 1].node)
  <2>1. n + 1 \in 1..Len(s)
    BY <1>1
  <2> QED
    BY <1>1, <2>1, AdvanceFacts DEF Chain
<1>3. Advance(s)[1].node = i.start
  BY <1>1, AdvanceFacts DEF Chain
<1> QED
  BY <1>1, <1>2, <1>3, AdvanceFacts DEF Chain

LEMMA PopFacts ==
  ASSUME NEW s \in Seq(Frames), s # <<>>
  PROVE  LET popped == SubSeq(s, 1, Len(s) - 1)
         IN  /\ popped \in Seq(Frames) /\ Len(popped) = Len(s) - 1
             /\ \A n \in 1..(Len(s) - 1) : popped[n] = s[n]
<1> DEFINE popped == SubSeq(s, 1, Len(s) - 1)
<1>1. Len(s) \in Nat \ {0} /\ \A n \in 1..(Len(s) - 1) : s[n] \in Frames
  OBVIOUS
<1>2. /\ popped \in Seq(Frames)
      /\ Len(popped) = IF 1 <= Len(s) - 1 THEN ((Len(s) - 1) - 1) + 1 ELSE 0
      /\ \A n \in 1..(((Len(s) - 1) - 1) + 1) : popped[n] = s[(1 + n) - 1]
  BY <1>1, SubSeqProperties
<1> HIDE DEF popped
<1>3. /\ popped \in Seq(Frames) /\ Len(popped) = Len(s) - 1
      /\ \A n \in 1..(Len(s) - 1) : popped[n] = s[n]
  BY <1>1, <1>2, Places
<1> QED
  BY <1>3 DEF popped

LEMMA PopKeeps ==
  ASSUME NEW i, NEW s, Chain(i, s), s # <<>>
  PROVE  LET popped == SubSeq(s, 1, Len(s) - 1)
         IN  /\ Chain(i, popped)
             /\ Len(s) # 1 => popped # <<>> /\ Calls(i, popped[Len(popped)], s[Len(s)].node)
<1> DEFINE popped == SubSeq(s, 1, Len(s) - 1)
<1>1. Len(s) \in Nat \ {0} /\ s \in Seq(Frames)
  BY DEF Chain
<1>2. /\ popped \in Seq(Frames) /\ Len(popped) = Len(s) - 1
      /\ \A n \in 1..(Len(s) - 1) : popped[n] = s[n]
  BY <1>1, PopFacts
<1> HIDE DEF popped
<1>3. ASSUME NEW n \in 1..(Len(popped) - 1) PROVE Calls(i, popped[n], popped[n + 1].node)
  <2>1. n \in 1..(Len(s) - 1) /\ n + 1 \in 1..(Len(s) - 1)
    BY <1>1, <1>2
  <2> QED
    BY <1>2, <2>1 DEF Chain
<1>4. popped # <<>> => popped[1].node = i.start
  BY <1>1, <1>2 DEF Chain
<1>5. Len(s) # 1 => popped # <<>> /\ Calls(i, popped[Len(popped)], s[Len(s)].node)
  <2> SUFFICES ASSUME Len(s) # 1
               PROVE  popped # <<>> /\ Calls(i, popped[Len(popped)], s[Len(s)].node)
    OBVIOUS
  <2> HIDE DEF Chain
  <2>1. Len(s) - 1 \in 1..(Len(s) - 1) /\ (Len(s) - 1) + 1 = Len(s)
    <3>1. \A n \in Nat \ {0, 1} : n - 1 \in 1..(n - 1) /\ (n - 1) + 1 = n
      OBVIOUS
    <3> QED
      BY <1>1, <3>1
  <2>2. popped[Len(popped)] = s[Len(s) - 1]
    BY <1>2, <2>1
  <2>3. Calls(i, s[Len(s) - 1], s[Len(s)].node)
    BY <2>1 DEF Chain
  <2> QED
    BY <1>1, <1>2, <2>1, <2>2, <2>3
<1> QED
  BY <1>2, <1>3, <1>4, <1>5 DEF Chain, popped

LEMMA PushKeeps ==
  ASSUME NEW i, NEW s, Chain(i, s), s # <<>>, NEW frame \in Frames,
         Calls(i, s[Len(s)], frame.node)
  PROVE  Chain(i, Append(s, frame))
<1>1. Len(s) \in Nat \ {0} /\ s \in Seq(Frames)
  BY DEF Chain
<1>2. /\ Append(s, frame) \in Seq(Frames) /\ Len(Append(s, frame)) = Len(s) + 1
      /\ \A n \in 1..Len(s) : Append(s, frame)[n] = s[n]
      /\ Append(s, frame)[Len(s) + 1] = frame
  BY <1>1
<1>3. ASSUME NEW n \in 1..Len(s)
      PROVE  Calls(i, Append(s, frame)[n], Append(s, frame)[n + 1].node)
  <2>1. CASE n = Len(s)
    BY <1>2, <2>1
  <2>2. CASE n # Len(s)
    <3>1. n \in 1..(Len(s) - 1) /\ n + 1 \in 1..Len(s)
      BY <1>1, <2>2
    <3> QED
      BY <1>2, <3>1 DEF Chain
  <2> QED
    BY <2>1, <2>2
<1> QED
  BY <1>1, <1>2, <1>3 DEF Chain

-----------------------------------------------------------------------------

LEMMA SearchFacts ==
  ASSUME SearchInv, stack # <<>>
  PROVE  /\ Len(stack) \in Nat \ {0} /\ Top \in Frames /\ Top.node \in Messages
         /\ Len(stack) = 1 => Top.node = in.start
         /\ in.start \in Messages
         /\ Len(FieldsOf(Top.node)) \in Nat /\ in.file[Top.node] \in FilesOf
<1>1. in \in Input /\ in.start \in Messages
  BY DEF SearchInv, Input
<1> QED
  BY <1>1, TopFacts, FieldFacts DEF SearchInv, Top, FieldsOf

(* The field by which the start has come to a cycle starts it.             *)
LEMMA ReportIsRight ==
  ASSUME SearchInv, HasFound(in, stack), Len(stack) = 1
  PROVE  Top.next \in 1..Len(FieldsOf(in.start)) /\ StartsCycle(in, FieldsOf(in.start)[Top.next])
<1>1. stack # <<>>
  BY DEF HasFound
<1>2. Top.node = in.start
  BY <1>1, SearchFacts
<1>3. PICK m \in Messages : Calls(in, Top, m) /\ Closes(in, m)
  BY DEF HasFound, Top
<1> QED
  BY <1>2, <1>3 DEF Calls, Closes, StartsCycle, FieldsOf

(* The call that returns a finding was made for a message that closes the  *)
(* cycle.                                                                  *)
LEMMA ReturnFinds ==
  ASSUME SearchInv, stack # <<>>, Len(stack) # 1, Closes(in, Top.node)
  PROVE  HasFound(in, SubSeq(stack, 1, Len(stack) - 1))
BY PopKeeps, SearchFacts DEF SearchInv, HasFound, Top

LEMMA ReportedStay ==
  ASSUME SearchInv, in' = in, problems' \subseteq problems \cup {Top.next},
         problems' # problems =>
           Top.next \in 1..Len(FieldsOf(in.start)) /\ StartsCycle(in, FieldsOf(in.start)[Top.next])
  PROVE  problems' \subseteq 1..Len(FieldsOf(in.start))' /\ OnlyCyclesReported'
<1>1. \A n \in problems \cup problems' :
        n \in 1..Len(in.fields[in.start]) /\ StartsCycle(in, in.fields[in.start][n])
  BY DEF SearchInv, OnlyCyclesReported, FieldsOf
<1> QED
  BY <1>1 DEF OnlyCyclesReported, FieldsOf

LEMMA SearchSkips == SearchInv /\ SkipField => SearchInv'
<1> SUFFICES ASSUME SearchInv, SkipField PROVE SearchInv'
  OBVIOUS
<1>1. stack # <<>> /\ stack' = Advance(stack) /\ in' = in /\ problems' = problems /\ ~ returned'
  BY DEF SkipField, AtField
<1>2. Chain(in, Advance(stack))
  BY <1>1, AdvanceKeeps DEF SearchInv
<1>3. problems' \subseteq 1..Len(FieldsOf(in.start))' /\ OnlyCyclesReported'
  BY <1>1, ReportedStay
<1> QED
  BY <1>1, <1>2, <1>3 DEF SearchInv

LEMMA SearchCloses == SearchInv /\ CloseCycle => SearchInv'
<1> SUFFICES ASSUME SearchInv, CloseCycle PROVE SearchInv'
  OBVIOUS
<1>1. /\ stack # <<>> /\ in' = in /\ IsFollowed(FieldHere) /\ RefType = StartType
      /\ Top.next \in 1..Len(FieldsOf(Top.node))
  BY SearchFacts DEF CloseCycle, AtField, Frames
<1>2. CASE Len(stack) = 1
  <2>1. problems' = problems \cup {Top.next} /\ stack' = Advance(stack) /\ ~ returned'
    BY <1>2 DEF CloseCycle
  <2>2. StartsCycle(in, FieldsOf(in.start)[Top.next])
    BY <1>1, <1>2, SearchFacts DEF StartsCycle, FieldHere, RefType, StartType
  <2>3. problems' \subseteq 1..Len(FieldsOf(in.start))' /\ OnlyCyclesReported'
    BY <1>1, <1>2, <2>1, <2>2, SearchFacts, ReportedStay
  <2>4. Chain(in, Advance(stack))
    BY <1>1, AdvanceKeeps DEF SearchInv
  <2> QED
    BY <1>1, <2>1, <2>3, <2>4 DEF SearchInv
<1>3. CASE Len(stack) # 1
  <2>1. stack' = SubSeq(stack, 1, Len(stack) - 1) /\ problems' = problems
    BY <1>3 DEF CloseCycle
  <2>2. RefersToStart(in, Top.node)
    BY <1>1, SearchFacts, FieldFacts
       DEF RefersToStart, Followed, FieldHere, RefType, StartType, FieldsOf, SearchInv
  <2>3. HasFound(in, stack')
    BY <1>1, <1>3, <2>1, <2>2, SearchFacts, ClosesHere, ReturnFinds
  <2>4. Chain(in, stack')
    BY <1>1, <2>1, PopKeeps DEF SearchInv
  <2>5. problems' \subseteq 1..Len(FieldsOf(in.start))' /\ OnlyCyclesReported'
    BY <1>1, <2>1, ReportedStay
  <2> QED
    BY <1>1, <2>3, <2>4, <2>5 DEF SearchInv
<1> QED
  BY <1>2, <1>3

LEMMA SearchDescends == SearchInv /\ Descend => SearchInv'
<1> SUFFICES ASSUME SearchInv, Descend PROVE SearchInv'
  OBVIOUS
<1>1. /\ stack # <<>> /\ in' = in /\ problems' = problems /\ ~ returned'
      /\ stack' = Append(stack, Frame(Target, Top.seen))
      /\ IsFollowed(FieldHere) /\ Target # NoMessage
      /\ Top.next \in 1..Len(FieldsOf(Top.node))
  BY SearchFacts DEF Descend, AtField, Frames
<1>2. Calls(in, Top, Target)
  BY <1>1 DEF Calls, Target, RefType, FieldHere, FieldsOf
<1>3. Target \in Messages
  BY <1>1, <1>2, SearchFacts, CalledIsMessage DEF SearchInv
<1>4. Frame(Target, Top.seen) \in Frames /\ Frame(Target, Top.seen).node = Target
  <2>1. in.type[Target] \in Types /\ Top.seen \subseteq Types
    BY <1>1, <1>3, SearchFacts DEF SearchInv, Input, Frames
  <2> QED
    BY <1>3, <2>1 DEF Frame, Frames
<1>5. Chain(in, stack')
  BY <1>1, <1>2, <1>4, PushKeeps DEF SearchInv, Top
<1>6. problems' \subseteq 1..Len(FieldsOf(in.start))' /\ OnlyCyclesReported'
  BY <1>1, ReportedStay
<1> QED
  BY <1>1, <1>5, <1>6 DEF SearchInv

LEMMA SearchTakes == SearchInv /\ TakeFinding => SearchInv'
<1> SUFFICES ASSUME SearchInv, TakeFinding PROVE SearchInv'
  OBVIOUS
<1>1. returned /\ stack # <<>> /\ in' = in /\ HasFound(in, stack)
  BY DEF SearchInv, TakeFinding
<1>2. CASE Len(stack) = 1
  <2>1. problems' = problems \cup {Top.next} /\ stack' = Advance(stack) /\ ~ returned'
    BY <1>2 DEF TakeFinding
  <2>2. problems' \subseteq 1..Len(FieldsOf(in.start))' /\ OnlyCyclesReported'
    BY <1>1, <1>2, <2>1, ReportIsRight, ReportedStay
  <2>3. Chain(in, Advance(stack))
    BY <1>1, AdvanceKeeps DEF SearchInv
  <2> QED
    BY <1>1, <2>1, <2>2, <2>3 DEF SearchInv
<1>3. CASE Len(stack) # 1
  <2>1. stack' = SubSeq(stack, 1, Len(stack) - 1) /\ problems' = problems
    BY <1>3 DEF TakeFinding
  <2>2. PICK m \in Messages : Calls(in, Top, m) /\ Closes(in, m)
    BY <1>1 DEF HasFound, Top
  <2>3. m \in Leads(in, Top.node)
    BY <1>1, <2>2, SearchFacts, CalledIsMessage DEF SearchInv
  <2>4. Closes(in, Top.node)
    BY <1>1, <2>2, <2>3, SearchFacts, ClosesFurther
  <2>5. HasFound(in, stack') /\ Chain(in, stack')
    BY <1>1, <1>3, <2>1, <2>4, ReturnFinds, PopKeeps DEF SearchInv
  <2>6. problems' \subseteq 1..Len(FieldsOf(in.start))' /\ OnlyCyclesReported'
    BY <1>1, <2>1, ReportedStay
  <2> QED
    BY <1>1, <2>5, <2>6 DEF SearchInv
<1> QED
  BY <1>2, <1>3

LEMMA SearchReturns == SearchInv /\ ReturnNothing => SearchInv'
<1> SUFFICES ASSUME SearchInv, ReturnNothing PROVE SearchInv'
  OBVIOUS
<1>1. stack # <<>> /\ in' = in /\ problems' = problems /\ ~ returned'
  BY DEF ReturnNothing
<1>2. Chain(in, stack')
  <2>1. CASE Len(stack) = 1
    <3>1. stack' = <<>>
      BY <2>1 DEF ReturnNothing
    <3> QED
      BY <3>1 DEF Chain
  <2>2. CASE Len(stack) # 1
    <3>1. stack' = Advance(SubSeq(stack, 1, Len(stack) - 1))
      BY <2>2 DEF ReturnNothing
    <3>2. LET popped == SubSeq(stack, 1, Len(stack) - 1)
          IN  Chain(in, popped) /\ popped # <<>>
      BY <1>1, <2>2, PopKeeps DEF SearchInv
    <3> QED
      BY <3>1, <3>2, AdvanceKeeps
  <2> QED
    BY <2>1, <2>2
<1>3. problems' \subseteq 1..Len(FieldsOf(in.start))' /\ OnlyCyclesReported'
  BY <1>1, ReportedStay
<1> QED
  BY <1>1, <1>2, <1>3 DEF SearchInv

LEMMA SearchStep == SearchInv /\ [Next]_vars => SearchInv'
<1> SUFFICES ASSUME SearchInv, [Next]_vars PROVE SearchInv'
  OBVIOUS
<1>1. CASE UNCHANGED vars
  <2>1. in' = in /\ stack' = stack /\ problems' = problems /\ returned' = returned
    BY <1>1 DEF vars
  <2>2. problems' \subseteq 1..Len(FieldsOf(in.start))' /\ OnlyCyclesReported'
    BY <2>1, ReportedStay
  <2> QED
    BY <2>1, <2>2 DEF SearchInv
<1> QED
  BY <1>1, SearchSkips, SearchCloses, SearchDescends, SearchTakes, SearchReturns
     DEF Next, Finished

LEMMA SearchStarts == Init => SearchInv
<1> SUFFICES ASSUME Init PROVE SearchInv
  OBVIOUS
<1> DEFINE first == [node |-> in.start, next |-> 1, seen |-> {in.type[in.start]}]
<1>1. in \in Input /\ stack = <<first>> /\ problems = {} /\ ~ returned
  BY FieldCyclesAssumption DEF Init
<1>2. first \in Frames /\ first.node = in.start
  BY <1>1 DEF Frames, Input
<1> HIDE DEF first
<1>3. Chain(in, stack)
  BY <1>1, <1>2 DEF Chain
<1> QED
  BY <1>1, <1>3 DEF SearchInv, OnlyCyclesReported

(* no-mutable-cycles reports a field only if a chain of mutable references *)
(* through it comes back to the resource (findCycles in                    *)
(* rules/aep0121/no_mutable_cycles.go), whatever the graph.                *)
THEOREM ReportsOnlyCycles == Spec => []OnlyCyclesReported
<1>1. SearchInv => OnlyCyclesReported
  BY DEF SearchInv
<1> QED
  BY <1>1, SearchStarts, SearchStep, PTL DEF Spec

-----------------------------------------------------------------------------
(* That every cycle is reported: what a call has passed over leads to no   *)
(* cycle but through the types it has seen, and a cycle need not go        *)
(* through a type twice.                                                   *)

ClosedAvoiding(i, U, S) ==
  \A m \in U : \A l \in Leads(i, m) : i.type[l] \notin S => l \in U

(* What a message leads to through messages of none of the types S.        *)
ReachedAvoiding(i, m, S) ==
  {n \in Messages : \A U \in SUBSET Messages : (m \in U /\ ClosedAvoiding(i, U, S)) => n \in U}

ClosesAvoiding(i, m, S) == \E n \in ReachedAvoiding(i, m, S) : RefersToStart(i, n)

(* A field that the loop of a call, for a message and after seen types,    *)
(* may leave behind without a finding.                                     *)
Fruitless(i, m, seen, n) ==
  LET field == i.fields[m][n]
      l == FindResourceMessage(i, field.types[1], i.file[m])
  IN  IsFollowed(field) =>
        /\ field.types[1] # i.type[i.start]
        /\ l # NoMessage /\ field.types[1] \notin seen => ~ ClosesAvoiding(i, l, seen)

Branch(i, s, found) ==
  /\ s # <<>> => s[1].seen = {i.type[i.start]}
  /\ \A n \in 1..Len(s) :
       /\ i.type[i.start] \in s[n].seen
       /\ \A k \in 1..(s[n].next - 1) :
            (n = 1 /\ k \in found) \/ Fruitless(i, s[n].node, s[n].seen, k)
  /\ \A n \in 1..(Len(s) - 1) :
       LET type == i.type[s[n + 1].node]
       IN  type \notin s[n].seen /\ s[n + 1].seen = s[n].seen \cup {type}

CompleteInv ==
  OneMessageEach(in) => Branch(in, stack, problems) /\ EveryCycleReported

(* A message that another leads to is found by its type.                   *)
LEMMA LeadsFacts ==
  ASSUME NEW i \in Input, NEW m \in Messages, NEW l \in Leads(i, m)
  PROVE  /\ l \in Messages /\ i.type[l] \in Types
         /\ \E f \in Followed(i, m) : f.types[1] = i.type[l]
         /\ \E f \in FilesOf : l = FindResourceMessage(i, i.type[l], f)
<1>1. PICK f \in Followed(i, m) :
        l = FindResourceMessage(i, f.types[1], i.file[m]) /\ l # NoMessage
  BY DEF Leads
<1>2. i.file[m] \in FilesOf
  BY FieldFacts
<1>3. l \in Messages /\ i.type[l] = f.types[1]
  BY <1>1, <1>2, Resolves
<1>4. i.type[l] \in Types
  BY <1>3 DEF Input
<1> QED
  BY <1>1, <1>2, <1>3, <1>4

LEMMA ReachedFurther ==
  ASSUME NEW i \in Input, NEW m \in Messages, NEW S
  PROVE  /\ m \in ReachedAvoiding(i, m, S)
         /\ ReachedAvoiding(i, m, S) \in SUBSET Messages
         /\ ClosedAvoiding(i, ReachedAvoiding(i, m, S), S)
<1>1. ASSUME NEW n \in ReachedAvoiding(i, m, S), NEW l \in Leads(i, n), i.type[l] \notin S
      PROVE  l \in ReachedAvoiding(i, m, S)
  <2>1. l \in Messages
    BY LeadsFacts DEF ReachedAvoiding
  <2> QED
    BY <1>1, <2>1 DEF ReachedAvoiding, ClosedAvoiding
<1> QED
  BY <1>1 DEF ReachedAvoiding, ClosedAvoiding

(* A cycle closes without coming back to the type of the start before.     *)
LEMMA WithoutStart ==
  ASSUME NEW i \in Input, NEW m \in Messages, Closes(i, m)
  PROVE  ClosesAvoiding(i, m, {i.type[i.start]})
<1> DEFINE R == ReachedAvoiding(i, m, {i.type[i.start]})
<1> SUFFICES ASSUME \A n \in R : ~ RefersToStart(i, n) PROVE FALSE
  BY DEF ClosesAvoiding
<1>1. m \in R /\ R \in SUBSET Messages /\ ClosedAvoiding(i, R, {i.type[i.start]})
  BY ReachedFurther
<1>2. ASSUME NEW n \in R, NEW l \in Leads(i, n) PROVE l \in R
  <2>1. n \in Messages /\ ~ RefersToStart(i, n)
    BY <1>1
  <2> HIDE DEF R
  <2>2. \E f \in Followed(i, n) : f.types[1] = i.type[l]
    BY <2>1, LeadsFacts
  <2>3. i.type[l] # i.type[i.start]
    BY <2>1, <2>2 DEF RefersToStart
  <2> QED
    BY <1>1, <2>3 DEF ClosedAvoiding
<1>3. ClosedUnder(i, R)
  BY <1>2 DEF ClosedUnder
<1>4. ReachableFrom(i, m) \subseteq R
  BY <1>1, <1>3 DEF ReachableFrom
<1> QED
  BY <1>4 DEF Closes

(* A cycle goes on without coming back to the type of where it is.         *)
LEMMA GoesOn ==
  ASSUME NEW i \in Input, OneMessageEach(i), NEW m \in Messages, NEW S,
         \E f \in FilesOf : m = FindResourceMessage(i, i.type[m], f),
         ~ RefersToStart(i, m), ClosesAvoiding(i, m, S)
  PROVE  \E l \in Leads(i, m) :
           i.type[l] \notin S \cup {i.type[m]} /\ ClosesAvoiding(i, l, S \cup {i.type[m]})
<1> DEFINE seen == S \cup {i.type[m]}
           next == {l \in Leads(i, m) : i.type[l] \notin seen}
           U == {m} \cup UNION {ReachedAvoiding(i, l, seen) : l \in next}
<1>1. \A l \in next : l \in Messages
  BY LeadsFacts
<1>2. U \in SUBSET Messages
  BY DEF ReachedAvoiding
<1>3. ASSUME NEW n \in U, NEW l \in Leads(i, n), i.type[l] \notin S
      PROVE  l \in U
  <2>1. CASE i.type[l] = i.type[m]
    <3>1. l \in Messages /\ i.type[l] \in Types
      BY <1>2, LeadsFacts
    <3>2. \E f \in FilesOf : l = FindResourceMessage(i, i.type[l], f)
      BY <1>2, LeadsFacts
    <3>3. l = m
      BY <2>1, <3>1, <3>2, FieldCyclesAssumption DEF OneMessageEach
    <3> QED
      BY <3>3
  <2>2. CASE i.type[l] # i.type[m]
    <3>1. i.type[l] \notin seen
      BY <1>3, <2>2
    <3>2. CASE n = m
      <4>1. l \in next
        BY <3>1, <3>2
      <4>2. l \in ReachedAvoiding(i, l, seen)
        BY <1>1, <4>1, ReachedFurther
      <4> QED
        BY <4>1, <4>2
    <3>3. CASE n # m
      <4>1. PICK o \in next : n \in ReachedAvoiding(i, o, seen)
        BY <3>3
      <4>2. ClosedAvoiding(i, ReachedAvoiding(i, o, seen), seen)
        BY <1>1, <4>1, ReachedFurther
      <4>3. l \in ReachedAvoiding(i, o, seen)
        BY <3>1, <4>1, <4>2 DEF ClosedAvoiding
      <4> QED
        BY <4>1, <4>3
    <3> QED
      BY <3>2, <3>3
  <2> QED
    BY <2>1, <2>2
<1>4. ReachedAvoiding(i, m, S) \subseteq U
  <2>1. ClosedAvoiding(i, U, S) /\ m \in U
    BY <1>3 DEF ClosedAvoiding
  <2> HIDE DEF U
  <2> QED
    BY <1>2, <2>1 DEF ReachedAvoiding
<1>5. PICK n \in ReachedAvoiding(i, m, S) : RefersToStart(i, n)
  BY DEF ClosesAvoiding
<1>6. PICK l \in next : n \in ReachedAvoiding(i, l, seen)
  BY <1>4, <1>5
<1> QED
  BY <1>5, <1>6 DEF ClosesAvoiding

-----------------------------------------------------------------------------

(* What the loop leaves behind at a message it returns from.               *)
LEMMA NothingThere ==
  ASSUME NEW i \in Input, NEW m \in Messages, NEW seen, i.type[i.start] \in seen,
         \A n \in 1..Len(i.fields[m]) : Fruitless(i, m, seen, n)
  PROVE  /\ ~ RefersToStart(i, m)
         /\ \A l \in Leads(i, m) : i.type[l] \in seen \/ ~ ClosesAvoiding(i, l, seen)
<1>1. ASSUME NEW f \in Followed(i, m)
      PROVE  /\ f.types[1] # i.type[i.start]
             /\ LET l == FindResourceMessage(i, f.types[1], i.file[m])
                IN  l # NoMessage /\ f.types[1] \notin seen => ~ ClosesAvoiding(i, l, seen)
  BY FieldFacts DEF Followed, Fruitless
<1>2. ASSUME NEW l \in Leads(i, m) PROVE i.type[l] \in seen \/ ~ ClosesAvoiding(i, l, seen)
  <2>1. PICK f \in Followed(i, m) :
          l = FindResourceMessage(i, f.types[1], i.file[m]) /\ l # NoMessage
    BY DEF Leads
  <2>2. i.type[l] = f.types[1]
    BY <2>1, FieldFacts, Resolves
  <2> QED
    BY <1>1, <2>1, <2>2
<1> QED
  BY <1>1, <1>2 DEF RefersToStart

(* A call that returns nothing leaves the field it was made for fruitless. *)
LEMMA CallIsFruitless ==
  ASSUME NEW i \in Input, OneMessageEach(i), NEW frame \in Frames, NEW m, Calls(i, frame, m),
         i.type[i.start] \in frame.seen, i.type[m] \notin frame.seen,
         \A n \in 1..Len(i.fields[m]) : Fruitless(i, m, frame.seen \cup {i.type[m]}, n)
  PROVE  Fruitless(i, frame.node, frame.seen, frame.next)
<1> DEFINE field == i.fields[frame.node][frame.next]
<1>1. frame.node \in Messages /\ m \in Messages /\ m \in Leads(i, frame.node)
  BY CalledIsMessage DEF Frames
<1>2. m = FindResourceMessage(i, field.types[1], i.file[frame.node]) /\ m # NoMessage
  BY DEF Calls
<1>3. i.type[m] = field.types[1]
  BY <1>1, <1>2, FieldFacts, Resolves
<1>4. \E f \in FilesOf : m = FindResourceMessage(i, i.type[m], f)
  BY <1>1, LeadsFacts
<1>5. ~ ClosesAvoiding(i, m, frame.seen)
  <2> DEFINE seen == frame.seen \cup {i.type[m]}
  <2>1. i.type[i.start] \in seen /\ \A n \in 1..Len(i.fields[m]) : Fruitless(i, m, seen, n)
    OBVIOUS
  <2> HIDE DEF seen
  <2>2. /\ ~ RefersToStart(i, m)
        /\ \A l \in Leads(i, m) : i.type[l] \in seen \/ ~ ClosesAvoiding(i, l, seen)
    BY <1>1, <2>1, NothingThere
  <2>3. ClosesAvoiding(i, m, frame.seen) =>
          \E l \in Leads(i, m) : i.type[l] \notin seen /\ ClosesAvoiding(i, l, seen)
    BY <1>1, <1>4, <2>2, GoesOn DEF seen
  <2> QED
    BY <2>2, <2>3
<1> QED
  BY <1>2, <1>3, <1>5 DEF Fruitless

LEMMA BranchAdvances ==
  ASSUME NEW i, NEW s \in Seq(Frames), s # <<>>, NEW found, NEW more, found \subseteq more,
         Branch(i, s, found),
         \/ Len(s) = 1 /\ s[Len(s)].next \in more
         \/ Fruitless(i, s[Len(s)].node, s[Len(s)].seen, s[Len(s)].next)
  PROVE  Branch(i, Advance(s), more)
<1>1. Len(s) \in Nat \ {0} /\ \A n \in 1..Len(s) : s[n].next \in Nat \ {0}
  <2>1. \A n \in 1..Len(s) : s[n] \in Frames
    OBVIOUS
  <2>2. \A frame \in Frames : frame.next \in Nat \ {0}
    BY DEF Frames
  <2> QED
    BY <2>1, <2>2
<1>2. \A n \in 1..(Len(s) - 1) : n \in 1..Len(s) /\ n + 1 \in 1..Len(s)
  BY <1>1
<1>3. Advance(s) # <<>> /\ Advance(s)[1].seen = {i.type[i.start]}
  BY <1>1, AdvanceFacts DEF Branch
<1>4. ASSUME NEW n \in 1..Len(s), NEW k \in 1..(Advance(s)[n].next - 1)
      PROVE  (n = 1 /\ k \in more) \/ Fruitless(i, s[n].node, s[n].seen, k)
  <2>1. CASE k \in 1..(s[n].next - 1)
    BY <2>1 DEF Branch
  <2>2. CASE k \notin 1..(s[n].next - 1)
    <3>1. n = Len(s)
      BY <1>1, <2>2, AdvanceFacts, Places
    <3>2. k = s[n].next
      <4>1. Advance(s)[n].next = s[n].next + 1
        BY <3>1, AdvanceFacts
      <4>2. \A l \in Nat \ {0} : \A j \in 1..((l + 1) - 1) : j \in 1..(l - 1) \/ j = l
        OBVIOUS
      <4> QED
        BY <1>1, <2>2, <4>1, <4>2
    <3> QED
      BY <3>1, <3>2
  <2> QED
    BY <2>1, <2>2
<1>5. \A n \in 1..Len(s) : i.type[i.start] \in s[n].seen
  BY DEF Branch
<1>6. Len(Advance(s)) = Len(s)
  BY AdvanceFacts
<1>7. \A n \in 1..Len(s) : Advance(s)[n].node = s[n].node /\ Advance(s)[n].seen = s[n].seen
  BY AdvanceFacts
<1>8. ASSUME NEW n \in 1..(Len(s) - 1)
      PROVE  LET type == i.type[Advance(s)[n + 1].node]
             IN  /\ type \notin Advance(s)[n].seen
                 /\ Advance(s)[n + 1].seen = Advance(s)[n].seen \cup {type}
  BY <1>2, <1>7 DEF Branch
<1> QED
  BY <1>3, <1>4, <1>5, <1>6, <1>7, <1>8 DEF Branch

LEMMA BranchPops ==
  ASSUME NEW i, NEW s \in Seq(Frames), s # <<>>, NEW found, Branch(i, s, found)
  PROVE  Branch(i, SubSeq(s, 1, Len(s) - 1), found)
<1> DEFINE popped == SubSeq(s, 1, Len(s) - 1)
<1>1. Len(s) \in Nat \ {0}
  OBVIOUS
<1>2. /\ popped \in Seq(Frames) /\ Len(popped) = Len(s) - 1
      /\ \A n \in 1..(Len(s) - 1) : popped[n] = s[n]
  BY PopFacts
<1>3. /\ \A n \in 1..(Len(s) - 1) : n \in 1..Len(s)
      /\ \A n \in 1..((Len(s) - 1) - 1) : n \in 1..(Len(s) - 1) /\ n + 1 \in 1..(Len(s) - 1)
  BY <1>1
<1> HIDE DEF popped
<1>4. popped # <<>> => popped[1].seen = {i.type[i.start]}
  <2> SUFFICES ASSUME popped # <<>> PROVE popped[1].seen = {i.type[i.start]}
    OBVIOUS
  <2>1. 1 \in 1..(Len(s) - 1)
    BY <1>1, <1>2
  <2> QED
    BY <1>2, <2>1 DEF Branch
<1>5. Branch(i, popped, found)
  BY <1>2, <1>3, <1>4 DEF Branch
<1> QED
  BY <1>5 DEF popped

LEMMA BranchPushes ==
  ASSUME NEW i, NEW s \in Seq(Frames), s # <<>>, NEW found, Branch(i, s, found),
         NEW frame \in Frames, frame.next = 1, i.type[frame.node] \notin s[Len(s)].seen,
         frame.seen = s[Len(s)].seen \cup {i.type[frame.node]}
  PROVE  Branch(i, Append(s, frame), found)
<1>1. Len(s) \in Nat \ {0}
  OBVIOUS
<1>2. /\ Append(s, frame) \in Seq(Frames) /\ Len(Append(s, frame)) = Len(s) + 1
      /\ \A n \in 1..Len(s) : Append(s, frame)[n] = s[n]
      /\ Append(s, frame)[Len(s) + 1] = frame /\ Append(s, frame) # <<>>
  BY <1>1
<1>3. /\ \A n \in 1..(Len(s) + 1) : n \in 1..Len(s) \/ n = Len(s) + 1
      /\ \A n \in 1..Len(s) : n \in 1..(Len(s) - 1) \/ n = Len(s)
      /\ \A n \in 1..(Len(s) - 1) : n \in 1..Len(s) /\ n + 1 \in 1..Len(s)
      /\ 1 \in 1..Len(s) /\ Len(s) \in 1..Len(s) /\ (Len(s) + 1) - 1 = Len(s)
  BY <1>1
<1>4. Append(s, frame)[1].seen = {i.type[i.start]}
  BY <1>2, <1>3 DEF Branch
<1>5. ASSUME NEW n \in 1..(Len(s) + 1)
      PROVE  /\ i.type[i.start] \in Append(s, frame)[n].seen
             /\ \A k \in 1..(Append(s, frame)[n].next - 1) :
                  \/ n = 1 /\ k \in found
                  \/ Fruitless(i, Append(s, frame)[n].node, Append(s, frame)[n].seen, k)
  <2>1. CASE n \in 1..Len(s)
    BY <1>2, <2>1 DEF Branch
  <2>2. CASE n = Len(s) + 1
    <3>1. Append(s, frame)[n] = frame /\ 1..(frame.next - 1) = {}
      BY <1>2, <2>2
    <3> QED
      BY <1>3, <3>1 DEF Branch
  <2> QED
    BY <1>3, <2>1, <2>2
<1>6. ASSUME NEW n \in 1..Len(s)
      PROVE  LET type == i.type[Append(s, frame)[n + 1].node]
             IN  /\ type \notin Append(s, frame)[n].seen
                 /\ Append(s, frame)[n + 1].seen = Append(s, frame)[n].seen \cup {type}
  <2>1. CASE n \in 1..(Len(s) - 1)
    BY <1>2, <1>3, <2>1 DEF Branch
  <2>2. CASE n = Len(s)
    BY <1>2, <1>3, <2>2
  <2> QED
    BY <1>3, <2>1, <2>2
<1> QED
  BY <1>2, <1>3, <1>4, <1>5, <1>6 DEF Branch

LEMMA StillSearching ==
  ASSUME in' = in, stack' # <<>>, OneMessageEach(in) => Branch(in, stack', problems')
  PROVE  CompleteInv'
BY DEF CompleteInv, EveryCycleReported

LEMMA CompleteSkips == SearchInv /\ CompleteInv /\ SkipField => CompleteInv'
<1> SUFFICES ASSUME SearchInv, CompleteInv, SkipField PROVE CompleteInv'
  OBVIOUS
<1>1. stack # <<>> /\ stack' = Advance(stack) /\ in' = in /\ problems' = problems
  BY DEF SkipField, AtField
<1>2. stack \in Seq(Frames) /\ Len(stack) \in Nat \ {0}
  BY <1>1, SearchFacts DEF SearchInv, Chain
<1>3. Fruitless(in, Top.node, Top.seen, Top.next)
  BY DEF SkipField, Fruitless, FieldHere, FieldsOf, RefType, StartType, Target
<1>4. OneMessageEach(in) => Branch(in, Advance(stack), problems')
  BY <1>1, <1>2, <1>3, BranchAdvances DEF CompleteInv, Top
<1>5. Advance(stack) # <<>>
  BY <1>1, <1>2, AdvanceFacts
<1> QED
  BY <1>1, <1>4, <1>5, StillSearching

(* A cycle at the start is reported, one further down is passed back.      *)
LEMMA CompleteFinds ==
  ASSUME SearchInv, CompleteInv, stack # <<>>, in' = in,
         \/ /\ Len(stack) = 1 /\ problems' = problems \cup {Top.next}
            /\ stack' = Advance(stack)
         \/ /\ Len(stack) # 1 /\ problems' = problems
            /\ stack' = SubSeq(stack, 1, Len(stack) - 1)
  PROVE  CompleteInv'
<1>1. stack \in Seq(Frames) /\ Len(stack) \in Nat \ {0}
  BY SearchFacts DEF SearchInv, Chain
<1>2. CASE Len(stack) = 1
  <2>1. Advance(stack) # <<>>
    BY <1>1, AdvanceFacts
  <2>2. OneMessageEach(in) => Branch(in, Advance(stack), problems')
    BY <1>1, <1>2, BranchAdvances DEF CompleteInv, Top
  <2> QED
    BY <1>2, <2>1, <2>2, StillSearching
<1>3. CASE Len(stack) # 1
  <2>1. stack' # <<>>
    BY <1>3, PopKeeps DEF SearchInv
  <2>2. OneMessageEach(in) => Branch(in, stack', problems')
    BY <1>1, <1>3, BranchPops DEF CompleteInv
  <2> QED
    BY <2>1, <2>2, StillSearching
<1> QED
  BY <1>2, <1>3

LEMMA CompleteCloses ==
  SearchInv /\ CompleteInv /\ (CloseCycle \/ TakeFinding) => CompleteInv'
BY CompleteFinds DEF CloseCycle, TakeFinding, AtField

LEMMA CompleteDescends == SearchInv /\ CompleteInv /\ Descend => CompleteInv'
<1> SUFFICES ASSUME SearchInv, CompleteInv, Descend PROVE CompleteInv'
  OBVIOUS
<1>1. /\ stack # <<>> /\ in' = in /\ problems' = problems
      /\ stack' = Append(stack, Frame(Target, Top.seen))
      /\ RefType \notin Top.seen /\ Target # NoMessage
  BY DEF Descend, AtField
<1>2. stack \in Seq(Frames) /\ Top \in Frames
  BY <1>1, SearchFacts DEF SearchInv, Chain
<1>3. Target \in Messages /\ in.type[Target] = RefType
  BY <1>1, SearchFacts, Resolves DEF SearchInv, Target
<1> DEFINE frame == Frame(Target, Top.seen)
<1>4. /\ frame \in Frames /\ frame.next = 1 /\ frame.node = Target
      /\ frame.seen = Top.seen \cup {in.type[Target]}
  <2>1. in.type[Target] \in Types /\ Top.seen \subseteq Types
    BY <1>2, <1>3 DEF SearchInv, Input, Frames
  <2> QED
    BY <1>3, <2>1 DEF Frame, Frames
<1> HIDE DEF frame
<1>5. OneMessageEach(in) => Branch(in, Append(stack, frame), problems)
  BY <1>1, <1>2, <1>3, <1>4, BranchPushes DEF CompleteInv, Top
<1>6. Append(stack, frame) # <<>>
  <2>1. Len(Append(stack, frame)) = Len(stack) + 1 /\ Len(stack) \in Nat
    BY <1>2
  <2> QED
    BY <2>1
<1> QED
  BY <1>1, <1>5, <1>6, StillSearching DEF frame

(* All fields of a call that returns nothing are behind it.                *)
LEMMA AllBehind ==
  ASSUME SearchInv, CompleteInv, OneMessageEach(in), ReturnNothing,
         NEW n \in 1..Len(in.fields[Top.node])
  PROVE  (Len(stack) = 1 /\ n \in problems) \/ Fruitless(in, Top.node, Top.seen, n)
<1>1. /\ stack # <<>> /\ Top.next > Len(in.fields[Top.node])
      /\ Len(stack) \in 1..Len(stack) /\ Len(in.fields[Top.node]) \in Nat /\ Top.next \in Nat
  BY SearchFacts DEF ReturnNothing, FieldsOf, Frames
<1>2. n \in 1..(Top.next - 1)
  BY <1>1
<1> QED
  BY <1>1, <1>2 DEF CompleteInv, Branch, Top

LEMMA CompleteReturns == SearchInv /\ CompleteInv /\ ReturnNothing => CompleteInv'
<1> SUFFICES ASSUME SearchInv, CompleteInv, ReturnNothing PROVE CompleteInv'
  OBVIOUS
<1>1. stack # <<>> /\ in' = in /\ problems' = problems
  BY DEF ReturnNothing
<1>2. stack \in Seq(Frames) /\ Len(stack) \in Nat \ {0} /\ in \in Input
  BY <1>1, SearchFacts DEF SearchInv, Chain
<1>3. CASE Len(stack) = 1
  <2>1. stack' = <<>>
    BY <1>3 DEF ReturnNothing
  <2>2. ASSUME OneMessageEach(in), NEW n \in 1..Len(in.fields[in.start]),
               StartsCycle(in, in.fields[in.start][n])
        PROVE  n \in problems
    <3> DEFINE field == in.fields[in.start][n]
               l == FindResourceMessage(in, field.types[1], in.file[in.start])
    <3>1. Top.node = in.start /\ in.start \in Messages /\ in.file[in.start] \in FilesOf
      BY <1>1, <1>3, SearchFacts
    <3>2. Top.seen = {in.type[in.start]}
      BY <1>1, <1>3, <2>2 DEF CompleteInv, Branch, Top
    <3> SUFFICES ASSUME Fruitless(in, in.start, {in.type[in.start]}, n) PROVE FALSE
      BY <2>2, <3>1, <3>2, AllBehind
    <3>3. field.types[1] # in.type[in.start] /\ l # NoMessage /\ Closes(in, l)
      BY <2>2 DEF Fruitless, StartsCycle, Closes
    <3>4. l \in Messages
      BY <1>2, <3>1, <3>3, Resolves
    <3>5. ClosesAvoiding(in, l, {in.type[in.start]})
      BY <1>2, <3>3, <3>4, WithoutStart
    <3> QED
      BY <2>2, <3>3, <3>5 DEF Fruitless, StartsCycle
  <2>3. OneMessageEach(in) => Branch(in, <<>>, problems)
    BY DEF Branch
  <2>4. (OneMessageEach(in) => EveryCycleReported)'
    BY <1>1, <2>2 DEF EveryCycleReported, FieldsOf
  <2> QED
    BY <1>1, <2>1, <2>3, <2>4 DEF CompleteInv
<1>4. CASE Len(stack) # 1
  <2> DEFINE popped == SubSeq(stack, 1, Len(stack) - 1)
             caller == popped[Len(popped)]
  <2>1. stack' = Advance(popped) /\ popped # <<>> /\ Calls(in, caller, Top.node)
    BY <1>1, <1>4, PopKeeps DEF ReturnNothing, SearchInv, Top
  <2>2. popped \in Seq(Frames) /\ caller \in Frames
    BY <1>1, <1>2, <2>1, PopFacts
  <2>3. Len(stack) - 1 \in 1..(Len(stack) - 1) /\ (Len(stack) - 1) + 1 = Len(stack)
        /\ Len(stack) - 1 \in 1..Len(stack)
    <3>1. \A n \in Nat \ {0, 1} : n - 1 \in 1..(n - 1) /\ (n - 1) + 1 = n /\ n - 1 \in 1..n
      OBVIOUS
    <3> QED
      BY <1>2, <1>4, <3>1
  <2>4. caller = stack[Len(stack) - 1]
    BY <1>1, <1>2, <2>3, PopFacts
  <2> HIDE DEF popped, caller
  <2>5. SUFFICES ASSUME OneMessageEach(in) PROVE Branch(in, Advance(popped), problems)
    <3>1. Advance(popped) # <<>>
      BY <2>1, <2>2, AdvanceFacts
    <3> QED
      BY <1>1, <2>1, <3>1, StillSearching
  <2>6. Branch(in, stack, problems)
    BY <2>5 DEF CompleteInv
  <2>7. /\ in.type[in.start] \in caller.seen /\ in.type[Top.node] \notin caller.seen
        /\ Top.seen = caller.seen \cup {in.type[Top.node]}
    BY <2>3, <2>4, <2>6 DEF Branch, Top
  <2>8. Fruitless(in, caller.node, caller.seen, caller.next)
    BY <1>2, <1>4, <2>1, <2>2, <2>5, <2>7, AllBehind, CallIsFruitless
  <2>9. Branch(in, popped, problems)
    BY <1>1, <1>2, <2>6, BranchPops DEF popped
  <2> QED
    BY <2>1, <2>2, <2>8, <2>9, BranchAdvances DEF caller
<1> QED
  BY <1>3, <1>4

LEMMA CompleteStep == SearchInv /\ CompleteInv /\ [Next]_vars => CompleteInv'
<1> SUFFICES ASSUME CompleteInv, UNCHANGED vars PROVE CompleteInv'
  BY CompleteSkips, CompleteCloses, CompleteDescends, CompleteReturns DEF Next, Finished
<1> QED
  BY DEF vars, CompleteInv, EveryCycleReported, FieldsOf

LEMMA CompleteStarts == Init => CompleteInv
<1> SUFFICES ASSUME Init PROVE CompleteInv
  OBVIOUS
<1>1. stack # <<>> /\ Len(stack) = 1 /\ stack[1].next = 1 /\ stack[1].seen = {in.type[in.start]}
  BY DEF Init
<1> QED
  BY <1>1 DEF CompleteInv, Branch, EveryCycleReported

(* no-mutable-cycles reports every field through which a chain of mutable  *)
(* references comes back to the resource (findCycles in                    *)
(* rules/aep0121/no_mutable_cycles.go), whatever the graph, if each type   *)
(* is one message.                                                         *)
THEOREM ReportsEveryCycle == Spec => []EveryCycleReported
<1>1. SearchInv /\ CompleteInv => EveryCycleReported
  BY DEF CompleteInv, EveryCycleReported
<1> QED
  BY <1>1, SearchStarts, SearchStep, CompleteStarts, CompleteStep, PTL DEF Spec

-----------------------------------------------------------------------------
(***************************************************************************)
(* The search comes to an end.  A call has seen a type more than its       *)
(* caller, so that there are no more calls than types; and each step       *)
(* lowers, in the order of dictionaries, what is left to do at each depth. *)
(***************************************************************************)

(* The call at each depth has seen as many types, and its next field is    *)
(* one of the message's or just after its last.                            *)
DepthInv ==
  \A n \in 1..Len(stack) :
    /\ n <= Cardinality(stack[n].seen)
    /\ stack[n].next <= Len(FieldsOf(stack[n].node)) + 1

(* The same of any input and stack.                                        *)
Grows(i, s) ==
  \A n \in 1..Len(s) :
    /\ n <= Cardinality(s[n].seen)
    /\ s[n].next <= Len(i.fields[s[n].node]) + 1

LEMMA AdvanceGrows ==
  ASSUME NEW i \in Input, NEW s \in Seq(Frames), s # <<>>, Grows(i, s),
         s[Len(s)].next <= Len(i.fields[s[Len(s)].node])
  PROVE  Grows(i, Advance(s))
<1>1. /\ Len(Advance(s)) = Len(s) /\ Len(s) \in Nat \ {0}
      /\ \A n \in 1..(Len(s) - 1) : Advance(s)[n] = s[n]
      /\ \A n \in 1..Len(s) : Advance(s)[n].node = s[n].node /\ Advance(s)[n].seen = s[n].seen
      /\ Advance(s)[Len(s)].next = s[Len(s)].next + 1
  BY AdvanceFacts
<1>2. s[Len(s)] \in Frames
  BY <1>1
<1>3. ASSUME NEW n \in 1..Len(s)
      PROVE  Advance(s)[n].next <= Len(i.fields[Advance(s)[n].node]) + 1
  <2>1. CASE n = Len(s)
    <3>1. s[n].next \in Nat /\ Len(i.fields[s[n].node]) \in Nat
      BY <1>2, <2>1, FieldFacts DEF Frames
    <3> QED
      BY <1>1, <2>1, <3>1
  <2>2. CASE n # Len(s)
    <3>1. n \in 1..(Len(s) - 1)
      BY <1>1, <2>2, Places
    <3> QED
      BY <1>1, <3>1 DEF Grows
  <2> QED
    BY <2>1, <2>2
<1> QED
  BY <1>1, <1>3 DEF Grows

LEMMA PopGrows ==
  ASSUME NEW i, NEW s \in Seq(Frames), s # <<>>, Grows(i, s)
  PROVE  Grows(i, SubSeq(s, 1, Len(s) - 1))
<1>1. Len(s) \in Nat \ {0}
  OBVIOUS
<1> QED
  BY <1>1, PopFacts, Places DEF Grows

(* What is called has a type that the caller has not seen.                 *)
LEMMA PushGrows ==
  ASSUME NEW i \in Input, IsFiniteSet(Types), NEW s \in Seq(Frames), s # <<>>, Grows(i, s),
         NEW frame \in Frames, NEW type \in Types, type \notin s[Len(s)].seen,
         frame.seen = s[Len(s)].seen \cup {type}, frame.next = 1
  PROVE  Grows(i, Append(s, frame))
<1>1. Len(s) \in Nat \ {0} /\ s[Len(s)] \in Frames
  OBVIOUS
<1>2. /\ Len(Append(s, frame)) = Len(s) + 1
      /\ \A n \in 1..Len(s) : Append(s, frame)[n] = s[n]
      /\ Append(s, frame)[Len(s) + 1] = frame
  BY <1>1
<1>3. s[Len(s)].seen \in SUBSET Types
  BY <1>1 DEF Frames
<1>4. IsFiniteSet(s[Len(s)].seen) /\ Cardinality(s[Len(s)].seen) \in Nat
  BY <1>3, FS_Subset, FS_CardinalityType
<1>5. Cardinality(frame.seen) = Cardinality(s[Len(s)].seen) + 1
  BY <1>4, FS_AddElement
<1>6. Len(s) <= Cardinality(s[Len(s)].seen)
  BY <1>1 DEF Grows
<1>7. Len(s) + 1 <= Cardinality(frame.seen)
  BY <1>1, <1>4, <1>5, <1>6
<1>8. frame.next <= Len(i.fields[frame.node]) + 1
  <2>1. Len(i.fields[frame.node]) \in Nat
    BY FieldFacts DEF Frames
  <2> QED
    BY <2>1
<1>9. \A n \in 1..(Len(s) + 1) : n \in 1..Len(s) \/ n = Len(s) + 1
  BY <1>1
<1> QED
  BY <1>2, <1>7, <1>8, <1>9 DEF Grows

(* The call has a field in hand, one of those of its message.              *)
LEMMA InHand ==
  ASSUME SearchInv, stack # <<>>,
         AtField \/ returned \/ \E m : Calls(in, Top, m)
  PROVE  Top.next <= Len(FieldsOf(Top.node))
<1>1. CASE AtField
  BY <1>1 DEF AtField
<1>2. CASE \E m : Calls(in, Top, m)
  BY <1>2, SearchFacts DEF Calls, FieldsOf
<1>3. CASE returned
  <2>1. \E m : Calls(in, Top, m)
    BY <1>3 DEF SearchInv, HasFound, Top
  <2> QED
    BY <1>2, <2>1
<1> QED
  BY <1>1, <1>2, <1>3

(* The caller's field is one of those of its message.                      *)
LEMMA CallersField ==
  ASSUME SearchInv, stack # <<>>, Len(stack) # 1
  PROVE  LET popped == SubSeq(stack, 1, Len(stack) - 1)
         IN  /\ popped \in Seq(Frames) /\ popped # <<>>
             /\ popped[Len(popped)].next <= Len(in.fields[popped[Len(popped)].node])
<1> DEFINE popped == SubSeq(stack, 1, Len(stack) - 1)
<1>1. Chain(in, popped) /\ popped # <<>> /\ Calls(in, popped[Len(popped)], stack[Len(stack)].node)
  BY PopKeeps DEF SearchInv
<1> HIDE DEF popped
<1>2. popped \in Seq(Frames) /\ popped[Len(popped)].node \in Messages
  BY <1>1, TopFacts DEF Chain
<1>3. Len(in.fields[popped[Len(popped)].node]) \in Nat
  BY <1>2, FieldFacts DEF SearchInv
<1>4. popped[Len(popped)].next <= Len(in.fields[popped[Len(popped)].node])
  BY <1>1, <1>3 DEF Calls
<1> QED
  BY <1>1, <1>2, <1>4 DEF popped

(* What Descend puts on the stack.                                         *)
LEMMA Called ==
  ASSUME SearchInv, Descend
  PROVE  /\ Frame(Target, Top.seen) \in Frames
         /\ RefType \in Types /\ RefType \notin Top.seen
         /\ Frame(Target, Top.seen).seen = Top.seen \cup {RefType}
         /\ Frame(Target, Top.seen).next = 1
<1>1. /\ stack # <<>> /\ IsFollowed(FieldHere) /\ RefType \notin Top.seen /\ Target # NoMessage
      /\ Top.next \in 1..Len(FieldsOf(Top.node))
  BY SearchFacts DEF Descend, AtField, Frames
<1>2. in \in Input /\ in.file[Top.node] \in FilesOf
  BY <1>1, SearchFacts DEF SearchInv
<1>3. Target \in Messages /\ in.type[Target] = RefType
  BY <1>1, <1>2, Resolves DEF Target
<1>4. RefType \in Types /\ Top.seen \subseteq Types
  BY <1>1, <1>2, <1>3, SearchFacts DEF Input, Frames
<1> QED
  BY <1>1, <1>3, <1>4 DEF Frame, Frames

LEMMA DepthStep ==
  ASSUME IsFiniteSet(Types)
  PROVE  SearchInv /\ DepthInv /\ [Next]_vars => DepthInv'
<1> SUFFICES ASSUME SearchInv, DepthInv, [Next]_vars PROVE DepthInv'
  OBVIOUS
<1>1. in \in Input /\ stack \in Seq(Frames) /\ Grows(in, stack) /\ in' = in
  BY DEF SearchInv, Chain, DepthInv, Grows, FieldsOf, Next, vars, SkipField, CloseCycle, Descend,
         TakeFinding, ReturnNothing, Finished
<1>2. SUFFICES Grows(in, stack')
  BY <1>1 DEF DepthInv, Grows, FieldsOf
<1>3. CASE stack' = Advance(stack) /\ stack # <<>> /\ (AtField \/ returned)
  BY <1>1, <1>3, InHand, AdvanceGrows DEF Top, FieldsOf
<1>4. CASE stack' = SubSeq(stack, 1, Len(stack) - 1) /\ stack # <<>>
  BY <1>1, <1>4, PopGrows
<1>5. CASE Descend
  <2>1. stack' = Append(stack, Frame(Target, Top.seen)) /\ stack # <<>>
    BY <1>5 DEF Descend, AtField
  <2> QED
    BY <1>1, <1>5, <2>1, Called, PushGrows DEF Top
<1>6. CASE ReturnNothing
  <2>1. CASE Len(stack) = 1
    <3>1. stack' = <<>>
      BY <1>6, <2>1 DEF ReturnNothing
    <3> QED
      BY <3>1 DEF Grows
  <2>2. CASE Len(stack) # 1
    <3>1. stack' = Advance(SubSeq(stack, 1, Len(stack) - 1)) /\ stack # <<>>
      BY <1>6, <2>2 DEF ReturnNothing
    <3> QED
      BY <1>1, <2>2, <3>1, CallersField, PopGrows, AdvanceGrows
  <2> QED
    BY <2>1, <2>2
<1>7. CASE UNCHANGED vars
  BY <1>1, <1>7 DEF vars
<1>8. CASE SkipField \/ CloseCycle \/ TakeFinding
  <2>1. stack # <<>> /\ (AtField \/ returned)
    BY <1>8 DEF SkipField, CloseCycle, TakeFinding, AtField
  <2>2. stack' = Advance(stack) \/ stack' = SubSeq(stack, 1, Len(stack) - 1)
    BY <1>8 DEF SkipField, CloseCycle, TakeFinding
  <2> QED
    BY <1>3, <1>4, <2>1, <2>2
<1> QED
  BY <1>5, <1>6, <1>7, <1>8 DEF Next, Finished

LEMMA DepthStarts == Init => DepthInv
<1> SUFFICES ASSUME Init PROVE DepthInv
  OBVIOUS
<1>1. /\ in \in Input /\ in.start \in Messages
      /\ Len(stack) = 1 /\ stack[1].next = 1 /\ stack[1].seen = {in.type[in.start]}
      /\ stack[1].node = in.start
  BY FieldCyclesAssumption DEF Init, Input
<1>2. Cardinality(stack[1].seen) = 1
  BY <1>1, FS_Singleton
<1>3. Len(FieldsOf(stack[1].node)) \in Nat
  BY <1>1, FieldFacts DEF FieldsOf
<1>4. stack[1].next <= Len(FieldsOf(stack[1].node)) + 1
  BY <1>1, <1>3
<1>5. \A n \in 1..Len(stack) : n = 1
  BY <1>1
<1> QED
  BY <1>2, <1>4, <1>5 DEF DepthInv

LEMMA DepthIsBounded ==
  ASSUME IsFiniteSet(Types), NEW i, NEW s \in Seq(Frames), Grows(i, s)
  PROVE  Len(s) <= Cardinality(Types)
<1>1. Len(s) \in Nat /\ Cardinality(Types) \in Nat
  BY FS_CardinalityType
<1>2. CASE s # <<>>
  <2> DEFINE top == s[Len(s)]
  <2>1. Len(s) \in 1..Len(s) /\ top \in Frames
    BY <1>1, <1>2
  <2>2. Len(s) <= Cardinality(top.seen)
    BY <2>1 DEF Grows
  <2> HIDE DEF top
  <2>3. top.seen \in SUBSET Types
    BY <2>1 DEF Frames
  <2>4. Cardinality(top.seen) <= Cardinality(Types) /\ Cardinality(top.seen) \in Nat
    BY <2>3, FS_Subset, FS_CardinalityType
  <2>5. Len(s) <= Cardinality(Types)
    BY <1>1, <2>2, <2>4
  <2> QED
    BY <2>5
<1> QED
  BY <1>1, <1>2

(* findCycles is nested no deeper than there are resource types            *)
(* (rules/aep0121/no_mutable_cycles.go).                                   *)
THEOREM NoDeeperThanTypes ==
  ASSUME IsFiniteSet(Types)
  PROVE  Spec => [](Len(stack) <= Cardinality(Types))
<1>1. SearchInv /\ DepthInv => Len(stack) <= Cardinality(Types)
  BY DepthIsBounded DEF SearchInv, Chain, DepthInv, Grows, FieldsOf
<1>2. SearchInv /\ DepthInv /\ [Next]_vars => DepthInv'
  BY DepthStep
<1> QED
  BY <1>1, <1>2, SearchStarts, SearchStep, DepthStarts, PTL DEF Spec

-----------------------------------------------------------------------------

(* Every message has less than b fields.                                   *)
FewFields(b) == \A m \in Messages : Len(FieldsOf(m)) < b

(* What is left to do at each depth: at that of a call, the fields from    *)
(* its next on; below, anything if another call may be made, and nothing   *)
(* if the search is on its way back.                                       *)
Left(s, back, b) ==
  [d \in 1..Cardinality(Types) |->
     IF d <= Len(s) THEN b + 1 - s[d].next
     ELSE IF s = <<>> \/ back THEN 0 ELSE b + 1]

(* The order of dictionaries.                                              *)
Less == LexProductOrdering(OpToRel(<, Nat), Nat, Cardinality(Types))

(* No endless sequence gets less and less.                                 *)
LEMMA LessComesToAnEnd ==
  ASSUME IsFiniteSet(Types)
  PROVE  IsWellFoundedOn(Less, [1..Cardinality(Types) -> Nat])
BY FS_CardinalityType, NatLessThanWellFounded, WFLexProductOrdering DEF Less

LEMMA LeftType ==
  ASSUME NEW i \in Input, NEW s \in Seq(Frames), NEW back, NEW b \in Nat, Grows(i, s),
         \A m \in Messages : Len(i.fields[m]) < b
  PROVE  /\ Left(s, back, b) \in [1..Cardinality(Types) -> Nat]
         /\ \A d \in 1..Len(s) : b + 1 - s[d].next \in Nat \ {0}
<1>1. ASSUME NEW d \in 1..Len(s) PROVE b + 1 - s[d].next \in Nat \ {0}
  <2>1. s[d].next \in Nat /\ s[d].node \in Messages
    <3>1. s[d] \in Frames
      OBVIOUS
    <3> QED
      BY <3>1 DEF Frames
  <2>2. Len(i.fields[s[d].node]) \in Nat /\ Len(i.fields[s[d].node]) < b
    BY <2>1, FieldFacts
  <2>3. s[d].next <= Len(i.fields[s[d].node]) + 1
    BY DEF Grows
  <2> QED
    BY <2>1, <2>2, <2>3
<1>2. ASSUME NEW d \in 1..Cardinality(Types)
      PROVE  (IF d <= Len(s) THEN b + 1 - s[d].next
              ELSE IF s = <<>> \/ back THEN 0 ELSE b + 1) \in Nat
  <2>1. CASE d <= Len(s)
    <3>1. d \in 1..Len(s)
      BY <2>1
    <3> QED
      BY <1>1, <2>1, <3>1
  <2> QED
    BY <2>1
<1> QED
  BY <1>1, <1>2 DEF Left

LEMMA LessAt ==
  ASSUME NEW l \in [1..Cardinality(Types) -> Nat], NEW k \in [1..Cardinality(Types) -> Nat],
         NEW p \in 1..Cardinality(Types), \A d \in 1..(p - 1) : k[d] = l[d], k[p] < l[p]
  PROVE  <<k, l>> \in Less
<1>1. <<k[p], l[p]>> \in OpToRel(<, Nat)
  BY DEF OpToRel
<1> QED
  BY <1>1 DEF Less, LexProductOrdering

(* Two stacks of which the second has gone further at place p.             *)
LEMMA Further ==
  ASSUME IsFiniteSet(Types), NEW i \in Input, NEW b \in Nat,
         \A m \in Messages : Len(i.fields[m]) < b,
         NEW s \in Seq(Frames), NEW r, Grows(i, s),
         NEW s2 \in Seq(Frames), NEW r2, Grows(i, s2),
         NEW p \in 1..Cardinality(Types),
         \A d \in 1..(p - 1) : d <= Len(s) /\ d <= Len(s2) /\ s2[d].next = s[d].next,
         Left(s2, r2, b)[p] < Left(s, r, b)[p]
  PROVE  <<Left(s2, r2, b), Left(s, r, b)>> \in Less
<1>1. Cardinality(Types) \in Nat
  BY FS_CardinalityType
<1>2. /\ Left(s, r, b) \in [1..Cardinality(Types) -> Nat]
      /\ Left(s2, r2, b) \in [1..Cardinality(Types) -> Nat]
  BY LeftType
<1>3. ASSUME NEW d \in 1..(p - 1) PROVE Left(s2, r2, b)[d] = Left(s, r, b)[d]
  <2>1. d \in 1..Cardinality(Types)
    BY <1>1
  <2> QED
    BY <2>1 DEF Left
<1> QED
  BY <1>2, <1>3, LessAt

(* The top call goes on to its next field.                                 *)
LEMMA AdvanceIsFurther ==
  ASSUME IsFiniteSet(Types), NEW i \in Input, NEW b \in Nat,
         \A m \in Messages : Len(i.fields[m]) < b,
         NEW s \in Seq(Frames), NEW r, s # <<>>, Grows(i, s), Len(s) <= Cardinality(Types),
         NEW r2, Grows(i, Advance(s))
  PROVE  <<Left(Advance(s), r2, b), Left(s, r, b)>> \in Less
<1>1. Cardinality(Types) \in Nat /\ Len(s) \in 1..Cardinality(Types)
  BY FS_CardinalityType
<1>2. /\ Advance(s) \in Seq(Frames) /\ Len(Advance(s)) = Len(s)
      /\ \A d \in 1..(Len(s) - 1) : Advance(s)[d].next = s[d].next
      /\ Advance(s)[Len(s)].next = s[Len(s)].next + 1
  BY AdvanceFacts
<1>3. s[Len(s)].next \in Nat
  <2>1. s[Len(s)] \in Frames
    BY <1>1
  <2> QED
    BY <2>1 DEF Frames
<1>4. Left(Advance(s), r2, b)[Len(s)] < Left(s, r, b)[Len(s)]
  BY <1>1, <1>2, <1>3 DEF Left
<1>5. \A d \in 1..(Len(s) - 1) :
        d <= Len(s) /\ d <= Len(Advance(s)) /\ Advance(s)[d].next = s[d].next
  BY <1>1, <1>2
<1> QED
  BY <1>1, <1>2, <1>4, <1>5, Further, Zenon

(* The top call returns, and with it the search.                           *)
LEMMA PopIsFurther ==
  ASSUME IsFiniteSet(Types), NEW i \in Input, NEW b \in Nat,
         \A m \in Messages : Len(i.fields[m]) < b,
         NEW s \in Seq(Frames), NEW r, s # <<>>, Grows(i, s), Len(s) <= Cardinality(Types),
         NEW r2, r2 \/ Len(s) = 1
  PROVE  <<Left(SubSeq(s, 1, Len(s) - 1), r2, b), Left(s, r, b)>> \in Less
<1> DEFINE popped == SubSeq(s, 1, Len(s) - 1)
<1>1. Cardinality(Types) \in Nat /\ Len(s) \in 1..Cardinality(Types)
  BY FS_CardinalityType
<1>2. /\ popped \in Seq(Frames) /\ Len(popped) = Len(s) - 1
      /\ \A d \in 1..(Len(s) - 1) : popped[d] = s[d]
  BY PopFacts
<1>3. Grows(i, popped)
  BY PopGrows
<1> HIDE DEF popped
<1>4. popped = <<>> \/ r2
  BY <1>2
<1>5. b + 1 - s[Len(s)].next \in Nat \ {0}
  <2>1. Len(s) \in 1..Len(s)
    BY <1>1
  <2> QED
    BY <2>1, LeftType, Zenon
<1>6. Left(popped, r2, b)[Len(s)] < Left(s, r, b)[Len(s)]
  BY <1>1, <1>2, <1>4, <1>5 DEF Left
<1>7. \A d \in 1..(Len(s) - 1) :
        d <= Len(s) /\ d <= Len(popped) /\ popped[d].next = s[d].next
  BY <1>1, <1>2
<1>8. <<Left(popped, r2, b), Left(s, r, b)>> \in Less
  BY <1>1, <1>2, <1>3, <1>6, <1>7, Further, Zenon
<1> QED
  BY <1>8 DEF popped

(* The top call returns and its caller goes on to the next field.          *)
LEMMA ReturnIsFurther ==
  ASSUME IsFiniteSet(Types), NEW i \in Input, NEW b \in Nat,
         \A m \in Messages : Len(i.fields[m]) < b,
         NEW s \in Seq(Frames), NEW r, Len(s) > 1, Grows(i, s), Len(s) <= Cardinality(Types),
         NEW r2, Grows(i, Advance(SubSeq(s, 1, Len(s) - 1)))
  PROVE  <<Left(Advance(SubSeq(s, 1, Len(s) - 1)), r2, b), Left(s, r, b)>> \in Less
<1> DEFINE popped == SubSeq(s, 1, Len(s) - 1)
           p == Len(s) - 1
<1>1. Cardinality(Types) \in Nat /\ p \in 1..Cardinality(Types) /\ Len(s) \in Nat /\ s # <<>>
  BY FS_CardinalityType
<1>2. /\ popped \in Seq(Frames) /\ Len(popped) = p
      /\ \A d \in 1..p : popped[d] = s[d]
  BY <1>1, PopFacts
<1> HIDE DEF popped
<1>3. popped # <<>> /\ popped[p] = s[p]
  BY <1>1, <1>2
<1>4. /\ Advance(popped) \in Seq(Frames) /\ Len(Advance(popped)) = p
      /\ \A d \in 1..(p - 1) : Advance(popped)[d] = popped[d]
      /\ Advance(popped)[p].next = popped[p].next + 1
  BY <1>1, <1>2, <1>3, AdvanceFacts
<1>5. s[p].next \in Nat
  <2>1. s[p] \in Frames
    BY <1>1
  <2> QED
    BY <2>1 DEF Frames
<1>6. Left(Advance(popped), r2, b)[p] < Left(s, r, b)[p]
  <2>1. Left(s, r, b)[p] = b + 1 - s[p].next
    BY <1>1 DEF Left
  <2>2. Left(Advance(popped), r2, b)[p] = b + 1 - (s[p].next + 1)
    BY <1>1, <1>4, <1>3 DEF Left
  <2> QED
    BY <1>5, <2>1, <2>2
<1>7. \A d \in 1..(p - 1) :
        d <= Len(s) /\ d <= Len(Advance(popped)) /\ Advance(popped)[d].next = s[d].next
  BY <1>1, <1>2, <1>4
<1>8. Grows(i, Advance(popped))
  BY DEF popped
<1>9. <<Left(Advance(popped), r2, b), Left(s, r, b)>> \in Less
  BY <1>1, <1>4, <1>6, <1>7, <1>8, Further, Zenon
<1> QED
  BY <1>9 DEF popped

(* A further call is made.                                                 *)
LEMMA PushIsFurther ==
  ASSUME IsFiniteSet(Types), NEW i \in Input, NEW b \in Nat,
         \A m \in Messages : Len(i.fields[m]) < b,
         NEW s \in Seq(Frames), s # <<>>, Grows(i, s),
         NEW frame \in Frames, frame.next = 1,
         Grows(i, Append(s, frame)), Len(s) + 1 <= Cardinality(Types)
  PROVE  <<Left(Append(s, frame), FALSE, b), Left(s, FALSE, b)>> \in Less
<1> DEFINE s2 == Append(s, frame)
           p == Len(s) + 1
<1>1. Cardinality(Types) \in Nat /\ Len(s) \in Nat /\ p \in 1..Cardinality(Types)
  BY FS_CardinalityType
<1>2. /\ s2 \in Seq(Frames) /\ Len(s2) = p /\ s2[p] = frame
      /\ \A d \in 1..Len(s) : s2[d] = s[d]
  BY <1>1
<1>3. Grows(i, s2)
  OBVIOUS
<1> HIDE DEF s2
<1>4. Left(s2, FALSE, b)[p] < Left(s, FALSE, b)[p]
  BY <1>1, <1>2 DEF Left
<1>5. \A d \in 1..(p - 1) : d <= Len(s) /\ d <= Len(s2) /\ s2[d].next = s[d].next
  BY <1>1, <1>2
<1>6. <<Left(s2, FALSE, b), Left(s, FALSE, b)>> \in Less
  BY <1>1, <1>2, <1>3, <1>4, <1>5, Further, Zenon
<1> QED
  BY <1>6 DEF s2

(* A step leaves less to do.                                               *)
Closer(b) == <<Left(stack', returned', b), Left(stack, returned, b)>> \in Less

LEMMA StepComesCloser ==
  ASSUME IsFiniteSet(Types), NEW b \in Nat,
         FewFields(b), SearchInv, DepthInv, SearchInv', DepthInv', Next, ~ UNCHANGED vars
  PROVE  Closer(b)
<1>1. /\ in \in Input /\ in' = in /\ stack \in Seq(Frames) /\ stack' \in Seq(Frames)
      /\ Grows(in, stack) /\ Grows(in, stack')
      /\ \A m \in Messages : Len(in.fields[m]) < b
  <2>1. in' = in
    BY DEF Next, SkipField, CloseCycle, Descend, TakeFinding, ReturnNothing, Finished, vars
  <2> QED
    BY <2>1 DEF SearchInv, Chain, DepthInv, Grows, FieldsOf, FewFields
<1>2. Len(stack) <= Cardinality(Types) /\ Len(stack') <= Cardinality(Types)
  BY <1>1, DepthIsBounded
<1>3. SUFFICES <<Left(stack', returned', b), Left(stack, returned, b)>> \in Less
  BY DEF Closer
<1>4. CASE stack' = Advance(stack) /\ stack # <<>>
  BY <1>1, <1>2, <1>4, AdvanceIsFurther
<1>5. CASE /\ stack' = SubSeq(stack, 1, Len(stack) - 1) /\ stack # <<>>
           /\ returned' \/ Len(stack) = 1
  BY <1>1, <1>2, <1>5, PopIsFurther
<1>6. CASE Descend
  <2>1. /\ stack' = Append(stack, Frame(Target, Top.seen)) /\ stack # <<>>
        /\ ~ returned /\ returned' = returned
    BY <1>6 DEF Descend, AtField
  <2>2. Frame(Target, Top.seen) \in Frames /\ Frame(Target, Top.seen).next = 1
    BY <1>6, Called
  <2>3. Len(stack) + 1 <= Cardinality(Types)
    BY <1>1, <1>2, <2>1
  <2>4. <<Left(stack', FALSE, b), Left(stack, FALSE, b)>> \in Less
    BY <1>1, <2>1, <2>2, <2>3, PushIsFurther
  <2> QED
    BY <2>1, <2>4 DEF Left
<1>7. CASE ReturnNothing
  <2>1. CASE Len(stack) = 1
    <3>1. stack' = <<>> /\ stack # <<>>
      BY <1>7, <2>1 DEF ReturnNothing
    <3>2. SubSeq(stack, 1, Len(stack) - 1) = <<>>
      BY <1>1, <2>1, <3>1, PopFacts
    <3> QED
      BY <1>5, <2>1, <3>1, <3>2
  <2>2. CASE Len(stack) # 1
    <3>1. stack' = Advance(SubSeq(stack, 1, Len(stack) - 1)) /\ stack # <<>>
      BY <1>7, <2>2 DEF ReturnNothing
    <3>2. Len(stack) > 1
      <4>1. Len(stack) \in Nat \ {0}
        BY <1>1, <3>1
      <4>2. \A l \in Nat \ {0} : l # 1 => l > 1
        OBVIOUS
      <4> QED
        BY <2>2, <4>1, <4>2
    <3> QED
      BY <1>1, <1>2, <3>1, <3>2, ReturnIsFurther
  <2> QED
    BY <2>1, <2>2
<1>8. CASE SkipField \/ CloseCycle \/ TakeFinding
  <2>1. stack # <<>>
    BY <1>8 DEF SkipField, CloseCycle, TakeFinding, AtField
  <2>2. \/ stack' = Advance(stack)
        \/ stack' = SubSeq(stack, 1, Len(stack) - 1) /\ returned'
    BY <1>8 DEF SkipField, CloseCycle, TakeFinding
  <2> QED
    BY <1>4, <1>5, <2>1, <2>2
<1> QED
  BY <1>6, <1>7, <1>8 DEF Next, Finished

(* Every step of findCycles leaves less to do, in an order in which        *)
(* nothing gets less for ever: the recursion ends, whatever the graph      *)
(* (rules/aep0121/no_mutable_cycles.go; the run has Terminates).  b is any *)
(* number above that of the fields of each message.                        *)
THEOREM SearchComesCloser ==
  ASSUME IsFiniteSet(Types), NEW b \in Nat
  PROVE  /\ IsWellFoundedOn(Less, [1..Cardinality(Types) -> Nat])
         /\ Spec /\ FewFields(b) => [][Closer(b)]_vars
<1>1. FewFields(b) /\ [Next]_vars => FewFields(b)'
  <2>1. [Next]_vars => in' = in
    BY DEF Next, SkipField, CloseCycle, Descend, TakeFinding, ReturnNothing, Finished, vars
  <2> QED
    BY <2>1 DEF FewFields, FieldsOf
<1>2. FewFields(b) /\ SearchInv /\ DepthInv /\ SearchInv' /\ DepthInv' /\ [Next]_vars
        => [Closer(b)]_vars
  BY StepComesCloser
<1>3. SearchInv /\ DepthInv /\ [Next]_vars => DepthInv'
  BY DepthStep
<1>4. Spec /\ FewFields(b) => [][Closer(b)]_vars
  BY <1>1, <1>2, <1>3, SearchStarts, SearchStep, DepthStarts, PTL DEF Spec
<1> QED
  BY <1>4, LessComesToAnEnd

=============================================================================
