--------------------------- MODULE Locations_proofs ---------------------------
(***************************************************************************)
(* Proofs about source locations: where they come from (SourceInfo), what  *)
(* a report says of them (Report), and which is the header's (FileHeader,  *)
(* and Traversals, whose rules ask for it and visit every descriptor of    *)
(* their kind).                                                            *)
(***************************************************************************)
EXTENDS SourceInfo, Report, Traversals, FiniteSetTheorems, SequenceTheorems,
        WellFoundedInduction, TLAPS

(***************************************************************************)
(* SourceInfo.  With one handler at a time the unlocked registry is never  *)
(* accessed concurrently, and every call's answer is that of a fresh       *)
(* compilation, for any number of handlers, files and calls.               *)
(***************************************************************************)

LEMMA CallFacts ==
  ASSUME TypeOK, NEW w \in Workers, todo[w] # <<>>
  PROVE  /\ CallOf(w) \in Call
         /\ FileIn(w) \in Files
         /\ Tail(todo[w]) \in Seq(Call)
<1>1. todo[w] \in Seq(Call)
  BY DEF TypeOK
<1>2. CallOf(w) \in Call /\ Tail(todo[w]) \in Seq(Call)
  BY <1>1 DEF CallOf
<1>3. CallOf(w).desc \in Descriptors
  BY <1>2 DEF Call
<1> QED
  BY <1>2, <1>3, SourceInfoAssumption DEF FileIn

(* What FindLocation returns from a compiled map.                          *)
LEMMA FindLocationType ==
  ASSUME NEW f \in Files, NEW path
  PROVE  FindLocation(Compile(f), path) \in Results
<1>1. DOMAIN Compile(f) = Keys(f)
  BY DEF Compile
<1>2. CASE StrPath(path) \in Keys(f)
  BY <1>1, <1>2 DEF FindLocation, Results
<1>3. CASE StrPath(path) \notin Keys(f)
  BY <1>1, <1>3 DEF FindLocation, Results
<1> QED
  BY <1>2, <1>3

(* The path a worker holds is the one it asked for.                        *)
LEMMA OwnPath ==
  ASSUME SourceInfoInv, NEW w \in Workers, pc[w] = "find"
  PROVE  FullPath(w) = PathOf[CallOf(w).desc] \o CallOf(w).suffix
BY DEF SourceInfoInv, CallInv, FullPath

(* While w is under way nobody else is, and nobody else is at a call.      *)
LEMMA Alone ==
  ASSUME OneRunning, TypeOK, NEW w \in Workers, NEW v \in Workers, v # w,
         pc[w] \notin {"waiting", "ended"}
  PROVE  pc[v] \in {"waiting", "ended"}
BY DEF OneRunning, Running, TypeOK

LEMMA InitSourceInfo == Init => SourceInfoInv
<1> SUFFICES ASSUME Init PROVE SourceInfoInv
  OBVIOUS
<1>1. TypeOK
  <2>1. \A w \in Workers : <<>> \in Seq(Call \X Results) /\ <<>> \in Seq(Nat)
    OBVIOUS
  <2>2. DOMAIN registry = {}
    BY DEF Init
  <2>3. answers \in [Workers -> Seq(Call \X Results)] /\ room \in [Descriptors -> Seq(Nat)]
    BY DEF Init
  <2>4. todo \in [Workers -> Seq(Call)]
    BY SourceInfoAssumption DEF Init
  <2> QED
    BY <2>2, <2>3, <2>4 DEF Init, TypeOK
<1>2. OneRunning /\ CallInv
  BY DEF Init, OneRunning, Running, CallInv
<1>3. CacheInv
  BY DEF Init, CacheInv
<1>4. AnswersAreOwn
  BY DEF Init, AnswersAreOwn
<1> QED
  BY <1>1, <1>2, <1>3, <1>4 DEF SourceInfoInv

-----------------------------------------------------------------------------

(* A step of w leaves every other worker outside a call.                   *)
LEMMA StepStart ==
  ASSUME Parallelism = 1, SourceInfoInv, NEW w \in Workers, StartHandler(w)
  PROVE  SourceInfoInv'
<1> USE DEF SourceInfoInv, StartHandler, Goto
<1>1. TypeOK'
  BY DEF TypeOK
<1>2. Running = {}
  <2>1. IsFiniteSet(Running)
    <3>1. Running \subseteq Workers
      BY DEF Running
    <3> QED
      BY <3>1, SourceInfoAssumption, FS_Subset
  <2>2. Cardinality(Running) \in Nat /\ Cardinality(Running) < 1
    BY <2>1, FS_CardinalityType
  <2> QED
    BY <2>1, <2>2, FS_EmptySet
<1>3. Running' = {w}
  BY <1>2 DEF Running, TypeOK
<1>4. OneRunning'
  BY <1>3 DEF OneRunning
<1>5. CallInv'
  BY DEF CallInv, CallOf, FileIn, TypeOK
<1> QED
  BY <1>1, <1>4, <1>5 DEF CacheInv, AnswersAreOwn

LEMMA StillOneRunning ==
  ASSUME SourceInfoInv, NEW w \in Workers, pc[w] \notin {"waiting", "ended"},
         NEW place, pc' = [pc EXCEPT ![w] = place]
  PROVE  OneRunning'
BY Alone DEF SourceInfoInv, OneRunning, Running, TypeOK

LEMMA StepAppendPath ==
  ASSUME SourceInfoInv, NEW w \in Workers, AppendPath(w)
  PROVE  SourceInfoInv'
<1> USE DEF SourceInfoInv, AppendPath, Goto
<1>1. CallOf(w).desc \in Descriptors /\ CallOf(w).suffix \in Seq(Nat)
  BY CallFacts DEF Call
<1>2. TypeOK'
  BY <1>1 DEF TypeOK
<1>3. OneRunning'
  BY StillOneRunning
<1>4. CallInv'
  <2>1. ASSUME NEW v \in Workers, v # w PROVE pc'[v] \in {"waiting", "ended"}
    BY <2>1, Alone DEF TypeOK
  <2>2. CallOf(w).desc \in SpareRoom => room'[CallOf(w).desc] = CallOf(w).suffix
    BY <1>1 DEF TypeOK
  <2> QED
    BY <2>1, <2>2 DEF CallInv, CallOf, FileIn, TypeOK
<1> QED
  BY <1>2, <1>3, <1>4 DEF CacheInv, AnswersAreOwn

LEMMA StepReadRegistry ==
  ASSUME SourceInfoInv, NEW w \in Workers, ReadRegistry(w)
  PROVE  SourceInfoInv'
<1> USE DEF SourceInfoInv, ReadRegistry, Goto
<1>1. TypeOK'
  BY DEF TypeOK
<1>2. OneRunning'
  BY StillOneRunning
<1>3. CallInv'
  <2>1. ASSUME NEW v \in Workers, v # w PROVE pc'[v] \in {"waiting", "ended"}
    BY <2>1, Alone DEF TypeOK
  <2>2. /\ pc'[w] = "compile" => FileIn(w) \notin DOMAIN registry
        /\ pc'[w] = "find" => table'[w] = Compile(FileIn(w))
        /\ pc'[w] \in {"compile", "find"}
    BY DEF TypeOK, CacheInv
  <2> QED
    BY <2>1, <2>2 DEF CallInv, CallOf, FileIn, TypeOK
<1> QED
  BY <1>1, <1>2, <1>3 DEF CacheInv, AnswersAreOwn

LEMMA StepCompileTable ==
  ASSUME SourceInfoInv, NEW w \in Workers, CompileTable(w)
  PROVE  SourceInfoInv'
<1> USE DEF SourceInfoInv, CompileTable, Goto
<1>1. TypeOK'
  BY DEF TypeOK
<1>2. OneRunning'
  BY StillOneRunning
<1>3. CallInv'
  <2>1. ASSUME NEW v \in Workers, v # w PROVE pc'[v] \in {"waiting", "ended"}
    BY <2>1, Alone DEF TypeOK
  <2>2. table'[w] = Compile(FileIn(w))
    BY DEF TypeOK
  <2> QED
    BY <2>1, <2>2 DEF CallInv, CallOf, FileIn, TypeOK
<1> QED
  BY <1>1, <1>2, <1>3 DEF CacheInv, AnswersAreOwn

LEMMA StepWriteRegistry ==
  ASSUME SourceInfoInv, NEW w \in Workers, WriteRegistry(w)
  PROVE  SourceInfoInv'
<1> USE DEF SourceInfoInv, WriteRegistry, Goto
<1>1. FileIn(w) \in Files /\ table[w] = Compile(FileIn(w))
  BY CallFacts DEF CallInv
<1>2. TypeOK'
  BY <1>1 DEF TypeOK
<1>3. OneRunning'
  BY StillOneRunning
<1>4. CallInv'
  <2>1. ASSUME NEW v \in Workers, v # w PROVE pc'[v] \in {"waiting", "ended"}
    BY <2>1, Alone DEF TypeOK
  <2> QED
    BY <1>1, <2>1 DEF CallInv, CallOf, FileIn, TypeOK
<1>5. CacheInv'
  BY <1>1 DEF CacheInv
<1> QED
  BY <1>2, <1>3, <1>4, <1>5 DEF AnswersAreOwn

LEMMA StepFind ==
  ASSUME SourceInfoInv, NEW w \in Workers, Find(w)
  PROVE  SourceInfoInv'
<1> USE DEF SourceInfoInv, Find, Goto
<1> DEFINE c == CallOf(w)
           a == <<c, FindLocation(table[w], FullPath(w))>>
<1>1. /\ c \in Call /\ FileIn(w) \in Files /\ FileIn(w) = FileOf[c.desc]
      /\ Tail(todo[w]) \in Seq(Call)
  BY CallFacts DEF CallInv, FileIn
<1>2. a[2] = FindLocation(Compile(FileOf[c.desc]), PathOf[c.desc] \o c.suffix)
  BY <1>1, OwnPath DEF CallInv
<1>3. a \in Call \X Results
  BY <1>1, <1>2, FindLocationType
<1>4. answers[w] \in Seq(Call \X Results)
  BY DEF TypeOK
<1>5. answers' = [answers EXCEPT ![w] = Append(answers[w], a)]
  OBVIOUS
<1> HIDE DEF a
<1>6. TypeOK'
  <2>1. Append(answers[w], a) \in Seq(Call \X Results)
    BY <1>3, <1>4
  <2>2. answers' \in [Workers -> Seq(Call \X Results)]
    BY <1>5, <2>1 DEF TypeOK
  <2>3. todo' \in [Workers -> Seq(Call)]
    BY <1>1 DEF TypeOK
  <2> QED
    BY <2>2, <2>3 DEF TypeOK
<1>7. OneRunning'
  BY StillOneRunning
<1>8. CallInv'
  <2>1. ASSUME NEW v \in Workers, v # w PROVE pc'[v] \in {"waiting", "ended"}
    BY <2>1, Alone DEF TypeOK
  <2> QED
    BY <2>1 DEF CallInv, TypeOK
<1>9. AnswersAreOwn'
  <2> SUFFICES ASSUME NEW v \in Workers, NEW n \in DOMAIN answers'[v]
               PROVE  answers'[v][n][2] =
                        FindLocation(Compile(FileOf[answers'[v][n][1].desc]),
                          PathOf[answers'[v][n][1].desc] \o answers'[v][n][1].suffix)
    BY DEF AnswersAreOwn
  <2>1. CASE v # w
    BY <1>5, <2>1 DEF AnswersAreOwn, TypeOK
  <2>2. CASE v = w
    <3>1. answers'[v] = Append(answers[w], a)
      BY <1>5, <2>2 DEF TypeOK
    <3>2. CASE n \in DOMAIN answers[w]
      <4>1. answers'[v][n] = answers[w][n]
        BY <1>4, <3>1, <3>2
      <4> QED
        BY <3>2, <4>1 DEF AnswersAreOwn
    <3>3. CASE n \notin DOMAIN answers[w]
      <4>1. answers'[v][n] = a
        BY <1>4, <3>1, <3>3
      <4>2. a[1] = c
        BY DEF a
      <4> QED
        BY <1>2, <4>1, <4>2
    <3> QED
      BY <3>2, <3>3
  <2> QED
    BY <2>1, <2>2
<1> QED
  BY <1>6, <1>7, <1>8, <1>9 DEF CacheInv

LEMMA StepEndHandler ==
  ASSUME SourceInfoInv, NEW w \in Workers, EndHandler(w)
  PROVE  SourceInfoInv'
<1> USE DEF SourceInfoInv, EndHandler, Goto
<1>1. TypeOK'
  BY DEF TypeOK
<1>2. OneRunning'
  BY StillOneRunning
<1>3. CallInv'
  BY DEF CallInv, CallOf, FileIn, TypeOK
<1> QED
  BY <1>1, <1>2, <1>3 DEF CacheInv, AnswersAreOwn

LEMMA StepStutter == SourceInfoInv /\ UNCHANGED vars => SourceInfoInv'
BY DEF SourceInfoInv, vars, TypeOK, OneRunning, Running, CallInv, CallOf, FileIn,
       CacheInv, AnswersAreOwn

LEMMA StepSourceInfo ==
  ASSUME Parallelism = 1
  PROVE  SourceInfoInv /\ [Next]_vars => SourceInfoInv'
BY StepStart, StepAppendPath, StepReadRegistry, StepCompileTable, StepWriteRegistry,
   StepFind, StepEndHandler, StepStutter
DEF Next, Step, AllEnded

THEOREM SourceInfoCorrect ==
  ASSUME Parallelism = 1
  PROVE  Spec => []SourceInfoInv
<1>1. SourceInfoInv /\ [Next]_vars => SourceInfoInv'
  BY StepSourceInfo
<1> QED
  BY InitSourceInfo, <1>1, PTL DEF Spec

(* With check.MainWithParallelism(1) no handler touches the registry while *)
(* another writes it (main, cmd/buf-plugin-aep/main.go).                   *)
THEOREM NoConcurrentAccess ==
  ASSUME Parallelism = 1
  PROVE  Spec => []NoConcurrentMapAccess
<1>1. SourceInfoInv => NoConcurrentMapAccess
  BY DEF SourceInfoInv, OneRunning, Running, NoConcurrentMapAccess, Reading, Writing
<1> QED
  BY <1>1, SourceInfoCorrect, PTL

(* Caching and the shared path slices are invisible to the callers         *)
(* (pathLocation, locations/locations.go).                                 *)
THEOREM AnswersOwn ==
  ASSUME Parallelism = 1
  PROVE  Spec => []AnswersAreOwn
<1>1. SourceInfoInv => AnswersAreOwn
  BY DEF SourceInfoInv
<1> QED
  BY <1>1, SourceInfoCorrect, PTL

-----------------------------------------------------------------------------

(* The calls of a handler, with the place it is at in the first.  None of  *)
(* this asks for one handler at a time.                                    *)
Steps == {"waiting", "next", "read", "compile", "write", "find", "ended"}

StepsLeft ==
  [place \in Steps |->
     CASE place = "waiting" -> 6
       [] place = "next" -> 5
       [] place = "read" -> 4
       [] place = "compile" -> 3
       [] place = "write" -> 2
       [] place = "find" -> 1
       [] place = "ended" -> 0]

HandlerLeft(w) == 5 * Len(todo[w]) + StepsLeft[pc[w]]

(* A handler comes closer, and no other goes back.                         *)
OneComesCloser ==
  \E w \in Workers :
    /\ HandlerLeft(w)' < HandlerLeft(w)
    /\ \A v \in Workers \ {w} : HandlerLeft(v)' = HandlerLeft(v)

TodoInv ==
  /\ pc \in [Workers -> Steps]
  /\ todo \in [Workers -> Seq(Call)]
  /\ \A w \in Workers :
       pc[w] \in {"read", "compile", "write", "find"} => todo[w] # <<>>

LEMMA InitTodo == Init => TodoInv
<1> SUFFICES ASSUME Init PROVE TodoInv
  OBVIOUS
<1>1. pc \in [Workers -> Steps] /\ \A w \in Workers : pc[w] = "waiting"
  BY DEF Init, Steps
<1>2. todo \in [Workers -> Seq(Call)]
  BY SourceInfoAssumption DEF Init
<1> QED
  BY <1>1, <1>2 DEF TodoInv

LEMMA TailIsShorter ==
  ASSUME NEW s \in Seq(Call), s # <<>>
  PROVE  /\ Tail(s) \in Seq(Call)
         /\ Len(s) \in Nat /\ Len(Tail(s)) \in Nat /\ Len(Tail(s)) = Len(s) - 1
OBVIOUS

(* A step within a call, and before and after them.                        *)
LEMMA StepsInPlace ==
  ASSUME TodoInv, NEW w \in Workers, NEW place \in Steps, Goto(w, place), todo' = todo,
         StepsLeft[place] < StepsLeft[pc[w]],
         place \in {"read", "compile", "write", "find"} => todo[w] # <<>>
  PROVE  TodoInv' /\ OneComesCloser
<1>1. /\ pc' \in [Workers -> Steps] /\ pc'[w] = place
      /\ \A v \in Workers \ {w} : pc'[v] = pc[v]
  BY DEF Goto, TodoInv
<1>2. TodoInv'
  BY <1>1 DEF TodoInv
<1>3. \A v \in Workers \ {w} : HandlerLeft(v)' = HandlerLeft(v)
  BY <1>1 DEF HandlerLeft
<1>4. HandlerLeft(w)' < HandlerLeft(w)
  <2>1. todo[w] \in Seq(Call) /\ pc[w] \in Steps
    BY DEF TodoInv
  <2>2. Len(todo[w]) \in Nat
    BY <2>1
  <2>3. StepsLeft[place] \in Nat /\ StepsLeft[pc[w]] \in Nat
    BY <2>1 DEF StepsLeft, Steps
  <2> QED
    BY <1>1, <2>2, <2>3 DEF HandlerLeft
<1> QED
  BY <1>2, <1>3, <1>4 DEF OneComesCloser

LEMMA StepOfCall ==
  ASSUME TodoInv, NEW w \in Workers, Find(w)
  PROVE  TodoInv' /\ OneComesCloser
<1>1. /\ pc \in [Workers -> Steps] /\ todo \in [Workers -> Seq(Call)]
      /\ pc[w] = "find" /\ todo[w] # <<>>
      /\ pc' = [pc EXCEPT ![w] = "next"] /\ todo' = [todo EXCEPT ![w] = Tail(@)]
  BY DEF TodoInv, Find, Goto
<1>2. /\ Tail(todo[w]) \in Seq(Call)
      /\ Len(todo[w]) \in Nat /\ Len(Tail(todo[w])) \in Nat
      /\ Len(Tail(todo[w])) = Len(todo[w]) - 1
  BY <1>1, TailIsShorter
<1>3. /\ pc' \in [Workers -> Steps] /\ todo' \in [Workers -> Seq(Call)]
      /\ pc'[w] = "next" /\ todo'[w] = Tail(todo[w])
      /\ \A v \in Workers \ {w} : pc'[v] = pc[v] /\ todo'[v] = todo[v]
  BY <1>1, <1>2 DEF Steps
<1>4. TodoInv'
  BY <1>3 DEF TodoInv
<1>5. \A v \in Workers \ {w} : HandlerLeft(v)' = HandlerLeft(v)
  BY <1>3 DEF HandlerLeft
<1>6. HandlerLeft(w)' < HandlerLeft(w)
  <2>1. StepsLeft["find"] = 1 /\ StepsLeft["next"] = 5
    BY DEF StepsLeft, Steps
  <2> QED
    BY <1>1, <1>2, <1>3, <2>1 DEF HandlerLeft
<1> QED
  BY <1>4, <1>5, <1>6 DEF OneComesCloser

LEMMA StepOfHandler ==
  ASSUME TodoInv, NEW w \in Workers, Step(w)
  PROVE  TodoInv' /\ OneComesCloser
<1>1. /\ StepsLeft["waiting"] = 6 /\ StepsLeft["next"] = 5 /\ StepsLeft["read"] = 4
      /\ StepsLeft["compile"] = 3 /\ StepsLeft["write"] = 2 /\ StepsLeft["find"] = 1
      /\ StepsLeft["ended"] = 0
  BY DEF StepsLeft, Steps
<1>2. CASE Find(w)
  BY <1>2, StepOfCall
<1>3. CASE ~ Find(w)
  <2>1. PICK place \in Steps :
          /\ Goto(w, place) /\ todo' = todo
          /\ \/ pc[w] = "waiting" /\ place = "next"
             \/ pc[w] = "next" /\ place \in {"read", "ended"}
             \/ pc[w] = "read" /\ place \in {"compile", "find"}
             \/ pc[w] = "compile" /\ place = "write"
             \/ pc[w] = "write" /\ place = "find"
          /\ place = "read" => todo[w] # <<>>
    BY <1>3 DEF Step, StartHandler, AppendPath, ReadRegistry, CompileTable, WriteRegistry,
                EndHandler, Steps
  <2>2. StepsLeft[place] < StepsLeft[pc[w]]
    BY <1>1, <2>1
  <2>3. place \in {"read", "compile", "write", "find"} => todo[w] # <<>>
    BY <2>1 DEF TodoInv
  <2> QED
    BY <2>1, <2>2, <2>3, StepsInPlace
<1> QED
  BY <1>2, <1>3

(* Every step leaves its handler less to do and none of the others more:   *)
(* however the handlers take turns, and however many the host runs at a    *)
(* time, finitely many come to an end (cmd/buf-plugin-aep/main.go; the run *)
(* has HandlersEnd).                                                       *)
THEOREM HandlersComeCloser == Spec => [][OneComesCloser]_vars
<1>1. TodoInv /\ [Next]_vars => TodoInv' /\ [OneComesCloser]_vars
  <2>1. CASE \E w \in Workers : Step(w)
    BY <2>1, StepOfHandler
  <2>2. CASE UNCHANGED vars
    BY <2>2 DEF TodoInv, vars
  <2> QED
    BY <2>1, <2>2 DEF Next, AllEnded
<1> QED
  BY <1>1, InitTodo, PTL DEF Spec

-----------------------------------------------------------------------------

(***************************************************************************)
(* Report.  The problems passed are those before the loops' place, so what *)
(* is written and counted so far is told by them; where the loops end they *)
(* are all there are.                                                      *)
(***************************************************************************)

(* The problems that the loops have passed.                                *)
Passed == Before(<<i, j>>)
PathAt(x) == responses[x[1]].path

(* One location for each of them, in their order.                          *)
MarshalledSoFar ==
  /\ output \in Seq([rule : RuleIDs, path : Paths, at : {FileLocation(s) : s \in Spans \cup {NoLoc}}])
  /\ Len(output) = Cardinality(Passed)
  /\ \A n \in 1..Len(output) :
       \E x \in Passed : /\ Cardinality(Before(x)) = n - 1
                         /\ output[n].at = FileLocation(Place(Of(x)))

MineOf(r) == {x \in Passed : Of(x).rule = r}
MineIn(r, p) == {x \in Passed : Of(x).rule = r /\ PathAt(x) = p}

(* createSummary's map of maps counts them by rule and path.               *)
CountsAddUp ==
  /\ IsFiniteSet(DOMAIN counts)
  /\ DOMAIN counts = {Of(x).rule : x \in Passed}
  /\ \A r \in DOMAIN counts :
       /\ IsFiniteSet(DOMAIN counts[r])
       /\ DOMAIN counts[r] = {PathAt(x) : x \in MineOf(r)}
       /\ \A p \in DOMAIN counts[r] : counts[r][p] = Cardinality(MineIn(r, p))

Row == [rule : RuleIDs, violations : Nat, files : Nat]

(* A row of the table is the sum of a rule's map.                          *)
RowAddsUp(row) ==
  /\ row.rule \in DOMAIN counts
  /\ row.violations = Cardinality(MineOf(row.rule))
  /\ row.files = Cardinality(DOMAIN counts[row.rule])

RowsAddUp ==
  /\ output \in Seq(Row)
  /\ stage = "format" => output = <<>>
  /\ \A n \in 1..Len(output) : RowAddsUp(output[n])
  /\ \A m, n \in 1..Len(output) : output[m].rule = output[n].rule => m = n
  /\ stage \in {"sort", "done"} =>
       \A r \in DOMAIN counts : \E n \in 1..Len(output) : output[n].rule = r
  /\ stage = "done" => \A n \in 2..Len(output) : output[n - 1].violations <= output[n].violations

ReportInv ==
  /\ ReportTypeOK
  /\ format \in {"yaml", "github", "summary"}
  /\ IsFiniteSet(Passed)
  /\ stage # "format" => i > Len(responses)
  /\ stage \in {"rows", "sort"} => format = "summary"
  /\ format = "yaml" => MarshalledSoFar
  /\ format = "summary" => CountsAddUp /\ RowsAddUp

-----------------------------------------------------------------------------

LEMMA ResponsesType ==
  ASSUME ReportTypeOK
  PROVE  /\ responses \in Seq([path : Paths, problems : Seq(Problem)])
         /\ \A a \in 1..Len(responses) :
              /\ responses[a].path \in Paths
              /\ responses[a].problems \in Seq(Problem)
<1> DEFINE R == [path : Paths, problems : Seq(Problem)]
<1>1. responses \in Seq(R)
  BY ReportAssumption DEF ReportTypeOK
<1>2. \A a \in 1..Len(responses) : responses[a] \in R
  <2> HIDE DEF R
  <2> QED
    BY <1>1
<1> QED
  BY <1>1, <1>2

(* Problems are told by the place of their response and their own in it.   *)
LEMMA InAll ==
  ASSUME ReportTypeOK
  PROVE  /\ \A a, b : <<a, b>> \in All <=> a \in 1..Len(responses) /\ b \in 1..Len(responses[a].problems)
         /\ \A x \in All : x = <<x[1], x[2]>>
<1>1. DOMAIN responses = 1..Len(responses)
  BY ResponsesType
<1>2. \A a \in 1..Len(responses) : DOMAIN responses[a].problems = 1..Len(responses[a].problems)
  BY ResponsesType
<1> QED
  BY <1>1, <1>2 DEF All

LEMMA PlaceInAll ==
  ASSUME ReportTypeOK, NEW x \in All
  PROVE  /\ x[1] \in 1..Len(responses) /\ x[2] \in 1..Len(responses[x[1]].problems)
         /\ x[1] \in Nat /\ x[2] \in Nat
         /\ Of(x) \in Problem
         /\ PathAt(x) \in Paths
<1>1. x[1] \in 1..Len(responses) /\ x[2] \in 1..Len(responses[x[1]].problems)
  BY InAll
<1>2. Len(responses) \in Nat /\ Len(responses[x[1]].problems) \in Nat
  BY <1>1, ResponsesType
<1> QED
  BY <1>1, <1>2, ResponsesType DEF Of, PathAt

LEMMA PassedAtStart == ReportInit => Passed = {}
<1> SUFFICES ASSUME ReportInit, NEW x \in Passed PROVE FALSE
  OBVIOUS
<1> DEFINE R == [path : Paths, problems : Seq(Problem)]
<1>1. responses \in Seq(R)
  BY ReportAssumption DEF ReportInit
<1>2. PICK a \in DOMAIN responses : \E b \in DOMAIN responses[a].problems : x = <<a, b>>
  BY DEF Passed, Before, All
<1>3. responses[a].problems \in Seq(Problem) /\ a \in Nat \ {0}
  <2>1. responses[a] \in R /\ a \in Nat \ {0}
    <3> HIDE DEF R
    <3> QED
      BY <1>1, <1>2
  <2> QED
    BY <2>1
<1>4. PICK b \in DOMAIN responses[a].problems : x = <<a, b>>
  BY <1>2
<1>5. b \in Nat \ {0}
  BY <1>3
<1>6. i = 1 /\ j = 1
  BY DEF ReportInit
<1> QED
  BY <1>3, <1>4, <1>5, <1>6 DEF Passed, Before

(* A problem formatted is one more passed; the next response is none.      *)
LEMMA PassOne ==
  ASSUME ReportTypeOK, HasProblem, i' = i, j' = j + 1, responses' = responses
  PROVE  /\ <<i, j>> \in All
         /\ <<i, j>> \notin Passed
         /\ Passed' = Passed \cup {<<i, j>>}
<1>1. i \in 1..Len(responses) /\ j \in 1..Len(responses[i].problems)
  BY ResponsesType DEF ReportTypeOK, HasProblem, Here
<1>2. <<i, j>> \in All
  BY <1>1, InAll
<1>3. <<i, j>> \notin Passed
  BY <1>1 DEF Passed, Before
<1>4. All' = All
  BY DEF All
<1>5. i \in Nat /\ j \in Nat
  BY DEF ReportTypeOK
<1>6. ASSUME NEW x \in All
      PROVE  x \in Passed' <=> x \in Passed \/ x = <<i, j>>
  <2>1. x = <<x[1], x[2]>> /\ x[1] \in Nat /\ x[2] \in Nat
    BY InAll, PlaceInAll
  <2>2. x \in Passed' <=> x[1] < i \/ (x[1] = i /\ x[2] < j + 1)
    BY <1>4 DEF Passed, Before
  <2>3. x \in Passed <=> x[1] < i \/ (x[1] = i /\ x[2] < j)
    BY DEF Passed, Before
  <2>4. x = <<i, j>> <=> x[1] = i /\ x[2] = j
    BY <2>1
  <2> QED
    BY <2>1, <2>2, <2>3, <2>4, <1>5
<1> QED
  BY <1>2, <1>3, <1>4, <1>6 DEF Passed, Before

LEMMA PassNone ==
  ASSUME ReportTypeOK, i <= Len(responses), j > Len(Here.problems),
         i' = i + 1, j' = 1, responses' = responses
  PROVE  Passed' = Passed
<1>1. All' = All
  BY DEF All
<1>2. i \in Nat /\ j \in Nat /\ Len(responses[i].problems) \in Nat
  BY ResponsesType DEF ReportTypeOK
<1>3. ASSUME NEW x \in All
      PROVE  x \in Passed' <=> x \in Passed
  <2>1. x[1] \in Nat /\ x[2] \in Nat \ {0} /\ (x[1] = i => x[2] <= Len(responses[i].problems))
    BY PlaceInAll
  <2>2. x \in Passed' <=> x[1] < i + 1 \/ (x[1] = i + 1 /\ x[2] < 1)
    BY <1>1 DEF Passed, Before
  <2>3. x \in Passed <=> x[1] < i \/ (x[1] = i /\ x[2] < j)
    BY DEF Passed, Before
  <2> QED
    BY <2>1, <2>2, <2>3, <1>2 DEF Here
<1> QED
  BY <1>1, <1>3 DEF Passed, Before

LEMMA PassedAll ==
  ASSUME ReportTypeOK, i > Len(responses)
  PROVE  Passed = All
<1> SUFFICES ASSUME NEW x \in All PROVE x[1] < i
  BY DEF Passed, Before
<1>1. Len(responses) \in Nat /\ i \in Nat
  BY ResponsesType DEF ReportTypeOK
<1> QED
  BY <1>1, PlaceInAll

(* A problem has its place to itself.                                      *)
LEMMA OnlyPlace ==
  ASSUME ReportTypeOK, IsFiniteSet(All), NEW x \in All, NEW y \in All,
         Cardinality(Before(x)) = Cardinality(Before(y))
  PROVE  x = y
<1>1. x[1] \in Nat /\ x[2] \in Nat /\ y[1] \in Nat /\ y[2] \in Nat
  BY PlaceInAll
<1>2. x = <<x[1], x[2]>> /\ y = <<y[1], y[2]>>
  BY InAll
<1>3. IsFiniteSet(Before(x)) /\ IsFiniteSet(Before(y))
  BY FS_Subset DEF Before
<1>4. x \notin Before(x) /\ y \notin Before(y)
  BY <1>1 DEF Before
<1>5. CASE x \in Before(y)
  <2>1. Before(x) \in SUBSET Before(y)
    BY <1>1, <1>5, PlaceInAll DEF Before
  <2> QED
    BY <2>1, <1>3, <1>4, <1>5, FS_Subset
<1>6. CASE y \in Before(x)
  <2>1. Before(y) \in SUBSET Before(x)
    BY <1>1, <1>6, PlaceInAll DEF Before
  <2> QED
    BY <2>1, <1>3, <1>4, <1>6, FS_Subset
<1>7. CASE x \notin Before(y) /\ y \notin Before(x)
  BY <1>1, <1>2, <1>7 DEF Before
<1> QED
  BY <1>5, <1>6, <1>7

-----------------------------------------------------------------------------

LEMMA InitReport == ReportInit => ReportInv
<1> SUFFICES ASSUME ReportInit PROVE ReportInv
  OBVIOUS
<1>1. Passed = {}
  BY PassedAtStart
<1>2. ReportTypeOK
  <2>1. responses \in Seq([path : Paths, problems : Seq(Problem)])
    BY ReportAssumption DEF ReportInit
  <2>2. Len(responses) \in Nat /\ (1 <= Len(responses) => Len(responses[1].problems) \in Nat)
    <3> DEFINE R == [path : Paths, problems : Seq(Problem)]
    <3>1. responses \in Seq(R)
      BY <2>1
    <3>2. 1 <= Len(responses) => responses[1] \in R
      <4> HIDE DEF R
      <4> QED
        BY <3>1
    <3> QED
      BY <2>1, <3>2
  <2> QED
    BY <2>2 DEF ReportTypeOK, ReportInit, Here
<1>3. MarshalledSoFar
  BY <1>1, FS_EmptySet DEF ReportInit, MarshalledSoFar
<1>4. CountsAddUp
  BY <1>1, FS_EmptySet DEF ReportInit, CountsAddUp
<1>5. RowsAddUp
  BY DEF ReportInit, RowsAddUp
<1> QED
  BY <1>1, <1>2, <1>3, <1>4, <1>5, FS_EmptySet DEF ReportInit, ReportInv

LEMMA StepType ==
  ASSUME ReportInv, ReportNext
  PROVE  ReportTypeOK'
<1> USE DEF ReportInv
<1>1. /\ Len(responses) \in Nat
      /\ \A a \in 1..Len(responses) : Len(responses[a].problems) \in Nat
  BY ResponsesType
<1>2. i \in Nat /\ j \in Nat \ {0}
  BY <1>1 DEF ReportTypeOK
<1>3. CASE MarshalProblem \/ EmitCommand
  BY <1>1, <1>2, <1>3 DEF ReportTypeOK, MarshalProblem, EmitCommand, HasProblem, Here
<1>4. CASE CountProblem
  <2>1. <<i, j>> \in All
    BY <1>4, <1>1, InAll DEF CountProblem, HasProblem, Here, ReportTypeOK
  <2>2. Here.problems[j].rule \in RuleIDs /\ Here.path \in Paths
    BY <2>1, PlaceInAll DEF Here, Of, PathAt, Problem
  <2>3. /\ DOMAIN counts' \subseteq RuleIDs
        /\ \A r \in DOMAIN counts' :
             /\ DOMAIN counts'[r] \subseteq Paths
             /\ \A p \in DOMAIN counts'[r] : counts'[r][p] \in Nat \ {0}
    <3> DEFINE rule == Here.problems[j].rule
               path == Here.path
               inner == IF rule \in DOMAIN counts THEN counts[rule] ELSE <<>>
               was == IF path \in DOMAIN inner THEN inner[path] ELSE 0
               more == [y \in DOMAIN inner \cup {path} |-> IF y = path THEN was + 1 ELSE inner[y]]
    <3>1. DOMAIN inner \subseteq Paths /\ \A p \in DOMAIN inner : inner[p] \in Nat \ {0}
      BY DEF ReportTypeOK
    <3>2. was \in Nat
      BY <3>1
    <3>3. DOMAIN more \subseteq Paths /\ \A p \in DOMAIN more : more[p] \in Nat \ {0}
      <4> HIDE DEF was, inner, path
      <4> QED
        BY <3>1, <3>2, <2>2 DEF path
    <3>4. counts' = [x \in DOMAIN counts \cup {rule} |-> IF x = rule THEN more ELSE counts[x]]
      BY <1>4 DEF CountProblem, Counted
    <3>5. rule \in RuleIDs
      BY <2>2
    <3> HIDE DEF more, rule
    <3> QED
      BY <3>3, <3>4, <3>5 DEF ReportTypeOK
  <2> QED
    BY <1>1, <1>2, <1>4, <2>3 DEF ReportTypeOK, CountProblem, HasProblem, Here
<1>5. CASE NextResponse
  <2>1. i' \in 1..Len(responses) + 1
    BY <1>1, <1>2, <1>5 DEF NextResponse
  <2>2. i' <= Len(responses) => 1 <= Len(responses[i'].problems) + 1
    BY <1>1, <2>1
  <2> QED
    BY <1>5, <2>1, <2>2 DEF ReportTypeOK, NextResponse, Here
<1>6. CASE EndResponses \/ (\E rule \in DOMAIN counts : AddRow(rule)) \/ EndRows \/ SortRows \/ Done
  BY <1>6 DEF ReportTypeOK, EndResponses, AddRow, EndRows, SortRows, Done, Here, reportVars
<1> QED
  BY <1>3, <1>4, <1>5, <1>6 DEF ReportNext

(* What a step does to the problems passed.                                *)
LEMMA StepPassed ==
  ASSUME ReportInv, ReportNext
  PROVE  /\ format' = format /\ responses' = responses /\ All' = All
         /\ IsFiniteSet(Passed')
         /\ stage' # "format" => i' > Len(responses)
         /\ stage' \in {"rows", "sort"} => format = "summary"
         /\ Passed' = Passed \/ MarshalProblem \/ EmitCommand \/ CountProblem
<1> USE DEF ReportInv
<1>1. format' = format /\ responses' = responses
  BY DEF ReportNext, MarshalProblem, EmitCommand, CountProblem, NextResponse, EndResponses, AddRow,
         EndRows, SortRows, Done, reportVars
<1>2. All' = All
  BY <1>1 DEF All
<1>3. CASE MarshalProblem \/ EmitCommand \/ CountProblem
  <2>1. HasProblem /\ i' = i /\ j' = j + 1 /\ stage' = stage
    BY <1>3 DEF MarshalProblem, EmitCommand, CountProblem
  <2>2. Passed' = Passed \cup {<<i, j>>}
    BY <1>1, <2>1, PassOne
  <2> QED
    BY <1>1, <1>2, <1>3, <2>1, <2>2, FS_AddElement
<1>4. CASE NextResponse
  <2>1. Passed' = Passed
    BY <1>4, PassNone DEF NextResponse
  <2> QED
    BY <1>1, <1>2, <1>4, <2>1 DEF NextResponse
<1>5. CASE EndResponses \/ (\E rule \in DOMAIN counts : AddRow(rule)) \/ EndRows \/ SortRows \/ Done
  <2>1. i' = i /\ j' = j
    BY <1>5 DEF EndResponses, AddRow, EndRows, SortRows, Done, reportVars
  <2>2. Passed' = Passed
    BY <1>2, <2>1 DEF Passed, Before
  <2>3. stage' # "format" => i > Len(responses)
    BY <1>5 DEF EndResponses, AddRow, EndRows, SortRows, Done, reportVars
  <2>4. stage' \in {"rows", "sort"} => format = "summary"
    BY <1>5 DEF EndResponses, AddRow, EndRows, SortRows, Done, reportVars
  <2> QED
    BY <1>1, <1>2, <2>1, <2>2, <2>3, <2>4
<1> QED
  BY <1>3, <1>4, <1>5 DEF ReportNext

(* The locations of the problems passed are written, in their order.       *)
LEMMA StepMarshalled ==
  ASSUME ReportInv, ReportNext, format = "yaml"
  PROVE  MarshalledSoFar'
<1> USE DEF ReportInv
<1>1. format' = format /\ responses' = responses /\ All' = All
  BY StepPassed
<1>2. Passed' = Passed \/ MarshalProblem
  BY StepPassed DEF EmitCommand, CountProblem
<1>3. \A x : Before(x)' = Before(x) /\ Of(x)' = Of(x)
  BY <1>1 DEF Before, Of
<1>4. CASE MarshalProblem
  <2>1. /\ <<i, j>> \in All
        /\ <<i, j>> \notin Passed
        /\ Passed' = Passed \cup {<<i, j>>}
    BY <1>4, PassOne DEF MarshalProblem
  <2> DEFINE entry == [rule |-> Here.problems[j].rule, path |-> Here.path,
                       at |-> FileLocation(Place(Here.problems[j]))]
             E == [rule : RuleIDs, path : Paths, at : {FileLocation(s) : s \in Spans \cup {NoLoc}}]
  <2>2. Of(<<i, j>>) = Here.problems[j] /\ PathAt(<<i, j>>) = Here.path
    BY DEF Of, PathAt, Here
  <2>3. entry \in E
    <3>1. Here.problems[j] \in Problem /\ Here.path \in Paths
      BY <2>1, <2>2, PlaceInAll
    <3> QED
      BY <3>1 DEF Problem, Place
  <2>4. output \in Seq(E) /\ output' = Append(output, entry)
    BY <1>4 DEF MarshalProblem, MarshalledSoFar
  <2>5. entry.at = FileLocation(Place(Of(<<i, j>>)))
    BY <2>2
  <2>6. Cardinality(Passed') = Cardinality(Passed) + 1 /\ Len(output) = Cardinality(Passed)
    BY <2>1, FS_AddElement DEF MarshalledSoFar
  <2>7. \A n \in 1..Len(output) : \E x \in Passed : /\ Cardinality(Before(x)) = n - 1
                                                    /\ output[n].at = FileLocation(Place(Of(x)))
    BY DEF MarshalledSoFar
  <2> HIDE DEF entry, E
  <2>8. /\ output' \in Seq(E) /\ Len(output') = Len(output) + 1
        /\ \A n \in 1..Len(output) : output'[n] = output[n]
        /\ output'[Len(output) + 1] = entry
    BY <2>3, <2>4
  <2>9. Len(output) \in Nat
    BY <2>4
  <2>10. ASSUME NEW n \in 1..Len(output')
         PROVE  \E x \in Passed' : /\ Cardinality(Before(x)) = n - 1
                                   /\ output'[n].at = FileLocation(Place(Of(x)))
    <3>1. CASE n = Len(output) + 1
      <4>1. Cardinality(Before(<<i, j>>)) = n - 1
        BY <3>1, <2>6, <2>9 DEF Passed
      <4>2. output'[n].at = FileLocation(Place(Of(<<i, j>>)))
        BY <3>1, <2>5, <2>8
      <4> QED
        BY <4>1, <4>2, <2>1
    <3>2. CASE n \in 1..Len(output)
      BY <3>2, <2>1, <2>7, <2>8
    <3> QED
      BY <3>1, <3>2, <2>8, <2>9
  <2> QED
    BY <1>3, <2>6, <2>8, <2>10 DEF MarshalledSoFar, E
<1>5. CASE output' = output /\ Passed' = Passed
  BY <1>3, <1>5 DEF MarshalledSoFar
<1>6. CASE ~ MarshalProblem
  BY <1>2, <1>5, <1>6 DEF ReportNext, EmitCommand, CountProblem, NextResponse, EndResponses,
                          AddRow, EndRows, SortRows, Done, reportVars
<1> QED
  BY <1>4, <1>5, <1>6

(* The row of a rule counts its problems and the paths that have any.      *)
LEMMA StepCounted ==
  ASSUME ReportInv, CountProblem
  PROVE  CountsAddUp'
<1> USE DEF ReportInv
<1>1. responses' = responses /\ All' = All /\ format = "summary" /\ CountsAddUp
  BY DEF CountProblem, All
<1>2. \A x : Before(x)' = Before(x) /\ Of(x)' = Of(x) /\ PathAt(x)' = PathAt(x)
  BY <1>1 DEF Before, Of, PathAt
<1>0. PICK new, rule, path : new = <<i, j>> /\ rule = Here.problems[j].rule /\ path = Here.path
  OBVIOUS
<1>3. new \in All /\ new \notin Passed /\ Passed' = Passed \cup {new}
  BY <1>0, PassOne DEF CountProblem
<1>4. Of(new).rule = rule /\ PathAt(new) = path
  BY <1>0 DEF Of, PathAt, Here
<1> DEFINE inner == IF rule \in DOMAIN counts THEN counts[rule] ELSE <<>>
           was == IF path \in DOMAIN inner THEN inner[path] ELSE 0
           more == [y \in DOMAIN inner \cup {path} |-> IF y = path THEN was + 1 ELSE inner[y]]
<1>5. counts' = [x \in DOMAIN counts \cup {rule} |-> IF x = rule THEN more ELSE counts[x]]
  BY <1>0 DEF CountProblem, Counted
<1>6. /\ IsFiniteSet(DOMAIN inner)
      /\ DOMAIN inner = {PathAt(x) : x \in MineOf(rule)}
      /\ \A p \in DOMAIN inner : inner[p] = Cardinality(MineIn(rule, p))
  <2>1. CASE rule \in DOMAIN counts
    BY <1>1, <2>1 DEF CountsAddUp
  <2>2. CASE rule \notin DOMAIN counts
    <3>1. MineOf(rule) = {}
      BY <1>1, <2>2 DEF CountsAddUp, MineOf
    <3>2. DOMAIN inner = {}
      BY <2>2
    <3> QED
      BY <3>1, <3>2, FS_EmptySet
  <2> QED
    BY <2>1, <2>2
<1>7. was = Cardinality(MineIn(rule, path))
  <2>1. CASE path \in DOMAIN inner
    BY <1>6, <2>1
  <2>2. CASE path \notin DOMAIN inner
    <3>1. MineIn(rule, path) = {}
      <4> HIDE DEF inner
      <4> QED
        BY <1>6, <2>2 DEF MineIn, MineOf
    <3> QED
      BY <2>2, <3>1, FS_EmptySet
  <2> QED
    BY <2>1, <2>2
<1> HIDE DEF inner, was
<1>8. \A r : /\ MineOf(r)' = IF r = rule THEN MineOf(r) \cup {new} ELSE MineOf(r)
            /\ \A p : MineIn(r, p)' = IF r = rule /\ p = path THEN MineIn(r, p) \cup {new}
                                                              ELSE MineIn(r, p)
  BY <1>2, <1>3, <1>4 DEF MineOf, MineIn
<1>9. Cardinality(MineIn(rule, path)') = was + 1
  <2>1. IsFiniteSet(MineIn(rule, path)) /\ new \notin MineIn(rule, path)
    BY <1>3, FS_Subset DEF MineIn
  <2>2. MineIn(rule, path)' = MineIn(rule, path) \cup {new}
    BY <1>8
  <2> QED
    BY <1>7, <2>1, <2>2, FS_AddElement
<1>10. /\ IsFiniteSet(DOMAIN more)
       /\ DOMAIN more = {PathAt(x) : x \in MineOf(rule)'}
       /\ \A p \in DOMAIN more : more[p] = Cardinality(MineIn(rule, p)')
  <2>1. DOMAIN more = DOMAIN inner \cup {path}
    OBVIOUS
  <2>2. \A p \in DOMAIN more : more[p] = Cardinality(MineIn(rule, p)')
    BY <1>6, <1>8, <1>9
  <2>3. DOMAIN more = {PathAt(x) : x \in MineOf(rule)'}
    BY <2>1, <1>4, <1>6, <1>8
  <2> QED
    BY <2>1, <2>2, <2>3, <1>6, FS_AddElement
<1> HIDE DEF more
<1>11. DOMAIN counts' = DOMAIN counts \cup {rule} /\ counts'[rule] = more
       /\ \A r \in DOMAIN counts \ {rule} : counts'[r] = counts[r]
  BY <1>5
<1>12. DOMAIN counts' = {Of(x)'.rule : x \in Passed'}
  BY <1>1, <1>2, <1>3, <1>4, <1>11 DEF CountsAddUp
<1>13. IsFiniteSet(DOMAIN counts')
  BY <1>1, <1>11, FS_AddElement DEF CountsAddUp
<1>14. ASSUME NEW r \in DOMAIN counts'
       PROVE  /\ IsFiniteSet(DOMAIN counts'[r])
              /\ DOMAIN counts'[r] = {PathAt(x)' : x \in MineOf(r)'}
              /\ \A p \in DOMAIN counts'[r] : counts'[r][p] = Cardinality(MineIn(r, p)')
  <2>1. CASE r = rule
    BY <2>1, <1>2, <1>10, <1>11
  <2>2. CASE r # rule
    <3>1. r \in DOMAIN counts /\ counts'[r] = counts[r]
      BY <2>2, <1>11
    <3>2. MineOf(r)' = MineOf(r) /\ \A p : MineIn(r, p)' = MineIn(r, p)
      BY <2>2, <1>8
    <3> QED
      BY <3>1, <3>2, <1>1, <1>2 DEF CountsAddUp
  <2> QED
    BY <2>1, <2>2
<1> QED
  BY <1>12, <1>13, <1>14 DEF CountsAddUp

-----------------------------------------------------------------------------

(* The table's total, summed path by path in any order, counts the         *)
(* problems of the rule.                                                   *)
IsSum(f, sum) ==
  sum = [s \in SUBSET DOMAIN f |->
           IF s = {} THEN 0 ELSE f[CHOOSE p \in s : TRUE] + sum[s \ {CHOOSE p \in s : TRUE}]]

LEMMA TotalIsSum ==
  ASSUME NEW f
  PROVE  FoldFunction(+, 0, f) = (CHOOSE sum : IsSum(f, sum))[DOMAIN f]
BY DEF FoldFunction, FoldFunctionOnSet, MapThenFoldSet, IsSum

Within(r, s) == {x \in MineOf(r) : PathAt(x) \in s}

(* Each path adds its own problems, whichever is taken first.              *)
LEMMA CountsAreASum ==
  ASSUME IsFiniteSet(Passed), CountsAddUp, NEW r \in DOMAIN counts, NEW s \in SUBSET DOMAIN counts[r]
  PROVE  /\ Cardinality(Within(r, s)) \in Nat
         /\ s = {} => Cardinality(Within(r, s)) = 0
         /\ \A p \in s : Cardinality(Within(r, s)) = counts[r][p] + Cardinality(Within(r, s \ {p}))
<1>1. \A t : IsFiniteSet(Within(r, t))
  <2> TAKE t
  <2>1. Within(r, t) \in SUBSET Passed
    BY DEF Within, MineOf
  <2> QED
    BY <2>1, FS_Subset
<1>2. ASSUME NEW p \in s
      PROVE  Cardinality(Within(r, s)) = counts[r][p] + Cardinality(Within(r, s \ {p}))
  <2> DEFINE these == MineIn(r, p)
             those == Within(r, s \ {p})
  <2>1. counts[r][p] = Cardinality(these)
    BY DEF CountsAddUp
  <2>2. Within(r, s) = these \cup those /\ these \cap those = {}
    BY DEF MineIn, MineOf, Within
  <2>3. IsFiniteSet(these) /\ IsFiniteSet(those)
    BY <1>1, FS_Subset DEF MineIn
  <2>4. Cardinality(these) \in Nat /\ Cardinality(those) \in Nat
    BY <2>3, FS_CardinalityType
  <2> HIDE DEF these, those
  <2>5. Cardinality(these \cup those) = Cardinality(these) + Cardinality(those) - Cardinality({})
    BY <2>2, <2>3, FS_Union
  <2> QED
    BY <2>1, <2>2, <2>4, <2>5, FS_EmptySet DEF those
<1>3. s = {} => Within(r, s) = {}
  BY DEF Within
<1> QED
  BY <1>1, <1>2, <1>3, FS_EmptySet, FS_CardinalityType

(* Any function that sums as FoldFunction does is this one: of the sets on *)
(* which it differs, a smallest one would not.                             *)
LEMMA TotalCounts ==
  ASSUME IsFiniteSet(Passed), CountsAddUp, NEW r \in DOMAIN counts
  PROVE  FoldFunction(+, 0, counts[r]) = Cardinality(MineOf(r))
<1>0. PICK f : f = counts[r]
  OBVIOUS
<1>1. PICK count : count = [s \in SUBSET DOMAIN f |-> Cardinality(Within(r, s))]
  OBVIOUS
<1>2. IsFiniteSet(DOMAIN f) /\ count[DOMAIN f] = Cardinality(MineOf(r))
  <2>1. DOMAIN f = {PathAt(x) : x \in MineOf(r)} /\ IsFiniteSet(DOMAIN f)
    BY <1>0 DEF CountsAddUp
  <2>2. Within(r, DOMAIN f) = MineOf(r)
    BY <2>1 DEF Within
  <2> QED
    BY <1>1, <2>1, <2>2
<1>3. \A s \in SUBSET DOMAIN f :
        /\ count[s] \in Nat
        /\ s = {} => count[s] = 0
        /\ \A p \in s : count[s] = f[p] + count[s \ {p}]
  BY <1>0, <1>1, CountsAreASum
<1>4. IsSum(f, count)
  <2>1. ASSUME NEW s \in SUBSET DOMAIN f
        PROVE  count[s] = IF s = {} THEN 0
                          ELSE f[CHOOSE p \in s : TRUE] + count[s \ {CHOOSE p \in s : TRUE}]
    <3>1. PICK p : p = CHOOSE x \in s : TRUE
      OBVIOUS
    <3>2. s # {} => p \in s
      BY <3>1
    <3>3. (s = {} => count[s] = 0) /\ (p \in s => count[s] = f[p] + count[s \ {p}])
      BY <1>3
    <3> QED
      BY <3>1, <3>2, <3>3
  <2> QED
    BY <1>1, <2>1 DEF IsSum
<1>5. ASSUME NEW sum, IsSum(f, sum), NEW s \in SUBSET DOMAIN f, sum[s] # count[s]
      PROVE  FALSE
  <2> DEFINE wrong == {t \in SUBSET DOMAIN f : sum[t] # count[t]}
             R == StrictSubsetOrdering(DOMAIN f)
  <2>1. IsWellFoundedOn(R, FiniteSubsetsOf(DOMAIN f)) /\ FiniteSubsetsOf(DOMAIN f) = SUBSET DOMAIN f
    BY <1>2, FS_StrictSubsetOrderingWellFounded, FS_FiniteSubsetsOfFinite
  <2>2. wrong \subseteq SUBSET DOMAIN f /\ wrong # {}
    BY <1>5
  <2>3. PICK t \in wrong : \A u \in wrong : ~ (<<u, t>> \in R)
    <3> HIDE DEF wrong, R
    <3> QED
      BY <2>1, <2>2, WFMin
  <2>4. PICK p : p = CHOOSE x \in t : TRUE
    OBVIOUS
  <2>5. t \in SUBSET DOMAIN f /\ sum[t] # count[t]
    BY <2>3
  <2>6. sum[t] = IF t = {} THEN 0 ELSE f[p] + sum[t \ {p}]
    <3>1. sum[t] = IF t = {} THEN 0 ELSE f[CHOOSE x \in t : TRUE] + sum[t \ {CHOOSE x \in t : TRUE}]
      BY <1>5, <2>5 DEF IsSum
    <3> QED
      BY <2>4, <3>1
  <2>10. (t = {} => count[t] = 0) /\ (p \in t => count[t] = f[p] + count[t \ {p}])
    BY <1>3, <2>5
  <2>7. t # {} /\ p \in t
    BY <2>4, <2>5, <2>6, <2>10
  <2>8. <<t \ {p}, t>> \in R
    BY <2>5, <2>7 DEF StrictSubsetOrdering
  <2>9. sum[t \ {p}] = count[t \ {p}]
    BY <2>3, <2>5, <2>8
  <2> QED
    BY <2>5, <2>6, <2>7, <2>9, <2>10
<1>6. IsSum(f, CHOOSE sum : IsSum(f, sum))
  BY <1>4
<1>7. (CHOOSE sum : IsSum(f, sum))[DOMAIN f] = count[DOMAIN f]
  BY <1>5, <1>6
<1> QED
  BY <1>0, <1>2, <1>7, TotalIsSum

-----------------------------------------------------------------------------

(* Which of two rows sort.SliceStable puts first.                          *)
Precedes(rows, a, b) ==
  \/ rows[a].violations < rows[b].violations
  \/ rows[a].violations = rows[b].violations /\ a < b

IsRank(rows, rank) ==
  /\ rank \in [1..Len(rows) -> 1..Len(rows)]
  /\ \A a, b \in 1..Len(rows) : rank[a] < rank[b] <=> Precedes(rows, a, b)

LEMMA RowsType ==
  ASSUME NEW rows \in Seq(Row)
  PROVE  /\ Len(rows) \in Nat
         /\ \A a \in 1..Len(rows) : rows[a] \in Row /\ rows[a].violations \in Nat /\ a \in Nat
         /\ IsFiniteSet(1..Len(rows)) /\ Cardinality(1..Len(rows)) = Len(rows)
<1>1. Len(rows) \in Nat /\ \A a \in 1..Len(rows) : rows[a] \in Row
  OBVIOUS
<1>2. Len(rows) \in Int /\ 1 \in Int /\ (1 > Len(rows) => Len(rows) = 0)
  BY <1>1
<1>3. /\ IsFiniteSet(1..Len(rows))
      /\ Cardinality(1..Len(rows)) = IF 1 > Len(rows) THEN 0 ELSE Len(rows) - 1 + 1
  BY <1>2, FS_Interval
<1> QED
  BY <1>1, <1>2, <1>3 DEF Row

(* The number of rows before a row is its place in the order, so that what *)
(* Sorted chooses exists.                                                  *)
LEMMA ARankExists ==
  ASSUME NEW rows \in Seq(Row)
  PROVE  \E rank : IsRank(rows, rank)
<1> DEFINE N == 1..Len(rows)
           below(a) == {b \in N : Precedes(rows, b, a)}
<1>1. Len(rows) \in Nat /\ \A a \in N : rows[a].violations \in Nat /\ a \in Nat
  BY RowsType
<1>2. IsFiniteSet(N) /\ Cardinality(N) = Len(rows)
  BY RowsType
<1>3. ASSUME NEW a \in N
      PROVE  IsFiniteSet(below(a)) /\ Cardinality(below(a)) \in Nat /\ Cardinality(below(a)) < Len(rows)
  <2>1. below(a) \in SUBSET N /\ a \notin below(a)
    BY <1>1 DEF Precedes
  <2>2. IsFiniteSet(below(a)) /\ Cardinality(below(a)) <= Len(rows) /\ Cardinality(below(a)) # Len(rows)
    BY <1>2, <2>1, FS_Subset
  <2> QED
    BY <1>1, <2>2, FS_CardinalityType
<1>4. ASSUME NEW a \in N, NEW b \in N, Precedes(rows, a, b)
      PROVE  Cardinality(below(a)) < Cardinality(below(b))
  <2>1. below(a) \in SUBSET below(b)
    <3> SUFFICES ASSUME NEW c \in N, Precedes(rows, c, a) PROVE Precedes(rows, c, b)
      OBVIOUS
    <3> QED
      BY <1>1, <1>4 DEF Precedes
  <2>2. a \in below(b) /\ a \notin below(a)
    BY <1>1, <1>4 DEF Precedes
  <2>3. Cardinality(below(a)) <= Cardinality(below(b)) /\ Cardinality(below(a)) # Cardinality(below(b))
    BY <1>3, <2>1, <2>2, FS_Subset
  <2>4. Cardinality(below(a)) \in Nat /\ Cardinality(below(b)) \in Nat
    BY <1>3
  <2> HIDE DEF below
  <2> QED
    BY <2>3, <2>4
<1> DEFINE rank == [a \in N |-> Cardinality(below(a)) + 1]
<1>5. ASSUME NEW a \in N, NEW b \in N
      PROVE  rank[a] < rank[b] <=> Precedes(rows, a, b)
  <2>1. Precedes(rows, a, b) \/ Precedes(rows, b, a) \/ a = b
    BY <1>1 DEF Precedes
  <2>2. ~ Precedes(rows, a, a)
    BY <1>1 DEF Precedes
  <2>3. /\ Cardinality(below(a)) \in Nat /\ Cardinality(below(b)) \in Nat
        /\ rank[a] = Cardinality(below(a)) + 1 /\ rank[b] = Cardinality(below(b)) + 1
    BY <1>3
  <2>4. /\ Precedes(rows, a, b) => Cardinality(below(a)) < Cardinality(below(b))
        /\ Precedes(rows, b, a) => Cardinality(below(b)) < Cardinality(below(a))
    BY <1>4
  <2> HIDE DEF rank, below
  <2> QED
    BY <2>1, <2>2, <2>3, <2>4
<1>6. rank \in [N -> N]
  <2>1. ASSUME NEW a \in N
        PROVE  Cardinality(below(a)) + 1 \in N
    <3>1. Cardinality(below(a)) \in Nat /\ Cardinality(below(a)) < Len(rows)
      BY <1>3
    <3> HIDE DEF below
    <3> QED
      BY <1>1, <3>1
  <2> HIDE DEF below
  <2> QED
    BY <2>1
<1>7. IsRank(rows, rank)
  BY <1>5, <1>6 DEF IsRank
<1> QED
  BY <1>7

(* What SortRows leaves: the same rows, the smaller numbers first.         *)
LEMMA SortedRows ==
  ASSUME NEW rows \in Seq(Row)
  PROVE  /\ Sorted(rows) \in Seq(Row) /\ Len(Sorted(rows)) = Len(rows)
         /\ \E from \in [1..Len(rows) -> 1..Len(rows)] :
              /\ \A n \in 1..Len(rows) : Sorted(rows)[n] = rows[from[n]]
              /\ \A m, n \in 1..Len(rows) : from[m] = from[n] => m = n
              /\ \A a \in 1..Len(rows) : \E n \in 1..Len(rows) : from[n] = a
         /\ \A n \in 2..Len(rows) : Sorted(rows)[n - 1].violations <= Sorted(rows)[n].violations
<1> DEFINE N == 1..Len(rows)
<1>1. Len(rows) \in Nat /\ \A a \in N : rows[a].violations \in Nat /\ a \in Nat
  BY RowsType
<1> DEFINE Is(f) == \A a, b \in N : f[a] < f[b] <=> Precedes(rows, a, b)
<1>2. PICK rank : rank = CHOOSE f \in [N -> N] : Is(f)
  OBVIOUS
<1>3. rank \in [N -> N] /\ Is(rank)
  <2>1. \E f \in [N -> N] : Is(f)
    BY ARankExists DEF IsRank
  <2> HIDE DEF Is
  <2> QED
    BY <1>2, <2>1
<1>4. \A a, b \in N : rank[a] = rank[b] => a = b
  <2> SUFFICES ASSUME NEW a \in N, NEW b \in N, rank[a] = rank[b] PROVE a = b
    OBVIOUS
  <2>1. ~ Precedes(rows, a, b) /\ ~ Precedes(rows, b, a)
    BY <1>1, <1>3
  <2> QED
    BY <1>1, <2>1 DEF Precedes
<1>5. \A q \in N : \E a \in N : rank[a] = q
  <2>1. rank \in Injection(N, N)
    BY <1>3, <1>4 DEF Injection, IsInjective
  <2>2. IsFiniteSet(N)
    BY RowsType
  <2>3. rank \in Surjection(N, N)
    BY <2>1, <2>2, FS_Injection
  <2> QED
    BY <2>3 DEF Surjection
<1>6. PICK from : from = [q \in N |-> CHOOSE a \in N : rank[a] = q]
  OBVIOUS
<1>7. from \in [N -> N] /\ \A q \in N : rank[from[q]] = q
  BY <1>5, <1>6
<1>8. Sorted(rows) = [q \in N |-> rows[from[q]]]
  <2>1. Sorted(rows) = [q \in N |-> rows[CHOOSE a \in N : rank[a] = q]]
    BY <1>2 DEF Sorted, Precedes
  <2> QED
    BY <1>6, <2>1
<1>9. Sorted(rows) \in Seq(Row) /\ Len(Sorted(rows)) = Len(rows)
  <2>1. \A q \in N : rows[from[q]] \in Row
    <3> HIDE DEF N
    <3> QED
      BY <1>7 DEF N
  <2> QED
    BY <1>1, <1>8, <2>1
<1>10. \A m, n \in N : from[m] = from[n] => m = n
  BY <1>7
<1>11. \A a \in N : \E n \in N : from[n] = a
  BY <1>3, <1>4, <1>7
<1>12. ASSUME NEW n \in 2..Len(rows)
       PROVE  Sorted(rows)[n - 1].violations <= Sorted(rows)[n].violations
  <2>1. n \in N /\ n - 1 \in N /\ n - 1 < n
    BY <1>1
  <2>2. rank[from[n - 1]] < rank[from[n]] /\ from[n - 1] \in N /\ from[n] \in N
    BY <1>7, <2>1
  <2>3. Precedes(rows, from[n - 1], from[n])
    BY <1>3, <2>2
  <2> QED
    BY <1>1, <1>8, <2>1, <2>2, <2>3 DEF Precedes
<1> QED
  BY <1>7, <1>8, <1>9, <1>10, <1>11, <1>12

LEMMA StepRow ==
  ASSUME ReportInv, NEW rule \in DOMAIN counts, AddRow(rule)
  PROVE  CountsAddUp' /\ RowsAddUp'
<1> USE DEF ReportInv
<1>1. /\ responses' = responses /\ i' = i /\ j' = j /\ counts' = counts /\ stage' = stage
      /\ stage = "rows" /\ format = "summary"
  BY DEF AddRow
<1>2. /\ \A x : Of(x)' = Of(x) /\ PathAt(x)' = PathAt(x)
      /\ Passed' = Passed
  BY <1>1 DEF Passed, Before, All, Of, PathAt
<1>3. \A r : MineOf(r)' = MineOf(r) /\ \A p : MineIn(r, p)' = MineIn(r, p)
  BY <1>2 DEF MineOf, MineIn
<1>4. CountsAddUp /\ RowsAddUp
  BY <1>1
<1>5. CountsAddUp'
  BY <1>1, <1>2, <1>3, <1>4 DEF CountsAddUp
<1> DEFINE row == [rule |-> rule, violations |-> FoldFunction(+, 0, counts[rule]),
                   files |-> Cardinality(DOMAIN counts[rule])]
<1>6. row.violations = Cardinality(MineOf(rule))
  BY <1>4, TotalCounts
<1>7. row \in Row /\ RowAddsUp(row) /\ row.rule = rule
  <2>1. IsFiniteSet(MineOf(rule)) /\ IsFiniteSet(DOMAIN counts[rule])
    BY <1>4, FS_Subset DEF CountsAddUp, MineOf
  <2>2. Cardinality(MineOf(rule)) \in Nat /\ Cardinality(DOMAIN counts[rule]) \in Nat
    BY <2>1, FS_CardinalityType
  <2>3. rule \in RuleIDs
    BY DEF ReportTypeOK
  <2> QED
    BY <1>6, <2>2, <2>3 DEF Row, RowAddsUp
<1>8. output' = Append(output, row) /\ \A n \in 1..Len(output) : output[n].rule # rule
  BY DEF AddRow
<1>9. output \in Seq(Row) /\ Len(output) \in Nat
  BY <1>4 DEF RowsAddUp
<1> HIDE DEF row
<1>10. /\ output' \in Seq(Row) /\ Len(output') = Len(output) + 1
       /\ \A n \in 1..Len(output) : output'[n] = output[n]
       /\ output'[Len(output) + 1] = row
  BY <1>7, <1>8, <1>9
<1>12. \A n \in 1..Len(output') : RowAddsUp(output'[n])
  BY <1>4, <1>7, <1>9, <1>10 DEF RowsAddUp
<1>13. \A m, n \in 1..Len(output') : output'[m].rule = output'[n].rule => m = n
  BY <1>4, <1>7, <1>8, <1>9, <1>10 DEF RowsAddUp
<1>14. \A n \in 1..Len(output') : RowAddsUp(output[n])'
  BY <1>1, <1>3, <1>12 DEF RowAddsUp
<1> QED
  BY <1>1, <1>5, <1>10, <1>13, <1>14 DEF RowsAddUp

(* As many rows as rules are the rows of all rules.                        *)
LEMMA StepEndRows ==
  ASSUME ReportInv, EndRows
  PROVE  CountsAddUp' /\ RowsAddUp'
<1> USE DEF ReportInv
<1>1. /\ responses' = responses /\ i' = i /\ j' = j /\ counts' = counts /\ output' = output
      /\ stage = "rows" /\ stage' = "sort" /\ format = "summary"
      /\ Len(output) = Cardinality(DOMAIN counts)
  BY DEF EndRows
<1>2. /\ \A x : Of(x)' = Of(x) /\ PathAt(x)' = PathAt(x)
      /\ Passed' = Passed
  BY <1>1 DEF Passed, Before, All, Of, PathAt
<1>3. \A r : MineOf(r)' = MineOf(r) /\ \A p : MineIn(r, p)' = MineIn(r, p)
  BY <1>2 DEF MineOf, MineIn
<1>4. CountsAddUp /\ RowsAddUp
  BY <1>1
<1>5. CountsAddUp'
  BY <1>1, <1>2, <1>3, <1>4 DEF CountsAddUp
<1>6. \A r \in DOMAIN counts : \E n \in 1..Len(output) : output[n].rule = r
  <2>1. output \in Seq(Row)
    BY <1>4 DEF RowsAddUp
  <2>2. PICK N : N = 1..Len(output)
    OBVIOUS
  <2>3. PICK f : f = [n \in N |-> output[n].rule]
    OBVIOUS
  <2>4. f \in [N -> DOMAIN counts] /\ \A m, n \in N : f[m] = f[n] => m = n
    BY <1>4, <2>2, <2>3 DEF RowsAddUp, RowAddsUp
  <2>5. f \in Injection(N, DOMAIN counts)
    BY <2>4 DEF Injection, IsInjective
  <2>6. IsFiniteSet(DOMAIN counts) /\ Cardinality(N) = Cardinality(DOMAIN counts)
    BY <1>1, <1>4, <2>1, <2>2, RowsType DEF CountsAddUp
  <2>7. f \in Surjection(N, DOMAIN counts)
    BY <2>5, <2>6, FS_Injection
  <2>8. \A r \in DOMAIN counts : \E n \in N : f[n] = r
    BY <2>7 DEF Surjection
  <2> QED
    BY <2>2, <2>3, <2>4, <2>8
<1>7. \A n \in 1..Len(output) : RowAddsUp(output[n])'
  BY <1>1, <1>3, <1>4 DEF RowsAddUp, RowAddsUp
<1> QED
  BY <1>1, <1>4, <1>5, <1>6, <1>7 DEF RowsAddUp

LEMMA StepSort ==
  ASSUME ReportInv, SortRows
  PROVE  CountsAddUp' /\ RowsAddUp'
<1> USE DEF ReportInv
<1>1. /\ responses' = responses /\ i' = i /\ j' = j /\ counts' = counts /\ output' = Sorted(output)
      /\ stage = "sort" /\ stage' = "done" /\ format = "summary"
  BY DEF SortRows
<1>2. /\ \A x : Of(x)' = Of(x) /\ PathAt(x)' = PathAt(x)
      /\ Passed' = Passed
  BY <1>1 DEF Passed, Before, All, Of, PathAt
<1>3. \A r : MineOf(r)' = MineOf(r) /\ \A p : MineIn(r, p)' = MineIn(r, p)
  BY <1>2 DEF MineOf, MineIn
<1>4. CountsAddUp /\ RowsAddUp
  BY <1>1
<1>5. CountsAddUp'
  BY <1>1, <1>2, <1>3, <1>4 DEF CountsAddUp
<1>6. PICK rows : rows = output
  OBVIOUS
<1>7. rows \in Seq(Row)
  BY <1>4, <1>6 DEF RowsAddUp
<1>8. PICK from \in [1..Len(rows) -> 1..Len(rows)] :
              /\ \A n \in 1..Len(rows) : Sorted(rows)[n] = rows[from[n]]
              /\ \A m, n \in 1..Len(rows) : from[m] = from[n] => m = n
              /\ \A a \in 1..Len(rows) : \E n \in 1..Len(rows) : from[n] = a
  BY <1>7, SortedRows
<1>9. output' \in Seq(Row) /\ Len(output') = Len(rows)
  BY <1>1, <1>6, <1>7, SortedRows
<1>10. \A n \in 1..Len(rows) : output'[n] = rows[from[n]] /\ from[n] \in 1..Len(rows)
  BY <1>1, <1>6, <1>8
<1>11. \A n \in 2..Len(output') : output'[n - 1].violations <= output'[n].violations
  BY <1>1, <1>6, <1>7, <1>9, SortedRows
<1>12. \A n \in 1..Len(output') : RowAddsUp(output[n])'
  <2> SUFFICES ASSUME NEW n \in 1..Len(output') PROVE RowAddsUp(output[n])'
    OBVIOUS
  <2>1. PICK a \in 1..Len(rows) : output'[n] = rows[a]
    BY <1>9, <1>10
  <2>2. RowAddsUp(rows[a])
    BY <1>4, <1>6 DEF RowsAddUp
  <2> QED
    BY <1>1, <1>3, <2>1, <2>2 DEF RowAddsUp
<1>13. ASSUME NEW m \in 1..Len(output'), NEW n \in 1..Len(output'), output'[m].rule = output'[n].rule
       PROVE  m = n
  <2>1. /\ output'[m] = rows[from[m]] /\ from[m] \in 1..Len(rows)
        /\ output'[n] = rows[from[n]] /\ from[n] \in 1..Len(rows)
    BY <1>9, <1>10
  <2>2. \A a, b \in 1..Len(rows) : rows[a].rule = rows[b].rule => a = b
    BY <1>4, <1>6 DEF RowsAddUp
  <2>3. from[m] = from[n]
    BY <1>13, <2>1, <2>2
  <2> QED
    BY <1>8, <1>9, <2>3
<1>14. \A r \in DOMAIN counts' : \E n \in 1..Len(output') : output'[n].rule = r
  <2>1. \A r \in DOMAIN counts : \E a \in 1..Len(rows) : rows[a].rule = r
    BY <1>1, <1>4, <1>6 DEF RowsAddUp
  <2>2. ASSUME NEW a \in 1..Len(rows)
        PROVE  \E n \in 1..Len(output') : output'[n] = rows[a]
    <3>1. PICK n \in 1..Len(rows) : from[n] = a
      BY <1>8
    <3> QED
      BY <3>1, <1>9, <1>10
  <2> QED
    BY <1>1, <2>1, <2>2
<1> QED
  BY <1>1, <1>5, <1>9, <1>11, <1>12, <1>13, <1>14 DEF RowsAddUp

(* The other steps leave the table as it is.                               *)
LEMMA StepSummary ==
  ASSUME ReportInv, ReportNext, format = "summary"
  PROVE  CountsAddUp' /\ RowsAddUp'
<1> USE DEF ReportInv
<1>1. CASE CountProblem
  <2>1. CountsAddUp'
    BY <1>1, StepCounted
  <2>2. output' = output /\ output = <<>> /\ stage' = "format"
    BY <1>1 DEF CountProblem, HasProblem, RowsAddUp
  <2> QED
    BY <2>1, <2>2 DEF RowsAddUp
<1>2. CASE NextResponse \/ EndResponses \/ Done
  <2>1. /\ counts' = counts /\ output' = output
        /\ stage' \in {stage, "rows"} /\ stage \in {"format", "done"}
    BY <1>2 DEF NextResponse, EndResponses, Done, reportVars
  <2>2. Passed' = Passed /\ \A x : Of(x)' = Of(x) /\ PathAt(x)' = PathAt(x)
    <3>1. ~ MarshalProblem /\ ~ EmitCommand /\ ~ CountProblem
      <4>1. i <= Len(responses) => Len(Here.problems) \in Nat /\ j \in Nat
        BY ResponsesType DEF ReportTypeOK, Here
      <4>2. Len(responses) \in Nat /\ i \in Nat
        BY ResponsesType DEF ReportTypeOK
      <4> QED
        BY <1>2, <4>1, <4>2 DEF NextResponse, EndResponses, Done, MarshalProblem, EmitCommand,
                                CountProblem, HasProblem
    <3> QED
      BY <3>1, StepPassed DEF Of, PathAt
  <2>3. \A r : MineOf(r)' = MineOf(r) /\ \A p : MineIn(r, p)' = MineIn(r, p)
    BY <2>2 DEF MineOf, MineIn
  <2>4. CountsAddUp'
    BY <2>1, <2>2, <2>3 DEF CountsAddUp
  <2>5. \A n \in 1..Len(output) : RowAddsUp(output[n])'
    BY <2>1, <2>3 DEF RowsAddUp, RowAddsUp
  <2>6. RowsAddUp'
    BY <1>2, <2>1, <2>5 DEF RowsAddUp, NextResponse, EndResponses, Done, reportVars
  <2> QED
    BY <2>4, <2>6
<1>3. CASE \E rule \in DOMAIN counts : AddRow(rule)
  BY <1>3, StepRow
<1>4. CASE EndRows
  BY <1>4, StepEndRows
<1>5. CASE SortRows
  BY <1>5, StepSort
<1> QED
  BY <1>1, <1>2, <1>3, <1>4, <1>5 DEF ReportNext, MarshalProblem, EmitCommand

LEMMA StepReport == ReportInv /\ [ReportNext]_reportVars => ReportInv'
<1>1. ASSUME ReportInv, ReportNext PROVE ReportInv'
  <2>1. /\ format' = format /\ IsFiniteSet(Passed') /\ (stage' # "format" => i' > Len(responses'))
        /\ (stage' \in {"rows", "sort"} => format' = "summary")
    BY <1>1, StepPassed
  <2>2. ReportTypeOK'
    BY <1>1, StepType
  <2>3. format = "yaml" => MarshalledSoFar'
    BY <1>1, StepMarshalled
  <2>4. format = "summary" => CountsAddUp' /\ RowsAddUp'
    BY <1>1, StepSummary
  <2>5. format \in {"yaml", "github", "summary"}
    BY <1>1 DEF ReportInv
  <2> QED
    BY <2>1, <2>2, <2>3, <2>4, <2>5 DEF ReportInv
<1>2. ASSUME ReportInv, UNCHANGED reportVars PROVE ReportInv'
  <2>1. /\ responses' = responses /\ format' = format /\ i' = i /\ j' = j
        /\ output' = output /\ counts' = counts /\ stage' = stage
    BY <1>2 DEF reportVars
  <2>2. /\ Passed' = Passed /\ Here' = Here
        /\ \A x : Of(x)' = Of(x) /\ PathAt(x)' = PathAt(x) /\ Before(x)' = Before(x)
    BY <2>1 DEF Passed, Before, All, Of, PathAt, Here
  <2>3. \A r : MineOf(r)' = MineOf(r) /\ \A p : MineIn(r, p)' = MineIn(r, p)
    BY <2>2 DEF MineOf, MineIn
  <2>4. ReportTypeOK'
    BY <1>2, <2>1, <2>2 DEF ReportInv, ReportTypeOK
  <2>5. MarshalledSoFar => MarshalledSoFar'
    BY <2>1, <2>2 DEF MarshalledSoFar
  <2>6. CountsAddUp => CountsAddUp'
    BY <2>1, <2>2, <2>3 DEF CountsAddUp
  <2>7. RowsAddUp => RowsAddUp'
    <3>1. \A n : RowAddsUp(output[n]) => RowAddsUp(output[n])'
      BY <2>1, <2>3 DEF RowAddsUp
    <3> QED
      BY <2>1, <3>1 DEF RowsAddUp
  <2> QED
    BY <1>2, <2>1, <2>2, <2>4, <2>5, <2>6, <2>7 DEF ReportInv
<1> QED
  BY <1>1, <1>2

(* The invariant of all three formats, from which both properties follow.  *)
THEOREM ReportInvariant == ReportSpec => []ReportInv
BY InitReport, StepReport, PTL DEF ReportSpec

LEMMA InvSummary == ReportInv => SummaryAddsUp
<1> SUFFICES ASSUME ReportInv, stage = "done", format = "summary"
             PROVE  SummaryAddsUp
  BY DEF SummaryAddsUp
<1>1. CountsAddUp /\ RowsAddUp /\ Passed = All
  BY PassedAll DEF ReportInv
<1>2. {output[q].rule : q \in 1..Len(output)} = {Of(x).rule : x \in All}
  <2>1. DOMAIN counts = {Of(x).rule : x \in All}
    BY <1>1 DEF CountsAddUp
  <2>2. \A q \in 1..Len(output) : output[q].rule \in DOMAIN counts
    BY <1>1 DEF RowsAddUp, RowAddsUp
  <2>3. \A r \in DOMAIN counts : \E q \in 1..Len(output) : output[q].rule = r
    BY <1>1 DEF RowsAddUp
  <2>4. {output[q].rule : q \in 1..Len(output)} = DOMAIN counts
    BY <2>2, <2>3
  <2> QED
    BY <2>1, <2>4
<1>3. ASSUME NEW q \in 1..Len(output)
      PROVE  LET mine == {x \in All : Of(x).rule = output[q].rule}
             IN  /\ output[q].violations = Cardinality(mine)
                 /\ output[q].files = Cardinality({responses[x[1]].path : x \in mine})
  <2>1. RowAddsUp(output[q])
    BY <1>1 DEF RowsAddUp
  <2>2. MineOf(output[q].rule) = {x \in All : Of(x).rule = output[q].rule}
    BY <1>1 DEF MineOf
  <2>3. DOMAIN counts[output[q].rule] = {PathAt(x) : x \in MineOf(output[q].rule)}
    BY <1>1, <2>1 DEF CountsAddUp, RowAddsUp
  <2> QED
    BY <2>1, <2>2, <2>3 DEF RowAddsUp, PathAt
<1>4. \A q \in 2..Len(output) : output[q - 1].violations <= output[q].violations
  BY <1>1 DEF RowsAddUp
<1> QED
  BY <1>2, <1>3, <1>4 DEF SummaryAddsUp

(* A span of at least one character becomes a position that contains one.  *)
LEMMA LocationIsPosition ==
  ASSUME NEW span \in Spans \cup {NoLoc}
  PROVE  LET s == FileLocation(span).start
             e == FileLocation(span).end
         IN  /\ s.line \in Nat /\ s.column \in Nat /\ s.line >= 1 /\ s.column >= 1
             /\ span # NoLoc => s.line = span[1] + 1 /\ s.column = span[2] + 1
             /\ s.line < e.line \/ (s.line = e.line /\ s.column <= e.column)
<1>1. CASE span = NoLoc
  BY <1>1 DEF FileLocation
<1>2. CASE span # NoLoc
  <2>1. span \in Seq(Nat) /\ (Len(span) = 3 \/ Len(span) = 4) /\ IsSpan(span)
    BY <1>2, ReportAssumption DEF IsSpan
  <2>2. span[1] \in Nat /\ span[2] \in Nat /\ span[3] \in Nat /\ (Len(span) = 4 => span[4] \in Nat)
    BY <2>1
  <2>3. CASE Len(span) = 3
    <3>1. FileLocation(span) = [start |-> [line |-> span[1] + 1, column |-> span[2] + 1],
                                end   |-> [line |-> span[1] + 1, column |-> span[3]]]
      <4>1. Len(span) # 4
        BY <2>3
      <4> QED
        BY <1>2, <2>3, <4>1 DEF FileLocation
    <3>2. span[2] < span[3]
      BY <2>1, <2>3 DEF IsSpan
    <3> QED
      BY <1>2, <2>2, <3>1, <3>2
  <2>4. CASE Len(span) = 4
    <3>1. FileLocation(span) = [start |-> [line |-> span[1] + 1, column |-> span[2] + 1],
                                end   |-> [line |-> span[3] + 1, column |-> span[4]]]
      BY <1>2, <2>4 DEF FileLocation
    <3>2. span[1] < span[3] \/ (span[1] = span[3] /\ span[2] < span[4])
      BY <2>1, <2>4 DEF IsSpan
    <3> QED
      BY <1>2, <2>2, <2>4, <3>1, <3>2
  <2> QED
    BY <2>1, <2>3, <2>4
<1> QED
  BY <1>1, <1>2

LEMMA InvLocations == ReportInv => LocationsArePositions
<1> SUFFICES ASSUME ReportInv, stage = "done", format = "yaml", NEW q \in 1..Len(output)
             PROVE  LET s == output[q].at.start  e == output[q].at.end
                        place == Place(Nth(q))
                    IN  /\ s.line >= 1 /\ s.column >= 1
                        /\ place # NoLoc => s.line = place[1] + 1 /\ s.column = place[2] + 1
                        /\ s.line < e.line \/ (s.line = e.line /\ s.column <= e.column)
  BY DEF LocationsArePositions
<1>1. ReportTypeOK /\ MarshalledSoFar /\ Passed = All /\ IsFiniteSet(All)
  BY PassedAll DEF ReportInv
<1>2. PICK x \in All : /\ Cardinality(Before(x)) = q - 1
                       /\ output[q].at = FileLocation(Place(Of(x)))
  BY <1>1 DEF MarshalledSoFar
<1>3. Nth(q) = Of(x)
  <2>1. \A y \in All : Cardinality(Before(y)) = q - 1 => y = x
    BY <1>1, <1>2, OnlyPlace
  <2>2. (CHOOSE y \in All : Cardinality(Before(y)) = q - 1) = x
    BY <1>2, <2>1
  <2> QED
    BY <2>2 DEF Nth
<1>4. Place(Of(x)) \in Spans \cup {NoLoc}
  BY <1>1, PlaceInAll DEF Problem, Place
<1> QED
  BY <1>2, <1>3, <1>4, LocationIsPosition

(* The table of printSummaryTable has one row for every rule with          *)
(* problems, with as many violations and files as there are, for any       *)
(* responses: the sum over a map that Go ranges over in any order, sorted  *)
(* by a stable sort.                                                       *)
THEOREM SummaryCounts == ReportSpec => []SummaryAddsUp
BY ReportInvariant, InvSummary, PTL

(* Every location that Problem.marshal writes starts at line and column 1  *)
(* or later, ends where or after it starts, and begins where the problem's *)
(* Location or else its descriptor begins, for any spans of at least one   *)
(* character.                                                              *)
THEOREM LocationsAreSound == ReportSpec => []LocationsArePositions
BY ReportInvariant, InvLocations, PTL

-----------------------------------------------------------------------------

(***************************************************************************)
(* FileHeader.  The header of a file is the comment of its first commented *)
(* statement, for every source information: the loop holds the first of    *)
(* the statements it has passed.                                           *)
(***************************************************************************)

HeaderInv ==
  /\ info \in Seq(Location)
  /\ HeaderTypeOK
  /\ BestSoFar
  /\ HeaderIsFirst

USE FileHeaderAssumption

(* Positions are compared as lines, then columns.                          *)
LEMMA AboveIsLess ==
  ASSUME NEW m \in Location, NEW n \in Location
  PROVE  /\ asPos(m) \in Nat
         /\ Above(m, n) <=> asPos(m) < asPos(n)
<1> DEFINE a == m.line  b == n.line  c == m.column  d == n.column
<1>1. a \in Nat /\ b \in Nat /\ c \in 0..Width - 1 /\ d \in 0..Width - 1
  BY DEF Location
<1>2. Width \in Nat \ {0}
  OBVIOUS
<1> HIDE FileHeaderAssumption DEF a, b, c, d
<1>3. a * Width \in Nat /\ b * Width \in Nat
  BY <1>1, <1>2
<1>4. a < b => a * Width + Width <= b * Width
  <2> SUFFICES ASSUME a < b PROVE a * Width + Width <= b * Width
    OBVIOUS
  <2> DEFINE e == b - a - 1
  <2>1. e \in Nat /\ b = a + 1 + e
    BY <1>1
  <2> HIDE DEF e
  <2>2. b * Width = a * Width + Width + e * Width /\ e * Width \in Nat
    BY <2>1, <1>1, <1>2
  <2> QED
    BY <2>2, <1>1, <1>2, <1>3
<1>5. b < a => b * Width + Width <= a * Width
  <2> SUFFICES ASSUME b < a PROVE b * Width + Width <= a * Width
    OBVIOUS
  <2> DEFINE e == a - b - 1
  <2>1. e \in Nat /\ a = b + 1 + e
    BY <1>1
  <2> HIDE DEF e
  <2>2. a * Width = b * Width + Width + e * Width /\ e * Width \in Nat
    BY <2>1, <1>1, <1>2
  <2> QED
    BY <2>2, <1>1, <1>2, <1>3
<1>6. asPos(m) = a * Width + c /\ asPos(n) = b * Width + d
  BY DEF asPos, a, b, c, d
<1>7. Above(m, n) <=> (a < b \/ (a = b /\ c < d))
  BY DEF Above, a, b, c, d
<1> QED
  BY <1>1, <1>2, <1>3, <1>4, <1>5, <1>6, <1>7

LEMMA InitHeader == HeaderInit => HeaderInv
<1> SUFFICES ASSUME HeaderInit PROVE HeaderInv
  OBVIOUS
<1>1. info \in Seq(Location)
  BY FileHeaderAssumption DEF HeaderInit, Start
<1>2. Len(info) \in Nat
  BY <1>1, LenProperties
<1>3. HeaderTypeOK
  <2>1. k \in 1..Len(info) + 1 /\ firstLoc \in 0..Len(info) /\ firstSpan \in Nat
    BY <1>2 DEF HeaderInit, Start
  <2>2. header \subseteq Comments /\ found \in BOOLEAN
    BY Zenon DEF HeaderInit, Start
  <2> QED
    BY <2>1, <2>2 DEF HeaderTypeOK
<1>4. BestSoFar /\ HeaderIsFirst
  BY <1>2 DEF HeaderInit, Start, BestSoFar, HeaderIsFirst, Looking, Statements
<1> QED
  BY <1>1, <1>3, <1>4 DEF HeaderInv

(* The first commented statement is found when the loop is over.           *)
LEMMA BestIsFirst ==
  ASSUME HeaderInv, ~ Looking, firstLoc # 0
  PROVE  IsFirst(firstLoc)
<1>1. firstLoc \in Statements
  BY DEF HeaderInv, BestSoFar
<1>2. ASSUME NEW n \in Statements
      PROVE  ~ Above(info[n], info[firstLoc])
  <2>1. n \in 1..Len(info) /\ n < k
    BY DEF Statements, Looking, HeaderInv, HeaderTypeOK
  <2>2. asPos(info[firstLoc]) <= asPos(info[n])
    BY <1>2, <2>1 DEF HeaderInv, BestSoFar
  <2>3. info[n] \in Location /\ info[firstLoc] \in Location
    BY <1>1, <2>1 DEF HeaderInv, Statements
  <2> QED
    BY <2>2, <2>3, AboveIsLess
<1> QED
  BY <1>1, <1>2 DEF IsFirst

LEMMA StepHeader == HeaderInv /\ [HeaderNext]_headerVars => HeaderInv'
<1> SUFFICES ASSUME HeaderInv, [HeaderNext]_headerVars
             PROVE  HeaderInv'
  OBVIOUS
<1> USE DEF HeaderInv
<1>1. Looking => Curr \in Location /\ asPos(Curr) \in Nat
  BY AboveIsLess DEF Looking, Curr, HeaderTypeOK
<1>2. CASE SkipLocation
  <2>1. HeaderTypeOK' /\ info' = info /\ ~ found'
    BY <1>2 DEF SkipLocation, HeaderTypeOK, Looking, BestSoFar
  <2>2. BestSoFar'
    BY <1>2 DEF SkipLocation, HeaderTypeOK, BestSoFar, Looking, Statements, Curr
  <2> QED
    BY <2>1, <2>2 DEF HeaderIsFirst
<1>3. CASE TakeLocation
  <2>1. HeaderTypeOK' /\ info' = info /\ ~ found'
    BY <1>1, <1>3 DEF TakeLocation, HeaderTypeOK, Looking, BestSoFar
  <2>2. firstLoc' = k /\ k \in Statements /\ firstSpan' = asPos(info[k]) /\ k' = k + 1
    BY <1>3 DEF TakeLocation, HeaderTypeOK, Looking, Statements, Curr
  <2>3. ASSUME NEW n \in Statements, n < k + 1
        PROVE  asPos(info[k]) <= asPos(info[n])
    <3>1. CASE n = k
      BY <3>1, <1>1, <1>3 DEF TakeLocation, Curr
    <3>2. CASE n # k
      <4>1. n < k /\ n \in 1..Len(info)
        BY <2>3, <3>2 DEF Statements, HeaderTypeOK
      <4>2. firstLoc # 0 /\ firstSpan <= asPos(info[n])
        BY <4>1, <2>3 DEF BestSoFar, HeaderTypeOK, Statements
      <4>3. asPos(info[n]) \in Nat
        BY <4>1, AboveIsLess
      <4> QED
        BY <1>1, <1>3, <4>2, <4>3 DEF TakeLocation, Curr, HeaderTypeOK
    <3> QED
      BY <3>1, <3>2
  <2>4. BestSoFar'
    BY <2>1, <2>2, <2>3 DEF BestSoFar, HeaderTypeOK, Statements
  <2> QED
    BY <2>1, <2>4 DEF HeaderIsFirst
<1>4. CASE PassLocation
  <2>1. HeaderTypeOK' /\ info' = info /\ ~ found'
    BY <1>4 DEF PassLocation, HeaderTypeOK, Looking, BestSoFar
  <2>2. BestSoFar'
    BY <1>1, <1>4 DEF PassLocation, HeaderTypeOK, BestSoFar, Looking, Statements, Curr
  <2> QED
    BY <2>1, <2>2 DEF HeaderIsFirst
<1>5. CASE ReturnHeader
  <2>1. UNCHANGED <<info, k, firstLoc, firstSpan>> /\ found' /\ ~ Looking
    BY <1>5 DEF ReturnHeader
  <2>2. BestSoFar'
    BY <2>1 DEF BestSoFar, Statements, Looking
  <2>3. CASE firstLoc = 0
    <3>1. Statements = {}
      BY <2>1, <2>3 DEF BestSoFar, Statements, Looking, HeaderTypeOK
    <3>2. header' = {} /\ Statements' = {}
      BY <2>1, <2>3, <3>1, <1>5 DEF ReturnHeader, Statements
    <3> QED
      BY <2>1, <2>2, <3>2 DEF HeaderIsFirst, HeaderTypeOK
  <2>4. CASE firstLoc # 0
    <3>1. IsFirst(firstLoc) /\ firstLoc \in Statements
      BY <2>1, <2>4, BestIsFirst DEF BestSoFar
    <3>2. header' = CommentsAt(info[firstLoc])
      BY <2>4, <1>5 DEF ReturnHeader
    <3>3. info[firstLoc] \in Location /\ HasComments(info[firstLoc])
      BY <3>1 DEF Statements, IsCandidate
    <3>4. header' \subseteq Comments
      BY <3>2, <3>3 DEF CommentsAt, HasComments, Location
    <3>5. HeaderIsFirst'
      BY <2>1, <3>1, <3>2 DEF HeaderIsFirst, IsFirst, Statements
    <3> QED
      BY <2>1, <2>2, <3>4, <3>5 DEF HeaderTypeOK
  <2> QED
    BY <2>3, <2>4
<1>6. CASE UNCHANGED headerVars
  BY <1>6 DEF headerVars, HeaderTypeOK, BestSoFar, HeaderIsFirst, Looking, Statements, IsFirst
<1> QED
  BY <1>2, <1>3, <1>4, <1>5, <1>6 DEF HeaderNext

(* The header of a file is the comment of its first commented statement,   *)
(* in whatever order the source information lists the locations.           *)
THEOREM HeaderIsTheFirst == HeaderSpec => []HeaderIsFirst
<1>1. HeaderInv => HeaderIsFirst
  BY DEF HeaderInv
<1> QED
  BY <1>1, InitHeader, StepHeader, PTL DEF HeaderSpec

(* The loop never passes a commented statement that is above the one it    *)
(* holds.                                                                  *)
THEOREM LoopHoldsTheFirst == HeaderSpec => [](HeaderTypeOK /\ BestSoFar)
<1>1. HeaderInv => HeaderTypeOK /\ BestSoFar
  BY DEF HeaderInv
<1> QED
  BY <1>1, InitHeader, StepHeader, PTL DEF HeaderSpec

(* A rule of whatever form that has looked at a file goes through its      *)
(* locations as fileHeader does, once, and touches nothing of it before.   *)
THEOREM TraversalImplementsHeader == TraversalSpec => HeaderSpec
<1>1. TraversalInit => HeaderInit
  BY TraversalsAssumption DEF TraversalInit, HeaderInit, FileDescriptor
<1>2. [TraversalNext]_traversalVars => [HeaderNext]_headerVars
  BY DEF TraversalNext, Lint, FindHeader, traversalVars
<1> QED
  BY <1>1, <1>2, PTL DEF TraversalSpec, HeaderSpec

(* Whatever the form of the rule, the comments that the linter takes for   *)
(* the header are those of the file's first commented statement.           *)
THEOREM RulesFindTheHeader == TraversalSpec => []HeaderIsFirst
BY TraversalImplementsHeader, HeaderIsTheFirst, PTL

-----------------------------------------------------------------------------
(* Traversals: a rule visits every descriptor of its kind.  The proofs are *)
(* inductions over the length of a list (UpTo) and over the order of the   *)
(* source, from its end.                                                   *)

LEMMA LeastNumber ==
  ASSUME NEW S \in SUBSET Nat, S # {}
  PROVE  \E x \in S : \A y \in S : x <= y
<1>1. PICK x \in S : \A y \in S : <<y, x>> \notin OpToRel(<, Nat)
  BY NatLessThanWellFounded, WFMin
<1>2. \A y \in Nat : y < x <=> <<y, x>> \in OpToRel(<, Nat)
  BY DEF OpToRel
<1>3. \A y \in S : ~ (y < x)
  BY <1>1, <1>2
<1>4. \A y \in S : x <= y
  BY <1>3
<1> QED
  BY <1>4

(* A set of numbers that holds the first and with each the next holds all. *)
LEMMA UpTo ==
  ASSUME NEW N \in Nat, NEW G, 0 \in G,
         \A v \in 0..N : v \in G /\ v < N => v + 1 \in G
  PROVE  \A v \in 0..N : v \in G
<1> SUFFICES ASSUME NEW v0 \in 0..N, v0 \notin G PROVE FALSE
  OBVIOUS
<1> DEFINE Bad == {v \in 0..N : v \notin G}
<1>1. Bad \in SUBSET Nat /\ Bad # {}
  OBVIOUS
<1> HIDE DEF Bad
<1>2. PICK x \in Bad : \A y \in Bad : x <= y
  BY <1>1, LeastNumber, Zenon
<1>3. x \in 1..N /\ x \notin G /\ x - 1 \notin Bad
  BY <1>1, <1>2 DEF Bad
<1>4. x - 1 \in G /\ x - 1 \in 0..N /\ x - 1 < N /\ (x - 1) + 1 = x
  BY <1>3 DEF Bad
<1> QED
  BY <1>3, <1>4

(* s lists the elements of S, each once.                                   *)
Lists(s, S) == s \in Seq(S) /\ IsInjective(s) /\ ToSet(s) = S

LEMMA ListsNothing == Lists(<<>>, {})
BY DEF Lists, IsInjective, ToSet

LEMMA ListsOne == ASSUME NEW x PROVE Lists(<<x>>, {x})
BY DEF Lists, IsInjective, ToSet

LEMMA ListsAppend ==
  ASSUME NEW S, NEW s, Lists(s, S), NEW x, x \notin S
  PROVE  Lists(Append(s, x), S \cup {x})
<1> DEFINE T == S \cup {x}
           t == Append(s, x)
<1>1. s \in Seq(T) /\ x \in T /\ t \in Seq(T)
  BY DEF Lists
<1>2. Len(t) = Len(s) + 1 /\ Len(s) \in Nat /\ t[Len(s) + 1] = x
      /\ \A h \in 1..Len(s) : t[h] = s[h]
  BY <1>1
<1>3. DOMAIN s = 1..Len(s) /\ DOMAIN t = 1..(Len(s) + 1)
  BY <1>1, <1>2
<1>4. \A h \in 1..Len(s) : s[h] \in S
  BY DEF Lists
<1>5. IsInjective(t)
  BY <1>2, <1>3, <1>4 DEF Lists, IsInjective
<1>6. ToSet(t) = T
  BY <1>2, <1>3, <1>4 DEF Lists, ToSet
<1> QED
  BY <1>1, <1>5, <1>6 DEF Lists

LEMMA ListsJoin ==
  ASSUME NEW S, NEW s, Lists(s, S), NEW T, NEW t, Lists(t, T), S \cap T = {}
  PROVE  Lists(s \o t, S \cup T)
<1> DEFINE U == S \cup T
           u == s \o t
<1>1. s \in Seq(U) /\ t \in Seq(U) /\ u \in Seq(U)
  BY DEF Lists
<1>2. /\ Len(u) = Len(s) + Len(t) /\ Len(s) \in Nat /\ Len(t) \in Nat
      /\ \A h \in 1..Len(s) : u[h] = s[h]
      /\ \A h \in (Len(s) + 1)..(Len(s) + Len(t)) : u[h] = t[h - Len(s)]
  BY <1>1
<1>3. DOMAIN s = 1..Len(s) /\ DOMAIN t = 1..Len(t) /\ DOMAIN u = 1..(Len(s) + Len(t))
  BY <1>1, <1>2
<1>4. (\A h \in 1..Len(s) : s[h] \in S) /\ (\A h \in 1..Len(t) : t[h] \in T)
  BY DEF Lists
<1>5. IsInjective(u)
  <2> SUFFICES ASSUME NEW a \in DOMAIN u, NEW b \in DOMAIN u, u[a] = u[b] PROVE a = b
    BY DEF IsInjective
  <2>1. CASE a <= Len(s) /\ b <= Len(s)
    BY <1>2, <1>3, <2>1 DEF Lists, IsInjective
  <2>2. CASE a > Len(s) /\ b > Len(s)
    <3>1. a - Len(s) \in 1..Len(t) /\ b - Len(s) \in 1..Len(t)
      BY <1>2, <1>3, <2>2
    <3>2. t[a - Len(s)] = t[b - Len(s)]
      BY <1>2, <1>3, <2>2
    <3>3. a - Len(s) = b - Len(s)
      BY <1>3, <3>1, <3>2 DEF Lists, IsInjective
    <3> QED
      BY <1>2, <1>3, <3>3
  <2>3. CASE a <= Len(s) /\ b > Len(s)
    BY <1>2, <1>3, <1>4, <2>3
  <2>4. CASE a > Len(s) /\ b <= Len(s)
    BY <1>2, <1>3, <1>4, <2>4
  <2> QED
    BY <1>2, <1>3, <2>1, <2>2, <2>3, <2>4
<1>6. ToSet(u) = U
  <2>1. ToSet(u) \subseteq U
    BY <1>1, <1>3 DEF ToSet
  <2>2. ASSUME NEW x \in S PROVE x \in ToSet(u)
    BY <1>2, <1>3, <2>2 DEF Lists, ToSet
  <2>3. ASSUME NEW x \in T PROVE x \in ToSet(u)
    <3>1. PICK h \in 1..Len(t) : t[h] = x
      BY <1>3, <2>3 DEF Lists, ToSet
    <3>2. h + Len(s) \in DOMAIN u /\ u[h + Len(s)] = x
      BY <1>2, <1>3, <3>1
    <3> QED
      BY <3>2 DEF ToSet
  <2> QED
    BY <2>1, <2>2, <2>3
<1> QED
  BY <1>1, <1>5, <1>6 DEF Lists

(* What Keep's loop has kept is defined, for every prefix.                 *)
Keeping(s, T, f) ==
  f = [n \in 0..Len(s) |->
         IF n = 0 THEN <<>> ELSE IF s[n] \in T THEN Append(f[n - 1], s[n]) ELSE f[n - 1]]

LEMMA KeepingExists ==
  ASSUME NEW S, NEW s \in Seq(S), NEW T
  PROVE  \E f : Keeping(s, T, f)
<1> DEFINE N == Len(s)
           Upto(v, f) ==
             \A n \in 0..v :
               f[n] = IF n = 0 THEN <<>> ELSE IF s[n] \in T THEN Append(f[n - 1], s[n]) ELSE f[n - 1]
           G == {v \in 0..N : \E f : f = [n \in 0..N |-> f[n]] /\ Upto(v, f)}
<1>1. N \in Nat
  OBVIOUS
<1>2. 0 \in G
  <2> DEFINE g == [n \in 0..N |-> <<>>]
  <2>1. g = [n \in 0..N |-> g[n]] /\ Upto(0, g)
    BY <1>1
  <2> HIDE DEF g
  <2> QED
    BY <1>1, <2>1
<1>3. ASSUME NEW v \in 0..N, v \in G, v < N
      PROVE  v + 1 \in G
  <2>1. PICK f : f = [n \in 0..N |-> f[n]] /\ Upto(v, f)
    BY <1>3
  <2> DEFINE new == IF s[v + 1] \in T THEN Append(f[v], s[v + 1]) ELSE f[v]
             g == [n \in 0..N |-> IF n = v + 1 THEN new ELSE f[n]]
  <2>2. v + 1 \in 0..N /\ v + 1 # 0 /\ v \in 0..N /\ (v + 1) - 1 = v
    BY <1>1, <1>3
  <2>3. g[v + 1] = new /\ g[v] = f[v]
    BY <2>2
  <2>4. ASSUME NEW n \in 0..v
        PROVE  g[n] = f[n] /\ (n # 0 => g[n - 1] = f[n - 1])
    BY <1>1, <1>3
  <2>5. g = [n \in 0..N |-> g[n]]
    OBVIOUS
  <2> HIDE DEF g
  <2>6. Upto(v + 1, g)
    <3> SUFFICES ASSUME NEW n \in 0..(v + 1)
                 PROVE  g[n] = IF n = 0 THEN <<>>
                               ELSE IF s[n] \in T THEN Append(g[n - 1], s[n]) ELSE g[n - 1]
      OBVIOUS
    <3>1. CASE n = v + 1
      BY <2>2, <2>3, <3>1
    <3>2. CASE n # v + 1
      <4>1. n \in 0..v
        BY <1>3, <3>2
      <4> QED
        BY <2>1, <2>4, <4>1
    <3> QED
      BY <3>1, <3>2
  <2> QED
    BY <2>2, <2>5, <2>6
<1> HIDE DEF G
<1>4. N \in G
  <2>1. \A v \in 0..N : v \in G /\ v < N => v + 1 \in G
    BY <1>3
  <2>2. \A v \in 0..N : v \in G
    BY <1>1, <1>2, <2>1, UpTo, Zenon
  <2> QED
    BY <1>1, <2>2
<1>5. PICK f : f = [n \in 0..N |-> f[n]] /\ Upto(N, f)
  BY <1>4 DEF G
<1>6. Keeping(s, T, f)
  BY <1>5 DEF Keeping
<1> QED
  BY <1>6

(* Keep lists what is kept, in particular nothing twice.                   *)
LEMMA KeepLists ==
  ASSUME NEW S, NEW s, Lists(s, S), NEW T
  PROVE  Lists(Keep(s, T), S \cap T)
<1> DEFINE N == Len(s)
           kept == CHOOSE f : Keeping(s, T, f)
           First(n) == {s[h] : h \in 1..n}
           G == {n \in 0..N : Lists(kept[n], First(n) \cap T)}
<1>1. s \in Seq(S) /\ N \in Nat /\ DOMAIN s = 1..N
  BY DEF Lists
<1>2. Keeping(s, T, kept)
  BY <1>1, KeepingExists
<1>3. Keep(s, T) = kept[N]
  BY DEF Keep, Keeping
<1> HIDE DEF kept
<1>4. \A n \in 0..N : kept[n] = IF n = 0 THEN <<>> ELSE IF s[n] \in T THEN Append(kept[n - 1], s[n]) ELSE kept[n - 1]
  BY <1>2 DEF Keeping
<1>5. 0 \in G
  <2>1. First(0) \cap T = {} /\ kept[0] = <<>> /\ 0 \in 0..N
    BY <1>1, <1>4
  <2> HIDE DEF First
  <2>2. Lists(kept[0], First(0) \cap T)
    BY <2>1, ListsNothing, Zenon
  <2> QED
    BY <2>1, <2>2
<1>6. ASSUME NEW n \in 0..N, n \in G, n < N
      PROVE  n + 1 \in G
  <2>1. n + 1 \in 1..N /\ (n + 1) - 1 = n /\ n + 1 # 0 /\ n + 1 \in 0..N
    BY <1>1, <1>6
  <2>2. First(n + 1) = First(n) \cup {s[n + 1]}
    BY <1>1, <2>1
  <2>3. s[n + 1] \notin First(n)
    BY <1>1, <2>1 DEF Lists, IsInjective
  <2>4. kept[n + 1] = IF s[n + 1] \in T THEN Append(kept[n], s[n + 1]) ELSE kept[n]
    BY <1>4, <2>1
  <2>5. Lists(kept[n], First(n) \cap T)
    BY <1>6
  <2> HIDE DEF First
  <2>6. CASE s[n + 1] \in T
    <3>1. Lists(Append(kept[n], s[n + 1]), (First(n) \cap T) \cup {s[n + 1]})
      BY <2>3, <2>5, ListsAppend
    <3>2. (First(n) \cap T) \cup {s[n + 1]} = First(n + 1) \cap T
      BY <2>2, <2>6
    <3> QED
      BY <2>1, <2>4, <2>6, <3>1, <3>2
  <2>7. CASE s[n + 1] \notin T
    <3>1. First(n) \cap T = First(n + 1) \cap T
      BY <2>2, <2>7
    <3> QED
      BY <2>1, <2>4, <2>5, <2>7, <3>1
  <2> QED
    BY <2>6, <2>7
<1>7. First(N) = S
  BY <1>1 DEF Lists, ToSet
<1> HIDE DEF G, First
<1>8. N \in G
  <2>1. \A v \in 0..N : v \in G /\ v < N => v + 1 \in G
    BY <1>6
  <2>2. \A v \in 0..N : v \in G
    BY <1>1, <1>5, <2>1, UpTo, Zenon
  <2> QED
    BY <1>1, <2>2
<1> QED
  BY <1>3, <1>7, <1>8 DEF G

(* What FlattenSeq's loop has joined is defined, for every prefix.         *)
Joining(ss, f) ==
  f = [n \in 1..Len(ss) |-> IF n = 1 THEN ss[n] ELSE f[n - 1] \o ss[n]]

LEMMA JoiningExists ==
  ASSUME NEW ss, Len(ss) \in Nat
  PROVE  \E f : Joining(ss, f)
<1> DEFINE N == Len(ss)
           Upto(v, f) == \A n \in 1..v : f[n] = IF n = 1 THEN ss[n] ELSE f[n - 1] \o ss[n]
           G == {v \in 0..N : \E f : f = [n \in 1..N |-> f[n]] /\ Upto(v, f)}
<1>1. N \in Nat
  OBVIOUS
<1>2. 0 \in G
  <2> DEFINE g == [n \in 1..N |-> <<>>]
  <2>1. g = [n \in 1..N |-> g[n]] /\ Upto(0, g)
    BY <1>1
  <2> HIDE DEF g
  <2> QED
    BY <1>1, <2>1
<1>3. ASSUME NEW v \in 0..N, v \in G, v < N
      PROVE  v + 1 \in G
  <2>1. PICK f : f = [n \in 1..N |-> f[n]] /\ Upto(v, f)
    BY <1>3
  <2> DEFINE new == IF v + 1 = 1 THEN ss[v + 1] ELSE f[v] \o ss[v + 1]
             g == [n \in 1..N |-> IF n = v + 1 THEN new ELSE f[n]]
  <2>2. v + 1 \in 1..N /\ v + 1 \in 0..N /\ (v + 1) - 1 = v /\ (v + 1 # 1 => v \in 1..N)
    BY <1>1, <1>3
  <2>3. g[v + 1] = new /\ (v + 1 # 1 => g[v] = f[v])
    BY <2>2
  <2>4. ASSUME NEW n \in 1..v
        PROVE  g[n] = f[n] /\ (n # 1 => g[n - 1] = f[n - 1])
    BY <1>1, <1>3
  <2>5. g = [n \in 1..N |-> g[n]]
    OBVIOUS
  <2> HIDE DEF g
  <2>6. Upto(v + 1, g)
    <3> SUFFICES ASSUME NEW n \in 1..(v + 1)
                 PROVE  g[n] = IF n = 1 THEN ss[n] ELSE g[n - 1] \o ss[n]
      OBVIOUS
    <3>1. CASE n = v + 1
      BY <2>2, <2>3, <3>1
    <3>2. CASE n # v + 1
      <4>1. n \in 1..v
        BY <1>3, <3>2
      <4> QED
        BY <2>1, <2>4, <4>1
    <3> QED
      BY <3>1, <3>2
  <2> QED
    BY <2>2, <2>5, <2>6
<1> HIDE DEF G
<1>4. N \in G
  <2>1. \A v \in 0..N : v \in G /\ v < N => v + 1 \in G
    BY <1>3
  <2>2. \A v \in 0..N : v \in G
    BY <1>1, <1>2, <2>1, UpTo, Zenon
  <2> QED
    BY <1>1, <2>2
<1>5. PICK f : f = [n \in 1..N |-> f[n]] /\ Upto(N, f)
  BY <1>4 DEF G
<1>6. Joining(ss, f)
  BY <1>5 DEF Joining
<1> QED
  BY <1>6

(* Lists without common elements make one list.                            *)
LEMMA FlattenLists ==
  ASSUME NEW S, NEW s, Lists(s, S), NEW ss, ss = [n \in DOMAIN s |-> ss[n]], NEW F,
         \A n \in DOMAIN s : Lists(ss[n], F[s[n]]),
         \A x, y \in S : x # y => F[x] \cap F[y] = {}
  PROVE  Lists(FlattenSeq(ss), UNION {F[x] : x \in S})
<1> DEFINE N == Len(s)
           First(n) == UNION {F[s[h]] : h \in 1..n}
<1>1. s \in Seq(S) /\ N \in Nat /\ DOMAIN s = 1..N /\ Len(ss) = N
  BY DEF Lists
<1>2. First(N) = UNION {F[x] : x \in S}
  BY <1>1 DEF Lists, ToSet
<1>3. CASE N = 0
  <2>1. FlattenSeq(ss) = <<>> /\ S = {}
    BY <1>1, <1>3 DEF FlattenSeq, Lists, ToSet
  <2> QED
    BY <2>1, ListsNothing
<1>4. CASE N # 0
  <2> DEFINE flatten == CHOOSE f : Joining(ss, f)
             G == {n \in 0..N : n = 0 \/ Lists(flatten[n], First(n))}
  <2>1. Joining(ss, flatten)
    BY <1>1, JoiningExists
  <2>2. FlattenSeq(ss) = flatten[N]
    BY <1>1, <1>4 DEF FlattenSeq, Joining
  <2> HIDE DEF flatten
  <2>3. \A n \in 1..N : flatten[n] = IF n = 1 THEN ss[n] ELSE flatten[n - 1] \o ss[n]
    BY <1>1, <2>1 DEF Joining
  <2>4. 0 \in G
    BY <1>1
  <2>5. ASSUME NEW n \in 0..N, n \in G, n < N
        PROVE  n + 1 \in G
    <3>1. n + 1 \in 1..N /\ n + 1 \in 0..N /\ (n + 1) - 1 = n
      BY <1>1, <2>5
    <3>2. Lists(ss[n + 1], F[s[n + 1]])
      BY <1>1, <3>1
    <3> DEFINE here == flatten[n + 1]
               before == flatten[(n + 1) - 1]
    <3>5. here = IF n + 1 = 1 THEN ss[n + 1] ELSE before \o ss[n + 1]
      BY <2>3, <3>1, Zenon
    <3>6. before = flatten[n]
      BY <3>1
    <3>3. CASE n = 0
      <4>1. First(1) = F[s[1]]
        OBVIOUS
      <4>2. n + 1 = 1
        BY <3>3
      <4>3. here = ss[n + 1] /\ First(n + 1) = F[s[n + 1]]
        BY <3>5, <4>1, <4>2
      <4> QED
        BY <3>1, <3>2, <4>3
    <3>4. CASE n # 0
      <4>1. flatten[n + 1] = flatten[n] \o ss[n + 1]
        <5>1. n + 1 # 1
          BY <1>1, <3>4
        <5> QED
          BY <3>5, <3>6, <5>1, Zenon
      <4>2. First(n + 1) = First(n) \cup F[s[n + 1]]
        BY <1>1, <3>1
      <4>3. First(n) \cap F[s[n + 1]] = {}
        <5>1. ASSUME NEW h \in 1..n PROVE F[s[h]] \cap F[s[n + 1]] = {}
          <6>1. h \in 1..N /\ h # n + 1
            BY <1>1, <3>1, <5>1
          <6>2. s[h] # s[n + 1] /\ s[h] \in S /\ s[n + 1] \in S
            BY <1>1, <3>1, <6>1 DEF Lists, IsInjective
          <6> QED
            BY <6>2
        <5> QED
          BY <5>1
      <4>4. Lists(flatten[n], First(n))
        BY <2>5, <3>4
      <4> HIDE DEF First
      <4>5. Lists(flatten[n] \o ss[n + 1], First(n) \cup F[s[n + 1]])
        BY <3>2, <4>3, <4>4, ListsJoin
      <4> QED
        BY <3>1, <4>1, <4>2, <4>5
    <3> QED
      BY <3>3, <3>4
  <2> HIDE DEF G, First
  <2>6. N \in G
    <3>1. \A n \in 0..N : n \in G /\ n < N => n + 1 \in G
      BY <2>5
    <3>2. \A n \in 0..N : n \in G
      BY <1>1, <2>4, <3>1, UpTo, Zenon
    <3> QED
      BY <1>1, <3>2
  <2> QED
    BY <1>2, <1>4, <2>2, <2>6 DEF G
<1> QED
  BY <1>3, <1>4

-----------------------------------------------------------------------------
(* The messages of a file form trees: the path of one goes up through the  *)
(* messages that it is nested in, and its tree are those whose paths come  *)
(* through it.  A path is the least set that goes on upwards.              *)

FileMessages == {m \in Elements : Kind[m] = "message"}
OrderOf(d) == CHOOSE n \in DOMAIN Order : Order[n] = d
IsTop(m) == fd.parent[m] = File

GoesUp(S) == \A m \in S : ~ IsTop(m) => fd.parent[m] \in S
Path(x) == {y \in FileMessages : \A S \in SUBSET FileMessages : x \in S /\ GoesUp(S) => y \in S}
Tree(m) == {x \in FileMessages : m \in Path(x)}
NestedIn(m) == {n \in FileMessages : fd.parent[n] = m}

LEMMA OrderLists == Lists(Order, Elements)
BY TraversalsAssumption DEF Lists

LEMMA OrderOfIs ==
  ASSUME NEW d \in Elements
  PROVE  OrderOf(d) \in 1..Len(Order) /\ Order[OrderOf(d)] = d
<1>1. \E n \in DOMAIN Order : Order[n] = d
  BY TraversalsAssumption DEF ToSet
<1>2. Order \in Seq(Elements)
  BY TraversalsAssumption
<1> QED
  BY <1>1, <1>2 DEF OrderOf

LEMMA ParentIsBefore ==
  ASSUME fd \in FilesToLint, NEW m \in FileMessages, ~ IsTop(m)
  PROVE  fd.parent[m] \in FileMessages /\ OrderOf(fd.parent[m]) < OrderOf(m)
<1>1. fd \in FileDescriptor /\ WellNested(fd)
  BY TraversalsAssumption
<1>2. m \in Elements /\ Kind[m] = "message"
  BY DEF FileMessages
<1>3. fd.parent[m] \in Elements
  BY <1>1, <1>2 DEF FileDescriptor, IsTop
<1>4. fd.parent[m] \in FileMessages
  <2>1. KindOf(fd.parent[m]) \in {"file", "message"}
    BY <1>1, <1>2 DEF WellNested, Holders
  <2>2. KindOf(fd.parent[m]) = Kind[fd.parent[m]]
    BY <1>3, TraversalsAssumption DEF KindOf
  <2>3. Kind[fd.parent[m]] \in Kinds /\ "file" \notin Kinds
    BY <1>3, TraversalsAssumption DEF Kinds
  <2> QED
    BY <1>3, <2>1, <2>2, <2>3 DEF FileMessages
<1>5. OrderOf(fd.parent[m]) < OrderOf(m)
  <2>1. OrderOf(m) \in DOMAIN Order /\ Order[OrderOf(m)] = m
    BY <1>2, OrderOfIs, TraversalsAssumption
  <2>2. OrderOf(fd.parent[m]) \in DOMAIN Order /\ Order[OrderOf(fd.parent[m])] = fd.parent[m]
    BY <1>3, OrderOfIs, TraversalsAssumption
  <2> QED
    BY <1>1, <1>2, <2>1, <2>2 DEF WellNested
<1> QED
  BY <1>4, <1>5

LEMMA PathGoesUp ==
  ASSUME fd \in FilesToLint, NEW x \in FileMessages
  PROVE  x \in Path(x) /\ GoesUp(Path(x)) /\ Path(x) \subseteq FileMessages
<1>1. x \in Path(x) /\ Path(x) \subseteq FileMessages
  BY DEF Path
<1>2. ASSUME NEW y \in Path(x), ~ IsTop(y)
      PROVE  fd.parent[y] \in Path(x)
  <2>1. fd.parent[y] \in FileMessages
    BY <1>1, <1>2, ParentIsBefore
  <2>2. ASSUME NEW S \in SUBSET FileMessages, x \in S, GoesUp(S)
        PROVE  fd.parent[y] \in S
    BY <1>2, <2>2 DEF Path, GoesUp
  <2> QED
    BY <2>1, <2>2 DEF Path
<1> QED
  BY <1>1, <1>2 DEF GoesUp

(* A path passes nothing that is not above.                                *)
LEMMA PathIsLeast ==
  ASSUME NEW x \in FileMessages, NEW S \in SUBSET FileMessages, x \in S, GoesUp(S)
  PROVE  Path(x) \subseteq S
BY DEF Path

LEMMA PathRises ==
  ASSUME fd \in FilesToLint, NEW x \in FileMessages, NEW y \in Path(x), y # x
  PROVE  OrderOf(y) < OrderOf(x)
<1> DEFINE S == {x} \cup {z \in FileMessages : OrderOf(z) < OrderOf(x)}
<1>1. ASSUME NEW z \in S, ~ IsTop(z) PROVE fd.parent[z] \in S
  <2>1. fd.parent[z] \in FileMessages /\ OrderOf(fd.parent[z]) < OrderOf(z)
    BY <1>1, ParentIsBefore
  <2>2. fd.parent[z] \in Elements /\ z \in Elements /\ x \in Elements
    BY <2>1 DEF FileMessages
  <2>3. OrderOf(fd.parent[z]) \in Int /\ OrderOf(z) \in Int /\ OrderOf(x) \in Int
    BY <2>2, OrderOfIs
  <2> QED
    BY <2>1, <2>3
<1>2. S \in SUBSET FileMessages /\ GoesUp(S)
  BY <1>1 DEF GoesUp
<1>3. Path(x) \subseteq S
  BY <1>2, PathIsLeast
<1> QED
  BY <1>3

(* The path of a nested message goes on as that of its parent.             *)
LEMMA PathStep ==
  ASSUME fd \in FilesToLint, NEW x \in FileMessages, ~ IsTop(x)
  PROVE  Path(x) = {x} \cup Path(fd.parent[x])
<1> DEFINE p == fd.parent[x]
<1>1. p \in FileMessages
  BY ParentIsBefore
<1>2. GoesUp(Path(p)) /\ p \in Path(p) /\ Path(p) \subseteq FileMessages
  BY <1>1, PathGoesUp
<1>3. GoesUp(Path(x)) /\ x \in Path(x) /\ Path(x) \subseteq FileMessages
  BY PathGoesUp
<1>4. Path(p) \subseteq Path(x)
  BY <1>1, <1>3, PathIsLeast DEF GoesUp
<1>5. GoesUp({x} \cup Path(p))
  BY <1>2 DEF GoesUp
<1>6. Path(x) \subseteq {x} \cup Path(p)
  BY <1>2, <1>5, PathIsLeast
<1> QED
  BY <1>3, <1>4, <1>6

(* Of two messages on a path, one is above the other.                      *)
LEMMA PathIsLine ==
  ASSUME fd \in FilesToLint, NEW x \in FileMessages, NEW a \in Path(x), NEW b \in Path(x)
  PROVE  a \in Path(b) \/ b \in Path(a)
<1> DEFINE S == {z \in Path(x) : \A w \in Path(x) : w \in Path(z) \/ z \in Path(w)}
<1>1. GoesUp(Path(x)) /\ x \in Path(x) /\ Path(x) \subseteq FileMessages
  BY PathGoesUp
<1>2. x \in S
  BY <1>1
<1>3. ASSUME NEW z \in S, ~ IsTop(z)
      PROVE  fd.parent[z] \in S
  <2> DEFINE p == fd.parent[z]
  <2>1. p \in Path(x) /\ z \in FileMessages
    BY <1>1, <1>3 DEF GoesUp
  <2>2. ASSUME NEW w \in Path(x)
        PROVE  w \in Path(p) \/ p \in Path(w)
    <3>1. w \in FileMessages /\ GoesUp(Path(w))
      BY <1>1, PathGoesUp
    <3>2. CASE z \in Path(w)
      BY <1>3, <3>1, <3>2 DEF GoesUp
    <3>3. CASE z \notin Path(w)
      <4>1. w \in Path(z)
        BY <2>2, <3>3
      <4>2. w \in {z} \cup Path(p)
        BY <1>3, <2>1, <4>1, PathStep
      <4>3. w # z
        BY <3>3, <2>1, PathGoesUp
      <4> QED
        BY <4>2, <4>3
    <3> QED
      BY <3>2, <3>3
  <2> QED
    BY <2>1, <2>2
<1>4. S \in SUBSET FileMessages /\ GoesUp(S)
  BY <1>1, <1>3 DEF GoesUp
<1>5. Path(x) \subseteq S
  BY <1>2, <1>4, PathIsLeast
<1> QED
  BY <1>5

(* A path that is not at its end comes to the message through one nested   *)
(* in it.                                                                  *)
LEMMA PathComesFrom ==
  ASSUME fd \in FilesToLint, NEW x \in FileMessages, NEW m \in Path(x), m # x
  PROVE  \E n \in NestedIn(m) : n \in Path(x)
<1> SUFFICES ASSUME \A n \in NestedIn(m) : n \notin Path(x) PROVE FALSE
  OBVIOUS
<1>1. GoesUp(Path(x)) /\ x \in Path(x) /\ Path(x) \subseteq FileMessages
  BY PathGoesUp
<1>2. GoesUp(Path(x) \ {m})
  BY <1>1 DEF GoesUp, NestedIn
<1>3. Path(x) \subseteq Path(x) \ {m}
  BY <1>1, <1>2, PathIsLeast
<1> QED
  BY <1>3

(* The tree of a message: itself, and the trees of those nested in it.     *)
LEMMA TreeIs ==
  ASSUME fd \in FilesToLint, NEW m \in FileMessages
  PROVE  /\ Tree(m) = {m} \cup UNION {Tree(n) : n \in NestedIn(m)}
         /\ \A n \in NestedIn(m) : m \notin Tree(n)
<1>1. m \in Tree(m)
  BY PathGoesUp DEF Tree
<1>2. ASSUME NEW x \in Tree(m), x # m
      PROVE  \E n \in NestedIn(m) : x \in Tree(n)
  BY <1>2, PathComesFrom DEF Tree
<1>3. ASSUME NEW n \in NestedIn(m), NEW x \in Tree(n)
      PROVE  x \in Tree(m) /\ x # m
  <2>1. n \in FileMessages /\ x \in FileMessages /\ n \in Path(x)
    BY DEF NestedIn, Tree
  <2>2. m \in Elements /\ File \notin Elements
    BY TraversalsAssumption DEF FileMessages
  <2>3. ~ IsTop(n) /\ fd.parent[n] = m
    BY <2>2 DEF IsTop, NestedIn
  <2>4. m \in Path(x)
    BY <2>1, <2>3, PathGoesUp DEF GoesUp
  <2>5. OrderOf(m) < OrderOf(n) /\ (n # x => OrderOf(n) < OrderOf(x))
    BY <2>1, <2>3, ParentIsBefore, PathRises
  <2>6. OrderOf(m) \in Int /\ OrderOf(n) \in Int /\ OrderOf(x) \in Int
    BY <2>1, <2>2, OrderOfIs DEF FileMessages
  <2> QED
    BY <2>1, <2>4, <2>5, <2>6 DEF Tree
<1> QED
  BY <1>1, <1>2, <1>3

(* Messages side by side have no common tree.                              *)
LEMMA TreesApart ==
  ASSUME fd \in FilesToLint, NEW a \in FileMessages, NEW b \in FileMessages,
         fd.parent[a] = fd.parent[b], a # b
  PROVE  Tree(a) \cap Tree(b) = {}
<1> SUFFICES ASSUME NEW x \in Tree(a), x \in Tree(b) PROVE FALSE
  OBVIOUS
<1>1. x \in FileMessages /\ (a \in Path(b) \/ b \in Path(a))
  BY PathIsLine DEF Tree
<1>2. ASSUME NEW c \in {a, b}, NEW d \in {a, b}, c # d, c \in Path(d) PROVE FALSE
  <2>1. c \in FileMessages /\ d \in FileMessages /\ fd.parent[c] = fd.parent[d]
    OBVIOUS
  <2>2. CASE IsTop(d)
    <3>1. GoesUp({d})
      BY <2>2 DEF GoesUp
    <3>2. Path(d) \subseteq {d}
      BY <2>1, <3>1, PathIsLeast
    <3> QED
      BY <1>2, <3>2
  <2>3. CASE ~ IsTop(d)
    <3> DEFINE p == fd.parent[d]
    <3>1. ~ IsTop(c) /\ p \in FileMessages /\ OrderOf(p) < OrderOf(c)
      BY <2>1, <2>3, ParentIsBefore DEF IsTop
    <3>2. c \in Path(p)
      BY <1>2, <2>1, <2>3, PathStep
    <3>3. c = p \/ OrderOf(c) < OrderOf(p)
      BY <3>1, <3>2, PathRises
    <3>4. OrderOf(c) \in Int /\ OrderOf(p) \in Int
      BY <2>1, <3>1, OrderOfIs DEF FileMessages
    <3> QED
      BY <3>1, <3>3, <3>4
  <2> QED
    BY <2>2, <2>3
<1> QED
  BY <1>1, <1>2

(* Every message is in the tree of one of the file's own.                  *)
LEMMA TreesCover ==
  ASSUME fd \in FilesToLint
  PROVE  FileMessages = UNION {Tree(t) : t \in NestedIn(File)}
<1>1. ASSUME NEW x \in FileMessages
      PROVE  \E t \in NestedIn(File) : x \in Tree(t)
  <2> SUFFICES ASSUME \A t \in NestedIn(File) : t \notin Path(x) PROVE FALSE
    BY DEF Tree
  <2>1. x \in Path(x) /\ GoesUp(Path(x)) /\ Path(x) \subseteq FileMessages
    BY PathGoesUp
  <2> DEFINE Places == {OrderOf(y) : y \in Path(x)}
  <2>2. Places \in SUBSET Nat /\ Places # {}
    <3>1. \A y \in Path(x) : OrderOf(y) \in 1..Len(Order)
      BY <2>1, OrderOfIs DEF FileMessages
    <3>2. Len(Order) \in Nat
      BY TraversalsAssumption
    <3> QED
      BY <2>1, <3>1, <3>2
  <2>3. PICK least \in Places : \A q \in Places : least <= q
    BY <2>2, LeastNumber, Zenon
  <2>4. PICK y \in Path(x) : least = OrderOf(y)
    BY <2>3
  <2>5. ~ IsTop(y)
    BY <2>1 DEF NestedIn, IsTop
  <2>6. fd.parent[y] \in Path(x) /\ OrderOf(fd.parent[y]) < OrderOf(y)
    BY <2>1, <2>5, ParentIsBefore DEF GoesUp
  <2>7. OrderOf(fd.parent[y]) \in Places
    BY <2>6
  <2>8. OrderOf(y) <= OrderOf(fd.parent[y])
    BY <2>3, <2>4, <2>7
  <2>9. OrderOf(fd.parent[y]) \in Int /\ OrderOf(y) \in Int
    BY <2>2, <2>3, <2>4, <2>7
  <2> HIDE DEF Places
  <2> QED
    BY <2>6, <2>8, <2>9
<1> QED
  BY <1>1 DEF Tree

-----------------------------------------------------------------------------
(* What a traversal lists.                                                 *)

HeldBy(kind, S) == {e \in Elements : Kind[e] = kind /\ fd.parent[e] \in S}

LEMMA DeclaredLists ==
  ASSUME NEW d, NEW kind
  PROVE  Lists(DeclaredIn(d, kind), HeldBy(kind, {d}))
<1> DEFINE T == {e \in Elements : Kind[e] = kind /\ fd.parent[e] = d}
<1>1. Lists(Keep(Order, T), Elements \cap T)
  BY OrderLists, KeepLists
<1>2. Elements \cap T = HeldBy(kind, {d})
  BY DEF HeldBy
<1> QED
  BY <1>1, <1>2 DEF DeclaredIn

Own(m) == IF MapEntry(m) THEN <<>> ELSE <<m>>

(* The result for one message, given those for the messages nested in it.  *)
NestedOf(m, f) ==
  FlattenSeq([n \in DOMAIN DeclaredIn(m, "message") |->
                Own(DeclaredIn(m, "message")[n]) \o f[DeclaredIn(m, "message")[n]]])

LEMMA ChildIsLater ==
  ASSUME fd \in FilesToLint, NEW m \in Elements, NEW n \in DOMAIN DeclaredIn(m, "message")
  PROVE  LET c == DeclaredIn(m, "message")[n]
         IN  c \in Elements /\ Kind[c] = "message" /\ fd.parent[c] = m /\ OrderOf(m) < OrderOf(c)
<1> DEFINE c == DeclaredIn(m, "message")[n]
<1>1. c \in HeldBy("message", {m})
  BY DeclaredLists DEF Lists, ToSet
<1>2. c \in Elements /\ Kind[c] = "message" /\ fd.parent[c] = m
  BY <1>1 DEF HeldBy
<1>3. WellNested(fd) /\ Order \in Seq(Elements)
  BY TraversalsAssumption
<1>4. /\ OrderOf(c) \in DOMAIN Order /\ Order[OrderOf(c)] = c
      /\ OrderOf(m) \in DOMAIN Order /\ Order[OrderOf(m)] = m
  BY <1>2, <1>3, OrderOfIs
<1>5. OrderOf(m) < OrderOf(c)
  BY <1>2, <1>3, <1>4 DEF WellNested
<1> QED
  BY <1>2, <1>5

(* The recursion is well-founded: there is such a function.                *)
LEMMA NestedExists ==
  ASSUME fd \in FilesToLint
  PROVE  \E f : f = [m \in Elements |-> NestedOf(m, f)]
<1> DEFINE N == Len(Order)
           From(v, f) == \A m \in Elements : OrderOf(m) > N - v => f[m] = NestedOf(m, f)
           G == {v \in 0..N : \E f : f = [m \in Elements |-> f[m]] /\ From(v, f)}
<1>1. N \in Nat /\ \A m \in Elements : OrderOf(m) \in 1..N
  BY OrderOfIs, TraversalsAssumption
<1>2. 0 \in G
  <2> DEFINE g == [m \in Elements |-> <<>>]
  <2>1. g = [m \in Elements |-> g[m]] /\ From(0, g)
    BY <1>1
  <2> HIDE DEF g, From
  <2> QED
    BY <1>1, <2>1
<1>3. ASSUME NEW v \in 0..N, v \in G, v < N
      PROVE  v + 1 \in G
  <2>1. PICK f : f = [m \in Elements |-> f[m]] /\ From(v, f)
    BY <1>3
  <2> DEFINE g == [m \in Elements |-> IF OrderOf(m) = N - v THEN NestedOf(m, f) ELSE f[m]]
  <2>2. g = [m \in Elements |-> g[m]]
    OBVIOUS
  <2>3. ASSUME NEW m \in Elements, OrderOf(m) > N - (v + 1)
        PROVE  g[m] = NestedOf(m, g)
    <3> DEFINE D == DeclaredIn(m, "message")
    <3>1. ASSUME NEW n \in DOMAIN D
          PROVE  g[D[n]] = f[D[n]]
      <4>1. D[n] \in Elements /\ OrderOf(m) < OrderOf(D[n])
        BY ChildIsLater
      <4>2. OrderOf(D[n]) # N - v
        BY <1>1, <2>3, <4>1
      <4> QED
        BY <4>1, <4>2
    <3> HIDE DEF g
    <3>2. [n \in DOMAIN D |-> Own(D[n]) \o g[D[n]]] = [n \in DOMAIN D |-> Own(D[n]) \o f[D[n]]]
      BY <3>1
    <3>3. NestedOf(m, g) = NestedOf(m, f)
      BY <3>2 DEF NestedOf
    <3>4. CASE OrderOf(m) = N - v
      BY <3>3, <3>4 DEF g
    <3>5. CASE OrderOf(m) # N - v
      <4>1. OrderOf(m) > N - v
        BY <1>1, <2>3, <3>5
      <4>2. g[m] = f[m]
        BY <3>5 DEF g
      <4> QED
        BY <2>1, <3>3, <4>1, <4>2
    <3> QED
      BY <3>4, <3>5
  <2> HIDE DEF g
  <2>4. From(v + 1, g)
    BY <2>3
  <2>5. v + 1 \in 0..N
    BY <1>1, <1>3
  <2> HIDE DEF From
  <2> QED
    BY <2>2, <2>4, <2>5
<1>4. N \in G
  <2> HIDE DEF G
  <2>1. \A v \in 0..N : v \in G /\ v < N => v + 1 \in G
    BY <1>3
  <2>2. \A v \in 0..N : v \in G
    BY <1>1, <1>2, <2>1, UpTo, Zenon
  <2> QED
    BY <1>1, <2>2
<1>5. PICK f : f = [m \in Elements |-> f[m]] /\ From(N, f)
  BY <1>4
<1>6. \A m \in Elements : f[m] = NestedOf(m, f)
  BY <1>1, <1>5
<1>7. f = [m \in Elements |-> NestedOf(m, f)]
  BY <1>5, <1>6
<1> QED
  BY <1>7

LEMMA NestedIs ==
  ASSUME fd \in FilesToLint
  PROVE  AllNestedMessages = [m \in Elements |-> NestedOf(m, AllNestedMessages)]
<1> DEFINE IsNested(f) == f = [m \in Elements |-> NestedOf(m, f)]
<1>1. AllNestedMessages = CHOOSE f : IsNested(f)
  BY DEF AllNestedMessages, ForEach, NestedOf, Own
<1>2. \E f : IsNested(f)
  BY NestedExists
<1> HIDE DEF IsNested
<1>3. IsNested(AllNestedMessages)
  BY <1>1, <1>2
<1> QED
  BY <1>3 DEF IsNested

Written(S) == S \ fd.entries

(* The messages nested in one, to any depth, but for the entries.          *)
LEMMA NestedLists ==
  ASSUME fd \in FilesToLint
  PROVE  \A m \in FileMessages : Lists(AllNestedMessages[m], Written(Tree(m) \ {m}))
<1> DEFINE N == Len(Order)
           nested == AllNestedMessages
           From(v) == \A m \in FileMessages :
                        OrderOf(m) > N - v => Lists(nested[m], Written(Tree(m) \ {m}))
           G == {v \in 0..N : From(v)}
<1>1. N \in Nat /\ \A m \in FileMessages : m \in Elements /\ OrderOf(m) \in 1..N
  BY OrderOfIs, TraversalsAssumption DEF FileMessages
<1>2. \A m \in Elements : nested[m] = NestedOf(m, nested)
  BY NestedIs
<1> HIDE DEF nested
<1>3. 0 \in G
  BY <1>1
<1>4. ASSUME NEW v \in 0..N, v \in G, v < N
      PROVE  v + 1 \in G
  <2>1. ASSUME NEW m \in FileMessages, OrderOf(m) > N - (v + 1)
        PROVE  Lists(nested[m], Written(Tree(m) \ {m}))
    <3> DEFINE D == DeclaredIn(m, "message")
               F == [c \in NestedIn(m) |-> Written(Tree(c))]
               ss == [n \in DOMAIN D |-> Own(D[n]) \o nested[D[n]]]
    <3>1. Lists(D, NestedIn(m))
      <4>1. HeldBy("message", {m}) = NestedIn(m)
        BY DEF HeldBy, NestedIn, FileMessages
      <4> QED
        BY <4>1, DeclaredLists
    <3>2. ASSUME NEW n \in DOMAIN D
          PROVE  Lists(ss[n], F[D[n]])
      <4> DEFINE c == D[n]
      <4>1. c \in NestedIn(m) /\ OrderOf(m) < OrderOf(c) /\ c \in FileMessages
        BY <1>1, ChildIsLater DEF NestedIn, FileMessages
      <4>2. Lists(nested[c], Written(Tree(c) \ {c}))
        <5>1. OrderOf(c) > N - v
          BY <1>1, <2>1, <4>1
        <5> QED
          BY <1>4, <4>1, <5>1
      <4>3. Lists(Own(c), Written({c}))
        <5>1. CASE c \in fd.entries
          <6>1. Own(c) = <<>> /\ Written({c}) = {}
            BY <5>1 DEF Own, MapEntry, Written
          <6> QED
            BY <6>1, ListsNothing
        <5>2. CASE c \notin fd.entries
          <6>1. Own(c) = <<c>> /\ Written({c}) = {c}
            BY <5>2 DEF Own, MapEntry, Written
          <6> QED
            BY <6>1, ListsOne
        <5> QED
          BY <5>1, <5>2
      <4>4. Written({c}) \cap Written(Tree(c) \ {c}) = {}
        BY DEF Written
      <4>5. Written({c}) \cup Written(Tree(c) \ {c}) = Written(Tree(c))
        BY <4>1, TreeIs DEF Written
      <4>6. Lists(Own(c) \o nested[c], Written({c}) \cup Written(Tree(c) \ {c}))
        BY <4>2, <4>3, <4>4, ListsJoin, Zenon
      <4>7. Lists(Own(c) \o nested[c], Written(Tree(c)))
        BY <4>5, <4>6, Zenon
      <4> QED
        BY <4>1, <4>7
    <3>3. ASSUME NEW a \in NestedIn(m), NEW b \in NestedIn(m), a # b
          PROVE  F[a] \cap F[b] = {}
      BY <3>3, TreesApart DEF NestedIn, Written
    <3>4. ss = [n \in DOMAIN D |-> ss[n]]
      OBVIOUS
    <3>5. UNION {F[c] : c \in NestedIn(m)} = Written(Tree(m) \ {m})
      BY TreeIs DEF Written
    <3>6. nested[m] = FlattenSeq(ss)
      BY <1>1, <1>2 DEF NestedOf
    <3> HIDE DEF D, F, ss
    <3>7. Lists(FlattenSeq(ss), UNION {F[c] : c \in NestedIn(m)})
      BY <3>1, <3>2, <3>3, <3>4, FlattenLists
    <3> QED
      BY <3>5, <3>6, <3>7
  <2>2. v + 1 \in 0..N
    BY <1>1, <1>4
  <2> QED
    BY <2>1, <2>2
<1>5. N \in G
  <2> HIDE DEF G
  <2>1. \A v \in 0..N : v \in G /\ v < N => v + 1 \in G
    BY <1>4
  <2>2. \A v \in 0..N : v \in G
    BY <1>1, <1>3, <2>1, UpTo, Zenon
  <2> QED
    BY <1>1, <2>2
<1> QED
  BY <1>1, <1>5 DEF nested

(* GetAllMessages lists what the author wrote.                             *)
LEMMA MessagesLists ==
  ASSUME fd \in FilesToLint
  PROVE  Lists(GetAllMessages, Written(FileMessages))
<1> DEFINE top == DeclaredIn(File, "message")
           F == [t \in NestedIn(File) |-> Written(Tree(t) \ {t})]
           ss == [n \in DOMAIN top |-> AllNestedMessages[top[n]]]
           Deeper == UNION {F[t] : t \in NestedIn(File)}
<1>1. Lists(top, NestedIn(File))
  <2>1. HeldBy("message", {File}) = NestedIn(File)
    BY DEF HeldBy, NestedIn, FileMessages
  <2> QED
    BY <2>1, DeclaredLists
<1>2. ASSUME NEW n \in DOMAIN top
      PROVE  Lists(ss[n], F[top[n]])
  <2>1. top[n] \in NestedIn(File) /\ top[n] \in FileMessages
    BY <1>1 DEF Lists, ToSet, NestedIn
  <2> QED
    BY <2>1, NestedLists
<1>3. ASSUME NEW a \in NestedIn(File), NEW b \in NestedIn(File), a # b
      PROVE  Tree(a) \cap Tree(b) = {} /\ F[a] \cap F[b] = {}
  BY <1>3, TreesApart DEF NestedIn, Written
<1>4. ss = [n \in DOMAIN top |-> ss[n]]
  OBVIOUS
<1>5. GetAllMessages = top \o FlattenSeq(ss)
  BY DEF GetAllMessages, ForEach
<1>6. \A t \in NestedIn(File) : t \in Tree(t) /\ t \in FileMessages
  BY PathGoesUp DEF Tree, NestedIn
<1>7. NestedIn(File) \cap Deeper = {}
  BY <1>3, <1>6 DEF Written
<1>8. NestedIn(File) \cap fd.entries = {}
  BY TraversalsAssumption DEF WellNested, NestedIn
<1>9. NestedIn(File) \cup Deeper = Written(FileMessages)
  BY <1>6, <1>8, TreesCover DEF Written
<1> HIDE DEF top, F, ss
<1>10. Lists(FlattenSeq(ss), Deeper)
  BY <1>1, <1>2, <1>3, <1>4, FlattenLists
<1> HIDE DEF Deeper
<1>11. Lists(top \o FlattenSeq(ss), NestedIn(File) \cup Deeper)
  BY <1>1, <1>7, <1>10, ListsJoin, Zenon
<1> QED
  BY <1>5, <1>9, <1>11

(* What is declared in each of a list's elements, without or with them.    *)
LEMMA HeldLists ==
  ASSUME NEW S, NEW s, Lists(s, S), NEW kind
  PROVE  Lists(FlattenSeq([n \in DOMAIN s |-> DeclaredIn(s[n], kind)]), HeldBy(kind, S))
<1> DEFINE F == [x \in S |-> HeldBy(kind, {x})]
           ss == [n \in DOMAIN s |-> DeclaredIn(s[n], kind)]
<1>1. ASSUME NEW n \in DOMAIN s PROVE Lists(ss[n], F[s[n]])
  BY DeclaredLists DEF Lists, ToSet
<1>2. \A x, y \in S : x # y => F[x] \cap F[y] = {}
  BY DEF HeldBy
<1>3. UNION {F[x] : x \in S} = HeldBy(kind, S)
  BY DEF HeldBy
<1>4. ss = [n \in DOMAIN s |-> ss[n]]
  OBVIOUS
<1> HIDE DEF F, ss
<1>5. Lists(FlattenSeq(ss), UNION {F[x] : x \in S})
  BY <1>1, <1>2, <1>4, FlattenLists
<1>6. Lists(FlattenSeq(ss), HeldBy(kind, S))
  BY <1>3, <1>5
<1> QED
  BY <1>6 DEF ss

LEMMA HeldListsWith ==
  ASSUME NEW S \in SUBSET Elements, NEW s, Lists(s, S), NEW kind, \A x \in S : Kind[x] # kind
  PROVE  Lists(FlattenSeq([n \in DOMAIN s |-> <<s[n]>> \o DeclaredIn(s[n], kind)]),
               S \cup HeldBy(kind, S))
<1> DEFINE F == [x \in S |-> {x} \cup HeldBy(kind, {x})]
           ss == [n \in DOMAIN s |-> <<s[n]>> \o DeclaredIn(s[n], kind)]
<1>1. ASSUME NEW n \in DOMAIN s PROVE Lists(ss[n], F[s[n]])
  <2>1. s[n] \in S
    BY DEF Lists, ToSet
  <2>2. {s[n]} \cap HeldBy(kind, {s[n]}) = {}
    BY <2>1 DEF HeldBy
  <2>3. Lists(<<s[n]>>, {s[n]}) /\ Lists(DeclaredIn(s[n], kind), HeldBy(kind, {s[n]}))
    BY ListsOne, DeclaredLists
  <2>4. Lists(<<s[n]>> \o DeclaredIn(s[n], kind), {s[n]} \cup HeldBy(kind, {s[n]}))
    BY <2>2, <2>3, ListsJoin, Zenon
  <2> QED
    BY <2>1, <2>4
<1>2. \A x, y \in S : x # y => F[x] \cap F[y] = {}
  BY DEF HeldBy
<1>3. UNION {F[x] : x \in S} = S \cup HeldBy(kind, S)
  BY DEF HeldBy
<1>4. ss = [n \in DOMAIN s |-> ss[n]]
  OBVIOUS
<1> HIDE DEF F, ss
<1>5. Lists(FlattenSeq(ss), UNION {F[x] : x \in S})
  BY <1>1, <1>2, <1>4, FlattenLists
<1>6. Lists(FlattenSeq(ss), S \cup HeldBy(kind, S))
  BY <1>3, <1>5
<1> QED
  BY <1>6 DEF ss

(* The descriptors of a kind, but for those generated for a map field.     *)
OfKind(kind) == {d \in Elements : Kind[d] = kind /\ ~ Generated(d)}

LEMMA ParentIsOfKind ==
  ASSUME fd \in FilesToLint, NEW d \in Elements
  PROVE  /\ fd.parent[d] \in Elements \/ fd.parent[d] = File
         /\ KindOf(fd.parent[d]) \in Holders[Kind[d]]
         /\ fd.parent[d] # File => KindOf(fd.parent[d]) = Kind[fd.parent[d]] /\ Kind[fd.parent[d]] \in Kinds
         /\ KindOf(File) = "file" /\ d # File
         /\ fd.parent[d] \in fd.entries => Kind[d] = "field"
         /\ d \in fd.entries => Kind[d] = "message"
<1>1. fd \in FileDescriptor /\ WellNested(fd)
  BY TraversalsAssumption
<1>2. fd.parent[d] \in Elements \cup {File}
  BY <1>1 DEF FileDescriptor
<1> QED
  BY <1>1, <1>2, TraversalsAssumption DEF WellNested, KindOf

LEMMA OfEachKind ==
  ASSUME fd \in FilesToLint
  PROVE  /\ OfKind("message") = Written(FileMessages)
         /\ OfKind("field") = HeldBy("field", OfKind("message"))
         /\ OfKind("service") = HeldBy("service", {File})
         /\ OfKind("method") = HeldBy("method", OfKind("service"))
         /\ OfKind("enum") = HeldBy("enum", {File}) \cup HeldBy("enum", OfKind("message"))
         /\ OfKind("value") = HeldBy("value", OfKind("enum"))
<1> USE DEF OfKind, HeldBy, Generated, MapEntry, Holders, Kinds
<1>1. OfKind("message") = Written(FileMessages)
  BY ParentIsOfKind DEF Written, FileMessages
<1>2. OfKind("field") = HeldBy("field", OfKind("message"))
  BY ParentIsOfKind
<1>3. OfKind("service") = HeldBy("service", {File})
  BY ParentIsOfKind
<1>4. OfKind("method") = HeldBy("method", OfKind("service"))
  BY ParentIsOfKind
<1>5. OfKind("enum") = HeldBy("enum", {File}) \cup HeldBy("enum", OfKind("message"))
  BY ParentIsOfKind
<1>6. OfKind("value") = HeldBy("value", OfKind("enum"))
  BY ParentIsOfKind
<1> QED
  BY <1>1, <1>2, <1>3, <1>4, <1>5, <1>6

(* What the rules of a form are there to look at.                          *)
ToVisit(f) ==
  IF f = "file" THEN {File}
  ELSE {d \in Elements : Kind[d] \in KindsOf(f) /\ ~ Generated(d)}

LEMMA ServicesLists == ASSUME fd \in FilesToLint PROVE Lists(GetServices, OfKind("service"))
BY DeclaredLists, OfEachKind DEF GetServices

LEMMA EnumsLists == ASSUME fd \in FilesToLint PROVE Lists(GetAllEnums, OfKind("enum"))
<1>1. Lists(EnumsIn(File), HeldBy("enum", {File}))
  BY DeclaredLists DEF EnumsIn
<1>2. Lists(ForEach(GetAllMessages, EnumsIn), HeldBy("enum", OfKind("message")))
  BY MessagesLists, OfEachKind, HeldLists DEF ForEach, EnumsIn
<1>3. HeldBy("enum", {File}) \cap HeldBy("enum", OfKind("message")) = {}
  BY TraversalsAssumption DEF HeldBy, OfKind
<1>4. Lists(GetAllEnums, HeldBy("enum", {File}) \cup HeldBy("enum", OfKind("message")))
  BY <1>1, <1>2, <1>3, ListsJoin, Zenon DEF GetAllEnums
<1> QED
  BY <1>4, OfEachKind

LEMMA DescriptorsLists ==
  ASSUME fd \in FilesToLint
  PROVE  Lists(AllDescriptors, ToVisit("descriptor"))
<1> DEFINE services == ForEach(GetServices, LAMBDA s : <<s>> \o MethodsIn(s))
           messages == ForEach(GetAllMessages, LAMBDA m : <<m>> \o FieldsIn(m))
           enums == ForEach(GetAllEnums, LAMBDA e : <<e>> \o ValuesIn(e))
           S == OfKind("service") \cup OfKind("method")
           M == OfKind("message") \cup OfKind("field")
           E == OfKind("enum") \cup OfKind("value")
<1>1. Lists(services, S)
  <2>1. OfKind("service") \in SUBSET Elements /\ \A x \in OfKind("service") : Kind[x] # "method"
    BY DEF OfKind
  <2> QED
    BY <2>1, ServicesLists, OfEachKind, HeldListsWith DEF ForEach, MethodsIn
<1>2. Lists(messages, M)
  <2>1. OfKind("message") \in SUBSET Elements /\ \A x \in OfKind("message") : Kind[x] # "field"
    BY DEF OfKind
  <2> QED
    BY <2>1, MessagesLists, OfEachKind, HeldListsWith DEF ForEach, FieldsIn
<1>3. Lists(enums, E)
  <2>1. OfKind("enum") \in SUBSET Elements /\ \A x \in OfKind("enum") : Kind[x] # "value"
    BY DEF OfKind
  <2> QED
    BY <2>1, EnumsLists, OfEachKind, HeldListsWith DEF ForEach, ValuesIn
<1>4. S \cap M = {} /\ (S \cup M) \cap E = {}
  BY DEF OfKind
<1>5. (S \cup M) \cup E = ToVisit("descriptor")
  BY TraversalsAssumption DEF OfKind, ToVisit, KindsOf, Kinds
<1>6. AllDescriptors = (services \o messages) \o enums
  BY DEF AllDescriptors
<1> HIDE DEF services, messages, enums, S, M, E
<1>7. Lists(services \o messages, S \cup M)
  BY <1>1, <1>2, <1>4, ListsJoin, Zenon
<1>8. Lists((services \o messages) \o enums, (S \cup M) \cup E)
  BY <1>3, <1>4, <1>7, ListsJoin, Zenon
<1> QED
  BY <1>5, <1>6, <1>8

LEMMA VisitedLists ==
  ASSUME fd \in FilesToLint, form \in Forms
  PROVE  Lists(Visited, ToVisit(form))
<1>1. \A kind \in Kinds \ {"extension"} : ToVisit(kind) = OfKind(kind)
  BY DEF ToVisit, OfKind, KindsOf, Kinds
<1>2. CASE form = "file"
  BY <1>2, ListsOne DEF Visited, ToVisit
<1>3. CASE form = "message"
  BY <1>1, <1>3, MessagesLists, OfEachKind DEF Visited, Kinds
<1>4. CASE form = "field"
  <2>1. Lists(ForEach(GetAllMessages, FieldsIn), OfKind("field"))
    BY MessagesLists, OfEachKind, HeldLists DEF ForEach, FieldsIn
  <2> QED
    BY <1>1, <1>4, <2>1 DEF Visited, Kinds
<1>5. CASE form = "service"
  BY <1>1, <1>5, ServicesLists DEF Visited, Kinds
<1>6. CASE form = "method"
  <2>1. Lists(ForEach(GetServices, MethodsIn), OfKind("method"))
    BY ServicesLists, OfEachKind, HeldLists DEF ForEach, MethodsIn
  <2> QED
    BY <1>1, <1>6, <2>1 DEF Visited, Kinds
<1>7. CASE form = "enum"
  BY <1>1, <1>7, EnumsLists DEF Visited, Kinds
<1>8. CASE form = "value"
  <2>1. Lists(ForEach(GetAllEnums, ValuesIn), OfKind("value"))
    BY EnumsLists, OfEachKind, HeldLists DEF ForEach, ValuesIn
  <2> QED
    BY <1>1, <1>8, <2>1 DEF Visited, Kinds
<1>9. CASE form = "descriptor"
  BY <1>9, DescriptorsLists DEF Visited
<1> QED
  BY <1>2, <1>3, <1>4, <1>5, <1>6, <1>7, <1>8, <1>9 DEF Forms

TraversalInv == fd \in FilesToLint /\ form \in Forms /\ VisitsItsKind

LEMMA InitTraversal == TraversalInit => TraversalInv
BY DEF TraversalInit, TraversalInv, VisitsItsKind

LEMMA StepTraversal == TraversalInv /\ [TraversalNext]_traversalVars => TraversalInv'
<1> SUFFICES ASSUME TraversalInv, [TraversalNext]_traversalVars
             PROVE  TraversalInv'
  OBVIOUS
<1>1. fd \in FilesToLint /\ form \in Forms
  BY DEF TraversalInv
<1>2. CASE Lint
  <2>1. linted' = Keep(Visited, applies) /\ UNCHANGED <<fd, form, applies>>
    BY <1>2 DEF Lint
  <2>2. Lists(linted', ToVisit(form) \cap applies)
    BY <1>1, <2>1, VisitedLists, KeepLists, Zenon
  <2>3. IsInjective(linted') /\ ToSet(linted') = ToVisit(form) \cap applies
    BY <2>2 DEF Lists
  <2>4. VisitsItsKind'
    BY <2>1, <2>3 DEF VisitsItsKind, ToVisit, Generated, MapEntry
  <2> QED
    BY <1>1, <2>1, <2>4 DEF TraversalInv
<1>3. CASE UNCHANGED ruleVars
  BY <1>3 DEF ruleVars, TraversalInv, VisitsItsKind, Generated, MapEntry
<1> QED
  BY <1>2, <1>3 DEF TraversalNext, FindHeader, traversalVars

(* A rule of whatever form looks at each descriptor of its kind that the   *)
(* author wrote and its OnlyIf accepts, at none twice and at no other.     *)
THEOREM RulesVisitTheirKind == TraversalSpec => []VisitsItsKind
<1>1. TraversalInv => VisitsItsKind
  BY DEF TraversalInv
<1> QED
  BY <1>1, InitTraversal, StepTraversal, PTL DEF TraversalSpec

=============================================================================
