---------------------------- MODULE Plugin_proofs ---------------------------
(***************************************************************************)
(* Proofs about Plugin and the start-up of Registry it extends: that a     *)
(* check implements PluginContract, that what serves has every rule once,  *)
(* and that start and check come to an end, for every set of rules, every  *)
(* start and every request.                                                *)
(***************************************************************************)
EXTENDS Plugin, FiniteSetTheorems, SequenceTheorems, WellFoundedInduction, TLAPS

Elements(s) == {s[n] : n \in 1..Len(s)}

LEMMA SequenceFacts ==
  ASSUME NEW S, NEW s \in Seq(S)
  PROVE  DOMAIN s = 1..Len(s) /\ Len(s) \in Nat /\ \A n \in 1..Len(s) : s[n] \in S
OBVIOUS

LEMMA ElementsAppend ==
  ASSUME NEW S, NEW s \in Seq(S), NEW e \in S
  PROVE  Append(s, e) \in Seq(S) /\ Elements(Append(s, e)) = Elements(s) \cup {e}
<1>1. /\ Append(s, e) \in Seq(S)
      /\ Len(Append(s, e)) = Len(s) + 1
      /\ \A n \in 1..Len(s) : Append(s, e)[n] = s[n]
      /\ Append(s, e)[Len(s) + 1] = e
      /\ Len(s) \in Nat
  OBVIOUS
<1>2. 1..(Len(s) + 1) = 1..Len(s) \cup {Len(s) + 1}
  BY <1>1
<1> QED
  BY <1>1, <1>2 DEF Elements

LEMMA ElementsTail ==
  ASSUME NEW S, NEW s \in Seq(S), s # <<>>
  PROVE  /\ Head(s) \in S /\ Tail(s) \in Seq(S)
         /\ Elements(s) = {Head(s)} \cup Elements(Tail(s))
<1>1. /\ Len(s) \in Nat \ {0} /\ Tail(s) \in Seq(S) /\ Len(Tail(s)) = Len(s) - 1
      /\ Head(s) = s[1] /\ s[1] \in S
      /\ \A n \in 1..(Len(s) - 1) : Tail(s)[n] = s[n + 1]
  OBVIOUS
<1>2. ASSUME NEW n \in 1..Len(s), n # 1
      PROVE  n - 1 \in 1..(Len(s) - 1) /\ Tail(s)[n - 1] = s[n]
  <2>1. n - 1 \in 1..(Len(s) - 1) /\ (n - 1) + 1 = n
    BY <1>1, <1>2
  <2> QED
    BY <1>1, <2>1
<1>3. Elements(s) \subseteq {Head(s)} \cup Elements(Tail(s))
  BY <1>1, <1>2 DEF Elements
<1>4. ASSUME NEW n \in 1..(Len(s) - 1) PROVE n + 1 \in 1..Len(s)
  BY <1>1
<1>5. {Head(s)} \cup Elements(Tail(s)) \subseteq Elements(s)
  BY <1>1, <1>4 DEF Elements
<1> QED
  BY <1>1, <1>3, <1>5

-----------------------------------------------------------------------------

Own == C!OwnOf(req)

(* What a rule has to say of a set of files, and all there is to say by a  *)
(* set of rules.                                                           *)
On(r, fs) ==
  UNION {{[rule |-> r, problem |-> p, place |-> C!Where(req, p)] : p \in C!ProblemsOf(req, r, f)} :
           f \in fs}
All(rs) == UNION {On(r, Own) : r \in rs}

Fine(r, f) ==
  <<r, f>> \notin req.panics /\ \A p \in C!ProblemsOf(req, r, f) : p.desc # NoDesc

Called == req.selected \ waiting
Seen(n) == {files[m] : m \in 1..n}
Said(r, s) == {Annotation(r, s[n]) : n \in 1..Len(s)}

(* Before and between the handlers.                                        *)
WhileIdle ==
  /\ pc = "start" =>
       req = NoRequest /\ annotations = {} /\ files = <<>> /\ k = 1
  /\ pc # "start" => req \in Checks
  /\ pc = "before" =>
       /\ annotations = {} /\ k \in 1..(Len(req.files) + 1)
       /\ Elements(files) =
            {req.files[n].file : n \in {m \in 1..(k - 1) : ~ req.files[m].import}}
  /\ pc \in {"handlers", "rule", "adding", "done"} =>
       ~ req.malformed /\ Elements(files) = Own /\ waiting \subseteq req.selected
  /\ pc \in {"handlers", "done"} =>
       annotations = All(Called) /\ \A r \in Called, f \in Own : Fine(r, f)
  /\ pc = "done" => waiting = {}
  /\ pc = "failed" => req.malformed \/ C!Misplaced(req)
  /\ pc = "crashed" => ~ req.malformed /\ C!Panicking(req)

(* In a handler: what the rules before have said, and this one of the      *)
(* files before; what is in the batch is what it has not said yet of the   *)
(* file.                                                                   *)
InHandler ==
  /\ pc \in {"rule", "adding"} =>
       /\ rule \in Called
       /\ \A r \in Called \ {rule}, f \in Own : Fine(r, f)
       /\ \A f \in Seen(k - 1) : Fine(rule, f)
  /\ pc = "rule" =>
       /\ k \in 1..(Len(files) + 1)
       /\ annotations = All(Called \ {rule}) \cup On(rule, Seen(k - 1))
  /\ pc = "adding" =>
       /\ k \in 1..Len(files) /\ batch \in Seq(Problem)
       /\ <<rule, files[k]>> \notin req.panics
       /\ Elements(batch) \subseteq C!ProblemsOf(req, rule, files[k])
       /\ \A p \in C!ProblemsOf(req, rule, files[k]) : p.desc = NoDesc => p \in Elements(batch)
       /\ annotations \cup Said(rule, batch) = All(Called \ {rule}) \cup On(rule, Seen(k))

PluginInv ==
  /\ pc \in {"start", "before", "handlers", "rule", "adding", "done", "failed", "crashed"}
  /\ files \in Seq(L!Files)
  /\ WhileIdle /\ InHandler

-----------------------------------------------------------------------------

LEMMA RequestFacts ==
  ASSUME req \in Checks
  PROVE  /\ req.files \in Seq([file : L!Files, import : BOOLEAN])
         /\ DOMAIN req.files = 1..Len(req.files) /\ Len(req.files) \in Nat
         /\ \A n \in 1..Len(req.files) :
              req.files[n].file \in L!Files /\ req.files[n].import \in BOOLEAN
         /\ Own = {req.files[n].file : n \in {m \in 1..Len(req.files) : ~ req.files[m].import}}
         /\ req.selected \subseteq Rules
         /\ req # NoRequest
<1>1. req \in Check /\ req # NoRequest
  BY PluginAssumption
<1>2. req.files \in Seq([file : L!Files, import : BOOLEAN]) /\ req.selected \subseteq Rules
  BY <1>1 DEF Check
<1>3. /\ DOMAIN req.files = 1..Len(req.files) /\ Len(req.files) \in Nat
      /\ \A n \in 1..Len(req.files) : req.files[n] \in [file : L!Files, import : BOOLEAN]
  BY <1>2, SequenceFacts
<1>4. Own = {req.files[n].file : n \in {m \in 1..Len(req.files) : ~ req.files[m].import}}
  BY <1>3 DEF Own, C!OwnOf
<1> QED
  BY <1>1, <1>2, <1>3, <1>4

LEMMA ProblemFacts ==
  ASSUME req \in Checks, NEW r \in req.selected, NEW f \in L!Files
  PROVE  /\ req.problems[r, f] \in Seq(Problem)
         /\ C!ProblemsOf(req, r, f) = Elements(req.problems[r, f])
         /\ C!ProblemsOf(req, r, f) \subseteq Problem
<1>1. req \in Check /\ r \in Rules
  BY RequestFacts, PluginAssumption
<1>2. req.problems[r, f] \in Seq(Problem)
  BY <1>1 DEF Check
<1>3. /\ DOMAIN req.problems[r, f] = 1..Len(req.problems[r, f])
      /\ \A n \in 1..Len(req.problems[r, f]) : req.problems[r, f][n] \in Problem
  BY <1>2, SequenceFacts
<1> QED
  BY <1>2, <1>3 DEF C!ProblemsOf, Elements

LEMMA PlaceFacts ==
  ASSUME NEW r, NEW p \in Problem
  PROVE  Annotation(r, p) = [rule |-> r, problem |-> p, place |-> C!Where(req, p)]
<1>1. p.located \in BOOLEAN
  BY DEF Problem
<1>2. PlaceOf(p) = C!Where(req, p)
  <2>1. CASE p.located
    BY <2>1 DEF PlaceOf, C!Where
  <2>2. CASE ~ p.located /\ p.desc \in req.sourced
    BY <2>2 DEF PlaceOf, C!Where
  <2>3. CASE ~ p.located /\ p.desc \notin req.sourced
    BY <2>3 DEF PlaceOf, C!Where
  <2> QED
    BY <1>1, <2>1, <2>2, <2>3
<1> QED
  BY <1>2 DEF Annotation

-----------------------------------------------------------------------------

(* Sets of annotations that grow by one rule, one file or one problem.     *)
LEMMA AllOneMore ==
  ASSUME NEW rs, NEW r
  PROVE  All(rs \cup {r}) = All(rs) \cup On(r, Own)
BY DEF All

LEMMA OnIsPartOfAll ==
  ASSUME NEW rs, NEW r \in rs
  PROVE  On(r, Own) \subseteq All(rs)
BY DEF All

LEMMA OnHasAll ==
  ASSUME NEW r, NEW fs, NEW f \in fs, NEW p \in C!ProblemsOf(req, r, f)
  PROVE  \E a \in On(r, fs) : a.rule = r /\ a.problem = p
<1>1. [rule |-> r, problem |-> p, place |-> C!Where(req, p)] \in On(r, fs)
  BY DEF On
<1> QED
  BY <1>1

LEMMA OnOneMore ==
  ASSUME NEW r, NEW fs, NEW f
  PROVE  On(r, fs \cup {f}) = On(r, fs) \cup On(r, {f})
BY DEF On

LEMMA NothingSaid ==
  ASSUME NEW r
  PROVE  All({}) = {} /\ On(r, {}) = {} /\ Said(r, <<>>) = {}
BY DEF All, On, Said

LEMMA SaidIsOn ==
  ASSUME req \in Checks, NEW r \in req.selected, NEW f \in L!Files
  PROVE  Said(r, req.problems[r, f]) = On(r, {f})
<1>1. /\ Said(r, req.problems[r, f]) =
           {Annotation(r, p) : p \in Elements(req.problems[r, f])}
  BY DEF Said, Elements
<1>2. On(r, {f}) =
        {[rule |-> r, problem |-> p, place |-> C!Where(req, p)] :
           p \in C!ProblemsOf(req, r, f)}
  BY DEF On
<1>3. \A p \in C!ProblemsOf(req, r, f) :
        Annotation(r, p) = [rule |-> r, problem |-> p, place |-> C!Where(req, p)]
  BY ProblemFacts, PlaceFacts
<1> QED
  BY <1>1, <1>2, <1>3, ProblemFacts

LEMMA SaidTail ==
  ASSUME NEW r, NEW s \in Seq(Problem), s # <<>>
  PROVE  Said(r, s) = {Annotation(r, Head(s))} \cup Said(r, Tail(s))
<1>1. \A t : Said(r, t) = {Annotation(r, p) : p \in Elements(t)}
  BY DEF Said, Elements
<1> QED
  BY <1>1, ElementsTail

LEMMA SeenOneMore ==
  ASSUME NEW n \in Nat \ {0}
  PROVE  Seen(n) = Seen(n - 1) \cup {files[n]} /\ Seen(0) = {}
<1>1. 1..n = 1..(n - 1) \cup {n} /\ 1..0 = {}
  OBVIOUS
<1> QED
  BY <1>1 DEF Seen

(* What depends on the request alone.                                      *)
LEMMA SameRequest ==
  ASSUME req' = req
  PROVE  /\ Own' = Own
         /\ \A rs : All(rs)' = All(rs)
         /\ \A r, fs : On(r, fs)' = On(r, fs)
         /\ \A r, f : Fine(r, f)' <=> Fine(r, f)
         /\ \A r, s : Said(r, s)' = Said(r, s)
BY DEF Own, All, On, Fine, Said, Annotation, PlaceOf

-----------------------------------------------------------------------------

LEMMA InitPlugin == Init => PluginInv
BY DEF Init, PluginInv, WhileIdle, InHandler

LEMMA StepReceive == PluginInv /\ Receive => PluginInv'
<1> SUFFICES ASSUME PluginInv, Receive PROVE PluginInv'
  OBVIOUS
<1> USE DEF PluginInv, Receive
<1>1. req' \in Checks
  OBVIOUS
<1>2. Len(req'.files) \in Nat
  BY <1>1, PluginAssumption DEF Check
<1>3. /\ k' = 1 /\ files' = <<>> /\ annotations' = {}
      /\ pc' = "before"
  BY DEF WhileIdle
<1>4. Elements(files') =
        {req'.files[n].file : n \in {m \in 1..(1 - 1) : ~ req'.files[m].import}}
  BY <1>3 DEF Elements
<1>5. 1 \in 1..(Len(req'.files) + 1)
  BY <1>2
<1> QED
  BY <1>1, <1>3, <1>4, <1>5 DEF WhileIdle, InHandler, Elements

LEMMA StepPickFile == PluginInv /\ PickFile => PluginInv'
<1> SUFFICES ASSUME PluginInv, PickFile PROVE PluginInv'
  OBVIOUS
<1> USE DEF PluginInv, PickFile
<1>1. req \in Checks /\ annotations = {} /\ k \in 1..(Len(req.files) + 1)
  BY DEF WhileIdle
<1>2. k \in 1..Len(req.files) /\ k + 1 \in 1..(Len(req.files) + 1) /\ (k + 1) - 1 = k
  BY <1>1, RequestFacts
<1>3. 1..k = 1..(k - 1) \cup {k}
  BY <1>2
<1>4. req.files[k].file \in L!Files /\ req.files[k].import \in BOOLEAN
  BY <1>1, <1>2, RequestFacts
<1>5. files' \in Seq(L!Files)
  BY <1>4, ElementsAppend
<1>6. Elements(files') =
        {req.files[n].file : n \in {m \in 1..k : ~ req.files[m].import}}
  <2>1. Elements(files) =
          {req.files[n].file : n \in {m \in 1..(k - 1) : ~ req.files[m].import}}
    BY DEF WhileIdle
  <2>2. CASE req.files[k].import
    BY <1>3, <2>1, <2>2
  <2>3. CASE ~ req.files[k].import
    <3>1. Elements(files') = Elements(files) \cup {req.files[k].file}
      BY <1>4, <2>3, ElementsAppend
    <3> QED
      BY <1>3, <2>1, <2>3, <3>1
  <2> QED
    BY <2>2, <2>3
<1>7. pc' = "before" /\ k' = k + 1 /\ req' = req /\ annotations' = {}
  BY <1>1
<1>8. Elements(files)' =
        {req'.files[n].file : n \in {m \in 1..(k' - 1) : ~ req'.files[m].import}}
  BY <1>2, <1>6, <1>7 DEF Elements
<1> QED
  BY <1>1, <1>2, <1>5, <1>7, <1>8 DEF WhileIdle, InHandler

LEMMA StepBefore == PluginInv /\ Before => PluginInv'
<1> SUFFICES ASSUME PluginInv, Before PROVE PluginInv'
  OBVIOUS
<1> USE DEF PluginInv, Before
<1>1. req \in Checks /\ annotations = {} /\ k \in 1..(Len(req.files) + 1)
  BY DEF WhileIdle
<1>2. k - 1 = Len(req.files)
  BY <1>1, RequestFacts
<1>3. Elements(files) = Own
  BY <1>1, <1>2, RequestFacts DEF WhileIdle
<1>4. Elements(files)' = Own' /\ Called' = {} /\ All(Called)' = {}
  BY <1>3, SameRequest, NothingSaid DEF Called, Elements, All
<1> QED
  BY <1>1, <1>4 DEF WhileIdle, InHandler

LEMMA StepBeforeFails == PluginInv /\ BeforeFails => PluginInv'
BY DEF PluginInv, BeforeFails, WhileIdle, InHandler

LEMMA StepCallHandler ==
  ASSUME NEW r \in waiting, PluginInv, CallHandler(r)
  PROVE  PluginInv'
<1> USE DEF PluginInv, CallHandler
<1>1. /\ req \in Checks /\ r \in req.selected /\ waiting \subseteq req.selected
      /\ annotations = All(Called)
      /\ \A x \in Called, f \in Own : Fine(x, f)
      /\ ~ req.malformed /\ Elements(files) = Own
  BY DEF WhileIdle
<1>2. Called' = Called \cup {r} /\ r \notin Called /\ rule' = r
  BY <1>1 DEF Called
<1>3. Called' \ {rule'} = Called
  BY <1>2
<1>4. Seen(k - 1)' = {}
  BY DEF Seen
<1>5. (All(Called \ {rule}) \cup On(rule, Seen(k - 1)))' = All(Called)
  <2>1. All(Called \ {rule})' = All(Called)
    BY <1>3, SameRequest DEF All, On, Own
  <2>2. On(rule, Seen(k - 1))' = {}
    BY <1>4 DEF On
  <2> QED
    BY <2>1, <2>2
<1>6. 1 \in 1..(Len(files) + 1)
  OBVIOUS
<1>7. \A x \in (Called \ {rule})', f \in Own' : Fine(x, f)'
  BY <1>1, <1>3, SameRequest
<1>8. Elements(files)' = Own'
  BY <1>1, SameRequest DEF Elements
<1> QED
  BY <1>1, <1>2, <1>4, <1>5, <1>6, <1>7, <1>8 DEF WhileIdle, InHandler

(* In a handler, what it has on the file it is at is a set of problems.    *)
LEMMA HandlerFacts ==
  ASSUME PluginInv, pc \in {"rule", "adding"}
  PROVE  /\ req \in Checks /\ rule \in req.selected /\ rule \in Called
         /\ ~ req.malformed /\ Elements(files) = Own /\ waiting \subseteq req.selected
         /\ Len(files) \in Nat
         /\ \A n \in 1..Len(files) : files[n] \in L!Files /\ files[n] \in Own
<1>1. /\ req \in Checks /\ rule \in Called /\ Elements(files) = Own
      /\ ~ req.malformed /\ waiting \subseteq req.selected
  BY DEF PluginInv, WhileIdle, InHandler
<1>2. Len(files) \in Nat /\ \A n \in 1..Len(files) : files[n] \in L!Files
  BY SequenceFacts DEF PluginInv
<1> QED
  BY <1>1, <1>2 DEF Called, Elements

(* A step that only reads or adds problems.                                *)
LEMMA SameHandler ==
  ASSUME UNCHANGED <<req, files, waiting, rule, k>>
  PROVE  /\ Called' = Called /\ Own' = Own /\ Elements(files)' = Elements(files)
         /\ Seen(k)' = Seen(k) /\ Seen(k - 1)' = Seen(k - 1)
         /\ All(Called)' = All(Called) /\ All(Called \ {rule})' = All(Called \ {rule})
         /\ On(rule, Seen(k))' = On(rule, Seen(k))
         /\ On(rule, Seen(k - 1))' = On(rule, Seen(k - 1))
<1>1. /\ Called' = Called /\ Own' = Own /\ Elements(files)' = Elements(files)
      /\ Seen(k)' = Seen(k) /\ Seen(k - 1)' = Seen(k - 1)
  BY SameRequest DEF Called, Elements, Seen
<1>2. All(Called)' = All(Called) /\ All(Called \ {rule})' = All(Called \ {rule})
  BY <1>1 DEF All, On
<1>3. On(rule, Seen(k))' = On(rule, Seen(k)) /\ On(rule, Seen(k - 1))' = On(rule, Seen(k - 1))
  BY <1>1 DEF On
<1> QED
  BY <1>1, <1>2, <1>3

LEMMA StepRunRule == PluginInv /\ RunRule => PluginInv'
<1> SUFFICES ASSUME PluginInv, RunRule PROVE PluginInv'
  OBVIOUS
<1>1. /\ req' = req /\ files' = files /\ waiting' = waiting /\ rule' = rule /\ k' = k
      /\ annotations' = annotations /\ pc = "rule" /\ pc' = "adding"
      /\ batch' = req.problems[rule, files[k]]
      /\ <<rule, files[k]>> \notin req.panics
  BY DEF RunRule
<1>2. Len(files) \in Nat /\ k \in 1..Len(files)
  <2>1. Len(files) \in Nat
    BY <1>1, HandlerFacts
  <2>2. k \in 1..(Len(files) + 1) /\ k <= Len(files)
    BY <1>1 DEF PluginInv, InHandler, RunRule
  <2> QED
    BY <2>1, <2>2
<1>3. files[k] \in L!Files /\ req \in Checks /\ rule \in req.selected
  BY <1>1, <1>2, HandlerFacts
<1>4. batch' \in Seq(Problem) /\ C!ProblemsOf(req, rule, files[k]) = Elements(batch')
  BY <1>1, <1>3, ProblemFacts
<1>5. annotations \cup Said(rule, batch') = All(Called \ {rule}) \cup On(rule, Seen(k))
  <2>1. annotations = All(Called \ {rule}) \cup On(rule, Seen(k - 1))
    BY <1>1 DEF PluginInv, InHandler
  <2>2. Said(rule, batch') = On(rule, {files[k]})
    <3>1. Said(rule, req.problems[rule, files[k]]) = On(rule, {files[k]})
      BY <1>3, SaidIsOn
    <3> QED
      BY <1>1, <3>1
  <2>3. k \in Nat \ {0}
    BY <1>2
  <2>4. Seen(k) = Seen(k - 1) \cup {files[k]}
    BY <2>3, SeenOneMore
  <2>5. On(rule, Seen(k - 1) \cup {files[k]}) = On(rule, Seen(k - 1)) \cup On(rule, {files[k]})
    BY OnOneMore
  <2>6. On(rule, Seen(k)) = On(rule, Seen(k - 1) \cup {files[k]})
    BY <2>4
  <2> QED
    BY <2>1, <2>2, <2>5, <2>6
<1>6. /\ Called' = Called /\ Own' = Own /\ Elements(files)' = Elements(files)
      /\ Seen(k)' = Seen(k) /\ Seen(k - 1)' = Seen(k - 1)
      /\ Elements(batch)' = Elements(batch')
  BY <1>1, SameHandler DEF Elements
<1>7. /\ (annotations \cup Said(rule, batch))' = annotations \cup Said(rule, batch')
      /\ (All(Called \ {rule}) \cup On(rule, Seen(k)))' = All(Called \ {rule}) \cup On(rule, Seen(k))
  <2>1. Said(rule, batch)' = Said(rule, batch')
    BY <1>1 DEF Said, Annotation, PlaceOf
  <2>2. All(Called \ {rule})' = All(Called \ {rule}) /\ On(rule, Seen(k))' = On(rule, Seen(k))
    BY <1>1, SameHandler
  <2> QED
    BY <1>1, <2>1, <2>2
<1>8. InHandler'
  BY <1>1, <1>2, <1>4, <1>5, <1>6, <1>7, SameRequest DEF PluginInv, InHandler
<1>9. WhileIdle'
  BY <1>1, <1>6 DEF PluginInv, WhileIdle
<1> QED
  BY <1>1, <1>8, <1>9 DEF PluginInv

LEMMA StepRulePanics == PluginInv /\ RulePanics => PluginInv'
<1> SUFFICES ASSUME PluginInv, RulePanics PROVE PluginInv'
  OBVIOUS
<1>1. /\ pc = "rule" /\ pc' = "crashed" /\ k <= Len(files)
      /\ <<rule, files[k]>> \in req.panics
      /\ req' = req /\ files' = files
  BY DEF RulePanics
<1>2. k \in 1..Len(files)
  BY <1>1, HandlerFacts DEF PluginInv, InHandler
<1>3. req \in Checks /\ ~ req.malformed /\ C!Panicking(req)
  BY <1>1, <1>2, HandlerFacts DEF C!Panicking, Own
<1> QED
  BY <1>1, <1>3 DEF PluginInv, WhileIdle, InHandler

LEMMA StepAddProblem == PluginInv /\ AddProblem => PluginInv'
<1> SUFFICES ASSUME PluginInv, AddProblem PROVE PluginInv'
  OBVIOUS
<1>1. /\ req' = req /\ files' = files /\ waiting' = waiting /\ rule' = rule /\ k' = k
      /\ pc = "adding" /\ pc' = "adding" /\ batch # <<>>
      /\ annotations' = annotations \cup {Annotation(rule, Head(batch))}
      /\ batch' = Tail(batch) /\ Head(batch).desc # NoDesc
  BY DEF AddProblem
<1>2. batch \in Seq(Problem)
  BY <1>1 DEF PluginInv, InHandler
<1>3. batch' \in Seq(Problem) /\ Elements(batch) = {Head(batch)} \cup Elements(batch')
  BY <1>1, <1>2, ElementsTail
<1>4. annotations' \cup Said(rule, batch') = annotations \cup Said(rule, batch)
  <2>1. Said(rule, batch) = {Annotation(rule, Head(batch))} \cup Said(rule, Tail(batch))
    BY <1>1, <1>2, SaidTail
  <2>2. Said(rule, batch') = Said(rule, Tail(batch))
    BY <1>1
  <2> QED
    BY <1>1, <2>1, <2>2
<1>5. /\ Called' = Called /\ Own' = Own /\ Elements(files)' = Elements(files)
      /\ Seen(k)' = Seen(k) /\ Seen(k - 1)' = Seen(k - 1)
      /\ Elements(batch)' = Elements(batch')
  BY <1>1, SameHandler DEF Elements
<1>6. /\ (annotations \cup Said(rule, batch))' = annotations' \cup Said(rule, batch')
      /\ (All(Called \ {rule}) \cup On(rule, Seen(k)))' = All(Called \ {rule}) \cup On(rule, Seen(k))
  BY <1>1, <1>5, SameRequest DEF Said, Annotation, PlaceOf, All, On
<1>7. /\ k \in 1..Len(files) /\ rule \in Called
      /\ \A r \in Called \ {rule}, f \in Own : Fine(r, f)
      /\ \A f \in Seen(k - 1) : Fine(rule, f)
      /\ <<rule, files[k]>> \notin req.panics
      /\ Elements(batch) \subseteq C!ProblemsOf(req, rule, files[k])
      /\ \A p \in C!ProblemsOf(req, rule, files[k]) : p.desc = NoDesc => p \in Elements(batch)
      /\ annotations \cup Said(rule, batch) = All(Called \ {rule}) \cup On(rule, Seen(k))
  BY <1>1 DEF PluginInv, InHandler
<1>8. InHandler'
  BY <1>1, <1>3, <1>4, <1>5, <1>6, <1>7, SameRequest DEF InHandler
<1>9. WhileIdle'
  BY <1>1, <1>5 DEF PluginInv, WhileIdle
<1> QED
  BY <1>1, <1>8, <1>9 DEF PluginInv

LEMMA StepRejectProblem == PluginInv /\ RejectProblem => PluginInv'
<1> SUFFICES ASSUME PluginInv, RejectProblem PROVE PluginInv'
  OBVIOUS
<1>1. /\ pc = "adding" /\ pc' = "failed" /\ batch # <<>> /\ Head(batch).desc = NoDesc
      /\ req' = req /\ files' = files
  BY DEF RejectProblem
<1>2. /\ k \in 1..Len(files) /\ batch \in Seq(Problem)
      /\ Elements(batch) \subseteq C!ProblemsOf(req, rule, files[k])
  BY <1>1 DEF PluginInv, InHandler
<1>3. Head(batch) \in C!ProblemsOf(req, rule, files[k])
  BY <1>1, <1>2, ElementsTail
<1>4. req \in Checks /\ C!Misplaced(req)
  BY <1>1, <1>2, <1>3, HandlerFacts DEF C!Misplaced, Own
<1> QED
  BY <1>1, <1>4 DEF PluginInv, WhileIdle, InHandler

LEMMA StepNextFile == PluginInv /\ NextFile => PluginInv'
<1> SUFFICES ASSUME PluginInv, NextFile PROVE PluginInv'
  OBVIOUS
<1>1. /\ req' = req /\ files' = files /\ waiting' = waiting /\ rule' = rule /\ k' = k + 1
      /\ annotations' = annotations /\ pc = "adding" /\ pc' = "rule" /\ batch = <<>>
  BY DEF NextFile
<1>2. /\ k \in 1..Len(files) /\ rule \in Called
      /\ \A r \in Called \ {rule}, f \in Own : Fine(r, f)
      /\ \A f \in Seen(k - 1) : Fine(rule, f)
      /\ <<rule, files[k]>> \notin req.panics
      /\ \A p \in C!ProblemsOf(req, rule, files[k]) : p.desc = NoDesc => p \in Elements(batch)
      /\ annotations \cup Said(rule, batch) = All(Called \ {rule}) \cup On(rule, Seen(k))
  BY <1>1 DEF PluginInv, InHandler
<1>3. k \in Nat \ {0} /\ k + 1 \in 1..(Len(files) + 1) /\ k' - 1 = k
  BY <1>1, <1>2, HandlerFacts
<1>4. Fine(rule, files[k])
  BY <1>1, <1>2 DEF Fine, Elements
<1>5. \A f \in Seen(k) : Fine(rule, f)
  BY <1>2, <1>3, <1>4, SeenOneMore
<1>6. annotations = All(Called \ {rule}) \cup On(rule, Seen(k))
  BY <1>1, <1>2, NothingSaid
<1>7. /\ Called' = Called /\ Own' = Own /\ Elements(files)' = Elements(files)
      /\ Seen(k - 1)' = Seen(k)
  BY <1>1, <1>3, SameRequest DEF Called, Elements, Seen
<1>8. (All(Called \ {rule}) \cup On(rule, Seen(k - 1)))' = All(Called \ {rule}) \cup On(rule, Seen(k))
  BY <1>1, <1>7, SameRequest DEF All, On
<1>9. InHandler'
  BY <1>1, <1>2, <1>3, <1>5, <1>6, <1>7, <1>8, SameRequest DEF InHandler
<1>10. WhileIdle'
  BY <1>1, <1>7 DEF PluginInv, WhileIdle
<1> QED
  BY <1>1, <1>9, <1>10 DEF PluginInv

LEMMA StepHandlerReturns == PluginInv /\ HandlerReturns => PluginInv'
<1> SUFFICES ASSUME PluginInv, HandlerReturns PROVE PluginInv'
  OBVIOUS
<1>1. /\ req' = req /\ files' = files /\ waiting' = waiting /\ rule' = rule /\ k' = k
      /\ annotations' = annotations /\ pc = "rule" /\ pc' = "handlers" /\ k > Len(files)
  BY DEF HandlerReturns
<1>2. /\ k \in 1..(Len(files) + 1) /\ rule \in Called
      /\ \A r \in Called \ {rule}, f \in Own : Fine(r, f)
      /\ \A f \in Seen(k - 1) : Fine(rule, f)
      /\ annotations = All(Called \ {rule}) \cup On(rule, Seen(k - 1))
  BY <1>1 DEF PluginInv, InHandler
<1>3. k - 1 = Len(files)
  BY <1>1, <1>2, HandlerFacts
<1>4. Seen(k - 1) = Own
  BY <1>1, <1>3, HandlerFacts DEF Seen, Elements
<1>5. annotations = All(Called)
  <2>1. Called = (Called \ {rule}) \cup {rule}
    BY <1>2
  <2>2. All(Called) = All(Called \ {rule}) \cup On(rule, Own)
    BY <2>1, AllOneMore
  <2>3. On(rule, Seen(k - 1)) = On(rule, Own)
    BY <1>4
  <2> QED
    BY <1>2, <2>2, <2>3
<1>6. \A r \in Called, f \in Own : Fine(r, f)
  BY <1>2, <1>4
<1>7. /\ Called' = Called /\ Own' = Own /\ Elements(files)' = Elements(files)
      /\ All(Called)' = All(Called)
  BY <1>1, SameRequest DEF Called, Elements, All, On
<1>8. WhileIdle'
  BY <1>1, <1>5, <1>6, <1>7, SameRequest DEF PluginInv, WhileIdle
<1> QED
  BY <1>1, <1>8 DEF PluginInv, InHandler

LEMMA StepAnswer == PluginInv /\ Answer => PluginInv'
<1> SUFFICES ASSUME PluginInv, Answer PROVE PluginInv'
  OBVIOUS
<1>1. /\ req' = req /\ files' = files /\ waiting' = waiting
      /\ annotations' = annotations /\ pc = "handlers" /\ pc' = "done" /\ waiting = {}
  BY DEF Answer
<1>2. /\ Called' = Called /\ Own' = Own /\ Elements(files)' = Elements(files)
      /\ All(Called)' = All(Called)
  BY <1>1, SameRequest DEF Called, Elements, All, On
<1>3. WhileIdle'
  BY <1>1, <1>2, SameRequest DEF PluginInv, WhileIdle
<1> QED
  BY <1>1, <1>3 DEF PluginInv, InHandler

LEMMA StepElsewhere == PluginInv /\ UNCHANGED checkVars => PluginInv'
<1> SUFFICES ASSUME PluginInv, UNCHANGED checkVars PROVE PluginInv'
  OBVIOUS
<1>1. /\ req' = req /\ pc' = pc /\ files' = files /\ waiting' = waiting /\ rule' = rule
      /\ k' = k /\ batch' = batch /\ annotations' = annotations
  BY DEF checkVars
<1>2. Elements(batch)' = Elements(batch) /\ Said(rule, batch)' = Said(rule, batch)
  BY <1>1, SameRequest DEF Elements, Said, Annotation, PlaceOf
<1>3. WhileIdle'
  BY <1>1, <1>2, SameHandler, SameRequest DEF PluginInv, WhileIdle
<1>4. InHandler'
  BY <1>1, <1>2, SameHandler, SameRequest DEF PluginInv, InHandler
<1> QED
  BY <1>1, <1>3, <1>4 DEF PluginInv

LEMMA PluginStep == PluginInv /\ [Next]_vars => PluginInv'
<1> SUFFICES ASSUME PluginInv, [Next]_vars PROVE PluginInv'
  OBVIOUS
<1>1. CASE CheckNext
  BY <1>1, StepReceive, StepPickFile, StepBefore, StepBeforeFails, StepCallHandler,
     StepRunRule, StepRulePanics, StepAddProblem, StepRejectProblem, StepNextFile,
     StepHandlerReturns, StepAnswer
  DEF CheckNext
<1>2. CASE UNCHANGED checkVars
  BY <1>2, StepElsewhere
<1> QED
  BY <1>1, <1>2 DEF Next, Over, vars, checkVars

-----------------------------------------------------------------------------

(* When no handler is left to call, the contract's annotations are there.  *)
LEMMA DoneFacts ==
  ASSUME PluginInv, pc = "handlers", waiting = {}
  PROVE  /\ req \in Checks /\ ~ req.malformed
         /\ ~ C!Panicking(req) /\ ~ C!Misplaced(req)
         /\ annotations = C!AnnotationsOf(req)
<1>1. /\ req \in Checks /\ ~ req.malformed /\ annotations = All(Called)
      /\ \A r \in Called, f \in Own : Fine(r, f)
  BY DEF PluginInv, WhileIdle
<1>2. Called = req.selected
  BY DEF Called
<1>3. ~ C!Panicking(req) /\ ~ C!Misplaced(req)
  BY <1>1, <1>2 DEF Fine, C!Panicking, C!Misplaced, Own
<1>4. All(req.selected) = C!AnnotationsOf(req)
  BY DEF All, On, Own, C!AnnotationsOf
<1> QED
  BY <1>1, <1>2, <1>3, <1>4

(* A step that ends the check is the contract's reply, whose shape depends *)
(* on how it ends.                                                         *)
LEMMA ReplyStep ==
  ASSUME req \in Checks, req' = req, Outcome = C!NoAnswer, C!IsAnswer(req, Outcome')
  PROVE  C!Reply
BY RequestFacts DEF C!Reply

LEMMA NoOutcome ==
  ASSUME pc \notin {"done", "failed", "crashed"}
  PROVE  Outcome = C!NoAnswer
BY DEF Outcome, C!NoAnswer

LEMMA Stutters ==
  ASSUME req' = req, pc' \notin {"done", "failed", "crashed"},
         pc \notin {"done", "failed", "crashed"}
  PROVE  UNCHANGED <<req, Outcome>>
BY DEF Outcome

LEMMA ContractInit == Init => C!Init
BY NoOutcome DEF Init, C!Init

LEMMA ContractStep == PluginInv /\ PluginInv' /\ [Next]_vars => [C!Next]_<<req, Outcome>>
<1> SUFFICES ASSUME PluginInv, PluginInv', [Next]_vars
             PROVE  [C!Next]_<<req, Outcome>>
  OBVIOUS
<1>1. CASE Receive
  <2>1. req = NoRequest /\ req' \in Checks
    BY <1>1 DEF PluginInv, WhileIdle, Receive
  <2>2. UNCHANGED Outcome
    BY <1>1 DEF Receive, Outcome
  <2> QED
    BY <2>1, <2>2 DEF C!Next, C!Ask
<1>2. CASE BeforeFails \/ RejectProblem
  <2>1. /\ pc \in {"before", "adding"} /\ pc' = "failed" /\ req' = req /\ req \in Checks
    BY <1>2 DEF PluginInv, WhileIdle, BeforeFails, RejectProblem
  <2>2. Outcome' = [C!NoAnswer EXCEPT !.status = "failed"]
    BY <2>1 DEF Outcome, C!NoAnswer
  <2>3. req.malformed \/ C!Misplaced(req)
    <3>1. req'.malformed \/ C!Misplaced(req')
      BY <2>1 DEF PluginInv, WhileIdle
    <3> QED
      BY <2>1, <3>1
  <2>4. C!IsAnswer(req, Outcome')
    BY <2>2, <2>3 DEF C!IsAnswer
  <2> QED
    BY <2>1, <2>4, NoOutcome, ReplyStep DEF C!Next
<1>3. CASE RulePanics
  <2>1. pc = "rule" /\ pc' = "crashed" /\ req' = req /\ req \in Checks
    BY <1>3 DEF PluginInv, WhileIdle, RulePanics
  <2>2. Outcome' = [C!NoAnswer EXCEPT !.status = "crashed"]
    BY <2>1 DEF Outcome, C!NoAnswer
  <2>3. ~ req.malformed /\ C!Panicking(req)
    <3>1. ~ req'.malformed /\ C!Panicking(req')
      BY <2>1 DEF PluginInv, WhileIdle
    <3> QED
      BY <2>1, <3>1
  <2>4. C!IsAnswer(req, Outcome')
    BY <2>2, <2>3 DEF C!IsAnswer
  <2> QED
    BY <2>1, <2>4, NoOutcome, ReplyStep DEF C!Next
<1>4. CASE Answer
  <2>1. /\ pc = "handlers" /\ waiting = {} /\ pc' = "done" /\ req' = req
        /\ annotations' = annotations
    BY <1>4 DEF Answer
  <2>2. /\ req \in Checks /\ ~ req.malformed
        /\ ~ C!Panicking(req) /\ ~ C!Misplaced(req)
        /\ annotations = C!AnnotationsOf(req)
    BY <2>1, DoneFacts
  <2>3. Outcome' = [status |-> "done", annotations |-> C!AnnotationsOf(req)]
    BY <2>1, <2>2 DEF Outcome
  <2>4. C!IsAnswer(req, Outcome')
    BY <2>2, <2>3 DEF C!IsAnswer
  <2> QED
    BY <2>1, <2>2, <2>4, NoOutcome, ReplyStep DEF C!Next
<1>5. CASE \/ PickFile \/ Before \/ (\E r \in waiting : CallHandler(r)) \/ RunRule
           \/ AddProblem \/ NextFile \/ HandlerReturns
  <2>1. /\ req' = req
        /\ pc \in {"before", "handlers", "rule", "adding"}
        /\ pc' \in {"before", "handlers", "rule", "adding"}
    BY <1>5 DEF PickFile, Before, CallHandler, RunRule, AddProblem, NextFile, HandlerReturns
  <2> QED
    BY <2>1, Stutters
<1>6. CASE UNCHANGED checkVars
  BY <1>6 DEF checkVars, Outcome
<1>7. CheckNext \/ UNCHANGED checkVars
  BY DEF Next, Over, vars, checkVars
<1> QED
  BY <1>1, <1>2, <1>3, <1>4, <1>5, <1>6, <1>7 DEF CheckNext

(* For every start and every request: a check of the plugin is one step    *)
(* from the request to all the annotations of the selected rules, each at  *)
(* its place, or to no answer at all (newRuleHandler and addProblem).      *)
THEOREM PluginImplementsContract == Spec => ImplementsPluginContract
<1>1. Init => PluginInv
  BY InitPlugin
<1>2. PluginInv /\ [Next]_vars => PluginInv'
  BY PluginStep
<1>3. Init => C!Init
  BY ContractInit
<1>4. PluginInv /\ PluginInv' /\ [Next]_vars => [C!Next]_<<req, Outcome>>
  BY ContractStep
<1> QED
  BY <1>1, <1>2, <1>3, <1>4, PTL DEF Spec, ImplementsPluginContract, C!Spec

LEMMA ReportedIsAProblem ==
  ASSUME req \in Checks, NEW configs, NEW f \in L!Files,
         NEW reported \in L!Reported(Call(configs), f)
  PROVE  \E r \in Rules : \E p \in C!ProblemsOf(req, r, f) :
           reported = [rule |-> r, problem |-> p]
<1>1. PICK r \in Rules : reported \in L!Contribution(Call(configs), r, f)
  BY DEF L!Reported
<1>2. Call(configs).problems[r, f] = C!ProblemsOf(req, r, f)
  <2>1. <<r, f>> \in DOMAIN req.problems
    BY PluginAssumption DEF Check
  <2>2. Call(configs).problems = [x \in DOMAIN req.problems |-> C!ProblemsOf(req, x[1], x[2])]
    BY DEF Call
  <2> QED
    BY <2>1, <2>2
<1>3. reported \in L!Kept(Call(configs), r, C!ProblemsOf(req, r, f))
  BY <1>1, <1>2 DEF L!Contribution
<1> QED
  BY <1>3 DEF L!Kept

(* The plugin reports at least what the command would with any configs: no *)
(* comment, path or disabled rule hides a problem from it (addProblem).    *)
THEOREM PluginSeesEverything == Spec => []PluginSeesAll
<1>1. Init => PluginInv
  BY InitPlugin
<1>2. PluginInv /\ [Next]_vars => PluginInv'
  BY PluginStep
<1>3. PluginInv => PluginSeesAll
  <2> SUFFICES ASSUME PluginInv, pc = "done", NEW configs \in ConfigChoices, NEW f \in Own,
                      NEW reported \in L!Reported(Call(configs), f),
                      reported.rule \in req.selected
               PROVE  \E a \in annotations :
                        a.rule = reported.rule /\ a.problem = reported.problem
    BY DEF PluginSeesAll, Own
  <2>1. req \in Checks /\ annotations = All(req.selected) /\ Elements(files) = Own
    BY DEF PluginInv, WhileIdle, Called
  <2>2. f \in L!Files
    <3>1. \A n \in 1..Len(files) : files[n] \in L!Files
      BY SequenceFacts DEF PluginInv
    <3> QED
      BY <2>1, <3>1 DEF Elements
  <2>3. PICK r \in Rules :
          \E p \in C!ProblemsOf(req, r, f) : reported = [rule |-> r, problem |-> p]
    BY <2>1, <2>2, ReportedIsAProblem
  <2>4. PICK p \in C!ProblemsOf(req, r, f) : reported = [rule |-> r, problem |-> p]
    BY <2>3
  <2>5. PICK a \in On(r, Own) : a.rule = r /\ a.problem = p
    BY OnHasAll
  <2>6. r \in req.selected /\ a.rule = reported.rule /\ a.problem = reported.problem
    BY <2>4, <2>5
  <2>7. a \in annotations
    BY <2>1, <2>5, <2>6, OnIsPartOfAll
  <2> QED
    BY <2>6, <2>7
<1> QED
  BY <1>1, <1>2, <1>3, PTL DEF Spec

-----------------------------------------------------------------------------
(* Start-up.                                                               *)

(* The names of the packages passed, and of the one being added so far.    *)
Passed(n) == UNION {NamesOf(packages[m]) : m \in 1..(n - 1)}
Taken == {Package.names[n] : n \in 1..(pos - 1)}

(* No name is in two of the first packages.                                *)
Apart(n) ==
  \A l, m \in 1..n : l # m => NamesOf(packages[l]) \cap NamesOf(packages[m]) = {}

Complete == registry = Passed(Len(packages) + 1) /\ Apart(Len(packages))

WhileAdding ==
  stage = "add" =>
    /\ DOMAIN specs = {}
    /\ pkg > Len(packages) => Complete
    /\ pkg <= Len(packages) =>
         /\ pos <= Len(Package.names) + 1
         /\ registry = Passed(pkg) \cup Taken
         /\ Passed(pkg) \cap Taken = {}
         /\ Apart(pkg - 1)

WithSpecs ==
  /\ unvisited \subseteq registry /\ DOMAIN specs = registry \ unvisited
  /\ \A name \in DOMAIN specs : HasSpec(name) /\ specs[name] = RuleID(name)

RegistryInv ==
  /\ packages \in Packages
  /\ pkg \in 1..(Len(packages) + 1) /\ pos \in Nat \ {0}
  /\ registry \subseteq Seq(STRING)
  /\ WhileAdding
  /\ stage \in {"specs", "serving"} => Complete
  /\ stage = "specs" => WithSpecs
  /\ stage = "serving" /\ program = "plugin" => WithSpecs /\ unvisited = {}

LEMMA PackageFacts ==
  ASSUME packages \in Packages
  PROVE  /\ Len(packages) \in Nat
         /\ \A n \in 1..Len(packages) :
              packages[n].names \in Seq(Seq(STRING)) /\ Len(packages[n].names) \in Nat
<1> DEFINE Added == [aep : DOMAIN Padded, names : Seq(Seq(STRING))]
<1>1. packages \in Seq(Added)
  BY PackagesAssumption
<1>2. ASSUME NEW n \in 1..Len(packages) PROVE packages[n].names \in Seq(Seq(STRING))
  <2>1. packages[n] \in Added
    <3> HIDE DEF Added
    <3> QED
      BY <1>1, SequenceFacts
  <2> QED
    BY <2>1
<1>3. Len(packages) \in Nat
  BY <1>1
<1>4. ASSUME NEW names \in Seq(Seq(STRING)) PROVE Len(names) \in Nat
  OBVIOUS
<1> QED
  BY <1>2, <1>3, <1>4

LEMMA PackageAeps ==
  ASSUME packages \in Packages
  PROVE  \A n \in 1..Len(packages) : packages[n].aep \in DOMAIN Padded
<1> DEFINE Added == [aep : DOMAIN Padded, names : Seq(Seq(STRING))]
<1>1. packages \in Seq(Added)
  BY PackagesAssumption
<1>2. ASSUME NEW n \in 1..Len(packages) PROVE packages[n].aep \in DOMAIN Padded
  <2>1. packages[n] \in Added
    <3> HIDE DEF Added
    <3> QED
      BY <1>1, SequenceFacts
  <2> QED
    BY <2>1
<1> QED
  BY <1>2

LEMMA NextName ==
  ASSUME RegistryInv, Registering
  PROVE  Name \in Seq(STRING) /\ Name \in NamesOf(Package) /\ pkg \in 1..Len(packages)
<1>1. pkg \in 1..Len(packages) /\ pos \in 1..Len(Package.names)
  BY PackageFacts DEF RegistryInv, Registering, AddingPackage, Package
<1>2. Package.names \in Seq(Seq(STRING))
  BY <1>1, PackageFacts DEF RegistryInv, Package
<1> QED
  BY <1>1, <1>2, SequenceFacts DEF Name, NamesOf

LEMMA PrefixParts ==
  ASSUME NEW name \in Seq(STRING), NEW a, NEW b, Len(name) >= 2, SubSeq(name, 1, 2) = <<a, b>>
  PROVE  name[1] = a /\ name[2] = b
<1>1. SubSeq(name, 1, 2)[1] = name[1] /\ SubSeq(name, 1, 2)[2] = name[2]
  <2>1. \A e \in 1..((2 - 1) + 1) : SubSeq(name, 1, 2)[e] = name[(1 + e) - 1]
    BY SubSeqProperties
  <2> QED
    BY <2>1
<1>2. <<a, b>>[1] = a /\ <<a, b>>[2] = b
  OBVIOUS
<1> QED
  BY <1>1, <1>2, Zenon

(* The name after the last has no more names before it.                    *)
LEMMA OnePackageMore ==
  ASSUME NEW n \in Nat \ {0}
  PROVE  Passed(n + 1) = Passed(n) \cup NamesOf(packages[n])
<1>1. 1..((n + 1) - 1) = 1..(n - 1) \cup {n}
  OBVIOUS
<1> QED
  BY <1>1 DEF Passed

LEMMA StartRegisters == RegistryInv /\ RegisterRule => RegistryInv'
<1> SUFFICES ASSUME RegistryInv, RegisterRule PROVE RegistryInv'
  OBVIOUS
<1>1. Name \in Seq(STRING) /\ pkg \in 1..Len(packages)
  BY NextName DEF RegisterRule
<1>2. pos \in Nat \ {0} /\ pos <= Len(Package.names) /\ Len(Package.names) \in Nat
  BY <1>1, PackageFacts DEF RegistryInv, RegisterRule, Registering, Package
<1>3. UNCHANGED <<packages, program, pkg, unvisited, specs, stage>> /\ pos' = pos + 1
  BY DEF RegisterRule
<1>4. stage = "add" /\ Name \notin registry
  BY DEF RegisterRule, Registering, AddingPackage, IsFine
<1>5. Passed(pkg)' = Passed(pkg) /\ Apart(pkg - 1)' = Apart(pkg - 1) /\ Package' = Package
  BY <1>3 DEF Passed, Apart, Package, NamesOf
<1>6. Taken' = Taken \cup {Name}
  <2>1. 1..(pos' - 1) = 1..(pos - 1) \cup {pos}
    BY <1>2, <1>3
  <2> QED
    BY <2>1, <1>5 DEF Taken, Name, Package
<1>7. registry = Passed(pkg) \cup Taken /\ Passed(pkg) \cap Taken = {} /\ Apart(pkg - 1)
  BY <1>1, <1>4, PackageFacts DEF RegistryInv, WhileAdding
<1>8. registry' = Passed(pkg)' \cup Taken' /\ Passed(pkg)' \cap Taken' = {}
  BY <1>4, <1>5, <1>6, <1>7 DEF RegisterRule
<1>9. WhileAdding'
  <2>1. pkg' <= Len(packages') /\ ~ pkg' > Len(packages')
    BY <1>1, <1>3, PackageFacts DEF RegistryInv
  <2>2. pos' <= Len(Package'.names) + 1
    BY <1>2, <1>3, <1>5
  <2>3. DOMAIN specs' = {}
    BY <1>3, <1>4 DEF RegistryInv, WhileAdding
  <2> QED
    BY <2>1, <2>2, <2>3, <1>3, <1>5, <1>7, <1>8 DEF WhileAdding
<1> QED
  BY <1>1, <1>2, <1>3, <1>4, <1>9 DEF RegistryInv, RegisterRule

LEMMA StartRefuses == RegistryInv /\ RefuseRule => RegistryInv'
BY DEF RegistryInv, RefuseRule, WhileAdding

LEMMA StartNextPackage == RegistryInv /\ NextPackage => RegistryInv'
<1> SUFFICES ASSUME RegistryInv, NextPackage PROVE RegistryInv'
  OBVIOUS
<1>1. /\ UNCHANGED <<packages, program, registry, unvisited, specs, stage>>
      /\ stage = "add" /\ pkg' = pkg + 1 /\ pos' = 1
  BY DEF NextPackage, AddingPackage
<1>2. pkg \in 1..Len(packages) /\ Len(packages) \in Nat /\ pkg - 1 \in Nat
  BY PackageFacts DEF RegistryInv, NextPackage, AddingPackage
<1>3. Len(Package.names) \in Nat /\ pos = Len(Package.names) + 1
  <2>1. Len(Package.names) \in Nat
    BY <1>2, PackageFacts DEF RegistryInv, Package
  <2>2. pos <= Len(Package.names) + 1 /\ pos \in Nat
    BY <1>1, <1>2 DEF RegistryInv, WhileAdding
  <2>3. pos > Len(Package.names)
    BY DEF NextPackage
  <2> QED
    BY <2>1, <2>2, <2>3
<1>4. Taken = NamesOf(packages[pkg])
  BY <1>3 DEF Taken, NamesOf, Package
<1>5. /\ registry = Passed(pkg) \cup Taken /\ Passed(pkg) \cap Taken = {} /\ Apart(pkg - 1)
      /\ DOMAIN specs = {}
  BY <1>1, <1>2 DEF RegistryInv, WhileAdding
<1>6. registry = Passed(pkg + 1)
  BY <1>2, <1>4, <1>5, OnePackageMore
<1>7. Apart(pkg)
  <2> SUFFICES ASSUME NEW l \in 1..pkg, NEW m \in 1..pkg, l # m
               PROVE  NamesOf(packages[l]) \cap NamesOf(packages[m]) = {}
    BY DEF Apart
  <2>1. ASSUME NEW o \in 1..(pkg - 1) PROVE NamesOf(packages[o]) \subseteq Passed(pkg)
    BY DEF Passed
  <2>2. CASE l = pkg
    <3>1. m \in 1..(pkg - 1)
      BY <1>2, <2>2
    <3> QED
      BY <1>4, <1>5, <2>1, <2>2, <3>1
  <2>3. CASE m = pkg
    <3>1. l \in 1..(pkg - 1)
      BY <1>2, <2>3
    <3> QED
      BY <1>4, <1>5, <2>1, <2>3, <3>1
  <2>4. CASE l # pkg /\ m # pkg
    <3>1. l \in 1..(pkg - 1) /\ m \in 1..(pkg - 1)
      BY <1>2, <2>4
    <3> QED
      BY <1>5, <3>1 DEF Apart
  <2> QED
    BY <2>2, <2>3, <2>4
<1>8. registry' = Passed(pkg)' /\ Apart(pkg - 1)'
  <2>1. pkg' - 1 = pkg
    BY <1>1, <1>2
  <2>2. Passed(pkg)' = Passed(pkg + 1)
    BY <1>1 DEF Passed, NamesOf
  <2>3. Apart(pkg - 1)' = Apart(pkg)
    <3>1. ASSUME NEW n PROVE NamesOf(packages[n])' = NamesOf(packages[n])
      BY <1>1 DEF NamesOf
    <3>2. (1..(pkg - 1))' = 1..pkg
      BY <2>1
    <3> QED
      BY <1>1, <3>1, <3>2 DEF Apart
  <2> QED
    BY <1>1, <1>6, <1>7, <2>2, <2>3
<1>9. WhileAdding'
  <2>1. CASE pkg' > Len(packages')
    <3>1. pkg = Len(packages) /\ pkg + 1 = Len(packages) + 1
      BY <1>1, <1>2, <2>1
    <3>2. pkg' = Len(packages') + 1 /\ pkg' - 1 = Len(packages')
      BY <1>1, <1>2, <3>1
    <3>3. Complete'
      BY <1>8, <3>2 DEF Complete, Passed, Apart
    <3> QED
      BY <1>1, <1>2, <1>5, <2>1, <3>3 DEF WhileAdding
  <2>2. CASE ~ pkg' > Len(packages')
    <3>1. pkg' \in 1..Len(packages)
      BY <1>1, <1>2, <2>2
    <3>2. Len(packages[pkg'].names) \in Nat
      BY <3>1, PackageFacts DEF RegistryInv
    <3>3. pos' <= Len(Package'.names) + 1
      BY <1>1, <3>2 DEF Package
    <3>4. Taken' = {}
      BY <1>1 DEF Taken
    <3> QED
      BY <1>1, <1>5, <1>8, <2>2, <3>3, <3>4 DEF WhileAdding
  <2> QED
    BY <2>1, <2>2
<1>10. pkg' \in 1..(Len(packages) + 1) /\ pos' \in Nat \ {0}
  BY <1>1, <1>2
<1> QED
  BY <1>1, <1>9, <1>10 DEF RegistryInv

(* What is complete stays so as long as nothing is registered.             *)
LEMMA StaysComplete ==
  ASSUME Complete, UNCHANGED <<packages, registry>>
  PROVE  Complete'
<1>1. Passed(Len(packages) + 1)' = Passed(Len(packages) + 1)
  BY DEF Passed, NamesOf
<1>2. Apart(Len(packages))' = Apart(Len(packages))
  BY DEF Apart, NamesOf
<1> QED
  BY <1>1, <1>2 DEF Complete

LEMMA StartAdded == RegistryInv /\ RulesAdded => RegistryInv'
<1> SUFFICES ASSUME RegistryInv, RulesAdded PROVE RegistryInv'
  OBVIOUS
<1>1. Complete /\ DOMAIN specs = {}
  BY DEF RegistryInv, RulesAdded, WhileAdding
<1>2. Complete'
  BY <1>1, StaysComplete DEF RulesAdded
<1>3. WithSpecs'
  BY <1>1 DEF RulesAdded, WithSpecs
<1>4. stage' # "add" /\ (stage' = "serving" => program' # "plugin")
  BY DEF RulesAdded
<1> QED
  BY <1>2, <1>3, <1>4 DEF RegistryInv, RulesAdded, WhileAdding

LEMMA StartMakesSpec ==
  ASSUME RegistryInv, NEW name \in unvisited, MakeSpec(name)
  PROVE  RegistryInv'
<1>1. WithSpecs /\ Complete /\ stage = "specs" /\ stage' = "specs"
  BY DEF RegistryInv, MakeSpec
<1>2. Complete'
  BY <1>1, StaysComplete DEF MakeSpec
<1>3. WithSpecs'
  <2>1. DOMAIN specs' = DOMAIN specs \cup {name}
    BY DEF MakeSpec
  <2>2. \A n \in DOMAIN specs' : HasSpec(n) /\ specs'[n] = RuleID(n)
    BY <1>1, <2>1 DEF MakeSpec, WithSpecs
  <2> QED
    BY <1>1, <2>1, <2>2 DEF MakeSpec, WithSpecs
<1> QED
  BY <1>1, <1>2, <1>3 DEF RegistryInv, MakeSpec, WhileAdding

LEMMA StartRefusesSpec ==
  ASSUME RegistryInv, NEW name \in unvisited, RefuseSpec(name)
  PROVE  RegistryInv'
BY DEF RegistryInv, RefuseSpec, WhileAdding

LEMMA StartEnds == RegistryInv /\ SpecsMade => RegistryInv'
<1> SUFFICES ASSUME RegistryInv, SpecsMade PROVE RegistryInv'
  OBVIOUS
<1>1. Complete' /\ WithSpecs'
  BY StaysComplete DEF RegistryInv, SpecsMade, WithSpecs
<1> QED
  BY <1>1 DEF RegistryInv, SpecsMade, WhileAdding

LEMMA StartUnchanged == RegistryInv /\ UNCHANGED startVars => RegistryInv'
<1> SUFFICES ASSUME RegistryInv, UNCHANGED startVars PROVE RegistryInv'
  OBVIOUS
<1>1. UNCHANGED <<packages, program, pkg, pos, registry, unvisited, specs, stage>>
  BY DEF startVars
<1>2. Complete => Complete'
  BY <1>1, StaysComplete
<1>3. WithSpecs => WithSpecs'
  BY <1>1 DEF WithSpecs
<1>4. Passed(pkg)' = Passed(pkg) /\ Taken' = Taken
  BY <1>1 DEF Passed, Taken, NamesOf, Package
<1>5. Apart(pkg - 1)' = Apart(pkg - 1) /\ Package' = Package
  BY <1>1 DEF Apart, NamesOf, Package
<1>6. WhileAdding'
  BY <1>1, <1>2, <1>4, <1>5 DEF RegistryInv, WhileAdding
<1> QED
  BY <1>1, <1>2, <1>3, <1>6 DEF RegistryInv

LEMMA RegistryStep == RegistryInv /\ [Next]_vars => RegistryInv'
<1> SUFFICES ASSUME RegistryInv, StartNext \/ UNCHANGED startVars PROVE RegistryInv'
  BY DEF Next, Over, vars
<1> QED
  BY StartRegisters, StartRefuses, StartNextPackage, StartAdded, StartMakesSpec,
     StartRefusesSpec, StartEnds, StartUnchanged DEF StartNext

LEMMA InitRegistry == Init => RegistryInv
<1> SUFFICES ASSUME Init PROVE RegistryInv
  OBVIOUS
<1>1. /\ packages \in Packages /\ pkg = 1 /\ pos = 1 /\ registry = {} /\ stage = "add"
      /\ DOMAIN specs = {}
  BY DEF Init, StartInit
<1>2. Passed(1) = {} /\ Apart(0) /\ Taken = {}
  BY <1>1 DEF Passed, Apart, Taken
<1>3. CASE Len(packages) = 0
  <2>1. Complete
    BY <1>1, <1>2, <1>3 DEF Complete
  <2> QED
    BY <1>1, <1>3, <2>1, PackageFacts DEF RegistryInv, WhileAdding
<1>4. CASE Len(packages) # 0
  <2>1. 1 \in 1..Len(packages) /\ Len(packages) \in Nat
    BY <1>1, <1>4, PackageFacts
  <2>2. Len(Package.names) \in Nat
    BY <1>1, <2>1, PackageFacts DEF Package
  <2> QED
    BY <1>1, <1>2, <2>1, <2>2 DEF RegistryInv, WhileAdding
<1> QED
  BY <1>3, <1>4

(* A rule is registered under the group and the number of the package that *)
(* registers it (Register in lint/rule_registry.go).                       *)
THEOREM RegisteredUnderItsAep == Spec => []RulesAreTheirAeps
<1>1. Init => RulesAreTheirAeps
  BY DEF Init, StartInit, RulesAreTheirAeps
<1>2. RegistryInv /\ RulesAreTheirAeps /\ [Next]_vars => RulesAreTheirAeps'
  <2> SUFFICES ASSUME RegistryInv, RulesAreTheirAeps, [Next]_vars PROVE RulesAreTheirAeps'
    OBVIOUS
  <2>1. CASE UNCHANGED <<packages, registry>>
    BY <2>1 DEF RulesAreTheirAeps, NamesOf
  <2>2. CASE RegisterRule
    <3>1. Name \in Seq(STRING) /\ Name \in NamesOf(Package) /\ pkg \in 1..Len(packages)
      BY <2>2, NextName DEF RegisterRule
    <3>2. Len(Name) >= 2 /\ SubSeq(Name, 1, 2) = <<GroupOf(Package.aep), Padded[Package.aep]>>
      BY <2>2 DEF RegisterRule, IsFine, HasPrefix, Prefix
    <3>3. Name[1] = GroupOf(Package.aep) /\ Name[2] = Padded[Package.aep]
      BY <3>1, <3>2, PrefixParts
    <3>4. packages' = packages /\ registry' = registry \cup {Name}
      BY <2>2 DEF RegisterRule
    <3>5. ASSUME NEW name \in registry'
          PROVE  \E n \in 1..Len(packages) :
                   /\ name \in NamesOf(packages[n])
                   /\ name[1] = GroupOf(packages[n].aep) /\ name[2] = Padded[packages[n].aep]
      BY <3>1, <3>3, <3>4, <3>5 DEF RulesAreTheirAeps, Package
    <3> QED
      BY <3>4, <3>5 DEF RulesAreTheirAeps, NamesOf
  <2>3. RegisterRule \/ UNCHANGED <<packages, registry>>
    BY DEF Next, StartNext, Over, vars, startVars, RefuseRule, NextPackage, RulesAdded,
           MakeSpec, RefuseSpec, SpecsMade
  <2> QED
    BY <2>1, <2>2, <2>3
<1> QED
  BY <1>1, <1>2, InitRegistry, RegistryStep, PTL DEF Spec

LEMMA FirstOfRow ==
  ASSUME NEW S, NEW a \in Seq(S), NEW s \in Seq(S), Len(a) = 1
  PROVE  (a \o s)[1] = a[1]
OBVIOUS

LEMMA SameRow ==
  ASSUME NEW S, NEW a \in Seq(S), NEW b \in Seq(S), Len(a) = 1, Len(b) = 1,
         NEW s \in Seq(S), NEW t \in Seq(S), a \o s = b \o t
  PROVE  a = b /\ s = t
<1>1. a[1] = b[1]
  <2>1. (a \o s)[1] = a[1] /\ (b \o t)[1] = b[1]
    BY FirstOfRow
  <2> QED
    BY <2>1
<1>2. a = b
  <2>1. \A i \in 1..Len(a) : a[i] = b[i]
    BY <1>1
  <2> QED
    BY <2>1, SeqEqual
<1> QED
  BY <1>2, ConcatSimplifications

(* The ID tells the number, which is one word, and the rest.               *)
LEMMA DifferentNames ==
  ASSUME NEW m \in registry, NEW n \in registry, registry \subseteq Seq(STRING),
         packages \in Packages, RulesAreTheirAeps,
         HasSpec(m), HasSpec(n), RuleID(m) = RuleID(n)
  PROVE  m = n
<1>1. Len(m) = 3 /\ Len(n) = 3 /\ m[1] = n[1] /\ m \in Seq(STRING) /\ n \in Seq(STRING)
  BY DEF HasSpec
<1>5. \A i \in {2, 3} :
        /\ m[i] \in DOMAIN Spelled /\ Spelled[m[i]] \in Seq(STRING)
        /\ n[i] \in DOMAIN Spelled /\ Spelled[n[i]] \in Seq(STRING)
  <2>1. \A i \in {2, 3} : i \in DOMAIN m /\ i \in DOMAIN n
    BY <1>1
  <2> QED
    BY <2>1, NamesAssumption DEF HasSpec
<1>6. \A name \in registry : \E aep \in DOMAIN Padded : name[2] = Padded[aep]
  BY PackageAeps DEF RulesAreTheirAeps
<1>7. Len(Spelled[m[2]]) = 1 /\ Len(Spelled[n[2]]) = 1
  <2>1. \A name \in registry : name[2] \in DOMAIN Spelled => Len(Spelled[name[2]]) = 1
    BY <1>6, NamesAssumption
  <2> QED
    BY <1>5, <2>1
<1>2. m[2] = n[2] /\ m[3] = n[3]
  <2>1. Spelled[m[2]] = Spelled[n[2]] /\ Spelled[m[3]] = Spelled[n[3]]
    <3> DEFINE mHead == Spelled[m[2]]
               nHead == Spelled[n[2]]
               mRest == Spelled[m[3]]
               nRest == Spelled[n[3]]
    <3>1. /\ mHead \in Seq(STRING) /\ mRest \in Seq(STRING) /\ Len(mHead) = 1
          /\ nHead \in Seq(STRING) /\ nRest \in Seq(STRING) /\ Len(nHead) = 1
          /\ mHead \o mRest = nHead \o nRest
      BY <1>5, <1>7 DEF RuleID
    <3> HIDE DEF mHead, nHead, mRest, nRest
    <3>2. mHead = nHead /\ mRest = nRest
      BY <3>1, SameRow
    <3> QED
      BY <3>2 DEF mHead, nHead, mRest, nRest
  <2> QED
    BY <1>5, <2>1, NamesAssumption
<1>3. DOMAIN m = 1..3 /\ DOMAIN n = 1..3 /\ 1..3 = {1, 2, 3}
  BY <1>1
<1>4. \A k_1 \in DOMAIN m : m[k_1] = n[k_1]
  BY <1>1, <1>2, <1>3
<1> QED
  BY <1>1, <1>3, <1>4

(* A program that serves has every rule of every package once, and the     *)
(* plugin as many of its own, told apart by their IDs (newSpec in          *)
(* cmd/buf-plugin-aep/main.go).                                            *)
THEOREM ServingIsComplete == Spec => []ServesAllRules
<1>1. RegistryInv /\ RulesAreTheirAeps => ServesAllRules
  <2> SUFFICES ASSUME RegistryInv, RulesAreTheirAeps, stage = "serving" PROVE ServesAllRules
    BY DEF ServesAllRules
  <2>1. Complete
    BY DEF RegistryInv
  <2>2. (Len(packages) + 1) - 1 = Len(packages)
    BY PackageFacts DEF RegistryInv
  <2>3. registry = UNION {NamesOf(packages[m]) : m \in 1..Len(packages)}
    BY <2>1, <2>2 DEF Complete, Passed
  <2>4. program = "plugin" =>
          DOMAIN specs = registry /\ \A m, n \in registry : m # n => specs[m] # specs[n]
    <3> SUFFICES ASSUME program = "plugin"
                 PROVE  DOMAIN specs = registry
                        /\ \A m, n \in registry : m # n => specs[m] # specs[n]
      OBVIOUS
    <3>1. /\ DOMAIN specs = registry /\ registry \subseteq Seq(STRING) /\ packages \in Packages
          /\ \A name \in registry : HasSpec(name) /\ specs[name] = RuleID(name)
      BY DEF RegistryInv, WithSpecs
    <3>2. ASSUME NEW m \in registry, NEW n \in registry, specs[m] = specs[n] PROVE m = n
      BY <3>1, <3>2, DifferentNames
    <3> QED
      BY <3>1, <3>2
  <2> QED
    BY <2>1, <2>3, <2>4 DEF ServesAllRules, Complete, Apart
<1> QED
  BY <1>1, RegisteredUnderItsAep, InitRegistry, RegistryStep, PTL DEF Spec

-----------------------------------------------------------------------------
(* A check comes to an end.                                                *)

(* Where the program is; what is left of the loop over the packages, the   *)
(* names, the request's files or the rules; of the loop in that; and of    *)
(* the batch.                                                              *)
InRule == pc \in {"rule", "adding"}

Phase ==
  IF stage = "fatal" \/ pc \in {"done", "failed", "crashed"} THEN 0
  ELSE IF stage = "add" THEN 5
  ELSE IF stage = "specs" THEN 4
  ELSE IF pc = "start" THEN 3
  ELSE IF pc = "before" THEN 2 ELSE 1

Outer ==
  IF pc \in {"handlers", "rule", "adding"} THEN Cardinality(waiting)
  ELSE IF pc = "before" THEN Len(req.files) + 1 - k
  ELSE IF stage = "add" THEN Len(packages) + 1 - pkg
  ELSE IF stage = "specs" THEN Cardinality(unvisited) ELSE 0

Inner ==
  IF pc = "rule" THEN 2 * (Len(files) + 1 - k) + 1
  ELSE IF pc = "adding" THEN 2 * (Len(files) + 1 - k)
  ELSE IF pc = "start" /\ AddingPackage THEN Len(Package.names) + 1 - pos ELSE 0

Left == <<Phase, Outer, Inner, IF pc = "adding" THEN Len(batch) ELSE 0>>

Less == LexProductOrdering(OpToRel(<, Nat), Nat, 4)

Closer == <<Left', Left>> \in Less

(* No endless sequence gets less and less.                                 *)
LEMMA LessComesToAnEnd == IsWellFoundedOn(Less, [1..4 -> Nat])
BY NatLessThanWellFounded, WFLexProductOrdering DEF Less

LEMMA Fours ==
  ASSUME NEW a \in Nat, NEW b \in Nat, NEW c \in Nat, NEW d \in Nat
  PROVE  <<a, b, c, d>> \in [1..4 -> Nat]
<1>1. <<a, b, c, d>> \in Seq(Nat) /\ Len(<<a, b, c, d>>) = 4
  OBVIOUS
<1>2. <<a, b, c, d>> \in [1..Len(<<a, b, c, d>>) -> Nat]
  BY <1>1, LenProperties
<1> QED
  BY <1>1, <1>2

LEMMA LessAt ==
  ASSUME NEW u \in [1..4 -> Nat], NEW v \in [1..4 -> Nat],
         \/ u[1] < v[1]
         \/ u[1] = v[1] /\ u[2] < v[2]
         \/ u[1] = v[1] /\ u[2] = v[2] /\ u[3] < v[3]
         \/ u[1] = v[1] /\ u[2] = v[2] /\ u[3] = v[3] /\ u[4] < v[4]
  PROVE  <<u, v>> \in Less
<1>1. PICK m \in 1..4 : (\A n \in 1..(m - 1) : u[n] = v[n]) /\ u[m] < v[m]
  <2>1. CASE u[1] < v[1]
    BY <2>1
  <2>2. CASE u[1] = v[1] /\ u[2] < v[2]
    <3>1. \A n \in 1..(2 - 1) : n = 1
      OBVIOUS
    <3> QED
      BY <2>2, <3>1
  <2>3. CASE u[1] = v[1] /\ u[2] = v[2] /\ u[3] < v[3]
    <3>1. \A n \in 1..(3 - 1) : n = 1 \/ n = 2
      OBVIOUS
    <3> QED
      BY <2>3, <3>1
  <2>4. CASE u[1] = v[1] /\ u[2] = v[2] /\ u[3] = v[3] /\ u[4] < v[4]
    <3>1. \A n \in 1..(4 - 1) : n = 1 \/ n = 2 \/ n = 3
      OBVIOUS
    <3> QED
      BY <2>4, <3>1
  <2> QED
    BY <2>1, <2>2, <2>3, <2>4
<1>2. <<u[m], v[m]>> \in OpToRel(<, Nat)
  BY <1>1 DEF OpToRel
<1> QED
  BY <1>1, <1>2 DEF Less, LexProductOrdering

(* What Left counts is finite.                                             *)
FiniteInv ==
  /\ stage \in {"add", "specs", "serving", "fatal"}
  /\ pc # "start" => stage = "serving"
  /\ IsFiniteSet(registry) /\ IsFiniteSet(unvisited)
  /\ IsFiniteSet(DOMAIN specs) /\ IsFiniteSet(waiting)
  /\ pc = "start" \/ IsFiniteSet(req.selected)

LEMMA InitFinite == Init => FiniteInv
BY FS_EmptySet DEF Init, StartInit, FiniteInv

LEMMA FiniteStart ==
  ASSUME FiniteInv, StartNext, UNCHANGED checkVars
  PROVE  FiniteInv'
<1> USE DEF FiniteInv, checkVars
<1>1. pc = "start" /\ pc' = "start"
  BY DEF StartNext, RegisterRule, RefuseRule, NextPackage, RulesAdded, MakeSpec, RefuseSpec,
         SpecsMade, Registering, AddingPackage
<1>2. CASE RegisterRule
  BY <1>1, <1>2, FS_AddElement DEF RegisterRule
<1>3. CASE RefuseRule \/ NextPackage \/ SpecsMade
  BY <1>1, <1>3 DEF RefuseRule, NextPackage, SpecsMade
<1>4. CASE RulesAdded
  BY <1>1, <1>4 DEF RulesAdded
<1>5. ASSUME NEW name \in unvisited, MakeSpec(name) PROVE FiniteInv'
  <2>1. IsFiniteSet(unvisited \ {name}) /\ IsFiniteSet(DOMAIN specs \cup {name})
    BY FS_RemoveElement, FS_AddElement
  <2>2. unvisited' = unvisited \ {name} /\ DOMAIN specs' = DOMAIN specs \cup {name}
    BY <1>5 DEF MakeSpec
  <2> QED
    BY <1>1, <1>5, <2>1, <2>2 DEF MakeSpec
<1>6. ASSUME NEW name \in unvisited, RefuseSpec(name) PROVE FiniteInv'
  BY <1>1, <1>6 DEF RefuseSpec
<1> QED
  BY <1>2, <1>3, <1>4, <1>5, <1>6 DEF StartNext

LEMMA FiniteCheck ==
  ASSUME FiniteInv, CheckNext, UNCHANGED startVars
  PROVE  FiniteInv'
<1> USE DEF FiniteInv, startVars
<1>1. CASE Receive
  BY <1>1, FS_Subset DEF Receive
<1>2. CASE Before
  BY <1>2 DEF Before
<1>3. ASSUME NEW r \in waiting, CallHandler(r) PROVE FiniteInv'
  BY <1>3, FS_RemoveElement DEF CallHandler
<1>4. CASE PickFile \/ BeforeFails
  BY <1>4 DEF PickFile, BeforeFails
<1>5. CASE RunRule \/ RulePanics \/ AddProblem \/ RejectProblem \/ NextFile \/ HandlerReturns \/ Answer
  BY <1>5 DEF RunRule, RulePanics, AddProblem, RejectProblem, NextFile, HandlerReturns, Answer
<1> QED
  BY <1>1, <1>2, <1>3, <1>4, <1>5 DEF CheckNext

LEMMA FiniteStep == FiniteInv /\ [Next]_vars => FiniteInv'
<1>1. FiniteInv /\ UNCHANGED vars => FiniteInv'
  BY DEF FiniteInv, vars, startVars, checkVars
<1> QED
  BY <1>1, FiniteStart, FiniteCheck DEF Next, Over

Countable ==
  /\ FiniteInv
  /\ pc \in {"start", "before", "handlers", "rule", "adding", "done", "failed", "crashed"}
  /\ Len(packages) + 1 - pkg \in Nat /\ pkg \in Nat /\ Len(packages) \in Nat
  /\ stage = "add" /\ pkg <= Len(packages) =>
       /\ Len(Package.names) \in Nat /\ pos \in Nat
       /\ Len(Package.names) + 1 - pos \in Nat
  /\ pc = "before" =>
       Len(req.files) \in Nat /\ k \in Nat /\ Len(req.files) + 1 - k \in Nat
  /\ Len(files) \in Nat
  /\ InRule => k \in Nat /\ Len(files) + 1 - k \in Nat
  /\ pc = "adding" => k <= Len(files) /\ batch \in Seq(Problem) /\ Len(batch) \in Nat

LEMMA LeftIsCountable ==
  ASSUME FiniteInv, PluginInv, RegistryInv
  PROVE  Countable
<1>1. /\ Len(packages) + 1 - pkg \in Nat /\ pkg \in Nat /\ Len(packages) \in Nat
  BY PackageFacts DEF RegistryInv
<1>2. stage = "add" /\ pkg <= Len(packages) =>
       /\ Len(Package.names) \in Nat /\ pos \in Nat
       /\ Len(Package.names) + 1 - pos \in Nat
  <2> SUFFICES ASSUME stage = "add", pkg <= Len(packages)
               PROVE  /\ Len(Package.names) \in Nat /\ pos \in Nat
                      /\ Len(Package.names) + 1 - pos \in Nat
    OBVIOUS
  <2>1. pkg \in 1..Len(packages)
    BY PackageFacts DEF RegistryInv
  <2>2. Len(Package.names) \in Nat
    BY <2>1, PackageFacts DEF RegistryInv, Package
  <2>3. pos \in Nat /\ pos <= Len(Package.names) + 1
    BY DEF RegistryInv, WhileAdding
  <2> QED
    BY <2>2, <2>3
<1>3. pc = "before" =>
       Len(req.files) \in Nat /\ k \in Nat /\ Len(req.files) + 1 - k \in Nat
  <2>1. pc = "before" => Len(req.files) \in Nat /\ k \in 1..(Len(req.files) + 1)
    BY RequestFacts DEF PluginInv, WhileIdle
  <2> QED
    BY <2>1
<1>4. Len(files) \in Nat
  BY DEF PluginInv
<1>5. InRule => k \in Nat /\ Len(files) + 1 - k \in Nat
  <2>1. InRule => k \in 1..(Len(files) + 1)
    BY <1>4 DEF PluginInv, InHandler, InRule
  <2> QED
    BY <1>4, <2>1
<1>6. pc = "adding" => k <= Len(files) /\ batch \in Seq(Problem) /\ Len(batch) \in Nat
  <2>1. pc = "adding" => k \in 1..Len(files) /\ batch \in Seq(Problem)
    BY DEF PluginInv, InHandler
  <2> QED
    BY <1>4, <2>1, SequenceFacts
<1>7. pc \in {"start", "before", "handlers", "rule", "adding", "done", "failed", "crashed"}
  BY DEF PluginInv
<1> QED
  BY <1>1, <1>2, <1>3, <1>4, <1>5, <1>6, <1>7 DEF Countable

LEMMA LeftIsNatural ==
  ASSUME Countable
  PROVE  Left \in [1..4 -> Nat]
<1>1. Phase \in Nat
  BY DEF Phase
<1>2. Outer \in Nat
  BY FS_CardinalityType DEF Countable, Outer, FiniteInv
<1>3. Inner \in Nat
  <2>1. CASE pc = "start" /\ AddingPackage
    BY <2>1 DEF Countable, Inner, AddingPackage
  <2>2. CASE InRule
    <3>1. Len(files) + 1 - k \in Nat
      BY <2>2 DEF Countable
    <3>2. 2 * (Len(files) + 1 - k) \in Nat /\ 2 * (Len(files) + 1 - k) + 1 \in Nat
      BY <3>1
    <3> QED
      BY <2>2, <3>2 DEF Inner, InRule
  <2> QED
    BY <2>1, <2>2 DEF Inner, InRule
<1>4. (IF pc = "adding" THEN Len(batch) ELSE 0) \in Nat
  BY DEF Countable
<1> HIDE DEF Phase, Outer, Inner
<1> QED
  BY <1>1, <1>2, <1>3, <1>4, Fours DEF Left

LEMMA OneLess ==
  ASSUME NEW S, NEW x \in S, IsFiniteSet(S)
  PROVE  /\ Cardinality(S) \in Nat /\ Cardinality(S \ {x}) \in Nat
         /\ Cardinality(S \ {x}) < Cardinality(S)
<1>1. Cardinality(S) \in Nat /\ Cardinality(S \ {x}) \in Nat
  BY FS_RemoveElement, FS_CardinalityType
<1>2. Cardinality(S \ {x}) = Cardinality(S) - 1
  BY FS_RemoveElement
<1> QED
  BY <1>1, <1>2

(* What is left of n after m.                                              *)
LEMMA OneFewer ==
  ASSUME NEW n \in Nat, NEW m \in Nat, m <= n
  PROVE  /\ n + 1 - (m + 1) < n + 1 - m
         /\ 2 * (n + 1 - m) < 2 * (n + 1 - m) + 1
         /\ 2 * (n + 1 - (m + 1)) + 1 < 2 * (n + 1 - m)
OBVIOUS

LEMMA Decreases ==
  ASSUME Left \in [1..4 -> Nat], Left' \in [1..4 -> Nat],
         \/ Phase' < Phase
         \/ Phase' = Phase /\ Outer' < Outer
         \/ Phase' = Phase /\ Outer' = Outer /\ Inner' < Inner
         \/ /\ Phase' = Phase /\ Outer' = Outer /\ Inner' = Inner
            /\ pc = "adding" /\ pc' = "adding" /\ Len(batch') < Len(batch)
  PROVE  Closer
<1>1. /\ Left[1] = Phase /\ Left[2] = Outer /\ Left[3] = Inner
      /\ Left'[1] = Phase' /\ Left'[2] = Outer' /\ Left'[3] = Inner'
      /\ pc = "adding" => Left[4] = Len(batch)
      /\ pc' = "adding" => Left'[4] = Len(batch')
  BY DEF Left
<1> HIDE DEF Left, Phase, Outer, Inner
<1> QED
  BY <1>1, LessAt DEF Closer

LEMMA StartComesCloser ==
  ASSUME Countable, Left \in [1..4 -> Nat], Left' \in [1..4 -> Nat], StartNext, UNCHANGED checkVars
  PROVE  Closer
<1>1. pc = "start" /\ pc' = "start" /\ stage \in {"add", "specs"}
  BY DEF StartNext, RegisterRule, RefuseRule, NextPackage, RulesAdded, MakeSpec, RefuseSpec,
         SpecsMade, Registering, AddingPackage, Countable, FiniteInv, checkVars
<1>2. CASE RegisterRule
  <2>1. Phase' = Phase /\ Outer' = Outer
    BY <1>1, <1>2 DEF RegisterRule, Phase, Outer
  <2>2. Inner = Len(Package.names) + 1 - pos /\ Inner' = Len(Package.names) + 1 - (pos + 1)
    BY <1>1, <1>2 DEF RegisterRule, Registering, AddingPackage, Inner, Package
  <2>3. Len(Package.names) \in Nat /\ pos \in Nat /\ pos <= Len(Package.names)
    BY <1>2 DEF RegisterRule, Registering, AddingPackage, Countable
  <2>4. Inner' < Inner
    BY <2>2, <2>3, OneFewer
  <2> QED
    BY <2>1, <2>4, Decreases
<1>3. CASE RefuseRule \/ RulesAdded \/ SpecsMade
  <2>1. Phase' < Phase
    BY <1>1, <1>3 DEF RefuseRule, RulesAdded, SpecsMade, AddingPackage, Phase
  <2> QED
    BY <2>1, Decreases
<1>4. CASE NextPackage
  <2>1. Phase' = Phase
    BY <1>1, <1>4 DEF NextPackage, Phase
  <2>2. Outer = Len(packages) + 1 - pkg /\ Outer' = Len(packages) + 1 - (pkg + 1)
    BY <1>1, <1>4 DEF NextPackage, Outer, AddingPackage
  <2>3. Len(packages) \in Nat /\ pkg \in Nat /\ pkg <= Len(packages)
    BY <1>4 DEF NextPackage, AddingPackage, Countable
  <2>4. Outer' < Outer
    BY <2>2, <2>3, OneFewer
  <2> QED
    BY <2>1, <2>4, Decreases
<1>5. ASSUME NEW name \in unvisited, MakeSpec(name) PROVE Closer
  <2>1. Phase' = Phase
    BY <1>1, <1>5 DEF MakeSpec, Phase
  <2>2. Cardinality(unvisited \ {name}) < Cardinality(unvisited)
    BY OneLess DEF Countable, FiniteInv
  <2>3. Outer = Cardinality(unvisited) /\ Outer' = Cardinality(unvisited \ {name})
    BY <1>1, <1>5 DEF MakeSpec, Outer
  <2> QED
    BY <2>1, <2>2, <2>3, Decreases
<1>6. ASSUME NEW name \in unvisited, RefuseSpec(name) PROVE Closer
  <2>1. Phase' < Phase
    BY <1>1, <1>6 DEF RefuseSpec, Phase
  <2> QED
    BY <2>1, Decreases
<1> QED
  BY <1>2, <1>3, <1>4, <1>5, <1>6 DEF StartNext

LEMMA CheckComesCloser ==
  ASSUME Countable, Left \in [1..4 -> Nat], Left' \in [1..4 -> Nat], CheckNext, UNCHANGED startVars
  PROVE  Closer
<1>1. pc # "start" => stage = "serving"
  BY DEF Countable, FiniteInv
<1>2. CASE Receive \/ Before \/ BeforeFails \/ RulePanics \/ RejectProblem \/ Answer
  <2>1. Phase' < Phase
    BY <1>1, <1>2 DEF Receive, Before, BeforeFails, RulePanics, RejectProblem, Answer, Phase,
                      startVars
  <2> QED
    BY <2>1, Decreases
<1>3. CASE PickFile
  <2>1. Phase' = Phase
    BY <1>1, <1>3 DEF PickFile, Phase, startVars
  <2>2. Outer = Len(req.files) + 1 - k /\ Outer' = Len(req.files) + 1 - (k + 1)
    BY <1>3 DEF PickFile, Outer
  <2>3. Len(req.files) \in Nat /\ k \in Nat /\ k <= Len(req.files)
    BY <1>3 DEF PickFile, Countable
  <2>4. Outer' < Outer
    BY <2>2, <2>3, OneFewer
  <2> QED
    BY <2>1, <2>4, Decreases
<1>4. ASSUME NEW r \in waiting, CallHandler(r) PROVE Closer
  <2>1. Phase' = Phase
    BY <1>1, <1>4 DEF CallHandler, Phase, startVars
  <2>2. Cardinality(waiting \ {r}) < Cardinality(waiting)
    BY <1>4, OneLess DEF Countable, FiniteInv, CallHandler
  <2>3. Outer = Cardinality(waiting) /\ Outer' = Cardinality(waiting \ {r})
    BY <1>4 DEF CallHandler, Outer
  <2> QED
    BY <2>1, <2>2, <2>3, Decreases
<1>5. CASE RunRule \/ NextFile \/ HandlerReturns
  <2>1. Phase' = Phase /\ Outer' = Outer
    BY <1>1, <1>5 DEF RunRule, NextFile, HandlerReturns, Phase, Outer, startVars
  <2>2. k \in Nat /\ Len(files) \in Nat /\ Len(files) + 1 - k \in Nat
    BY <1>5 DEF RunRule, NextFile, HandlerReturns, Countable, InRule
  <2>3. Inner' < Inner
    <3>1. CASE RunRule
      <4>1. /\ Inner = 2 * (Len(files) + 1 - k) + 1 /\ Inner' = 2 * (Len(files) + 1 - k)
            /\ k <= Len(files)
        BY <3>1 DEF RunRule, Inner
      <4> QED
        BY <2>2, <4>1, OneFewer
    <3>2. CASE NextFile
      <4>1. /\ Inner = 2 * (Len(files) + 1 - k)
            /\ Inner' = 2 * (Len(files) + 1 - (k + 1)) + 1 /\ k <= Len(files)
        BY <3>2 DEF NextFile, Inner, Countable
      <4> QED
        BY <2>2, <4>1, OneFewer
    <3>3. CASE HandlerReturns
      BY <2>2, <3>3 DEF HandlerReturns, Inner
    <3> QED
      BY <1>5, <3>1, <3>2, <3>3
  <2> QED
    BY <2>1, <2>3, Decreases
<1>6. CASE AddProblem
  <2>1. Phase' = Phase /\ Outer' = Outer /\ Inner' = Inner /\ pc = "adding" /\ pc' = "adding"
    BY <1>1, <1>6 DEF AddProblem, Phase, Outer, Inner, startVars
  <2>2. batch \in Seq(Problem) /\ batch # <<>> /\ batch' = Tail(batch)
    BY <1>6 DEF AddProblem, Countable
  <2>3. Len(batch') < Len(batch)
    BY <2>2
  <2> QED
    BY <2>1, <2>3, Decreases
<1> QED
  BY <1>2, <1>3, <1>4, <1>5, <1>6 DEF CheckNext

(* Every step of the plugin's start and of a check leaves less to do, in   *)
(* an order in which nothing gets less for ever: whatever the packages,    *)
(* files, rules and problems, each comes to an end (rules/rules.go,        *)
(* lint/rule_registry.go, cmd/buf-plugin-aep/main.go; the run has          *)
(* StartAndCheckEnd).                                                      *)
THEOREM PluginComesCloser ==
  /\ IsWellFoundedOn(Less, [1..4 -> Nat])
  /\ Spec => [](Left \in [1..4 -> Nat]) /\ [][Closer]_vars
<1>1. FiniteInv /\ PluginInv /\ RegistryInv => Countable
  BY LeftIsCountable
<1>2. Countable => Left \in [1..4 -> Nat]
  BY LeftIsNatural
<1>3. Countable /\ Left \in [1..4 -> Nat] /\ (Left \in [1..4 -> Nat])' /\ [Next]_vars => [Closer]_vars
  <2>1. UNCHANGED vars => [Closer]_vars
    OBVIOUS
  <2> QED
    BY <2>1, StartComesCloser, CheckComesCloser DEF Next, Over
<1>4. Spec => [](Left \in [1..4 -> Nat]) /\ [][Closer]_vars
  BY <1>1, <1>2, <1>3, InitFinite, FiniteStep, InitPlugin, PluginStep, InitRegistry,
     RegistryStep, PTL DEF Spec
<1> QED
  BY <1>4, LessComesToAnEnd

=============================================================================
