----------------------------- MODULE SourceInfo -----------------------------
(***************************************************************************)
(* The registry of compiled source maps (locations/locations.go), a Go map *)
(* without a lock, as the rule handlers of the buf plugin use it           *)
(* (cmd/buf-plugin-aep/main.go).  The plugin host runs at most Parallelism *)
(* handlers at a time.  A handler's rule asks for the locations of its     *)
(* problems, each with one call of pathLocation.                           *)
(***************************************************************************)
EXTENDS Integers, Sequences, FiniteSets

CONSTANTS
  Workers,        \* the rule handlers
  Parallelism,    \* check.MainWithParallelism
  Descriptors, FileOf,
  PathOf,         \* GetSourceInfo().GetPath() of a descriptor
  SpareRoom,      \* the descriptors whose path slice has spare capacity
  Locations,      \* file -> the paths of its SourceCodeInfo, in order
  Plans           \* the lists of calls a handler may make

Files == DOMAIN Locations

Call == [desc : Descriptors, suffix : Seq(Nat)]

ASSUME SourceInfoAssumption ==
  /\ IsFiniteSet(Workers)
  /\ Parallelism \in Nat \ {0}
  /\ FileOf \in [Descriptors -> Files]
  /\ PathOf \in [Descriptors -> Seq(Nat)]
  /\ \A f \in Files : Locations[f] \in Seq(Seq(Nat))
  /\ Plans \subseteq Seq(Call)

(* string(segment) is the UTF-8 text of one rune: a number that is not a   *)
(* code point becomes U+FFFD.  Each segment is one rune, so the text of a  *)
(* path, with its commas, stands for the sequence of its runes.            *)
IsCodePoint(n) == n \in 0..1114111 /\ n \notin 55296..57343

StrPath(path) ==
  [k \in DOMAIN path |-> IF IsCodePoint(path[k]) THEN path[k] ELSE 65533]

(* The compiled map: of the locations that share a key the last one stays. *)
Keys(f) == {StrPath(Locations[f][n]) : n \in DOMAIN Locations[f]}

Compile(f) ==
  [key \in Keys(f) |->
     CHOOSE n \in DOMAIN Locations[f] :
       /\ StrPath(Locations[f][n]) = key
       /\ \A m \in DOMAIN Locations[f] :
            StrPath(Locations[f][m]) = key => m <= n]

NoTable == <<>>         \* an empty source map
Nowhere == 0            \* the nil location

FindLocation(table, path) ==
  IF StrPath(path) \in DOMAIN table THEN table[StrPath(path)] ELSE Nowhere

-----------------------------------------------------------------------------

VARIABLES
  pc,         \* worker -> where it is
  todo,       \* worker -> its calls to come; the first is under way
  room,       \* descriptor -> what the spare room behind its path holds
  registry,   \* the cached source maps, by file
  table,      \* worker -> the source map it works with
  answers     \* worker -> the results of its calls: <<call, location>>

vars == <<pc, todo, room, registry, table, answers>>

Running == {w \in Workers : pc[w] \notin {"waiting", "ended"}}
Reading == {w \in Workers : pc[w] = "read"}
Writing == {w \in Workers : pc[w] = "write"}

Init ==
  /\ pc = [w \in Workers |-> "waiting"]
  /\ todo \in [Workers -> Plans]
  /\ room = [d \in Descriptors |-> <<>>]
  /\ registry = <<>>
  /\ table = [w \in Workers |-> NoTable]
  /\ answers = [w \in Workers |-> <<>>]

CallOf(w) == Head(todo[w])
FileIn(w) == FileOf[CallOf(w).desc]

Goto(w, place) == pc' = [pc EXCEPT ![w] = place]

(* Mutant: the host starts handlers as it likes.                           *)
StartUnlimited(w) ==
  /\ pc[w] = "waiting"
  /\ Goto(w, "next")
  /\ UNCHANGED <<todo, room, registry, table, answers>>

(* The host admits a handler.                                              *)
StartHandler(w) ==
  /\ pc[w] = "waiting"
  /\ Cardinality(Running) < Parallelism
  /\ Goto(w, "next")
  /\ UNCHANGED <<todo, room, registry, table, answers>>

(* pathLocation appends the suffix.  Where the descriptor's own slice has  *)
(* room, the appended numbers land in memory all callers share.            *)
AppendPath(w) ==
  /\ pc[w] = "next" /\ todo[w] # <<>>
  /\ room' = IF CallOf(w).desc \in SpareRoom
             THEN [room EXCEPT ![CallOf(w).desc] = CallOf(w).suffix]
             ELSE room
  /\ Goto(w, "read")
  /\ UNCHANGED <<todo, registry, table, answers>>

(* The lookup in the registry, over which other handlers' steps may come:  *)
(* at "read" it has begun, this step ends it.                              *)
ReadRegistry(w) ==
  /\ pc[w] = "read"
  /\ IF FileIn(w) \in DOMAIN registry
     THEN table' = [table EXCEPT ![w] = registry[FileIn(w)]] /\ Goto(w, "find")
     ELSE table' = [table EXCEPT ![w] = NoTable] /\ Goto(w, "compile")
  /\ UNCHANGED <<todo, room, registry, answers>>

CompileTable(w) ==
  /\ pc[w] = "compile"
  /\ table' = [table EXCEPT ![w] = Compile(FileIn(w))]
  /\ Goto(w, "write")
  /\ UNCHANGED <<todo, room, registry, answers>>

(* Mutant: the cache has one slot for all the files.                       *)
WriteOneSlot(w) ==
  /\ pc[w] = "write"
  /\ registry' = [f \in Files |-> table[w]]
  /\ Goto(w, "find")
  /\ UNCHANGED <<todo, room, table, answers>>

(* At "write" the assignment to the registry has begun, this step ends it. *)
WriteRegistry(w) ==
  /\ pc[w] = "write"
  /\ registry' = [f \in DOMAIN registry \cup {FileIn(w)} |->
                    IF f = FileIn(w) THEN table[w] ELSE registry[f]]
  /\ Goto(w, "find")
  /\ UNCHANGED <<todo, room, table, answers>>

(* The path the worker holds: a slice of the shared room, or its own copy. *)
FullPath(w) ==
  PathOf[CallOf(w).desc] \o
    (IF CallOf(w).desc \in SpareRoom THEN room[CallOf(w).desc] ELSE CallOf(w).suffix)

(* Mutant: the handler makes the same call for ever.                       *)
FindAgain(w) ==
  /\ pc[w] = "find"
  /\ Goto(w, "next")
  /\ UNCHANGED <<todo, room, registry, table, answers>>

Find(w) ==
  /\ pc[w] = "find"
  /\ answers' = [answers EXCEPT ![w] =
                   Append(@, <<CallOf(w), FindLocation(table[w], FullPath(w))>>)]
  /\ todo' = [todo EXCEPT ![w] = Tail(@)]
  /\ Goto(w, "next")
  /\ UNCHANGED <<room, registry, table>>

EndHandler(w) ==
  /\ pc[w] = "next" /\ todo[w] = <<>>
  /\ Goto(w, "ended")
  /\ UNCHANGED <<todo, room, registry, table, answers>>

Step(w) ==
  \/ StartHandler(w) \/ AppendPath(w) \/ ReadRegistry(w) \/ CompileTable(w)
  \/ WriteRegistry(w) \/ Find(w) \/ EndHandler(w)

AllEnded == (\A w \in Workers : pc[w] = "ended") /\ UNCHANGED vars

Next == (\E w \in Workers : Step(w)) \/ AllEnded

Spec == Init /\ [][Next]_vars

(* The Go scheduler runs every goroutine, and the host starts a waiting    *)
(* handler when another has ended.                                         *)
FairSpec == Spec /\ \A w \in Workers : WF_vars(Step(w))

-----------------------------------------------------------------------------

Results == {Nowhere} \cup UNION {{Compile(f)[key] : key \in Keys(f)} : f \in Files}

TypeOK ==
  /\ pc \in [Workers -> {"waiting", "next", "read", "compile", "write", "find", "ended"}]
  /\ todo \in [Workers -> Seq(Call)]
  /\ room \in [Descriptors -> Seq(Nat)]
  /\ DOMAIN registry \subseteq Files
  /\ DOMAIN table = Workers
  /\ answers \in [Workers -> Seq(Call \X Results)]

(* The Go runtime aborts the process when a map is written while another   *)
(* goroutine reads or writes it: with the parallelism the plugin asks for, *)
(* this cannot happen (main, cmd/buf-plugin-aep/main.go).                  *)
NoConcurrentMapAccess ==
  \A w \in Writing : Reading = {} /\ Writing = {w}

(* What a call returns does not depend on who filled the cache, on what    *)
(* ran before or on the slice the path was appended to: it is what a fresh *)
(* compilation gives for the path asked for (pathLocation).                *)
AnswersAreOwn ==
  \A w \in Workers : \A n \in DOMAIN answers[w] :
    LET c == answers[w][n][1]
    IN  answers[w][n][2] =
          FindLocation(Compile(FileOf[c.desc]), PathOf[c.desc] \o c.suffix)

(* Every handler ends.                                                     *)
HandlersEnd == <>(\A w \in Workers : pc[w] = "ended")

(* The inductive invariant when one handler runs at a time.                *)
OneRunning == \A v, w \in Running : v = w

CallInv ==
  \A w \in Workers :
    /\ pc[w] \in {"read", "compile", "write", "find"} =>
         /\ todo[w] # <<>>
         /\ CallOf(w).desc \in SpareRoom => room[CallOf(w).desc] = CallOf(w).suffix
    /\ pc[w] = "compile" => FileIn(w) \notin DOMAIN registry
    /\ pc[w] \in {"write", "find"} => table[w] = Compile(FileIn(w))

CacheInv == \A f \in DOMAIN registry : registry[f] = Compile(f)

SourceInfoInv == TypeOK /\ OneRunning /\ CallInv /\ CacheInv /\ AnswersAreOwn

=============================================================================
