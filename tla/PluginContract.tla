--------------------------- MODULE PluginContract ---------------------------
(***************************************************************************)
(* What a check by the buf plugin promises (cmd/buf-plugin-aep/main.go),   *)
(* as one step from the request to its end: every problem that a selected  *)
(* rule has on a file that is no import, each at its place and no other;   *)
(* or nothing at all, when one of them has no descriptor, a rule panics or *)
(* the files are not complete.                                             *)
(***************************************************************************)
EXTENDS Naturals, Sequences

CONSTANTS
  Checks,    \* the requests considered
  NoCheck,   \* before there is one
  NoDesc

VARIABLES check, answer

(* The files of a request that are no imports.                             *)
OwnOf(c) == {c.files[n].file : n \in {m \in DOMAIN c.files : ~ c.files[m].import}}

ProblemsOf(c, r, f) == {c.problems[r, f][n] : n \in DOMAIN c.problems[r, f]}

Panicking(c) == \E r \in c.selected : \E f \in OwnOf(c) : <<r, f>> \in c.panics

Misplaced(c) ==
  \E r \in c.selected : \E f \in OwnOf(c) : \E p \in ProblemsOf(c, r, f) : p.desc = NoDesc

(* At its own location, or else at its descriptor's, when either is known. *)
Where(c, p) ==
  IF p.located THEN "problem" ELSE IF p.desc \in c.sourced THEN "descriptor" ELSE "nowhere"

AnnotationsOf(c) ==
  UNION {UNION {{[rule |-> r, problem |-> p, place |-> Where(c, p)] : p \in ProblemsOf(c, r, f)} :
                  f \in OwnOf(c)} : r \in c.selected}

NoAnswer == [status |-> "none", annotations |-> {}]

IsAnswer(c, a) ==
  \/ /\ ~ c.malformed /\ ~ Panicking(c) /\ ~ Misplaced(c)
     /\ a = [status |-> "done", annotations |-> AnnotationsOf(c)]
  \/ (c.malformed \/ Misplaced(c)) /\ a = [NoAnswer EXCEPT !.status = "failed"]
  \/ ~ c.malformed /\ Panicking(c) /\ a = [NoAnswer EXCEPT !.status = "crashed"]

Init == check = NoCheck /\ answer = NoAnswer

Ask == check = NoCheck /\ check' \in Checks /\ UNCHANGED answer

Reply == check # NoCheck /\ answer = NoAnswer /\ IsAnswer(check, answer') /\ UNCHANGED check

Next == Ask \/ Reply

Spec == Init /\ [][Next]_<<check, answer>>

=============================================================================
