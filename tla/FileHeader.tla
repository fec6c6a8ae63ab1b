----------------------------- MODULE FileHeader -----------------------------
(***************************************************************************)
(* fileHeader (lint/rule.go): the comment at the top of a file, which      *)
(* turns rules off for the whole file, found among the locations of the    *)
(* file's source information.                                              *)
(***************************************************************************)
EXTENDS Integers, Sequences

CONSTANTS
  Comments,   \* the texts of comments
  Infos,      \* the lists of locations considered
  Width       \* 2^32: asPos shifts the line by 32 bits

NoComment == "no comment"

(* "element" is the first number of the path; "detached" are the comments  *)
(* above the leading one that a blank line separates from it.              *)
Location ==
  [element : Nat, line : Nat, column : 0..Width - 1,
   leading : Comments \cup {NoComment}, detached : SUBSET Comments]

ASSUME FileHeaderAssumption ==
  /\ Width \in Nat \ {0}
  /\ NoComment \notin Comments
  /\ \A list \in Infos : list \in Seq(Location)

VARIABLES
  info,       \* the file's locations, in the order of its source information
  k,          \* the location the loop is at
  firstLoc,   \* the index of the best location so far, 0 for nil
  firstSpan,  \* its position
  header,     \* the answer
  found        \* the function has returned

headerVars == <<info, k, firstLoc, firstSpan, header, found>>

Start ==
  /\ k = 1 /\ firstLoc = 0 /\ firstSpan = 0
  /\ header = {} /\ found = FALSE

HeaderInit == info \in Infos /\ Start

-----------------------------------------------------------------------------

HasComments(loc) == loc.leading # NoComment \/ loc.detached # {}

(* The package (2), import (3), option (8) and syntax (12) statements.     *)
IsAllowed(loc) == loc.element \in {2, 3, 8, 12}

(* Mutant, which the runs must refuse: the column is added to the line.    *)
AsSum(loc) == loc.line + loc.column

asPos(loc) == loc.line * Width + loc.column

IsCandidate(loc) == HasComments(loc) /\ IsAllowed(loc)

Looking == k <= Len(info)
Curr == info[k]

SkipLocation ==
  /\ Looking
  /\ ~ IsCandidate(Curr)
  /\ k' = k + 1
  /\ UNCHANGED <<info, firstLoc, firstSpan, header, found>>

TakeLocation ==
  /\ Looking
  /\ IsCandidate(Curr)
  /\ firstLoc = 0 \/ asPos(Curr) < firstSpan
  /\ k' = k + 1
  /\ firstLoc' = k /\ firstSpan' = asPos(Curr)
  /\ UNCHANGED <<info, header, found>>

PassLocation ==
  /\ Looking
  /\ IsCandidate(Curr)
  /\ firstLoc # 0 /\ asPos(Curr) >= firstSpan
  /\ k' = k + 1
  /\ UNCHANGED <<info, firstLoc, firstSpan, header, found>>

(* The detached comments, or else the leading one.                         *)
CommentsAt(loc) == IF loc.detached # {} THEN loc.detached ELSE {loc.leading}

ReturnHeader ==
  /\ ~ Looking /\ ~ found
  /\ found' = TRUE
  /\ header' = IF firstLoc = 0 THEN {} ELSE CommentsAt(info[firstLoc])
  /\ UNCHANGED <<info, k, firstLoc, firstSpan>>

HeaderNext == SkipLocation \/ TakeLocation \/ PassLocation \/ ReturnHeader

HeaderSpec == HeaderInit /\ [][HeaderNext]_headerVars

-----------------------------------------------------------------------------

HeaderTypeOK ==
  /\ k \in 1..Len(info) + 1
  /\ firstLoc \in 0..Len(info)
  /\ firstSpan \in Nat
  /\ header \subseteq Comments /\ found \in BOOLEAN

(* m is above n in the text of the file.                                   *)
Above(m, n) ==
  \/ m.line < n.line
  \/ m.line = n.line /\ m.column < n.column

Statements == {n \in 1..Len(info) : IsCandidate(info[n])}

IsFirst(n) == n \in Statements /\ \A m \in Statements : ~ Above(info[m], info[n])

(* The header is that of the first statement with a comment in the text of *)
(* the file, wherever it is in the source information: a comment on a      *)
(* message or further down never speaks for the whole file, and no header  *)
(* is lost.                                                                *)
HeaderIsFirst ==
  found =>
    \/ Statements = {} /\ header = {}
    \/ \E n \in Statements : IsFirst(n) /\ header = CommentsAt(info[n])

(* Of the locations the loop has passed, it holds the first one.           *)
BestSoFar ==
  /\ found => ~ Looking
  /\ firstLoc = 0 => \A n \in Statements : n >= k
  /\ firstLoc # 0 =>
       /\ firstLoc \in Statements
       /\ firstLoc < k
       /\ firstSpan = asPos(info[firstLoc])
       /\ \A n \in Statements : n < k => firstSpan <= asPos(info[n])

=============================================================================
