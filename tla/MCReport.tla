------------------------------ MODULE MCReport ------------------------------
(***************************************************************************)
(* Up to three responses, the last of them for the path of the first, with *)
(* up to two problems of three rules: spans within a line, over two lines, *)
(* from the descriptor only and missing.                                   *)
(***************************************************************************)
EXTENDS Report

MCNoLoc == <<>>
MCSpans == {<<0, 0, 5>>, <<3, 2, 9>>, <<1, 4, 2, 1>>}

Found ==
  [rule : {"r1", "r2"}, loc : {<<>>, <<3, 2, 9>>}, own : {<<0, 0, 5>>}] \cup
  {[rule |-> "r3", loc |-> <<1, 4, 2, 1>>, own |-> <<>>],
   [rule |-> "r1", loc |-> <<>>, own |-> <<>>]}

Lists == {<<>>} \cup {<<p>> : p \in Found} \cup {<<p, q>> : p, q \in Found}
Short == {<<>>, <<CHOOSE p \in Found : p.rule = "r2">>, <<CHOOSE p \in Found : p.rule = "r3">>}

MCReports ==
  {<<>>} \cup
  {<<[path |-> "a", problems |-> ps], [path |-> "b", problems |-> qs],
     [path |-> "a", problems |-> rs]>> : ps \in Lists, qs, rs \in Short}

=============================================================================
