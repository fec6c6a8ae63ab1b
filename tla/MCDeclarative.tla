--------------------------- MODULE MCDeclarative ---------------------------
(***************************************************************************)
(* A package of two files, the second importing the first, with a resource *)
(* Seat and a message JoinRequest that may be a resource or the request of *)
(* a method; every choice of which methods there are and what they return. *)
(***************************************************************************)
EXTENDS Declarative, TLC

MCSees == "base" :> {"base"} @@ "api" :> {"api", "base"}

Join == <<"Join">>
JoinRequest == <<"Join", "Request">>
Seat == <<"Seat">>
ListSeats == <<"List", "Seats", "Response">>

Messages(request, listed, where) ==
  JoinRequest :> [file |-> where, resource |-> request, fields |-> <<>>] @@
  Seat :> [file |-> "base", resource |-> TRUE, fields |-> <<>>] @@
  <<"Drop", "Seat", "Request">> :> [file |-> where, resource |-> FALSE, fields |-> <<>>] @@
  ListSeats :> [file |-> "api", resource |-> FALSE, fields |-> listed]

(* What each method may be.                                                *)
Returning(S) == [file : {"api"}, response : S, info : {NoInfo}]
AnyMethod ==
  Returning({Empty, Operation, Seat, JoinRequest, ListSeats}) \cup
  [file : {"api"}, response : {Operation}, info : {JoinRequest, <<"Gone">>}]

Methods ==
  {Join :> a @@ <<"Delete", "Join", "Request">> :> b @@ <<"Drop", "Seat">> :> c
     @@ <<"Approve", "Drop", "Seat", "Request">> :> d :
     a, b \in AnyMethod, c \in Returning({Empty, JoinRequest}),
     d \in Returning({Empty, ListSeats})} \cup
  {<<"Delete", "Join", "Request">> :> b : b \in AnyMethod}

MCApis ==
  {[messages |-> Messages(request, listed, where), methods |-> m] :
     request \in BOOLEAN, listed \in {<<>>, <<Seat>>, <<JoinRequest>>},
     where \in {"base", "api"}, m \in Methods}

=============================================================================
