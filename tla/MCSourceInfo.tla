---------------------------- MODULE MCSourceInfo ----------------------------
(***************************************************************************)
(* Two files; two methods of the first share one handler's attention, one  *)
(* of them with spare room behind its path, and a method of the second.    *)
(* The google.api.http option's number (72295728) is beyond the last code  *)
(* point: it, and any other such element of a path, reads as 65533.        *)
(***************************************************************************)
EXTENDS SourceInfo, TLC

MCDescriptors == {"Get", "List", "Other"}
MCFileOf == "Get" :> "f" @@ "List" :> "f" @@ "Other" :> "g"
MCPathOf == "Get" :> <<6, 0, 2, 0>> @@ "List" :> <<6, 0, 2, 1>> @@ "Other" :> <<6, 0, 2, 0>>
Http == <<4, 72295728>>
MCLocations ==
  "f" :> <<<<6, 0, 2, 0>>, <<6, 0, 2, 0, 2>>, <<6, 0, 2, 1>> \o Http,
           <<6, 0, 2, 1, 4, 1051, 0>>, <<6, 0, 2, 1, 2>>>> @@
  "g" :> <<<<6, 0, 2, 0, 3>>, <<6, 0, 2, 0, 2>>>>

ask(d, s) == [desc |-> d, suffix |-> s]
MCPlans ==
  {<<ask("Get", <<2>>), ask("List", Http)>>,
   <<ask("Get", <<3>>), ask("Other", <<3>>)>>,
   <<ask("Get", Http)>>, <<ask("List", <<4, 1051, 0>>), ask("Get", <<2>>)>>}

=============================================================================
