--------------------------- MODULE OperationRules ---------------------------
(***************************************************************************)
(* The rules of AEP-151 on methods that return an operation                *)
(* (rules/aep0151).                                                        *)
(***************************************************************************)
EXTENDS Method

IsLRO(d) == d.out = Operation
IsAnnotatedLRO(d) == IsLRO(d) /\ d.info.set

LroAnnotationExists(d) == When(IsLRO(d), Advice(~ d.info.set, [d EXCEPT !.info.set = TRUE]))

LroMetadata(d) ==
  When(IsAnnotatedLRO(d),
       Advice(d.info.metadata \in {NoName, Empty}, [d EXCEPT !.info.metadata = Bare("Metadata")]))

LroResponse(d) ==
  When(IsAnnotatedLRO(d),
       Advice(\/ d.info.response = NoName
              \/ d.info.response = Empty /\ d.verb \notin {"Delete", "BatchDelete"},
              [d EXCEPT !.info.response = Bare(d.noun)]))

(* Ignores no name, and names of other packages.                           *)
CheckReachable(d, m) ==
  Advice(m \notin {NoName, Empty} /\ ~ FindMessage(d, m), [d EXCEPT !.messages = @ \cup {m}])

LroMetadataReachable(d) == When(IsAnnotatedLRO(d), CheckReachable(d, d.info.metadata))

LroResponseReachable(d) == When(IsAnnotatedLRO(d), CheckReachable(d, d.info.response))

LroResponseUnary(d) == When(IsLRO(d), Advice(d.streaming, [d EXCEPT !.streaming = FALSE]))

OperationAdvice(d) ==
  UNION {LroAnnotationExists(d), LroMetadata(d), LroMetadataReachable(d), LroResponse(d),
         LroResponseReachable(d), LroResponseUnary(d)}

=============================================================================
