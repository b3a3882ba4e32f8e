------------------------- MODULE MCFlagEvaluation -------------------------
(* FlagEvaluation with inputs of its own. *)
EXTENDS FlagEvaluation, TLC

CONSTANTS f1, f2, x1, c1

MCHolds == (c1 :> (x1 :> "yes"))

MCRule(variant, type) ==
    Draft(0, [condition |-> c1, isDefault |-> TRUE, defaultVariant |-> variant,
              rollout |-> <<>>, variants |-> (variant :> type)])
MCCreate(type, prereq) ==
    [type |-> type, prereq |-> prereq,
     prereqVariant |-> IF prereq = None THEN None ELSE "on",
     strategies |-> <<MCRule("on", type)>>, enabled |-> TRUE]
MCCreation ==
    {MCCreate("boolean", None), MCCreate("boolean", f1), MCCreate("string", None)}
Untouched == [strategies |-> Keep, enabled |-> Keep, prereq |-> Keep,
              prereqVariant |-> Keep]
MCPatch ==
    {[Untouched EXCEPT !.prereq = f2],
     [Untouched EXCEPT !.prereqVariant = "off",
                       !.strategies = <<MCRule("off", "boolean")>>]}
OneBucket == {[x \in KeyedContext |-> 0]}
=============================================================================
