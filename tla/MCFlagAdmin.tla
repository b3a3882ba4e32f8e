---------------------------- MODULE MCFlagAdmin ----------------------------
(* The inputs of the requests in each run of FlagAdmin. *)
EXTENDS FlagAdmin, TLC

CONSTANTS f1, f2, x1, x2, c1

\* c1 holds in x1, and fails in x2.
MCHolds == (c1 :> (x1 :> "yes" @@ x2 :> "error"))

MCStrategy(condition, isDefault, variant, rollout, type) ==
    [condition |-> condition, isDefault |-> isDefault, defaultVariant |-> variant,
     rollout |-> rollout, variants |-> ("on" :> type @@ "off" :> type)]
Plain(condition, variant, type) ==
    MCStrategy(condition, FALSE, variant, <<>>, type)

MCCreate(type, prereq, drafts) ==
    [type |-> type, prereq |-> prereq,
     prereqVariant |-> IF prereq = None THEN None ELSE "on",
     strategies |-> drafts, enabled |-> TRUE]
Untouched == [strategies |-> Keep, enabled |-> Keep, prereq |-> Keep,
              prereqVariant |-> Keep]

\* A flag is deleted and made again with another type, one of them switched off;
\* patches of each part of it.
ConcurrentCreation ==
    {MCCreate("boolean", None, <<Draft(0, Plain(c1, "on", "boolean"))>>),
     [MCCreate("string", None, <<Draft(0, Plain(c1, "on", "string"))>>)
        EXCEPT !.enabled = FALSE]}
ConcurrentPatch ==
    {[Untouched EXCEPT !.strategies = <<Draft(0, Plain(c1, "off", "boolean"))>>,
                       !.enabled = FALSE],
     [Untouched EXCEPT !.strategies = <<Draft(0, MCStrategy(c1, TRUE, "on", <<>>, "string")),
                                        Draft(1, Plain(Null, "on", "string"))>>],
     [Untouched EXCEPT !.prereq = f1],
     [Untouched EXCEPT !.enabled = TRUE]}

CyclicCreation ==
    {MCCreate("boolean", p,
        <<Draft(0, MCStrategy(c1, TRUE, "on", <<>>, "boolean"))>>) : p \in {f1, f2}}
OneBucket == {[x \in KeyedContext |-> 0]}
=============================================================================
