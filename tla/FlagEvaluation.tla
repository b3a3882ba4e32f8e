---------------------------- MODULE FlagEvaluation ----------------------------
(***************************************************************************)
(* The evaluation that reads the database: flag.Service.Evaluate, and      *)
(* EvaluateAll one flag at a time, which the playground and the router     *)
(* without a store use.  FindByKey is a query for the flag and three       *)
(* preloads, none of them in a transaction, and each prerequisite is found *)
(* in its turn, while FlagAdmin goes on.                                   *)
(***************************************************************************)
EXTENDS FlagAdmin

VARIABLES
    evalPc,     \* "idle", the next query, or "resolve"
    asked, evalEnv, evalContext,    \* what the evaluation is of
    next,       \* the key to find next
    chain,      \* the flags loaded, the one asked for first
    answers,    \* the last answer, <<>> before it
    dirty       \* history: a transaction committed since the evaluation began

evalVars == <<evalPc, asked, evalEnv, evalContext, next, chain, answers, dirty>>
allVars == <<vars, evalVars>>

Visited == {chain[i].key : i \in DOMAIN chain}
Last == chain[Len(chain)]

EvalInit ==
    /\ evalPc = "idle" /\ asked = None /\ evalEnv = None /\ evalContext = None /\ next = None
    /\ chain = <<>> /\ answers = <<>> /\ dirty = FALSE

\* Bound: one evaluation, and the requests until it answers.  It leaves nothing
\* behind for the next.
Ask(k, e, x) ==
    /\ evalPc = "idle" /\ answers = <<>>
    /\ evalPc' = "find" /\ next' = k /\ asked' = k /\ evalEnv' = e /\ evalContext' = x
    /\ UNCHANGED <<chain, answers, dirty, vars>>

Read(from, to) ==
    /\ evalPc = from /\ evalPc' = to
    /\ UNCHANGED <<asked, evalEnv, evalContext, answers, dirty, vars>>

\* Mutant of FindRow: a flag that is not found is looked up again.
FindRowRetries ==
    /\ evalPc = "find" /\ flag[next] # None
    /\ Read("find", "configs") /\ UNCHANGED next
    /\ chain' = Append(chain,
         [key |-> next, id |-> flag[next].id, type |-> flag[next].type,
          archived |-> flag[next].archived, enabled |-> FALSE,
          prereq |-> flag[next].prereq,
          prereqVariant |-> flag[next].prereqVariant, rules |-> <<>>])

\* The row of the flag; if there is none, what has been loaded decides.
FindRow ==
    /\ evalPc = "find"
    /\ IF flag[next] = None
       THEN /\ Read("find", "resolve") /\ next' = None /\ UNCHANGED chain
       ELSE /\ Read("find", "configs") /\ UNCHANGED next
            /\ chain' = Append(chain,
                 [key |-> next, id |-> flag[next].id, type |-> flag[next].type,
                  archived |-> flag[next].archived, enabled |-> FALSE,
                  prereq |-> flag[next].prereq,
                  prereqVariant |-> flag[next].prereqVariant, rules |-> <<>>])

\* A preload finds the rows of the flag that was found; they go with it.
Preloaded(value, otherwise) ==
    IF flag[next] # None /\ flag[next].id = Last.id THEN value ELSE otherwise

PreloadConfigs ==
    /\ Read("configs", "strategies") /\ UNCHANGED next
    /\ chain' = [chain EXCEPT ![Len(chain)].enabled =
         Preloaded(Load(flag[next], evalEnv).enabled, FALSE)]

PreloadStrategies ==
    /\ Read("strategies", "variants") /\ UNCHANGED next
    /\ chain' = [chain EXCEPT ![Len(chain)].rules =
         Preloaded(Load(flag[next], evalEnv).rules, <<>>)]

\* The catalogs of the strategies that are still there: a strategy replaced since
\* has lost its own.
WithVariants(rules, stored) ==
    [p \in DOMAIN rules |->
       IF p \in DOMAIN stored /\ stored[p].save = rules[p].save THEN rules[p]
       ELSE [rules[p] EXCEPT !.variants = <<>>]]

\* With the flag complete, its prerequisite is next, unless the guards of
\* resolveWithPrerequisites stop there.
PreloadVariants ==
    LET goesOn == /\ Last.prereq # None
                  /\ Last.prereq \notin Visited
                  /\ Cardinality(Visited) < MaxPrerequisiteDepth
    IN  /\ Read("variants", IF goesOn THEN "find" ELSE "resolve")
        /\ next' = IF goesOn THEN Last.prereq ELSE None
        /\ chain' = [chain EXCEPT ![Len(chain)].rules =
             WithVariants(@, Preloaded(Load(flag[next], evalEnv).rules, <<>>))]

\* Mutant of Resolution: a prerequisite that could not be found is no obstacle.
ResolutionLenient ==
    LET resolve[i \in DOMAIN chain] ==
          IF chain[i].prereq = None \/ i = Len(chain)
          THEN Evaluate(chain[i], evalContext)
          ELSE AfterPrerequisite(chain[i], resolve[i + 1], evalContext)
    IN  IF chain = <<>> THEN Failure ELSE resolve[1]

\* The flags loaded are resolved from the last to the first.
Resolution ==
    LET resolve[i \in DOMAIN chain] ==
          IF chain[i].prereq = None THEN Evaluate(chain[i], evalContext)
          ELSE IF i = Len(chain) THEN DefaultResult(chain[i], "PREREQUISITE_FAILED")
          ELSE AfterPrerequisite(chain[i], resolve[i + 1], evalContext)
    IN  IF chain = <<>> THEN Failure ELSE resolve[1]

Resolve ==
    /\ evalPc = "resolve"
    /\ answers' = <<Resolution>>
    /\ evalPc' = "idle"
    /\ UNCHANGED <<asked, evalEnv, evalContext, next, chain, dirty, vars>>

EvalStep ==
    \/ FindRow \/ PreloadConfigs \/ PreloadStrategies \/ PreloadVariants
    \/ Resolve

AdminStep ==
    /\ answers = <<>>
    /\ Administer
    /\ dirty' = (dirty \/ (evalPc # "idle" /\ changes' # changes))
    /\ UNCHANGED <<evalPc, asked, evalEnv, evalContext, next, chain, answers>>

EvalNext ==
    \/ AdminStep
    \/ \E k \in FlagKey, e \in Environment, x \in Context : Ask(k, e, x)
    \/ EvalStep

\* Queries are answered; nothing else has to happen.
EvalSpec ==
    /\ Init /\ EvalInit
    /\ [][EvalNext]_allVars
    /\ WF_allVars(EvalStep)

-----------------------------------------------------------------------------
(* Properties. *)

\* An evaluation that nothing changed under answers what the recursion over one
\* loaded scope does, loaded from the same tables: resolveWithPrerequisites and
\* resolveLoadedFlag are two copies of one recursion (ROADMAP.md:205), and must
\* stay equal.
AgreesWithLoaded ==
    answers # <<>> /\ ~dirty =>
       answers[1] = EvaluateLoaded(Loaded(evalEnv), asked, evalContext)

\* Every evaluation answers, be its flag deleted under it.
EvaluationEnds == (evalPc # "idle") ~> (evalPc = "idle")
==============================================================================
