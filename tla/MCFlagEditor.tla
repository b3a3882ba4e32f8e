----------------------------- MODULE MCFlagEditor -----------------------------
(***************************************************************************)
(* Conditions that the API, or the page before, has stored, over the       *)
(* attributes plan and app, and the contexts that tell them apart; and     *)
(* flags that the API has stored, some of them in ways that the page never *)
(* would.                                                                  *)
(***************************************************************************)
EXTENDS FlagEditor

plan == Text("plan")
app == Text("app")
pro == Text("pro")
old == Text("1.2")
new == Text("1.2.1-rc")
newer == Text("1.2.2")

MCNumeral == Text("3") :> 3 @@ Text("5") :> 5
MCVersion == old :> <<1, 2>> @@ new :> <<1, 2, 1>> @@ newer :> <<1, 2, 2>>
MCSubstring == {<<t, t>> : t \in {pro, old, new}} \cup {<<Text(""), t>> : t \in {pro, old, new}}
MCPattern == {pro}
MCMatching == {<<pro, pro>>}
MCTrim == [p \in {"", "pro", "free", "plan", "app", "1.2", "1.2.1-rc"} |-> p] @@ " free" :> "free"

Is(attribute, op, value) == Apply(op, <<Var(attribute), Literal(value)>>)
IsPro == Is(plan, "==", Str(pro))
IsNew == Is(app, "semver>", Str(old))
Among == Is(plan, "in", List(<<Str(pro), Str(Text("free"))>>))

MCStored ==
    {IsPro, Is(plan, "==", Num(Text("3"))), Is(plan, "<", Num(Text("5"))),
     Is(plan, "matches", Str(pro)), Is(plan, "not contains", Str(pro)),
     Apply("!", <<Among>>), Apply("!", <<Apply("!", <<IsPro>>)>>),
     Is(plan, "in", List(<<Str(Text(" free"))>>)), Is(plan, "in", List(<<>>)),
     Apply("and", <<IsPro, Apply("or", <<Among, IsNew>>)>>),
     Apply("or", <<Apply("and", <<IsNew, Among>>), IsPro>>),
     Apply("or", <<Apply("and", <<IsNew, IsPro>>), Apply("and", <<Among, IsPro>>)>>),
     Apply("and", <<Apply("and", <<IsPro, IsNew>>), Among>>),
     Apply("and", <<Apply("or", <<IsNew>>), IsPro>>), Apply("or", <<>>),
     Malformed, Literal(Bool(TRUE))}
EmptyStored == {NoCondition}

MCAttribute == {plan, app}
MCTyped == {<<"pro", " free">>, old}

MCContext ==
    {plan :> p @@ app :> a : p \in {Str(pro), Str(Text("free"))}, a \in {Str(old), Str(new)}}
    \cup {app :> Str(newer)}
    \cup {plan :> Num(Text("3")), app :> Str(pro)}

Strategy(variants, default, rollout) ==
    [variants |-> variants, default |-> default, rollout |-> rollout]
Flag(type, list, other, variant) ==
    [type |-> type, strategies |-> list,
     prerequisite |-> [flag |-> other, variant |-> variant]]

A == Variant("A", "true")
B == Variant("B", "false")
MCOpened ==
    {Flag("boolean", <<>>, "", ""),
     Flag("boolean", <<Strategy(<<A, B>>, "A", <<>>), Strategy(<<A>>, "A", <<>>)>>, "", ""),
     Flag("boolean", <<Strategy(<<B, A>>, "A", <<Bucket("B", 30), Bucket("A", 130)>>)>>,
          "other", "x"),
     Flag("object", <<Strategy(<<Variant("A", "{}")>>, "A", <<Bucket("A", 30)>>)>>,
          "other", "x"),
     Flag("number", <<>>, "", "x")}
NoneOpened == {Flag("boolean", <<>>, "", "")}
MCTypedPercentage == {Untyped, -5, 130}
MCOffered == [k \in {"other"} |-> {"x"}]
==============================================================================
