------------------------------ MODULE RuleEditor ------------------------------
(***************************************************************************)
(* The targeting part of flag-editor.tsx for one strategy: how the page    *)
(* turns a stored condition into rows, lets them be edited, and turns them *)
(* into a condition again when it saves.  A leaf is a comparison of an     *)
(* attribute with a typed text; an item is a leaf of the top level (kind   *)
(* "row", the only one of its conditions) or a group of leaves, with the   *)
(* connector that joins it to the item above it.                           *)
(***************************************************************************)
EXTENDS Conditions

CONSTANTS
    Stored,         \* conditions that the API has stored
    Attribute,      \* the attributes that can be selected, texts
    Typed,          \* the texts that can be entered for a value
    Tried,          \* bound: the operators that edits select
    Context,        \* evaluation contexts
    Trim,           \* Trim[p]: a piece of text without its surrounding blanks
    MaxEdits,       \* bound: changes made to the page
    MaxItems,       \* bound: items of a form
    MaxGroup        \* bound: leaves of a group

COMBINATORS == {"and", "or"}
OPERATORS ==
    {"==", "!=", ">", "<", "in", "not in", "contains", "not contains",
     "semver>", "semver<", "semver=", "matches"}

Undefined == "undefined"    \* the connector of an item that has none

\* A text, whose pieces are those that the page can be shown.
Piece == DOMAIN Trim
Texts == Seq(Piece) \ {<<>>}

\* What a JSON document can have for a node.
IsNode(n) ==
    /\ n.args \in Seq(ToSet(n.args)) /\ n.value.items \in Seq(ToSet(n.value.items))
    /\ n.op = "literal" => n.args = <<>>
    /\ \A v \in {n.value} \cup ToSet(n.value.items) : v.type = "string" => v.text \in Texts
IsCondition(c) == \A n \in Subnodes(c) : IsNode(n)

ASSUME TextAssumption ==
    /\ "" \in Piece /\ \A p \in Piece : Trim[p] \in Piece
    /\ Attribute \cup Typed \subseteq Texts
ASSUME StoredAssumption == Stored # {} /\ \A c \in Stored : IsCondition(c)
ASSUME ContextAssumption == \A x \in Context : \A a \in DOMAIN x : x[a].type # "error"
ASSUME TriedAssumption == Tried \subseteq OPERATORS
ASSUME BoundAssumption == {MaxEdits, MaxItems, MaxGroup} \subseteq Nat

VARIABLES
    stored,     \* the condition in the database
    fetched,    \* the one the page has loaded
    form,       \* the rows on the page, [combinator, items]
    raw,        \* rawCondition: <<c>> if c is kept, as it has no rows, else <<>>
    saving,     \* <<c>> while a PATCH with the condition c is in flight, else <<>>
    edits

rowVars == <<stored, fetched, form, raw, saving, edits>>

Leaf(attribute, operator, value, negate) ==
    [attribute |-> attribute, operator |-> operator, value |-> value, negate |-> negate]
BlankLeaf == Leaf(Text(""), "==", Text(""), FALSE)

Item(kind, combinator, leaves, connector) ==
    [kind |-> kind, combinator |-> combinator, conditions |-> leaves, connector |-> connector]
Row(leaf, connector) == Item("row", "and", <<leaf>>, connector)

-----------------------------------------------------------------------------
(* From a condition to rows. *)

\* Mutant of ListIsEditable: values need not be trimmed.
ListIsEditableUntrimmed(value) ==
    /\ value.type = "list" /\ value.items # <<>>
    /\ \A i \in DOMAIN value.items :
          value.items[i].type = "string" /\ Len(value.items[i].text) = 1

\* Only a list of trimmed strings without a comma survives being shown as a text.
ListIsEditable(value) ==
    /\ value.type = "list" /\ value.items # <<>>
    /\ \A i \in DOMAIN value.items :
          /\ value.items[i].type = "string"
          /\ Len(value.items[i].text) = 1
          /\ Trim[value.items[i].text[1]] = value.items[i].text[1]

IsEditableLeaf(condition) ==
    LET leaf == IF condition.op = "!" /\ Len(condition.args) = 1
                THEN Head(condition.args) ELSE condition
    IN  /\ leaf.op \in OPERATORS
        /\ Len(leaf.args) = 2
        /\ leaf.args[1].op = "var" /\ leaf.args[1].args = <<>>
        /\ leaf.args[1].value.type = "string"
        /\ leaf.args[2].op = "literal"
        /\ IF leaf.op \in {"in", "not in"} THEN ListIsEditable(leaf.args[2].value)
           ELSE leaf.args[2].value.type = "string"

IsCombinatorGroup(condition) == condition.op \in COMBINATORS

\* A leaf, or a group whose members are leaves but for one group of leaves.
IsEditableCondition(condition) ==
    LET args == condition.args
        nested == {i \in DOMAIN args : ~IsEditableLeaf(args[i])}
    IN  \/ IsEditableLeaf(condition)
        \/ /\ IsCombinatorGroup(condition) /\ args # <<>>
           /\ Cardinality(nested) <= 1
           /\ \A i \in nested :
                 /\ IsCombinatorGroup(args[i]) /\ args[i].args # <<>>
                 /\ \A j \in DOMAIN args[i].args : IsEditableLeaf(args[i].args[j])

ConditionToLeaf(condition) ==
    LET leaf == IF condition.op = "!" THEN Head(condition.args) ELSE condition
        right == leaf.args[2].value
    IN  Leaf(leaf.args[1].value.text, leaf.op,
             IF right.type = "list"
             THEN [i \in DOMAIN right.items |-> right.items[i].text[1]]
             ELSE right.text,
             condition.op = "!")

ConditionToItem(condition, connector) ==
    IF IsCombinatorGroup(condition)
    THEN Item("group", condition.op,
              [i \in DOMAIN condition.args |-> ConditionToLeaf(condition.args[i])], connector)
    ELSE Row(ConditionToLeaf(condition), connector)

\* The and groups below the top are shown as rows: the first is joined by the
\* combinator of the top, the others by "and".
ConditionToRule(condition) ==
    LET Members(node) == IF node.op = "and" THEN node.args ELSE <<node>>
        JoinedBy(i, j) == IF i = 1 /\ j = 1 THEN Undefined
                          ELSE IF j = 1 THEN condition.op ELSE "and"
        ItemsOf(i) == LET members == Members(condition.args[i])
                      IN  [j \in DOMAIN members |-> ConditionToItem(members[j], JoinedBy(i, j))]
    IN  IF IsCombinatorGroup(condition)
        THEN [combinator |-> condition.op,
              items |-> FlattenSeq([i \in DOMAIN condition.args |-> ItemsOf(i)])]
        ELSE [combinator |-> "and", items |-> <<Row(ConditionToLeaf(condition), Undefined)>>]

\* parseStrategy: the rows, or what is kept in their place.
ParsedForm(condition) ==
    IF IsEditableCondition(condition) THEN ConditionToRule(condition)
    ELSE [combinator |-> "and", items |-> <<Row(BlankLeaf, Undefined)>>]
ParsedRaw(condition) ==
    IF IsEditableCondition(condition) THEN <<>> ELSE <<condition>>

-----------------------------------------------------------------------------
(* From rows to a condition. *)

LeafToCondition(leaf) ==
    LET value == IF leaf.operator \in {"in", "not in"}
                 THEN List([i \in DOMAIN leaf.value |-> Str(Text(Trim[leaf.value[i]]))])
                 ELSE Str(leaf.value)
        node == Apply(leaf.operator, <<Var(leaf.attribute), Literal(value)>>)
    IN  IF leaf.negate THEN Apply("!", <<node>>) ELSE node

ItemToCondition(item) ==
    IF item.kind = "group"
    THEN Apply(item.combinator,
               [i \in DOMAIN item.conditions |-> LeafToCondition(item.conditions[i])])
    ELSE LeafToCondition(Head(item.conditions))

\* Mutant of Connector: the items are all joined as the top of the rule was.
ConnectorOfTheRule(rule, i) == rule.combinator

Connector(rule, i) ==
    IF rule.items[i].connector = Undefined THEN rule.combinator ELSE rule.items[i].connector

\* Runs of items joined by "and" are the alternatives of an "or".
RuleToCondition(rule) ==
    LET items == rule.items
        \* The alternatives of the items from the i-th on.
        segments[i \in DOMAIN items] ==
          LET node == ItemToCondition(items[i])
              rest == segments[i + 1]
          IN  IF i = Len(items) THEN <<<<node>>>>
              ELSE IF Connector(rule, i + 1) = "or" THEN <<<<node>>>> \o rest
              ELSE <<<<node>> \o Head(rest)>> \o Tail(rest)
        Joined(op, nodes) == IF Len(nodes) = 1 THEN Head(nodes) ELSE Apply(op, nodes)
    IN  Joined("or", [k \in DOMAIN segments[1] |-> Joined("and", segments[1][k])])

\* What save sends: rawCondition ?? ruleToCondition(...).  The API shows a
\* strategy without a condition, and one with the literal null, as null.
Payload ==
    IF raw \in {<<>>, <<NoCondition>>, <<NullCondition>>}
    THEN RuleToCondition(form) ELSE Head(raw)

-----------------------------------------------------------------------------
(* The edits. *)

\* An edit of the rows, which are disabled while a raw condition is kept.
EditRows(items) ==
    /\ raw = <<>>
    /\ edits < MaxEdits
    /\ form' = [form EXCEPT !.items = items]
    /\ edits' = edits + 1
    /\ UNCHANGED <<stored, fetched, raw, saving>>

AddCondition ==
    /\ Len(form.items) < MaxItems
    /\ EditRows(Append(form.items, Row(BlankLeaf, form.combinator)))

AddConditionGroup ==
    /\ Len(form.items) < MaxItems
    /\ EditRows(Append(form.items, Item("group", "and", <<BlankLeaf>>, form.combinator)))

UpdateConditionConnector(i, connector) ==
    /\ i > 1
    /\ EditRows([form.items EXCEPT ![i].connector = connector])

UpdateGroup(i, combinator) ==
    /\ form.items[i].kind = "group"
    /\ EditRows([form.items EXCEPT ![i].combinator = combinator])

AddGroupCondition(i) ==
    /\ form.items[i].kind = "group"
    /\ Len(form.items[i].conditions) < MaxGroup
    /\ EditRows([form.items EXCEPT ![i].conditions = Append(@, BlankLeaf)])

\* Mutant of RemoveCondition: the last item can be removed.
RemoveAnyCondition(i) == EditRows(RemoveAt(form.items, i))

\* removeCondition, and removeGroupCondition: the last one cannot be removed.
RemoveCondition(i) ==
    /\ Len(form.items) > 1
    /\ EditRows(RemoveAt(form.items, i))

RemoveGroupCondition(i, j) ==
    /\ form.items[i].kind = "group" /\ Len(form.items[i].conditions) > 1
    /\ EditRows([form.items EXCEPT ![i].conditions = RemoveAt(@, j)])

\* What the fields of a comparison change: selecting an attribute starts it anew.
Patched(leaf) ==
    {[leaf EXCEPT !.negate = ~@]}
      \cup {[leaf EXCEPT !.operator = op] : op \in Tried}
      \cup {[leaf EXCEPT !.value = value] : value \in Typed}
      \cup {[leaf EXCEPT !.attribute = attribute, !.value = Text(""), !.operator = "=="] :
              attribute \in Attribute}

\* updateCondition and updateGroupCondition.
UpdateCondition(i, j) ==
    \E leaf \in Patched(form.items[i].conditions[j]) :
       EditRows([form.items EXCEPT ![i].conditions[j] = leaf])

EditsRows ==
    \/ AddCondition
    \/ AddConditionGroup
    \/ \E i \in DOMAIN form.items :
          \/ \E op \in COMBINATORS : UpdateConditionConnector(i, op) \/ UpdateGroup(i, op)
          \/ AddGroupCondition(i)
          \/ RemoveCondition(i)
          \/ \E j \in DOMAIN form.items[i].conditions :
                RemoveGroupCondition(i, j) \/ UpdateCondition(i, j)

-----------------------------------------------------------------------------
(* The page and the API. *)

SendRows ==
    /\ saving = <<>>
    /\ saving' = <<Payload>>
    /\ UNCHANGED <<stored, fetched, form, raw, edits>>

StoreRows ==
    /\ saving # <<>>
    /\ stored' = Head(saving)
    /\ saving' = <<>>
    /\ UNCHANGED <<fetched, form, raw, edits>>

RefuseRows ==
    /\ saving # <<>>
    /\ saving' = <<>>
    /\ UNCHANGED <<stored, fetched, form, raw, edits>>

ShowRows(condition) ==
    /\ fetched' = condition
    /\ form' = ParsedForm(condition)
    /\ raw' = ParsedRaw(condition)

LoadRows == ShowRows(stored) /\ UNCHANGED <<stored, saving, edits>>

-----------------------------------------------------------------------------
\* The rows, what is kept for them and what is sent have their types.
Leaves ==
    [attribute : Texts, operator : OPERATORS, value : Texts, negate : BOOLEAN]
Items ==
    [kind : {"row", "group"}, combinator : COMBINATORS, conditions : Seq(Leaves) \ {<<>>},
     connector : COMBINATORS \cup {Undefined}]
RowsTypeOK ==
    /\ form \in [combinator : COMBINATORS, items : Seq(Items) \ {<<>>}]
    /\ \A i \in DOMAIN form.items :
          form.items[i].kind = "row" => Len(form.items[i].conditions) = 1
    /\ raw \in {<<>>, <<fetched>>}
    /\ edits \in 0 .. MaxEdits

\* How the page reads, from top to bottom: a row that fails is passed over with
\* the rest of its run of "and", one that errs ends the matter.
Verdict(value) ==
    CASE value = Bool(TRUE) -> "yes" [] value = Bool(FALSE) -> "no" [] OTHER -> "error"
LeafReads(leaf, x) ==
    LET left == IF leaf.attribute \in DOMAIN x THEN x[leaf.attribute] ELSE Nil
        among == Bool(\E i \in DOMAIN leaf.value : Text(Trim[leaf.value[i]]) = Sprint(left))
        value == CASE leaf.operator = "in"     -> among
                   [] leaf.operator = "not in" -> Negation(among)
                   [] OTHER -> ApplyOperator(leaf.operator, left, Str(leaf.value))
    IN  Verdict(IF leaf.negate THEN Negation(value) ELSE value)
ItemReads(item, x) ==
    LET neutral == IF item.combinator = "and" THEN "yes" ELSE "no"
        deciding == {j \in DOMAIN item.conditions : LeafReads(item.conditions[j], x) # neutral}
    IN  IF deciding = {} THEN neutral ELSE LeafReads(item.conditions[Min(deciding)], x)
FormReads(x) ==
    LET items == form.items
        Joins(i) == IF items[i].connector = Undefined THEN form.combinator
                    ELSE items[i].connector
        reads[i \in DOMAIN items] ==
          LET outcome == ItemReads(items[i], x)
              alternatives == {k \in i + 1 .. Len(items) : Joins(k) = "or"}
          IN  CASE outcome = "error" -> "error"
                [] outcome = "yes" ->
                     IF i = Len(items) \/ i + 1 \in alternatives THEN "yes" ELSE reads[i + 1]
                [] OTHER ->
                     IF alternatives = {} THEN "no" ELSE reads[Min(alternatives)]
    IN  reads[1]

\* Whatever the edits, the condition that would be saved (ruleToCondition) comes
\* to what the page reads, an error included, in every context.
SavedMeansShown ==
    LET condition == RuleToCondition(form)
    IN  \A x \in Context : Outcome(condition, x) = FormReads(x)

\* Opening a condition that says something, and saving the page as it opened,
\* leaves what the flag evaluates to, whether the condition came from the page
\* or from the API (parseStrategy and save are inverse in meaning).
UneditedSaveKeepsMeaning ==
    LET payload == Payload
    IN  (/\ form = ParsedForm(fetched)
         /\ raw = ParsedRaw(fetched)
         /\ fetched \notin {NoCondition, NullCondition}) =>
            \A x \in Context : Outcome(payload, x) = Outcome(fetched, x)

\* What the page says of a condition it has no rows for (the text of
\* unsupportedCondition in i18n.ts): it is preserved when you save.
OriginalIsPreserved ==
    raw # <<>> => \A x \in Context : Outcome(Payload, x) = Outcome(Head(raw), x)
==============================================================================
