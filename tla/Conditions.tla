------------------------------ MODULE Conditions ------------------------------
(***************************************************************************)
(* The inside of a stored condition: the JSONLogic trees of strategy.go.   *)
(* A node is a record [op, args, value].  Its op is an operator of the     *)
(* language, "literal" for a JSON value, or "malformed" for an object that *)
(* has not exactly one key or whose operator has no array of arguments.    *)
(*                                                                         *)
(* A text is the sequence of the pieces that its commas separate, each an  *)
(* opaque string, so that joining and splitting texts is concatenation.    *)
(* What the program asks about a piece of text is given by the constants.  *)
(***************************************************************************)
EXTENDS Integers, Sequences, FiniteSets, FiniteSetsExt, SequencesExt

CONSTANTS
    Numeral,    \* Numeral[t]: the number that the text t spells
    Version,    \* Version[t]: the parts of t less its suffix, all of them numbers
    Substring,  \* the pairs <<s, t>> of texts such that s occurs in t
    Pattern,    \* the texts that compile as regular expressions
    Matching,   \* the pairs <<pattern, text>> that match
    MaxHeight   \* bound: the height of a condition

\* Room for the conditions that the page makes: or, and, a group, a negation, a
\* comparison and what it compares.
ASSUME HeightAssumption == MaxHeight \in Nat /\ MaxHeight >= 5

Text(piece) == <<piece>>

Value(type, text, items) == [type |-> type, text |-> text, items |-> items]
Str(t)     == Value("string", t, <<>>)
Num(t)     == Value("number", t, <<>>)
Bool(b)    == Value("bool", Text(IF b THEN "true" ELSE "false"), <<>>)
List(vs)   == Value("list", <<>>, vs)
Nil        == Value("nil", Text("<nil>"), <<>>)
Error      == Value("error", <<>>, <<>>)

Node(op, args, value) == [op |-> op, args |-> args, value |-> value]
Literal(value)   == Node("literal", <<>>, value)
Var(attribute)   == Node("var", <<>>, Str(attribute))
Apply(op, args)  == Node(op, args, Nil)
Malformed        == Node("malformed", <<>>, Nil)
NoCondition      == Node("none", <<>>, Nil)     \* no condition is stored
NullCondition    == Literal(Nil)                \* the literal null is stored

-----------------------------------------------------------------------------
(* Comparisons. *)

\* fmt.Sprint; a list is printed between brackets.
Sprint(v) ==
    IF v.type = "list"
    THEN Text("[") \o FlattenSeq([i \in DOMAIN v.items |-> v.items[i].text]) \o Text("]")
    ELSE v.text

\* compareNumbers: only a JSON number is one, a numeral in a string is not.
CompareNumbers(l, r, order) ==
    IF l.type = "number" /\ r.type = "number"
    THEN Bool(IF order = ">" THEN Numeral[l.text] > Numeral[r.text]
              ELSE Numeral[l.text] < Numeral[r.text])
    ELSE Error

\* compareSemver: the missing parts of a version are 0, the first two parts
\* that differ decide.
CompareSemver(l, r) ==
    LET Part(v, i) == IF i <= Len(v) THEN v[i] ELSE 0
        a == Version[Sprint(l)]
        b == Version[Sprint(r)]
        differing == {i \in 1 .. 3 : Part(a, i) # Part(b, i)}
    IN  IF differing = {} THEN 0
        ELSE IF Part(a, Min(differing)) < Part(b, Min(differing)) THEN -1 ELSE 1

CompareSemverOp(l, r, outcome) ==
    IF {Sprint(l), Sprint(r)} \subseteq DOMAIN Version
    THEN Bool(CompareSemver(l, r) = outcome) ELSE Error

RegexMatch(value, pattern) ==
    IF Sprint(pattern) \in Pattern
    THEN Bool(<<Sprint(pattern), Sprint(value)>> \in Matching) ELSE Error

MembershipCheck(needle, haystack) ==
    CASE haystack.type = "list" ->
           Bool(\E i \in DOMAIN haystack.items : Sprint(haystack.items[i]) = Sprint(needle))
      [] haystack.type = "string" -> Bool(<<Sprint(needle), haystack.text>> \in Substring)
      [] OTHER -> Error

\* "!" and the negated checks: an error stays one.
Negation(v) == IF v.type = "bool" THEN Bool(v = Bool(FALSE)) ELSE Error

ApplyOperator(op, l, r) ==
    CASE op = "=="           -> Bool(Sprint(l) = Sprint(r))
      [] op = "!="           -> Bool(Sprint(l) # Sprint(r))
      [] op \in {">", "<"}   -> CompareNumbers(l, r, op)
      [] op = "in"           -> MembershipCheck(l, r)
      [] op = "not in"       -> Negation(MembershipCheck(l, r))
      [] op = "contains"     -> MembershipCheck(r, l)
      [] op = "not contains" -> Negation(MembershipCheck(r, l))
      [] op = "semver>"      -> CompareSemverOp(l, r, 1)
      [] op = "semver<"      -> CompareSemverOp(l, r, -1)
      [] op = "semver="      -> CompareSemverOp(l, r, 0)
      [] op = "matches"      -> RegexMatch(l, r)
      [] OTHER               -> Error

-----------------------------------------------------------------------------
(* Trees. *)

\* evalBoolChain: the first argument that is not neutral decides, and it is an
\* error if it is no boolean; what comes after it is not evaluated.
EvalBoolChain(op, values) ==
    LET neutral == Bool(op = "and")
        deciding == {i \in DOMAIN values : values[i] # neutral}
        decision == values[Min(deciding)]
    IN  IF deciding = {} THEN neutral
        ELSE IF decision.type = "bool" THEN decision ELSE Error

\* Below(node)[h]: the nodes h levels below a node.
Below(node) ==
    LET below[h \in 0 .. MaxHeight] ==
          IF h = 0 THEN {node} ELSE UNION {ToSet(n.args) : n \in below[h - 1]}
    IN  below
Subnodes(node) == UNION {Below(node)[h] : h \in 0 .. MaxHeight}

\* evalNode, given the values of the arguments, in a context, which maps attributes
\* to values.
Evaluated(node, args, x) ==
    CASE node.op = "literal" -> node.value
      [] node.op = "var" ->
           LET first == IF node.args = <<>> THEN Literal(node.value) ELSE Head(node.args)
               name == IF first.op = "literal" THEN first.value ELSE Nil
           IN  IF name.type # "string" THEN Error
               ELSE IF name.text \in DOMAIN x THEN x[name.text] ELSE Nil
      [] node.op \in {"and", "or"} -> EvalBoolChain(node.op, args)
      [] node.op = "!" -> IF Len(args) = 1 THEN Negation(Head(args)) ELSE Error
      [] OTHER ->
           IF Len(args) # 2 \/ Error \in ToSet(args) THEN Error
           ELSE ApplyOperator(node.op, args[1], args[2])

EvalNode(node, x) ==
    LET value[n \in Subnodes(node)] ==
          Evaluated(n, [i \in DOMAIN n.args |-> value[n.args[i]]], x)
    IN  value[node]

\* evaluateCondition: what Targeting calls the outcome of a condition.
Outcome(condition, x) ==
    LET v == EvalNode(condition, x)
    IN  CASE condition = NoCondition -> "yes"
          [] v = Bool(TRUE)  -> "yes"
          [] v = Bool(FALSE) -> "no"
          [] OTHER -> "error"
==============================================================================
