----------------------------- MODULE Expressions -----------------------------
(***************************************************************************)
(* Expressions of GitHub Actions: their values, the syntax trees an author  *)
(* builds (src/github_actions/expression.ts), and conditions, which are     *)
(* text.  Text is a sequence of tokens; a reference to a context is one     *)
(* token, and so is a literal.                                              *)
(***************************************************************************)
EXTENDS Integers, Sequences

CONSTANTS
    Refs  \* references to task outputs, by their paths

\* Values: a number, a string that is not one, the empty string.
Literals == {"true", "false", "null", "0", "1", "''", "'t'"}

ASSUME RefsAssumption == Refs \cap Literals = {}

StatusFunctions == {"always", "success", "failure", "cancelled"}
Comparisons == {"==", "!="}
Orderings == {"<", "<=", ">", ">="}

IsString(v) == v \in {"''", "'t'"}
Truthy(v) == v \notin {"false", "null", "0", "''"}
Bool(b) == IF b THEN "true" ELSE "false"

\* numberValue; a string that is no number gives NaN, which equals nothing.
NumberValue(v) == CASE v \in {"false", "null", "0", "''"} -> {0}
                    [] v \in {"true", "1"} -> {1}
                    [] OTHER -> {}

\* equal: values of one type as they are, others as numbers.
Equal(v, w) ==
    IF IsString(v) /\ IsString(w) THEN v = w
    ELSE NumberValue(v) \cap NumberValue(w) # {}

\* less, likewise.
Less(v, w) ==
    IF IsString(v) /\ IsString(w) THEN v = "''" /\ w = "'t'"
    ELSE \E m \in NumberValue(v), n \in NumberValue(w) : m < n

-----------------------------------------------------------------------------
(* What an author builds: a tree, and the references whose presence it       *)
(* proves when it is true.                                                  *)

Leaf(text) == [kind |-> "leaf", text |-> text]  \* a literal, or a path
Unary(value) == [kind |-> "unary", value |-> value]
Binary(op, left, right) == [kind |-> "binary", op |-> op, left |-> left, right |-> right]
Call(name, args) == [kind |-> "call", name |-> name, args |-> args]

Plain(node) == [node |-> node, proofs |-> {}]
Present(ref) == [node |-> Binary("!=", Leaf(ref), Leaf("''")), proofs |-> {ref}]
And(e, f) == [node |-> Binary("&&", e.node, f.node), proofs |-> e.proofs \cup f.proofs]
OrKeepingProofs(e, f) ==
    [node |-> Binary("||", e.node, f.node), proofs |-> e.proofs \cup f.proofs]
Or(e, f) == Plain(Binary("||", e.node, f.node))
Not(e) == Plain(Unary(e.node))
Compare(op, e, f) == Plain(Binary(op, e.node, f.node))
CaseOf(p, e, f) == Plain(Call("case", <<p.node, e.node, f.node>>))

\* combineConditions, for a job that has a condition already; none is empty.
Combine(previous, next) ==
    IF previous = <<>> THEN next
    ELSE <<"(">> \o previous \o <<")", "&&", "(">> \o next \o <<")">>

-----------------------------------------------------------------------------
(* What a tree is by what its operands are: the clauses of the evaluator and *)
(* of the builder's table of types, whose recursion is in ExpressionText.    *)

Operands(node) ==
    CASE node.kind = "leaf" -> {}
      [] node.kind = "unary" -> {node.value}
      [] node.kind = "binary" -> {node.left, node.right}
      [] node.kind = "call" -> {node.args[n] : n \in DOMAIN node.args}

\* evalNode, where value has those of the operands, context gives every reference
\* its text and status says what the status functions return.
Conjunction(left, right) == IF Truthy(left) THEN right ELSE left
EvalBinary(op, left, right) ==
    CASE op = "&&" -> Conjunction(left, right)
      [] op = "||" -> IF Truthy(left) THEN left ELSE right
      [] op = "==" -> Bool(Equal(left, right))
      [] op = "!=" -> Bool(~Equal(left, right))
      [] op = "<" -> Bool(Less(left, right))
      [] op = ">" -> Bool(Less(right, left))
      [] op = "<=" -> Bool(Equal(left, right) \/ Less(left, right))
      [] op = ">=" -> Bool(Equal(left, right) \/ Less(right, left))
EvalNode(node, value, context, status) ==
    CASE node.kind = "leaf" ->
           IF node.text \in Literals THEN node.text ELSE context[node.text]
      [] node.kind = "unary" -> Bool(~Truthy(value[node.value]))
      [] node.kind = "call" /\ node.name = "always" -> "true"
      [] node.kind = "call" /\ node.name \in StatusFunctions \ {"always"} ->
           Bool(status[node.name])
      [] node.kind = "call" /\ node.name = "case" ->
           IF Truthy(value[node.args[1]]) THEN value[node.args[2]] ELSE value[node.args[3]]
      [] node.kind = "binary" -> EvalBinary(node.op, value[node.left], value[node.right])

\* expressionResults: may the result be falsy, truthy, a falsy value that is
\* no string, a truthy value that is no string?
Results(f, t, fn, tn) == [falsy |-> f, truthy |-> t, falsyNon |-> fn, truthyNon |-> tn]
BooleanResult == Results(TRUE, TRUE, TRUE, TRUE)
UnknownResult == Results(TRUE, TRUE, FALSE, FALSE)
ResultsOfLast(node, results) ==
    IF node.kind = "binary" /\ node.op \in {"&&", "||"} THEN results[node.right]
    ELSE IF node.kind = "leaf" /\ (node.text \notin Literals \/ IsString(node.text))
         THEN UnknownResult
    ELSE BooleanResult
ResultsNode(node, results) ==
    CASE node.kind = "leaf" /\ node.text \in Literals ->
           LET truthy == Truthy(node.text)
               non == ~IsString(node.text)
           IN  Results(~truthy, truthy, ~truthy /\ non, truthy /\ non)
      [] node.kind = "leaf" /\ node.text \in Refs -> UnknownResult
      [] node.kind = "call" /\ node.name \notin StatusFunctions ->
           UnknownResult
      [] node.kind = "binary" /\ node.op = "&&" ->
           LET l == results[node.left]
               r == results[node.right]
           IN  Results(l.falsy \/ (l.truthy /\ r.falsy), l.truthy /\ r.truthy,
                       l.falsyNon \/ (l.truthy /\ r.falsyNon), l.truthy /\ r.truthyNon)
      [] node.kind = "binary" /\ node.op = "||" ->
           LET l == results[node.left]
               r == results[node.right]
           IN  Results(l.falsy /\ r.falsy, l.truthy \/ (l.falsy /\ r.truthy),
                       l.falsy /\ r.falsyNon, l.truthyNon \/ (l.falsy /\ r.truthyNon))
      [] OTHER -> BooleanResult
NonString(results) == results.falsyNon \/ results.truthyNon

\* What the table takes for a string though it may be anything.
OpaqueNode(node, opaque) ==
    \/ node.kind = "call" /\ node.name = "case"
    \/ node.kind # "call" /\ \E operand \in Operands(node) : opaque[operand]

-----------------------------------------------------------------------------
(* Conditions, as a scenario takes them.                                    *)

Token(tokens, at) == IF at <= Len(tokens) THEN tokens[at] ELSE "end"

\* hasStatusFunction, and condition: without one, success comes first; value is
\* that of the text, if there is any.
HasStatusFunction(tokens) ==
    \E n \in DOMAIN tokens : tokens[n] \in StatusFunctions /\ Token(tokens, n + 1) = "("
HoldsWith(tokens, value, status) ==
    /\ status.success \/ HasStatusFunction(tokens)
    /\ tokens = <<>> \/ Truthy(value)

=============================================================================
