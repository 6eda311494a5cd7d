--------------------------- MODULE ExpressionText ---------------------------
(***************************************************************************)
(* The text that trees of expressions render to, the parser and evaluator   *)
(* that scenarios give it to (src/testing/expression.ts), and what the      *)
(* builder knows of the type of a result.                                   *)
(***************************************************************************)
EXTENDS Expressions, SequencesExt

\* renderNode.
RECURSIVE RenderBare(_)
RenderBare(node) ==
    CASE node.kind = "leaf" -> <<node.text>>
      [] node.kind = "unary" -> <<"!">> \o RenderBare(node.value)
      [] node.kind = "binary" -> RenderBare(node.left) \o <<node.op>> \o RenderBare(node.right)
      [] node.kind = "call" ->
           <<node.name, "(">> \o FlattenSeq([n \in DOMAIN node.args |->
               IF n = 1 THEN RenderBare(node.args[n]) ELSE <<",">> \o RenderBare(node.args[n])])
           \o <<")">>
RECURSIVE Render(_)
Render(node) ==
    CASE node.kind = "leaf" -> <<node.text>>
      [] node.kind = "unary" -> <<"(", "!">> \o Render(node.value) \o <<")">>
      [] node.kind = "binary" ->
           <<"(">> \o Render(node.left) \o <<node.op>> \o Render(node.right) \o <<")">>
      [] node.kind = "call" ->
           <<node.name, "(">> \o FlattenSeq([n \in DOMAIN node.args |->
               IF n = 1 THEN Render(node.args[n]) ELSE <<",">> \o Render(node.args[n])])
           \o <<")">>

-----------------------------------------------------------------------------
(* What a scenario reads.                                                   *)

\* Parser: operators by level, loosest first; a result is a tree and the
\* position after it.
Operators == <<{"||"}, {"&&"}, Comparisons, Orderings>>

RECURSIVE ParseLevel(_, _, _), ParseRest(_, _, _), ParseArgs(_, _, _)
ParsePrimary(tokens, at) ==
    IF Token(tokens, at) = "!" THEN
        LET value == ParseLevel(tokens, at + 1, Len(Operators) + 1)
        IN  [node |-> Unary(value.node), next |-> value.next]
    ELSE IF Token(tokens, at) = "(" THEN
        LET inner == ParseLevel(tokens, at + 1, 1)
        IN  [inner EXCEPT !.next = @ + 1]
    ELSE IF Token(tokens, at + 1) = "(" THEN
        ParseArgs(tokens, at + 2, Call(tokens[at], <<>>))
    ELSE [node |-> Leaf(Token(tokens, at)), next |-> at + 1]
ParseArgs(tokens, at, call) ==
    IF Token(tokens, at) = ")" THEN [node |-> call, next |-> at + 1]
    ELSE LET start == IF Token(tokens, at) = "," THEN at + 1 ELSE at
             arg == ParseLevel(tokens, start, 1)
         IN  ParseArgs(tokens, arg.next, [call EXCEPT !.args = Append(@, arg.node)])
ParseLevel(tokens, at, level) ==
    IF level > Len(Operators) THEN ParsePrimary(tokens, at)
    ELSE ParseRest(tokens, ParseLevel(tokens, at, level + 1), level)
ParseRest(tokens, left, level) ==
    IF Token(tokens, left.next) \notin Operators[level] THEN left
    ELSE LET right == ParseLevel(tokens, left.next + 1, level + 1)
         IN  ParseRest(tokens,
                 [node |-> Binary(Token(tokens, left.next), left.node, right.node),
                  next |-> right.next], level)
Parse(tokens) == ParseLevel(tokens, 1, 1).node

\* evalNode.
RECURSIVE Eval(_, _, _)
Eval(node, context, status) ==
    EvalNode(node, [operand \in Operands(node) |-> Eval(operand, context, status)],
             context, status)

-----------------------------------------------------------------------------
(* What the builder knows of a result's type.                               *)

\* expressionResults.
RECURSIVE ExpressionResults(_)
ExpressionResults(node) ==
    ResultsNode(node, [operand \in Operands(node) |-> ExpressionResults(operand)])

RECURSIVE Opaque(_)
Opaque(node) == OpaqueNode(node, [operand \in Operands(node) |-> Opaque(operand)])

=============================================================================
