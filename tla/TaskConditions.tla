--------------------------- MODULE TaskConditions ---------------------------
(***************************************************************************)
(* The conditions of TaskFlow, as expressions that are rendered, parsed and *)
(* evaluated.                                                               *)
(***************************************************************************)
EXTENDS TaskFlow, ExpressionText

\* A scenario parses a text and evaluates it.
EvaluatedText(text, context, given) == Eval(Parse(text), context, given)

-----------------------------------------------------------------------------
(* Properties.                                                              *)

\* What a scenario makes of a text is what the author built: no operator changes
\* its operands on the way through the text, and no condition those that it is
\* combined with.  With the clauses of Eval that is what the theorems about
\* TaskFlow rest on: a text is evaluated as the texts of its parts are.
RenderedMeansBuilt ==
    /\ building # Unset => Parse(Render(building.node)) = building.node
    /\ stage = "authoring" /\ when # NoCondition => \A condition \in Offered :
          Parse(Combine(when.text, condition.text)) =
              Binary("&&", Parse(when.text), Parse(condition.text))

=============================================================================
