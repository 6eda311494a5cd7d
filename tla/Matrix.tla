------------------------------- MODULE Matrix -------------------------------
(***************************************************************************)
(* The rows of a matrix (matrixRows, src/github_actions/matrix.ts), as the  *)
(* validation of a workflow and a scenario expand it.  Keys are compared    *)
(* ignoring case and are the same key here; a row is a function of keys.    *)
(***************************************************************************)
EXTENDS Naturals, Sequences, FiniteSets, SequencesExt, FiniteSetsExt, Functions

CONSTANTS
    Matrices,   \* axes, a sequence of [key, values]; and the rows to exclude and include
    MaxRows     \* bound of the code: 256 rows

\* What matrixRows and the type of a matrix demand of one: axes of different keys
\* that have values, and rows that are objects.
ASSUME MatricesAssumption == \A m \in Matrices :
    /\ m.axes \in Seq(Range(m.axes))
    /\ \A n \in DOMAIN m.axes : m.axes[n].values \in Seq(Range(m.axes[n].values)) \ {<<>>}
    /\ \A i, j \in DOMAIN m.axes : m.axes[i].key = m.axes[j].key => i = j
    /\ m.exclude \in Seq(Range(m.exclude)) /\ m.include \in Seq(Range(m.include))

VARIABLE matrix   \* the one that is expanded

MatrixInit == matrix \in Matrices

TooMany == "too many"

\* Every entry has its value in the row.
Matches(row, entry) ==
    \A key \in DOMAIN entry : key \in DOMAIN row /\ row[key] = entry[key]

\* The axes in order, the last one fastest.
Extended(row, entry) == [key \in DOMAIN row \cup DOMAIN entry |->
                            IF key \in DOMAIN entry THEN entry[key] ELSE row[key]]
Single(key, value) == [k \in {key} |-> value]
Widened(rows, axis) ==
    LET count == Len(axis.values)
    IN  [n \in 1 .. Len(rows) * count |->
            Extended(rows[(n - 1) \div count + 1],
                     Single(axis.key, axis.values[((n - 1) % count) + 1]))]
CombinationsOf(axes) ==
    LET rows[n \in 0 .. Len(axes)] ==
            IF n = 0 THEN <<[key \in {} |-> 0]>> ELSE Widened(rows[n - 1], axes[n])
    IN  rows[Len(axes)]

\* Those that no row to exclude describes.
Excluded(row, m) == \E n \in DOMAIN m.exclude : Matches(row, m.exclude[n])
Remaining(rows, m) ==
    LET kept[n \in 0 .. Len(rows)] ==
            IF n = 0 THEN <<>>
            ELSE IF Excluded(rows[n], m) THEN kept[n - 1] ELSE Append(kept[n - 1], rows[n])
    IN  kept[Len(rows)]
OriginalsOf(m) == IF m.axes = <<>> THEN <<>> ELSE Remaining(CombinationsOf(m.axes), m)

Agrees(row, entry) == \A key \in DOMAIN entry \cap DOMAIN row : row[key] = entry[key]

\* An entry to include extends every row whose original it agrees with, and is
\* a row of its own if there is none.
IncludeInRows(rows, originals, entry) ==
    LET agreeing == {n \in DOMAIN rows : Agrees(rows[n], entry)}
    IN  IF agreeing = {} THEN Append(rows, entry)
        ELSE [n \in DOMAIN rows |->
                IF n \in agreeing THEN Extended(rows[n], entry) ELSE rows[n]]
Include(rows, originals, entry) ==
    LET agreeing == {n \in DOMAIN originals : Agrees(originals[n], entry)}
    IN  IF agreeing = {} THEN Append(rows, entry)
        ELSE [n \in DOMAIN rows |->
                IF n \in agreeing THEN Extended(rows[n], entry) ELSE rows[n]]

IncludedIn(m, originals) ==
    LET rows[n \in 0 .. Len(m.include)] ==
            IF n = 0 THEN originals ELSE Include(rows[n - 1], originals, m.include[n])
    IN  rows[Len(m.include)]

\* Rows are only ever added, so the one beyond the limit is noticed at the end.
MatrixRows(m) ==
    LET rows == IncludedIn(m, OriginalsOf(m))
    IN  IF Len(rows) > MaxRows THEN TooMany ELSE rows

-----------------------------------------------------------------------------
(* Properties.                                                              *)

\* GitHub's definition: a row for every choice of a value of each axis that no
\* excluded entry describes, with the original values and, for any other key,
\* the value of the last entry included that fits the original ones; and a row
\* for every entry that fits none.  A choice is one of positions: a value that an
\* axis has twice is chosen twice.
Selections(axes) == {choice \in [DOMAIN axes -> UNION {DOMAIN axes[n].values : n \in DOMAIN axes}] :
                     \A n \in DOMAIN axes : choice[n] \in DOMAIN axes[n].values}
Chosen(axes, choice) == [key \in {axes[n].key : n \in DOMAIN axes} |->
    LET at == CHOOSE n \in DOMAIN axes : axes[n].key = key IN axes[at].values[choice[at]]]
Combined(m) == IF m.axes = <<>> THEN {}
    ELSE {choice \in Selections(m.axes) : ~Excluded(Chosen(m.axes, choice), m)}

Fits(entry, row) == \A key \in DOMAIN entry : key \in DOMAIN row => entry[key] = row[key]
Given(m, row) ==
    LET fitting == {n \in DOMAIN m.include : Fits(m.include[n], row)}
        naming(key) == {n \in fitting : key \in DOMAIN m.include[n]}
        added == (UNION {DOMAIN m.include[n] : n \in fitting}) \ DOMAIN row
    IN  [key \in DOMAIN row \cup added |->
            IF key \in DOMAIN row THEN row[key] ELSE m.include[Max(naming(key))][key]]
Alone(m) == {n \in DOMAIN m.include :
                \A choice \in Combined(m) : ~Fits(m.include[n], Chosen(m.axes, choice))}

\* The jobs of a matrix are those of GitHub's definition, each once, or the
\* matrix is refused because there are too many.
MatrixFollowsDefinition ==
    LET rows == MatrixRows(matrix)
        total == Cardinality(Combined(matrix)) + Cardinality(Alone(matrix))
    IN  IF total > MaxRows THEN rows = TooMany
        ELSE /\ Len(rows) = total
             /\ Range(rows) = {Given(matrix, Chosen(matrix.axes, choice)) :
                                  choice \in Combined(matrix)}
                    \cup {matrix.include[n] : n \in Alone(matrix)}

=============================================================================
