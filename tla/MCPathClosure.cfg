\* Every one-hop relation over three terms, cyclic ones included, under every
\* pair of endpoints: three terms and two variables.
CONSTANTS
    Terms = {a, b, c}
    Variables = {x, y}

SPECIFICATION Spec
INVARIANTS TypeOK RowsAreReached AnswersAreDenoted
PROPERTY Terminates
\* The query is over once its answers are there.
CHECK_DEADLOCK FALSE
