\* Tables with up to two constraints at first, two spellings of one name and a
\* generated name, one change by another session.
CONSTANTS
    a = a  sys = sys  c1 = c1  c2 = c2
    Words = {a}
    SystemWords = {sys}
    Columns = {c1, c2}
    MaxChanges = 1
SPECIFICATION Spec
INVARIANTS
    StableConstraintsAreFound
    RaisesOnlyForTwoNames
    FoundNamesCanBeDropped
    FieldsHaveTheirColumn
