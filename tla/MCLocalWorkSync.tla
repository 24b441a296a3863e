--------------------------- MODULE MCLocalWorkSync ---------------------------
EXTENDS LocalWorkSync, TLC

CONSTANTS a, b, t1, t2, i1, i2

OneRow == {a}
TwoRows == {a, b}
OneTab == {t1}
TwoTabs == {t1, t2}
TabSymmetry == Permutations(TwoTabs)

OneEdit == {i1}
TwoEdits == {i1, i2}
\* Two edits of one row: the second is built on the first.
SameRow == (i1 :> {a}) @@ (i2 :> {a})
OneRowEdit == (i1 :> {a})
\* A compound command over both rows beside an edit of one.
Compound2 == (i1 :> {a}) @@ (i2 :> {a, b})
=============================================================================
