---- MODULE MCMessageStream ----
EXTENDS MessageStream, TLC
Sizes == <<1, 4>>
AnyNumber == {-1, 2, 4}
Symmetry == Permutations(Overlappeds \ {Accepted})
====
