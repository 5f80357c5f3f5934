---------------------------- MODULE MCDataPaths ------------------------------
\* Instances of DataPaths for TLC.
EXTENDS DataPaths

\* Payloads of serial frames, with and without marks.
SomePayloads == { << 1, 0, 2 >>, << 1, 5, 6 >>, << 2, 4, 0 >>, << 2, 5, 6 >> }

\* Seven, three and six in the code; what matters is that they differ.
AnswerSizes == [A |-> 3, B |-> 2, identity |-> 4]

On(x, y) == [a \in Axes |-> IF a = "x" THEN x ELSE y]
Lens(kind, c) == [model |-> kind, size |-> On(8, 8), f |-> On(8, 4), c |-> c]
SomeLenses == {Lens("plumb_bob", On(4, 2)), Lens("equidistant", On(4, 6)), Lens("unknown", On(2, 4))}
SomeSizes == {On(8, 8), On(8, 4), On(4, 8), On(4, 4)}
SomeCrops == {-1, 1, 9}
==============================================================================
