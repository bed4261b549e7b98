-------------------------------- MODULE Shapes --------------------------------
(***************************************************************************)
(* Row-major arithmetic over shapes, which the planner of transfers and    *)
(* the tiling of buffers share.  A shape is a sequence of dimensions.      *)
(***************************************************************************)
EXTENDS Integers, Sequences, SequencesExt

Product(s) == FoldLeft(LAMBDA a, b : a * b, 1, s)
Stride(shape, d) == Product(SubSeq(shape, d + 1, Len(shape)))
Coords(i, shape) == [d \in DOMAIN shape |-> (i \div Stride(shape, d)) % shape[d]]
Linear(c, shape) ==
    FoldFunctionOnSet(+, 0, [d \in DOMAIN shape |-> c[d] * Stride(shape, d)], DOMAIN shape)

(* to_physical: dimensions from major to minor.                            *)
ToPhysical(s, minorToMajor) ==
    [i \in DOMAIN s |-> s[minorToMajor[Len(s) + 1 - i]]]

CeilDiv(a, b) == (a + b - 1) \div b
=============================================================================
