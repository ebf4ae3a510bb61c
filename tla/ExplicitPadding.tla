--------------------------- MODULE ExplicitPadding ---------------------------
(***************************************************************************)
(* SAME padding of convolutions and pools along one axis                   *)
(* (NgraphHelper.hpp:50-64), in exact integers.                            *)
(***************************************************************************)
EXTENDS Integers

\* Not the code: the size without the rounding up, as for VALID padding.
OutSizeFloor(in_size, stride) == in_size \div stride

\* The number of windows SAME asks for: one for each stride that begins.
OutSize(in_size, stride) == (in_size + stride - 1) \div stride

\* What the windows need, less what there is.
Missing(in_size, stride, filter_size) ==
    (OutSize(in_size, stride) - 1) * stride + filter_size - in_size

calculateExplicitPadding(in_size, stride, filter_size) ==
    LET missing == Missing(in_size, stride, filter_size)
        head    == missing \div 2
    IN  IF missing > 0 THEN [head |-> head, tail |-> missing - head]
        ELSE [head |-> 0, tail |-> 0]

-----------------------------------------------------------------------------
\* The windows of a size that fit into an axis of total elements.
Windows(total, stride, filter_size) == (total - filter_size) \div stride + 1

\* The padding makes room for one window per stride that begins in the input and
\* for no more, its halves differ by at most one, the tail being the larger, and
\* with one element less, p being the padding, a window would be missing
\* (utils.h:64-79).
PaddingFits(p, in_size, stride, filter_size) ==
    LET total  == in_size + p.head + p.tail
        wanted == CHOOSE n \in 0 .. in_size :
                     n * stride >= in_size /\ (n - 1) * stride < in_size
    IN  /\ Windows(total, stride, filter_size) = wanted
        /\ p.tail - p.head \in {0, 1}
        /\ p.tail > 0 => Windows(total - 1, stride, filter_size) = wanted - 1
==============================================================================
