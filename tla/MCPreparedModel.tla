--------------------------- MODULE MCPreparedModel ---------------------------
(* Small instances of PreparedModel: two inputs, two outputs, two pools.   *)
EXTENDS PreparedModelRefinement

CONSTANTS e1, e2

\* Inputs 1 and 2, then outputs 1 and 2, as sequences.
Req(kinds, in, out, inLength, outLength, spec) ==
    [pools |-> kinds, in |-> in, out |-> out, inLength |-> inLength,
     outLength |-> outLength, specified |-> spec]

Exact == <<"exact", "exact">>
Ones  == <<1, 1>>

\* Everything in one pool.
OnePool  == Req(<<"ashmem">>, Ones, Ones, Exact, Exact, TRUE)
\* Inputs in the first pool, outputs spread over two.
TwoPools == Req(<<"ashmem", "mmap_fd">>, Ones, <<1, 2>>, Exact, Exact, TRUE)
\* The second (first) output's buffer has the wrong length.
ShortEnd == Req(<<"ashmem", "mmap_fd">>, <<1, 2>>, <<1, 2>>, Exact, <<"exact", "other">>, TRUE)
ShortTop == Req(<<"mmap_fd">>, Ones, Ones, Exact, <<"none", "exact">>, TRUE)
\* A driver-allocated pool, which the driver does not support.
Token    == Req(<<"ashmem", "token">>, Ones, <<1, 2>>, Exact, Exact, TRUE)
\* A location beyond the pools, and an output of unspecified size.
BadIndex == Req(<<"ashmem">>, <<1, 2>>, Ones, Exact, Exact, TRUE)
NoSize   == Req(<<"ashmem">>, Ones, Ones, Exact, Exact, FALSE)
\* An input that is omitted and one that is short, which the driver allows.
Partial  == Req(<<"ashmem">>, Ones, Ones, <<"none", "short">>, Exact, TRUE)
\* What nobody checks: no pools, an input beyond its blob, an output beyond its pool.
NoPools  == Req(<<>>, Ones, Ones, <<"none", "none">>, <<"none", "none">>, TRUE)
LongIn   == Req(<<"ashmem">>, Ones, Ones, <<"long", "exact">>, Exact, TRUE)
PastPool == Req(<<"ashmem">>, Ones, Ones, Exact, <<"outside", "exact">>, TRUE)

UncheckedRequests == {NoPools, LongIn, PastPool}
AllRequests == {OnePool, TwoPools, ShortEnd, ShortTop, Token, BadIndex, NoSize, Partial}
                 \cup UncheckedRequests
MixedRequests  == {TwoPools, ShortTop, NoPools}
OnePoolOnly    == {OnePool}
OneAndTwoPools == {OnePool, TwoPools}

Fences   == {<<>>, <<"fence">>, <<"fence", "null">>}
OneFence == {<<"fence">>}
NoFences == {<<>>}
==============================================================================
