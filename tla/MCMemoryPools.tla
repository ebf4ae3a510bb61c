----------------------------- MODULE MCMemoryPools -----------------------------
(* Small instances of MemoryPools: two models, of up to two executions each, *)
(* in an address space of a few pages.                                       *)
EXTENDS MemoryPools, TLC

CONSTANTS m1, m2, p1, p2, p3

SomeModelPools == {<<>>, <<"ashmem", "mmap_fd">>}

SomeRequestPools ==
    {<<"mmap_fd">>, <<"ashmem", "mmap_fd">>, <<"mmap_fd", "ashmem">>,
     <<"hardware_buffer_blob", "other">>}

PageSymmetry == Permutations(Pages)
===============================================================================
