--------------------------- MODULE BatchPipelineMC ---------------------------
(* Instances of BatchPipeline for TLC. *)
EXTENDS BatchPipeline

\* With a target of 5 and two files to a batch, 7 is larger than a batch, 3 is
\* large and 1 small.  One corpus for each way to pack up to three specs.
EveryPacking ==
    {<<3>>, <<7, 1>>, <<3, 1>>, <<7, 3, 3>>, <<3, 1, 1>>, <<7, 1, 1>>, <<3, 3, 1>>}
OneOrTwo == {1, 2}
=============================================================================
