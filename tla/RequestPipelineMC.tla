------------------------- MODULE RequestPipelineMC -------------------------
(* Instances of RequestPipeline for TLC. *)
EXTENDS RequestPipeline, TLC

CONSTANTS q1, q2, u1, u2

TwoRequests == {q1, q2}
\* Requests are interchangeable in every invariant the runs check.
RequestSymmetry == Permutations(Requests)
OneURL      == {u1}
TwoURLs     == {u1, u2}
\* Two URLs of one replay pattern whose matched values agree.
SamePattern == [u \in URLs |-> u1]

\* Every request a client can send.  Validation stands at both ends of the
\* chain and meets no table, so it is on with a plain upstream only.
AnyShape == {s \in Shape : s.validate => s.upstream = "plain"}
\* Replay requests the cache does not serve.
Replays  == {s \in AnyShape : /\ s.upstream = "plain" /\ s.method = "POST" /\ s.replay
                              /\ ~s.cache /\ ~s.validate}
=============================================================================
