--------------------------- MODULE MCQueueRuntime ---------------------------
(* Instances of QueueRuntime for TLC. *)
EXTENDS QueueRuntime, TLC

CONSTANTS m1, m2, m3, c1, c2, s1, s2, s3

MCZeroMessage == [id |-> NoId, retry |-> 0]

\* Two consumers with a session each.
TwoConsumers == s1 :> c1 @@ s2 :> c2

\* One consumer that subscribes again under the same id.
SameConsumer == s1 :> c1 @@ s2 :> c1

OneSession == s1 :> c1
=============================================================================
