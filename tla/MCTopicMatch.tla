---------------------------- MODULE MCTopicMatch ----------------------------
(* All keys of up to MaxLen segments over two words. *)
EXTENDS TopicMatch

CONSTANT MaxLen

Words == {"a", "b"}
Keys(S) == UNION {[1 .. n -> S] : n \in 1 .. MaxLen}

MCRoutingKeys == Keys(Words \cup {Star, Hash})
MCBindingKeys == {k \in Keys(Words \cup {Star, Hash}) : ValidKey(k)}
=============================================================================
