----------------------------- MODULE TopicMatch -----------------------------
(***************************************************************************)
(* TopicExchange.match, step by step: the loop that walks a binding key    *)
(* and a routing key segment by segment.  The specification starts with    *)
(* any pair of keys and stops with the value that match returns.           *)
(***************************************************************************)
EXTENDS Exchange

CONSTANTS Segment, BindingKeys, RoutingKeys

\* Binding keys have passed validateBindingKey.  Routing keys are not validated.
ASSUME KeyAssumption ==
  /\ Star # Hash
  /\ BindingKeys \subseteq Seq(Segment) /\ RoutingKeys \subseteq Seq(Segment)
  /\ \A b \in BindingKeys : ValidKey(b)

VARIABLES bindingParts, routingParts, bi, ri, result

keys == <<bindingParts, routingParts>>
vars == <<keys, bi, ri, result>>

Init ==
  /\ bindingParts \in BindingKeys /\ routingParts \in RoutingKeys
  /\ bi = 0 /\ ri = 0 /\ result = "none"

Verdict(v) == IF v THEN "match" ELSE "mismatch"

InLoop == result = "none" /\ bi < Len(bindingParts) /\ ri < Len(routingParts)
btoken == bindingParts[bi + 1]
rtoken == routingParts[ri + 1]

\* case rtoken and case "*".
Consume ==
  /\ InLoop /\ btoken \in {rtoken, Star}
  /\ bi' = bi + 1 /\ ri' = ri + 1
  /\ UNCHANGED <<keys, result>>

\* case "#".
TakeRest ==
  /\ InLoop /\ btoken \notin {rtoken, Star} /\ btoken = Hash
  /\ result' = Verdict(bi = Len(bindingParts) - 1)
  /\ UNCHANGED <<keys, bi, ri>>

\* default.
Reject ==
  /\ InLoop /\ btoken \notin {rtoken, Star, Hash}
  /\ result' = Verdict(FALSE)
  /\ UNCHANGED <<keys, bi, ri>>

\* Mutant of AtEnd: the check for a trailing "#" is left out.
AtEndExact == bi = Len(bindingParts) /\ ri = Len(routingParts)

\* One of the keys is used up.
AtEnd ==
  \/ bi = Len(bindingParts) - 1 /\ bindingParts[bi + 1] = Hash
  \/ bi = Len(bindingParts) /\ ri = Len(routingParts)

LeaveLoop ==
  /\ result = "none" /\ ~InLoop
  /\ result' = Verdict(AtEnd)
  /\ UNCHANGED <<keys, bi, ri>>

Next == Consume \/ TakeRest \/ Reject \/ LeaveLoop

Spec == Init /\ [][Next]_vars

\* What the documentation says of "*" (one segment) and "#" (zero or more).
Matches(binding, routing) ==
  LET n == Len(binding)
      Agree(k) == \A i \in 1 .. k : binding[i] \in {Star, routing[i]}
  IN IF binding[n] = Hash THEN Len(routing) >= n - 1 /\ Agree(n - 1)
                          ELSE Len(routing) = n /\ Agree(n)

\* No segment of the routing key is the word "#" itself.  Such a segment, which
\* nothing forbids, is consumed by the segment "#" of a binding key.
Plain(key) == Hash \notin Segments(key)

\* The loop computes the relation that Route is defined with, and that relation
\* is what "*" and "#" are documented to mean, for every valid binding key and
\* every routing key without a segment "#": also when one key is a prefix of the
\* other, and when "#" stands for no segment at all.
MatchCorrect ==
  result # "none" =>
    /\ result = Verdict(match(bindingParts, routingParts))
    /\ Plain(routingParts) => result = Verdict(Matches(bindingParts, routingParts))
=============================================================================
