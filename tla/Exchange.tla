------------------------------ MODULE Exchange ------------------------------
(***************************************************************************)
(* internal/exchange: the binding table of an exchange and the routing     *)
(* rule of the three exchange types, as operators on a list of bindings.   *)
(* A key is the sequence of its dot-separated segments, as strings.Split   *)
(* makes it (the empty key is one empty segment).  NoKey is the empty      *)
(* string where it means "any key".                                        *)
(***************************************************************************)
EXTENDS Naturals, Sequences

CONSTANTS Star, Hash,       \* the segments "*" and "#"
          NoKey

Types == {"direct", "fanout", "topic"}

Segments(key) == {key[i] : i \in 1 .. Len(key)}

\* validateBindingKey: no empty key, and "#" only as the last segment.
ValidKey(key) == Len(key) > 0 /\ \A i \in 1 .. Len(key) - 1 : key[i] # Hash

\* A binding of queue q that key selects (every one, when key is NoKey).
Selected(b, key, q) == b.queue = q /\ key \in {NoKey, b.key}

HasBinding(bs, key, q) == \E i \in 1 .. Len(bs) : Selected(bs[i], key, q)

Bind(bs, key, q) == Append(bs, [queue |-> q, key |-> key])

\* The elements of bs at the indices in K, in their order: what slices.DeleteFunc
\* leaves, and what the loops of Route collect.
Kept(bs, K) ==
  LET f[i \in 0 .. Len(bs)] ==
        IF i = 0 THEN <<>> ELSE IF i \in K THEN Append(f[i - 1], bs[i]) ELSE f[i - 1]
  IN f[Len(bs)]

\* Mutant of Unbind: one binding is left although every one was asked for.
UnbindExact(bs, key, q) == Kept(bs, {i \in 1 .. Len(bs) : ~(bs[i].queue = q /\ bs[i].key = key)})

Unbind(bs, key, q) == Kept(bs, {i \in 1 .. Len(bs) : ~Selected(bs[i], key, q)})

\* TopicExchange.match: the value its loop returns.  A segment "#" of the routing
\* key is consumed by the "#" of the binding key like any other equal segment.
match(binding, routing) ==
  LET n == Len(binding)
      Consumed(k) == \A i \in 1 .. k : binding[i] \in {Star, routing[i]}
  IN \/ Len(routing) = n /\ Consumed(n)
     \/ /\ binding[n] = Hash /\ Len(routing) >= n - 1 /\ Consumed(n - 1)
        /\ Len(routing) >= n => routing[n] # Hash

\* Route: the bindings, in order, that take a message with this routing key.
Route(type, bs, routing) ==
  CASE type = "direct" -> Kept(bs, {i \in 1 .. Len(bs) : bs[i].key = routing})
    [] type = "fanout" -> bs
    [] type = "topic"  -> Kept(bs, {i \in 1 .. Len(bs) : match(bs[i].key, routing)})
=============================================================================
