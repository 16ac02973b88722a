-------------------------- MODULE TopicMatchProofs --------------------------
(* TopicExchange.match is correct for keys of every length. *)
EXTENDS TopicMatch, TLAPS

\* A step that names no prover is given more time than the default.
USE SMTT(30), ZenonT(30)

\* The two indices move together, and everything behind them agrees.
LoopInv ==
  /\ bindingParts \in BindingKeys /\ routingParts \in RoutingKeys
  /\ bi \in 0 .. Len(bindingParts) /\ bi <= Len(routingParts) /\ ri = bi
  /\ \A i \in 1 .. bi : bindingParts[i] \in {Star, routingParts[i]}
  /\ result \in {"none", "match", "mismatch"}

\* The keys are sequences whose length is a number, and "#" can only be the last
\* segment of a binding key.
LEMMA KeyFacts ==
  ASSUME NEW b \in BindingKeys, NEW r \in RoutingKeys
  PROVE  /\ Len(b) \in Nat \ {0} /\ Len(r) \in Nat
         /\ \A i \in 1 .. Len(b) - 1 : b[i] # Hash
         /\ Plain(r) => \A i \in 1 .. Len(r) : r[i] # Hash
<1>1. b \in Seq(Segment) /\ r \in Seq(Segment) /\ ValidKey(b)
  BY KeyAssumption
<1>2. Len(b) \in Nat /\ Len(r) \in Nat
  BY <1>1
<1> QED
  BY <1>1, <1>2 DEF ValidKey, Segments, Plain

\* match returns what Route is defined with, for every valid binding key and every
\* routing key, whatever their lengths, and the documented verdict if the routing
\* key has no segment "#".
THEOREM TopicMatchCorrect == Spec => []MatchCorrect
<1> DEFINE Inv == LoopInv /\ MatchCorrect
           b == bindingParts
           r == routingParts
<1>1. Init => Inv
  BY KeyFacts DEF Init, LoopInv, MatchCorrect
<1>2. Inv /\ [Next]_vars => Inv'
  <2> SUFFICES ASSUME Inv, [Next]_vars PROVE Inv'
    OBVIOUS
  <2>1. /\ Len(b) \in Nat \ {0} /\ Len(r) \in Nat
        /\ \A i \in 1 .. Len(b) - 1 : b[i] # Hash
        /\ Plain(r) => \A i \in 1 .. Len(r) : r[i] # Hash
    BY KeyFacts DEF LoopInv
  <2>2. bi \in Nat /\ bi <= Len(b) /\ bi <= Len(r) /\ ri = bi
    BY <2>1 DEF LoopInv
  <2>3. Plain(r) => \A i \in 1 .. bi : b[i] # Hash
    BY <2>1, <2>2, KeyAssumption DEF LoopInv
  <2>4. CASE UNCHANGED vars
    BY <2>4 DEF vars, keys, LoopInv, MatchCorrect, Verdict, Matches, match, Plain
  <2>5. CASE Consume
    <3>1. UNCHANGED keys /\ bi' = bi + 1 /\ ri' = bi + 1 /\ result' = "none"
      BY <2>2, <2>5 DEF Consume, InLoop
    <3>2. bi < Len(b) /\ bi < Len(r) /\ b[bi + 1] \in {Star, r[bi + 1]}
      BY <2>2, <2>5 DEF Consume, InLoop, btoken, rtoken
    <3>3. \A i \in 1 .. bi + 1 : b[i] \in {Star, r[i]}
      BY <2>2, <3>2 DEF LoopInv
    <3>4. MatchCorrect'
      BY <3>1 DEF MatchCorrect
    <3>5. bi' \in 0 .. Len(b) /\ bi' <= Len(r) /\ ri' = bi'
      BY <2>1, <2>2, <3>1, <3>2
    <3>6. LoopInv'
      BY <3>1, <3>3, <3>5 DEF LoopInv, keys
    <3> QED
      BY <3>4, <3>6
  <2>6. CASE TakeRest
    <3>1. /\ UNCHANGED <<keys, bi, ri>> /\ bi < Len(b) /\ bi < Len(r) /\ b[bi + 1] = Hash
          /\ r[bi + 1] # Hash /\ result' = Verdict(bi = Len(b) - 1)
      BY <2>2, <2>6 DEF TakeRest, InLoop, btoken, rtoken, Verdict
    <3>2. bi = Len(b) - 1
      BY <2>1, <2>2, <3>1
    <3>3. Matches(b, r)
      BY <2>1, <2>2, <3>1, <3>2 DEF Matches, LoopInv
    <3>4. result' = "match"
      BY <3>1, <3>2 DEF Verdict
    <3>5. match(b, r)
      BY <2>1, <2>2, <3>1, <3>2 DEF match, LoopInv
    <3> QED
      BY <3>1, <3>3, <3>4, <3>5 DEF LoopInv, MatchCorrect, keys, Verdict
  <2>7. CASE Reject
    <3>1. /\ UNCHANGED <<keys, bi, ri>> /\ bi < Len(b) /\ bi < Len(r)
          /\ b[bi + 1] \notin {r[bi + 1], Star, Hash} /\ result' = "mismatch"
      BY <2>2, <2>7 DEF Reject, InLoop, btoken, rtoken, Verdict
    <3>2. ~Matches(b, r) /\ ~match(b, r)
      <4>1. bi + 1 \in 1 .. Len(b)
        BY <2>1, <2>2, <3>1
      <4>2. CASE b[Len(b)] = Hash
        <5>1. bi + 1 \in 1 .. Len(b) - 1
          BY <2>1, <2>2, <3>1, <4>2
        <5> QED
          BY <3>1, <4>1, <4>2, <5>1 DEF Matches, match
      <4>3. CASE b[Len(b)] # Hash
        BY <3>1, <4>1, <4>3 DEF Matches, match
      <4> QED
        BY <4>2, <4>3
    <3> QED
      BY <3>1, <3>2 DEF LoopInv, MatchCorrect, keys, Verdict
  <2>8. CASE LeaveLoop
    <3>1. /\ UNCHANGED <<keys, bi, ri>> /\ (bi = Len(b) \/ bi = Len(r))
          /\ result' = Verdict(AtEnd)
      BY <2>1, <2>2, <2>8 DEF LeaveLoop, InLoop
    <3>2. ASSUME Plain(r) PROVE AtEnd <=> Matches(b, r)
      <4>1. CASE b[Len(b)] = Hash
        <5>1. bi # Len(b)
          BY <2>1, <2>2, <2>3, <3>2, <4>1
        <5>2. bi = Len(r) /\ bi <= Len(b) - 1
          BY <2>1, <2>2, <3>1, <5>1
        <5>3. AtEnd <=> bi = Len(b) - 1
          BY <2>1, <2>2, <4>1, <5>1, <5>2 DEF AtEnd
        <5>4. Matches(b, r) <=> bi >= Len(b) - 1
          BY <2>1, <2>2, <4>1, <5>2 DEF Matches, LoopInv
        <5> QED
          BY <2>1, <2>2, <5>2, <5>3, <5>4
      <4>2. CASE b[Len(b)] # Hash
        <5>1. AtEnd <=> bi = Len(b) /\ bi = Len(r)
          BY <2>1, <2>2, <4>2 DEF AtEnd
        <5>2. Matches(b, r) <=> bi = Len(b) /\ bi = Len(r)
          BY <2>1, <2>2, <3>1, <4>2 DEF Matches, LoopInv
        <5> QED
          BY <5>1, <5>2
      <4> QED
        BY <4>1, <4>2
    <3>3. AtEnd <=> match(b, r)
      <4>1. ASSUME AtEnd PROVE match(b, r)
        BY <2>1, <2>2, <3>1, <4>1 DEF AtEnd, match, LoopInv
      <4>2. ASSUME match(b, r), Len(r) = Len(b) PROVE AtEnd
        BY <2>1, <2>2, <3>1, <4>2 DEF AtEnd
      <4>3. ASSUME match(b, r), Len(r) # Len(b) PROVE AtEnd
        <5>1. /\ b[Len(b)] = Hash /\ Len(r) >= Len(b) - 1
              /\ Len(r) >= Len(b) => r[Len(b)] # Hash
          BY <4>3 DEF match
        <5>2. ASSUME Len(r) >= Len(b) PROVE FALSE
          <6>1. bi = Len(b) /\ bi \in 1 .. bi
            BY <2>1, <2>2, <3>1, <5>2
          <6> QED
            BY <5>1, <5>2, <6>1, KeyAssumption DEF LoopInv
        <5>3. bi = Len(b) - 1
          BY <2>1, <2>2, <3>1, <5>1, <5>2
        <5> QED
          BY <2>1, <5>1, <5>3 DEF AtEnd
      <4> QED
        BY <4>1, <4>2, <4>3
    <3>8. /\ result' = Verdict(match(b, r))
          /\ Plain(r) => result' = Verdict(Matches(b, r))
      BY <3>1, <3>2, <3>3 DEF Verdict
    <3>4. result' \in {"match", "mismatch"}
      BY <3>1 DEF Verdict
    <3>5. UNCHANGED <<bindingParts, routingParts>>
      BY <3>1 DEF keys
    <3>6. MatchCorrect'
      BY <3>8, <3>5 DEF MatchCorrect, Verdict, Matches, match, Plain
    <3>7. LoopInv'
      BY <3>1, <3>4, <3>5 DEF LoopInv
    <3> QED
      BY <3>6, <3>7
  <2> QED
    BY <2>4, <2>5, <2>6, <2>7, <2>8 DEF Next
<1>3. Inv => MatchCorrect
  OBVIOUS
<1> QED
  BY <1>1, <1>2, <1>3, PTL DEF Spec
=============================================================================
