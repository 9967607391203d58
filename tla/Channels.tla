------------------------------- MODULE Channels -------------------------------
(***************************************************************************)
(* Events on their way to a cache, in the order they were sent: what is    *)
(* left when the first is delivered, and what there is with one more.  For *)
(* the proofs about the controllers whose informers have such channels.    *)
(***************************************************************************)
EXTENDS Naturals, Sequences, SequenceTheorems, TLAPS

\* The rest of a channel has its events, one place earlier, and its end.
LEMMA RestOfChannel ==
  ASSUME NEW S, NEW s \in Seq(S), s # <<>>
  PROVE  /\ Head(s) \in S /\ Head(s) = s[1]
         /\ Tail(s) \in Seq(S)
         /\ Len(s) \in Nat \ {0}
         /\ Len(Tail(s)) = Len(s) - 1
         /\ \A i \in 1 .. Len(Tail(s)) :
              i + 1 \in 1 .. Len(s) /\ Tail(s)[i] = s[i + 1]
         /\ IF Tail(s) = <<>> THEN s[Len(s)] = s[1]
                               ELSE Tail(s)[Len(Tail(s))] = s[Len(s)]
<1>1. /\ Head(s) \in S /\ Tail(s) \in Seq(S)
      /\ \A i \in 1 .. Len(Tail(s)) : Tail(s)[i] = s[i + 1]
  BY HeadTailProperties
<1>2. Len(Tail(s)) = Len(s) - 1
  BY HeadTailProperties
<1>3. Len(s) \in Nat \ {0} /\ Len(Tail(s)) \in Nat
  BY <1>1, EmptySeq, LenProperties
<1>4. Head(s) = s[1]
  OBVIOUS
<1>5. \A i \in 1 .. Len(Tail(s)) : i + 1 \in 1 .. Len(s)
  BY <1>2, <1>3
<1>6. ASSUME Tail(s) = <<>> PROVE s[Len(s)] = s[1]
  <2>1. Len(<<>>) = 0
    OBVIOUS
  <2>2. Len(Tail(s)) = 0
    BY <1>6, <2>1, Zenon
  <2>3. Len(s) - 1 = 0
    BY <1>2, <2>2, Zenon
  <2>4. Len(s) = 1
    BY <1>3, <2>3
  <2> QED BY <2>4, Zenon
<1>7. ASSUME Tail(s) # <<>> PROVE Tail(s)[Len(Tail(s))] = s[Len(s)]
  <2>1. Len(Tail(s)) \in 1 .. Len(Tail(s))
    BY <1>1, <1>3, <1>7, EmptySeq
  <2>2. Tail(s)[Len(Tail(s))] = s[Len(Tail(s)) + 1]
    BY <1>1, <2>1
  <2>3. Len(Tail(s)) + 1 = Len(s)
    BY <1>2, <1>3
  <2> QED BY <2>2, <2>3
<1> QED BY <1>1, <1>2, <1>3, <1>4, <1>5, <1>6, <1>7, Zenon

\* A channel with one event more
LEMMA OneMoreEvent ==
  ASSUME NEW S, NEW s \in Seq(S), NEW e \in S
  PROVE  /\ Append(s, e) \in Seq(S) /\ Append(s, e) # <<>>
         /\ Len(s) \in Nat
         /\ Len(Append(s, e)) = Len(s) + 1
         /\ Append(s, e)[Len(s) + 1] = e
         /\ \A i \in 1 .. Len(s) : Append(s, e)[i] = s[i]
         /\ s = <<>> => Len(s) = 0
         /\ s # <<>> => Len(s) \in 1 .. Len(s)
  BY AppendProperties, LenProperties, EmptySeq

\* Of events that are all delivered nothing is left.
LEMMA EmptyLength == Len(<<>>) = 0
  OBVIOUS
=============================================================================
