----------------------------- MODULE TopicsLemmas -----------------------------
(* What the queues of the topics preserve, whatever their depth.           *)
EXTENDS Topics, SequenceTheorems, TLAPS

\* A queue cut to its depth holds messages of the same kind, no more than its
\* depth, and its newest message is the newest one: KEEP_LAST loses old
\* messages only.
LEMMA KeepLastKeepsNewest ==
  ASSUME NEW M, NEW s \in Seq(M)
  PROVE  /\ KeepLast(s) \in Seq(M)
         /\ Len(KeepLast(s)) <= Depth
         /\ s # << >> => /\ KeepLast(s) # << >>
                         /\ KeepLast(s)[Len(KeepLast(s))] = s[Len(s)]
<1>1. Len(s) \in Nat /\ Depth \in Nat \ {0}
  BY LenProperties, DepthAssumption
<1>2. CASE Len(s) <= Depth
  <2>1. KeepLast(s) = s
    BY <1>1, <1>2 DEF KeepLast
  <2> QED
    BY <1>2, <2>1
<1>3. CASE Len(s) > Depth
  <2> DEFINE m == Len(s) - Depth + 1
  <2>1. m \in 1..Len(s) /\ Len(s) \in Int /\ m \in Int
    BY <1>1, <1>3
  <2>2. \A i \in m..Len(s) : s[i] \in M
    BY <2>1, <1>1, ElementOfSeq
  <2>3. KeepLast(s) = SubSeq(s, m, Len(s))
    BY <1>1, <1>3 DEF KeepLast
  <2>4. /\ KeepLast(s) \in Seq(M)
        /\ Len(KeepLast(s)) = IF m <= Len(s) THEN Len(s) - m + 1 ELSE 0
        /\ \A i \in 1..(Len(s) - m + 1) : KeepLast(s)[i] = s[m + i - 1]
    <3> HIDE DEF m
    <3> QED
      BY <2>1, <2>2, <2>3, SubSeqProperties
  <2>5. Len(KeepLast(s)) = Depth
    BY <2>1, <2>4, <1>1
  <2>6. KeepLast(s)[Depth] = s[Len(s)]
    BY <2>1, <2>4, <1>1
  <2>7. KeepLast(s) # << >>
    BY <2>4, <2>5, <1>1, EmptySeq
  <2> QED
    BY <2>4, <2>5, <2>6, <2>7, <1>1
<1> QED
  BY <1>1, <1>2, <1>3

\* A queue cut to its depth is the end of what it was, all of it if it fits; the
\* cut takes the oldest messages and never the newest.
LEMMA KeepLastIsSuffix ==
  ASSUME NEW M, NEW s \in Seq(M)
  PROVE  /\ KeepLast(s) \in Seq(M)
         /\ \E k \in 0..Len(s) :
              /\ Len(KeepLast(s)) = Len(s) - k
              /\ \A i \in 1..(Len(s) - k) : KeepLast(s)[i] = s[i + k]
              /\ Len(s) <= Depth => k = 0
              /\ Len(s) > 0 => k < Len(s)
<1>1. Len(s) \in Nat /\ Depth \in Nat \ {0}
  BY LenProperties, DepthAssumption
<1>2. CASE Len(s) <= Depth
  <2>1. KeepLast(s) = s
    BY <1>1, <1>2 DEF KeepLast
  <2>2. 0 \in 0..Len(s) /\ \A i \in 1..(Len(s) - 0) : s[i] = s[i + 0]
    BY <1>1
  <2> QED
    BY <1>1, <2>1, <2>2
<1>3. CASE Len(s) > Depth
  <2> DEFINE k == Len(s) - Depth
             m == k + 1
  <2>1. m \in 1..Len(s) /\ Len(s) \in Int /\ m \in Int /\ k \in 0..Len(s) /\ k < Len(s)
    BY <1>1, <1>3
  <2>2. \A i \in m..Len(s) : s[i] \in M
    BY <2>1, <1>1, ElementOfSeq
  <2>3. KeepLast(s) = SubSeq(s, m, Len(s))
    BY <1>1, <1>3 DEF KeepLast
  <2>4. /\ KeepLast(s) \in Seq(M)
        /\ Len(KeepLast(s)) = IF m <= Len(s) THEN Len(s) - m + 1 ELSE 0
        /\ \A i \in 1..(Len(s) - m + 1) : KeepLast(s)[i] = s[m + i - 1]
    <3> HIDE DEF m
    <3> QED
      BY <2>1, <2>2, <2>3, SubSeqProperties
  <2>5. Len(KeepLast(s)) = Len(s) - k /\ ~(Len(s) <= Depth)
    BY <1>1, <1>3, <2>1, <2>4
  <2>6. \A i \in 1..(Len(s) - k) : KeepLast(s)[i] = s[i + k]
    <3> SUFFICES ASSUME NEW i \in 1..(Len(s) - k) PROVE KeepLast(s)[i] = s[i + k]
      OBVIOUS
    <3>1. m + i - 1 = i + k /\ i \in 1..(Len(s) - m + 1)
      BY <1>1, <2>1
    <3> QED
      BY <2>4, <3>1
  <2> HIDE DEF k
  <2> QED
    BY <2>1, <2>4, <2>5, <2>6
<1> QED
  BY <1>1, <1>2, <1>3

\* A message published on a topic is the newest of its subscription's queue.
LEMMA DeliverOne ==
  ASSUME NEW M, NEW s \in Seq(M), NEW m \in M
  PROVE  /\ KeepLast(s \o <<m>>) \in Seq(M)
         /\ Len(KeepLast(s \o <<m>>)) <= Depth
         /\ KeepLast(s \o <<m>>) # << >>
         /\ KeepLast(s \o <<m>>)[Len(KeepLast(s \o <<m>>))] = m
<1>1. s \o <<m>> \in Seq(M) /\ s \o <<m>> # << >>
      /\ (s \o <<m>>)[Len(s \o <<m>>)] = m
  <2>1. <<m>> \in Seq(M) /\ Len(<<m>>) = 1 /\ <<m>>[1] = m
    OBVIOUS
  <2>2. /\ s \o <<m>> \in Seq(M)
        /\ Len(s \o <<m>>) = Len(s) + 1
        /\ \A i \in 1..(Len(s) + 1) :
             (s \o <<m>>)[i] = IF i <= Len(s) THEN s[i] ELSE <<m>>[i - Len(s)]
    BY <2>1, ConcatProperties
  <2>3. Len(s) \in Nat
    BY LenProperties
  <2> QED
    BY <2>1, <2>2, <2>3, EmptySeq
<1> QED
  BY <1>1, KeepLastKeepsNewest

\* Taking the oldest message leaves the newest one where it is, unless the two
\* are the same.
LEMMA TakeOldest ==
  ASSUME NEW M, NEW s \in Seq(M), s # << >>
  PROVE  /\ Head(s) \in M /\ Tail(s) \in Seq(M)
         /\ Len(s) <= Depth => Len(Tail(s)) <= Depth
         /\ IF Tail(s) = << >> THEN Head(s) = s[Len(s)]
            ELSE Tail(s)[Len(Tail(s))] = s[Len(s)]
<1> DEFINE t == Tail(s)
<1>1. Len(s) \in Nat /\ Len(s) >= 1 /\ Depth \in Nat
  BY LenProperties, EmptySeq, DepthAssumption
<1>2. /\ Head(s) = s[1] /\ Head(s) \in M
      /\ t \in Seq(M) /\ Len(t) = Len(s) - 1
      /\ \A i \in 1..Len(t) : t[i] = s[i + 1]
  BY HeadTailProperties, <1>1
<1> HIDE DEF t
<1>3. t = << >> <=> Len(t) = 0
  BY <1>2, EmptySeq
<1>4. Len(t) # 0 => t[Len(t)] = s[Len(s)]
  BY <1>1, <1>2
<1> QED
  BY <1>1, <1>2, <1>3, <1>4 DEF t

\* Nothing published changes nothing.
LEMMA DeliverNothing ==
  ASSUME NEW M, NEW s \in Seq(M), Len(s) <= Depth
  PROVE  KeepLast(s \o << >>) = s
BY ConcatEmptySeq, LenProperties, DepthAssumption DEF KeepLast
=============================================================================
