--------------------------- MODULE SequenceFacts ----------------------------
(* Facts about sequences that the proofs about queues and logs need: what is *)
(* in a sequence that was joined, begun or shortened, and where; and induction *)
(* over the numbers, said of a set.                                         *)
(*                                                                          *)
(* SequenceTheorems says what Append, Head, Tail and \o give at each place; *)
(* these say it of Range, the form the invariants use.                      *)
EXTENDS Integers, Sequences, Functions, SequenceTheorems,
        WellFoundedInduction, TLAPS

(* Joining two sequences joins what is in them.                             *)
LEMMA Concat ==
  ASSUME NEW S, NEW s \in Seq(S), NEW t \in Seq(S)
  PROVE  s \o t \in Seq(S) /\ Range(s \o t) = Range(s) \cup Range(t)
<1>1. /\ s \o t \in Seq(S)
      /\ Len(s) \in Nat /\ Len(t) \in Nat
      /\ Len(s \o t) = Len(s) + Len(t)
      /\ \A i \in 1 .. Len(s) + Len(t) :
           (s \o t)[i] = IF i <= Len(s) THEN s[i] ELSE t[i - Len(s)]
  BY ConcatProperties
<1>2. /\ DOMAIN (s \o t) = 1 .. Len(s) + Len(t)
      /\ DOMAIN s = 1 .. Len(s) /\ DOMAIN t = 1 .. Len(t)
  BY <1>1, LenProperties
<1>3. \A x \in Range(s \o t) : x \in Range(s) \cup Range(t)
  <2>1. TAKE x \in Range(s \o t)
  <2>2. PICK i \in 1 .. Len(s) + Len(t) : x = (s \o t)[i]
    BY <1>2 DEF Range
  <2>3. CASE i <= Len(s)
    <3>1. i \in DOMAIN s /\ x = s[i]
      BY <1>1, <1>2, <2>2, <2>3
    <3> QED
      BY <3>1 DEF Range
  <2>4. CASE ~(i <= Len(s))
    <3>1. i - Len(s) \in DOMAIN t /\ x = t[i - Len(s)]
      BY <1>1, <1>2, <2>2, <2>4
    <3> QED
      BY <3>1 DEF Range
  <2> QED
    BY <2>3, <2>4
<1>4. \A x \in Range(s) : x \in Range(s \o t)
  <2>1. TAKE x \in Range(s)
  <2>2. PICK i \in 1 .. Len(s) : x = s[i]
    BY <1>2 DEF Range
  <2>3. i \in DOMAIN (s \o t) /\ (s \o t)[i] = x
    BY <1>1, <1>2, <2>2
  <2> QED
    BY <2>3 DEF Range
<1>5. \A x \in Range(t) : x \in Range(s \o t)
  <2>1. TAKE x \in Range(t)
  <2>2. PICK i \in 1 .. Len(t) : x = t[i]
    BY <1>2 DEF Range
  <2>3. i + Len(s) \in DOMAIN (s \o t) /\ (s \o t)[i + Len(s)] = x
    BY <1>1, <1>2, <2>2
  <2> QED
    BY <2>3 DEF Range
<1> QED
  BY <1>1, <1>3, <1>4, <1>5

(* Appending adds one element.                                              *)
LEMMA Appended ==
  ASSUME NEW S, NEW s \in Seq(S), NEW e \in S
  PROVE  Append(s, e) \in Seq(S) /\ Range(Append(s, e)) = Range(s) \cup {e}
<1>1. /\ Append(s, e) \in Seq(S) /\ Len(s) \in Nat
      /\ DOMAIN Append(s, e) = 1 .. Len(s) + 1 /\ DOMAIN s = 1 .. Len(s)
      /\ \A i \in 1 .. Len(s) : Append(s, e)[i] = s[i]
      /\ Append(s, e)[Len(s) + 1] = e
  BY AppendProperties, LenProperties
<1>2. 1 .. Len(s) + 1 = (1 .. Len(s)) \cup {Len(s) + 1}
  BY <1>1
<1> QED
  BY <1>1, <1>2 DEF Range

(* The head and the tail of a sequence are in it.                           *)
LEMMA Shortened ==
  ASSUME NEW S, NEW s \in Seq(S), s # <<>>
  PROVE  /\ Head(s) \in S /\ Head(s) \in Range(s)
         /\ Tail(s) \in Seq(S) /\ Range(Tail(s)) \subseteq Range(s)
<1>1. /\ Head(s) \in S /\ Tail(s) \in Seq(S)
      /\ Len(s) \in Nat \ {0} /\ Len(Tail(s)) = Len(s) - 1
      /\ \A i \in 1 .. Len(Tail(s)) : Tail(s)[i] = s[i + 1]
      /\ DOMAIN s = 1 .. Len(s) /\ DOMAIN Tail(s) = 1 .. Len(Tail(s))
  BY HeadTailProperties, LenProperties, EmptySeq
<1>2. Head(s) = s[1] /\ 1 \in DOMAIN s
  BY <1>1
<1>3. \A x \in Range(Tail(s)) : x \in Range(s)
  <2>1. TAKE x \in Range(Tail(s))
  <2>2. PICK i \in 1 .. Len(s) - 1 : x = Tail(s)[i]
    BY <1>1 DEF Range
  <2>3. i + 1 \in DOMAIN s /\ s[i + 1] = x
    BY <1>1, <2>2
  <2> QED
    BY <2>3 DEF Range
<1> QED
  BY <1>1, <1>2, <1>3 DEF Range

(* Nothing is in the empty sequence.                                        *)
LEMMA NothingIn == Range(<<>>) = {}
  BY DEF Range

(* A sequence of one element.                                               *)
LEMMA Single ==
  ASSUME NEW S, NEW e \in S
  PROVE  <<e>> \in Seq(S) /\ Range(<<e>>) = {e}
<1>1. <<e>> \in Seq(S) /\ DOMAIN <<e>> = {1} /\ <<e>>[1] = e
  OBVIOUS
<1> QED
  BY <1>1 DEF Range

(* A sequence over S holds elements of S.                                   *)
LEMMA InRange ==
  ASSUME NEW S, NEW s \in Seq(S)
  PROVE  Range(s) \subseteq S
  BY LenProperties DEF Range

(* Reading from the front, or writing at the end, of two sequences laid end *)
(* to end.                                                                  *)
LEMMA Joined ==
  ASSUME NEW S, NEW d \in Seq(S), NEW h \in Seq(S)
  PROVE  /\ d # <<>> => /\ d \o h # <<>> /\ Head(d \o h) = Head(d)
                        /\ Tail(d) \o h = Tail(d \o h)
         /\ \A m \in S : d \o Append(h, m) = Append(d \o h, m)
<1>1. PICK n \in Nat, p \in Nat : n = Len(d) /\ p = Len(h)
  BY LenProperties
<1>2. PICK s : s = d \o h
  OBVIOUS
<1>3. /\ s \in Seq(S) /\ Len(s) = n + p
      /\ \A i \in 1 .. n + p : s[i] = IF i <= n THEN d[i] ELSE h[i - n]
  BY <1>1, <1>2, ConcatProperties
<1>4. ASSUME d # <<>>
      PROVE  s # <<>> /\ Head(s) = Head(d) /\ Tail(d) \o h = Tail(s)
  <2>1. n # 0
    BY <1>1, <1>4, EmptySeq
  <2>2. s # <<>>
    BY <1>3, <2>1
  <2>3. Head(s) = Head(d)
    <3>1. 1 \in 1 .. n + p /\ 1 <= n
      BY <2>1
    <3> QED
      BY <1>3, <3>1
  <2>4. PICK t : t = Tail(d)
    OBVIOUS
  <2>5. PICK q \in Nat : n = q + 1
    <3>1. n - 1 \in Nat /\ n = (n - 1) + 1
      BY <2>1
    <3> QED
      BY <3>1
  <2>6. t \in Seq(S) /\ Len(t) = q /\ \A i \in 1 .. q : t[i] = d[i + 1]
    <3>1. Len(d) - 1 = q
      BY <1>1, <2>5
    <3> QED
      BY <1>4, <2>4, <3>1, HeadTailProperties
  <2>7. PICK u : u = Tail(s)
    OBVIOUS
  <2>8. u \in Seq(S) /\ Len(u) = q + p /\ \A i \in 1 .. q + p : u[i] = s[i + 1]
    <3>1. Len(s) - 1 = q + p
      BY <1>3, <2>5
    <3> QED
      BY <1>3, <2>2, <2>7, <3>1, HeadTailProperties
  <2>9. PICK v : v = t \o h
    OBVIOUS
  <2>10. /\ v \in Seq(S) /\ Len(v) = q + p
         /\ \A i \in 1 .. q + p : v[i] = IF i <= q THEN t[i] ELSE h[i - q]
    BY <1>1, <2>6, <2>9, ConcatProperties
  <2>11. ASSUME NEW i \in 1 .. q + p PROVE v[i] = u[i]
    <3>1. i + 1 \in 1 .. n + p
      BY <2>5
    <3>2. CASE i <= q
      <4>1. i \in 1 .. q /\ i + 1 <= n
        BY <2>5, <3>2
      <4>2. v[i] = d[i + 1]
        <5>1. t[i] = d[i + 1]
          BY <2>6, <4>1
        <5>2. v[i] = t[i]
          BY <2>10, <3>2
        <5> QED
          BY <5>1, <5>2
      <4>3. u[i] = d[i + 1]
        BY <1>3, <2>8, <3>1, <4>1
      <4> QED
        BY <4>2, <4>3
    <3>3. CASE ~(i <= q)
      <4>1. ~(i + 1 <= n) /\ (i + 1) - n = i - q
        BY <2>5, <3>3
      <4> QED
        BY <1>3, <2>8, <2>10, <3>1, <3>3, <4>1
    <3> QED
      BY <3>2, <3>3
  <2>12. v = u
    BY <2>8, <2>10, <2>11, SeqEqual
  <2> QED
    BY <2>2, <2>3, <2>4, <2>7, <2>9, <2>12
<1>5. ASSUME NEW m \in S PROVE d \o Append(h, m) = Append(s, m)
  <2>1. <<m>> \in Seq(S)
    BY Single
  <2>2. Append(h, m) = h \o <<m>> /\ Append(s, m) = s \o <<m>>
    BY <1>3, AppendIsConcat
  <2> QED
    BY <1>2, <2>1, <2>2, ConcatAssociative
<1> QED
  BY <1>2, <1>4, <1>5

(* Induction for a set of numbers. (The NatInduction of the library takes   *)
(* the property as an operator.)                                            *)
LEMMA AllNumbers ==
  ASSUME NEW S, 0 \in S, \A n \in Nat : n \in S => n + 1 \in S
  PROVE  Nat \subseteq S
<1> SUFFICES ASSUME Nat \ S # {} PROVE FALSE
  OBVIOUS
<1>1. PICK m \in Nat \ S : \A k \in Nat \ S : ~ <<k, m>> \in OpToRel(<, Nat)
  BY NatLessThanWellFounded, WFMin
<1>2. m - 1 \in Nat \ S
  <2>1. m # 0
    OBVIOUS
  <2>2. m - 1 \in Nat /\ m = (m - 1) + 1
    BY <2>1
  <2> QED
    BY <2>2
<1>3. <<m - 1, m>> \in OpToRel(<, Nat)
  BY <1>2 DEF OpToRel
<1> QED
  BY <1>1, <1>2, <1>3
=============================================================================
