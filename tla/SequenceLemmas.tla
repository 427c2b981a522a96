--------------------------- MODULE SequenceLemmas ---------------------------
(* What RemoveAt, Append and Front do to the elements of a sequence, and to a *)
(* sequence that has no element twice; how Reverse, Append and \o combine; and *)
(* that counting on round a ring reaches every position; least numbers and the *)
(* shortest sequence; what is left of a list Without some elements.            *)
EXTENDS Integers, Sequences, SequencesExt, SequenceTheorems, WellFoundedInduction, TLAPS

(* RemoveAt closes the gap at the position it removes. *)
LEMMA RemoveAtProperties ==
  ASSUME NEW S, NEW seq \in Seq(S), NEW pos \in DOMAIN seq
  PROVE  /\ RemoveAt(seq, pos) \in Seq(S)
         /\ Len(RemoveAt(seq, pos)) = Len(seq) - 1
         /\ \A i \in 1 .. (Len(seq) - 1) :
              RemoveAt(seq, pos)[i] = IF i < pos THEN seq[i] ELSE seq[i + 1]
<1> DEFINE front == SubSeq(seq, 1, pos - 1)
           back  == SubSeq(seq, pos + 1, Len(seq))
<1>1. pos \in 1 .. Len(seq) /\ Len(seq) \in Nat /\ \A i \in 1 .. Len(seq) : seq[i] \in S
  BY LenProperties, ElementOfSeq
<1>2. front \in Seq(S) /\ Len(front) = pos - 1
      /\ \A i \in 1 .. (pos - 1) : front[i] = seq[i]
  BY <1>1, SubSeqProperties
<1>3. back \in Seq(S) /\ Len(back) = Len(seq) - pos
      /\ \A i \in 1 .. (Len(seq) - pos) : back[i] = seq[pos + i]
  BY <1>1, SubSeqProperties
<1>4. RemoveAt(seq, pos) = front \o back
  BY DEF RemoveAt
<1> HIDE DEF front, back
<1>5. /\ front \o back \in Seq(S)
      /\ Len(front \o back) = Len(front) + Len(back)
      /\ \A i \in 1 .. Len(front) + Len(back) :
           (front \o back)[i] = IF i <= Len(front) THEN front[i] ELSE back[i - Len(front)]
  BY <1>2, <1>3, ConcatProperties
<1>6. Len(front) + Len(back) = Len(seq) - 1
  BY <1>1, <1>2, <1>3
<1>7. ASSUME NEW i \in 1 .. (Len(seq) - 1)
      PROVE  RemoveAt(seq, pos)[i] = IF i < pos THEN seq[i] ELSE seq[i + 1]
  <2>1. CASE i < pos
    <3>1. i <= Len(front)
      BY <1>1, <1>2, <2>1
    <3>2. (front \o back)[i] = front[i]
      BY <1>5, <1>6, <3>1
    <3>3. front[i] = seq[i]
      BY <1>1, <1>2, <2>1
    <3> QED
      BY <1>4, <2>1, <3>2, <3>3
  <2>2. CASE ~(i < pos)
    <3>1. ~(i <= Len(front)) /\ i - Len(front) \in 1 .. (Len(seq) - pos)
      BY <1>1, <1>2, <2>2
    <3>2. (front \o back)[i] = back[i - Len(front)]
      BY <1>5, <1>6, <3>1
    <3>3. back[i - Len(front)] = seq[pos + (i - Len(front))]
      BY <1>3, <3>1
    <3>4. pos + (i - Len(front)) = i + 1
      BY <1>1, <1>2
    <3> QED
      BY <1>4, <2>2, <3>2, <3>3, <3>4
  <2> QED
    BY <2>1, <2>2
<1> QED
  BY <1>4, <1>5, <1>6, <1>7

(* The elements that are left after the removal. *)
LEMMA RemoveAtElements ==
  ASSUME NEW S, NEW seq \in Seq(S), NEW pos \in DOMAIN seq, IsInjective(seq)
  PROVE  /\ ToSet(RemoveAt(seq, pos)) = ToSet(seq) \ {seq[pos]}
         /\ IsInjective(RemoveAt(seq, pos))
<1> DEFINE rest == RemoveAt(seq, pos)
<1>1. /\ pos \in 1 .. Len(seq) /\ Len(seq) \in Nat /\ DOMAIN seq = 1 .. Len(seq)
      /\ \A i, j \in 1 .. Len(seq) : seq[i] = seq[j] => i = j
  BY LenProperties DEF IsInjective
<1>2. /\ rest \in Seq(S) /\ Len(rest) = Len(seq) - 1
      /\ \A i \in 1 .. (Len(seq) - 1) :
           rest[i] = IF i < pos THEN seq[i] ELSE seq[i + 1]
  BY RemoveAtProperties
<1> HIDE DEF rest
<1>3. DOMAIN rest = 1 .. (Len(seq) - 1)
  BY <1>2, LenProperties
<1>4. IsInjective(rest)
  BY <1>1, <1>2, <1>3 DEF IsInjective
<1>5. ASSUME NEW x \in ToSet(rest)
      PROVE  x \in ToSet(seq) \ {seq[pos]}
  <2>1. PICK i \in DOMAIN rest : x = rest[i]
    BY DEF ToSet
  <2>2. CASE i < pos
    BY <1>1, <1>2, <1>3, <2>1, <2>2 DEF ToSet
  <2>3. CASE ~(i < pos)
    <3>1. i + 1 \in 1 .. Len(seq) /\ i + 1 # pos /\ x = seq[i + 1]
      BY <1>1, <1>2, <1>3, <2>1, <2>3
    <3> QED
      BY <1>1, <3>1 DEF ToSet
  <2> QED
    BY <2>2, <2>3
<1>6. ASSUME NEW x \in ToSet(seq), x # seq[pos]
      PROVE  x \in ToSet(rest)
  <2>1. PICK j \in 1 .. Len(seq) : x = seq[j]
    BY <1>1 DEF ToSet
  <2>2. j # pos
    BY <1>6, <2>1
  <2>3. CASE j < pos
    BY <1>1, <1>2, <1>3, <2>1, <2>3 DEF ToSet
  <2>4. CASE j > pos
    <3>1. j - 1 \in 1 .. (Len(seq) - 1) /\ ~(j - 1 < pos) /\ (j - 1) + 1 = j
      BY <1>1, <2>4
    <3>2. rest[j - 1] = seq[j]
      BY <1>2, <3>1
    <3> QED
      BY <1>3, <2>1, <3>1, <3>2 DEF ToSet
  <2> QED
    BY <1>1, <2>2, <2>3, <2>4
<1> QED
  BY <1>4, <1>5, <1>6 DEF rest

(* Appending an element that the sequence does not hold yet. *)
LEMMA AppendElements ==
  ASSUME NEW S, NEW seq \in Seq(S), NEW x \in S
  PROVE  /\ ToSet(Append(seq, x)) = ToSet(seq) \cup {x}
         /\ IsInjective(seq) /\ x \notin ToSet(seq) => IsInjective(Append(seq, x))
<1>1. /\ Append(seq, x) \in Seq(S)
      /\ Len(Append(seq, x)) = Len(seq) + 1
      /\ \A i \in 1 .. Len(seq) : Append(seq, x)[i] = seq[i]
      /\ Append(seq, x)[Len(seq) + 1] = x
  BY AppendProperties
<1>2. /\ DOMAIN seq = 1 .. Len(seq) /\ Len(seq) \in Nat
      /\ DOMAIN Append(seq, x) = 1 .. (Len(seq) + 1)
  BY <1>1, LenProperties
<1>3. ToSet(Append(seq, x)) = ToSet(seq) \cup {x}
  BY <1>1, <1>2 DEF ToSet
<1>4. ASSUME IsInjective(seq), x \notin ToSet(seq)
      PROVE  IsInjective(Append(seq, x))
  BY <1>1, <1>2, <1>4 DEF IsInjective, ToSet
<1> QED
  BY <1>3, <1>4

(* Dropping the last element. *)
LEMMA FrontProperties ==
  ASSUME NEW S, NEW seq \in Seq(S), seq # <<>>
  PROVE  /\ Front(seq) \in Seq(S)
         /\ Len(Front(seq)) = Len(seq) - 1
         /\ DOMAIN Front(seq) = 1 .. (Len(seq) - 1)
         /\ \A i \in 1 .. (Len(seq) - 1) : Front(seq)[i] = seq[i]
<1>1. Len(seq) \in Nat /\ Len(seq) >= 1
  OBVIOUS
<1> DEFINE n == Len(seq) - 1
           front == SubSeq(seq, 1, n)
<1>2. /\ n \in Nat /\ n - 1 + 1 = n
      /\ \A i \in 1 .. n : seq[i] \in S
      /\ n = 0 \/ 1 <= n
  <2>1. n \in Nat /\ n < Len(seq)
    BY <1>1
  <2>2. ASSUME NEW i \in 1 .. n  PROVE seq[i] \in S
    <3>1. i \in 1 .. Len(seq)
      BY <1>1, <2>1
    <3> QED
      BY <3>1, ElementOfSeq
  <2> HIDE DEF n
  <2>3. n - 1 + 1 = n /\ (n = 0 \/ 1 <= n)
    BY <2>1
  <2> QED
    BY <2>1, <2>2, <2>3
<1>3. /\ front \in Seq(S) /\ Len(front) = n
      /\ \A i \in 1 .. n : front[i] = seq[1 + i - 1]
  <2> HIDE DEF n
  <2>1. /\ front \in Seq(S)
        /\ Len(front) = IF 1 <= n THEN n - 1 + 1 ELSE 0
        /\ \A i \in 1 .. n - 1 + 1 : front[i] = seq[1 + i - 1]
    BY <1>2, SubSeqProperties
  <2> QED
    BY <1>2, <2>1
<1>4. Front(seq) = front
  BY DEF Front
<1> HIDE DEF front
<1>5. DOMAIN front = 1 .. n /\ \A i \in 1 .. n : front[i] = seq[i]
  BY <1>1, <1>3, LenProperties
<1> QED
  BY <1>3, <1>4, <1>5
(* Reverse turns a sequence around. *)
LEMMA ReverseProperties ==
  ASSUME NEW S, NEW seq \in Seq(S)
  PROVE  /\ Reverse(seq) \in Seq(S)
         /\ Len(Reverse(seq)) = Len(seq)
         /\ \A i \in 1 .. Len(seq) : Reverse(seq)[i] = seq[Len(seq) - i + 1]
         /\ Reverse(seq) = <<>> <=> seq = <<>>
<1> DEFINE n == Len(seq)
<1>1. n \in Nat
  BY LenProperties
<1>2. ASSUME NEW i \in 1 .. n
      PROVE  seq[(n - i) + 1] \in S
  <2>1. (n - i) + 1 \in 1 .. n
    BY <1>1
  <2> QED
    BY <2>1, ElementOfSeq
<1>3. Reverse(seq) \in [1 .. n -> S]
  BY <1>2 DEF Reverse
<1>4. Reverse(seq) \in Seq(S) /\ Len(Reverse(seq)) = n
  <2> HIDE DEF n
  <2> QED
    BY <1>1, <1>3
<1>5. Reverse(seq) = <<>> <=> seq = <<>>
  BY <1>4, EmptySeq
<1> QED
  BY <1>4, <1>5 DEF Reverse

(* A stack read from its bottom: what is pushed comes out last. *)
LEMMA ReversePush ==
  ASSUME NEW S, NEW seq \in Seq(S), NEW x \in S
  PROVE  Reverse(<<x>> \o seq) = Append(Reverse(seq), x)
<1> DEFINE long == <<x>> \o seq
           left == Reverse(long)
           right == Append(Reverse(seq), x)
<1>1. Len(seq) \in Nat
  BY LenProperties
<1>2. <<x>> \in Seq(S) /\ Len(<<x>>) = 1 /\ <<x>>[1] = x
  OBVIOUS
<1>3. /\ long \in Seq(S) /\ Len(long) = Len(seq) + 1
      /\ \A i \in 1 .. Len(seq) + 1 : long[i] = IF i <= 1 THEN <<x>>[i] ELSE seq[i - 1]
  BY <1>1, <1>2, ConcatProperties
<1>4. /\ Reverse(seq) \in Seq(S) /\ Len(Reverse(seq)) = Len(seq)
      /\ \A i \in 1 .. Len(seq) : Reverse(seq)[i] = seq[Len(seq) - i + 1]
  BY ReverseProperties
<1>5. /\ right \in Seq(S) /\ Len(right) = Len(seq) + 1
      /\ \A i \in 1 .. Len(seq) : right[i] = Reverse(seq)[i]
      /\ right[Len(seq) + 1] = x
  BY <1>4, AppendProperties
<1> HIDE DEF long
<1>6. /\ left \in Seq(S) /\ Len(left) = Len(seq) + 1
      /\ \A i \in 1 .. Len(seq) + 1 : left[i] = long[(Len(seq) + 1) - i + 1]
  BY <1>3, ReverseProperties
<1> HIDE DEF left, right
<1>7. ASSUME NEW i \in 1 .. Len(seq) + 1
      PROVE  left[i] = right[i]
  <2>1. CASE i = Len(seq) + 1
    <3>1. (Len(seq) + 1) - i + 1 = 1 /\ 1 \in 1 .. Len(seq) + 1
      BY <1>1, <2>1
    <3>2. left[i] = long[1] /\ right[i] = x
      BY <1>5, <1>6, <2>1, <3>1
    <3>3. long[1] = x
      BY <1>2, <1>3, <3>1
    <3> QED
      BY <3>2, <3>3
  <2>2. CASE i \in 1 .. Len(seq)
    <3> DEFINE j == (Len(seq) + 1) - i + 1
    <3>1. j \in 1 .. Len(seq) + 1 /\ ~(j <= 1) /\ j - 1 = Len(seq) - i + 1
      BY <1>1, <2>2
    <3>2. left[i] = long[j]
      BY <1>6
    <3>3. long[j] = seq[j - 1]
      BY <1>3, <3>1
    <3>4. right[i] = seq[Len(seq) - i + 1]
      BY <1>4, <1>5, <2>2
    <3> QED
      BY <3>1, <3>2, <3>3, <3>4
  <2> QED
    BY <1>1, <2>1, <2>2
<1> QED
  BY <1>5, <1>6, <1>7, SeqEqual DEF left, right, long

(* Appending to the second of two sequences. *)
LEMMA ConcatAppend ==
  ASSUME NEW S, NEW s \in Seq(S), NEW t \in Seq(S), NEW x \in S
  PROVE  s \o Append(t, x) = Append(s \o t, x)
<1>1. Append(t, x) = t \o <<x>> /\ <<x>> \in Seq(S)
  BY AppendIsConcat
<1>2. s \o t \in Seq(S)
  BY ConcatProperties
<1>3. Append(s \o t, x) = (s \o t) \o <<x>>
  BY <1>2, AppendIsConcat
<1> QED
  BY <1>1, <1>3, ConcatAssociative

(* Taking the first element off and putting it back. *)
LEMMA HeadThenTail ==
  ASSUME NEW S, NEW s \in Seq(S), s # <<>>
  PROVE  /\ Head(s) \in S /\ Tail(s) \in Seq(S)
         /\ <<Head(s)>> \o Tail(s) = s
<1>1. /\ Head(s) \in S /\ Tail(s) \in Seq(S) /\ Len(Tail(s)) = Len(s) - 1
      /\ \A i \in 1 .. Len(Tail(s)) : Tail(s)[i] = s[i + 1]
  BY HeadTailProperties
<1>2. Len(s) \in Nat /\ Len(s) >= 1 /\ Head(s) = s[1]
  BY EmptySeq
<1>3. <<Head(s)>> \in Seq(S) /\ Len(<<Head(s)>>) = 1 /\ <<Head(s)>>[1] = Head(s)
  BY <1>1
<1> DEFINE both == <<Head(s)>> \o Tail(s)
<1>4. /\ both \in Seq(S) /\ Len(both) = Len(s)
      /\ \A i \in 1 .. Len(s) : both[i] = IF i <= 1 THEN <<Head(s)>>[i] ELSE Tail(s)[i - 1]
  <2>1. /\ both \in Seq(S) /\ Len(both) = 1 + Len(Tail(s))
        /\ \A i \in 1 .. 1 + Len(Tail(s)) : both[i] = IF i <= 1 THEN <<Head(s)>>[i] ELSE Tail(s)[i - 1]
    BY <1>1, <1>3, ConcatProperties
  <2>2. 1 + Len(Tail(s)) = Len(s)
    BY <1>1, <1>2
  <2> QED
    BY <2>1, <2>2
<1> HIDE DEF both
<1>5. ASSUME NEW i \in 1 .. Len(s)
      PROVE  both[i] = s[i]
  <2>1. CASE i = 1
    BY <1>2, <1>3, <1>4, <2>1
  <2>2. CASE i # 1
    <3>1. i - 1 \in 1 .. Len(Tail(s)) /\ ~(i <= 1) /\ (i - 1) + 1 = i
      BY <1>1, <1>2, <2>2
    <3> QED
      BY <1>1, <1>4, <3>1
  <2> QED
    BY <2>1, <2>2
<1> QED
  BY <1>1, <1>4, <1>5, SeqEqual DEF both
(* Putting an element in front of a sequence. *)
LEMMA ConsProperties ==
  ASSUME NEW S, NEW s \in Seq(S), NEW x \in S
  PROVE  /\ <<x>> \o s \in Seq(S) /\ <<x>> \o s # <<>>
         /\ Head(<<x>> \o s) = x
         /\ Tail(<<x>> \o s) = s
<1> DEFINE long == <<x>> \o s
<1>1. <<x>> \in Seq(S) /\ Len(<<x>>) = 1 /\ <<x>>[1] = x /\ Len(s) \in Nat
  BY LenProperties
<1>2. /\ long \in Seq(S) /\ Len(long) = 1 + Len(s)
      /\ \A i \in 1 .. 1 + Len(s) : long[i] = IF i <= 1 THEN <<x>>[i] ELSE s[i - 1]
  BY <1>1, ConcatProperties
<1> HIDE DEF long
<1>3. long # <<>> /\ Head(long) = x
  <2>1. long # <<>>
    BY <1>1, <1>2, EmptySeq
  <2>2. Head(long) = long[1]
    BY <1>2, <2>1
  <2>3. long[1] = x
    BY <1>1, <1>2
  <2> QED
    BY <2>1, <2>2, <2>3
<1>4. /\ Tail(long) \in Seq(S) /\ Len(Tail(long)) = Len(s)
      /\ \A i \in 1 .. Len(s) : Tail(long)[i] = long[i + 1]
  <2>1. /\ Tail(long) \in Seq(S) /\ Len(Tail(long)) = Len(long) - 1
        /\ \A i \in 1 .. Len(Tail(long)) : Tail(long)[i] = long[i + 1]
    BY <1>2, <1>3, HeadTailProperties
  <2>2. Len(long) - 1 = Len(s)
    BY <1>1, <1>2
  <2> QED
    BY <2>1, <2>2
<1>5. ASSUME NEW i \in 1 .. Len(s)
      PROVE  Tail(long)[i] = s[i]
  <2>1. i + 1 \in 1 .. 1 + Len(s) /\ ~(i + 1 <= 1) /\ (i + 1) - 1 = i
    BY <1>1
  <2> QED
    BY <1>2, <1>4, <2>1
<1>6. Tail(long) = s
  BY <1>4, <1>5, SeqEqual
<1> QED
  BY <1>2, <1>3, <1>6 DEF long

(* Its elements, next to those of the sequence. *)
LEMMA ConsElements ==
  ASSUME NEW S, NEW s \in Seq(S), NEW x \in S
  PROVE  /\ ToSet(<<x>> \o s) = ToSet(s) \cup {x}
         /\ IsInjective(s) /\ x \notin ToSet(s) => IsInjective(<<x>> \o s)
<1> DEFINE long == <<x>> \o s
<1>1. <<x>> \in Seq(S) /\ Len(<<x>>) = 1 /\ <<x>>[1] = x /\ Len(s) \in Nat
      /\ DOMAIN s = 1 .. Len(s)
  BY LenProperties
<1>2. /\ long \in Seq(S) /\ Len(long) = 1 + Len(s)
      /\ \A i \in 1 .. 1 + Len(s) : long[i] = IF i <= 1 THEN <<x>>[i] ELSE s[i - 1]
  BY <1>1, ConcatProperties
<1> HIDE DEF long
<1>3. DOMAIN long = 1 .. 1 + Len(s)
  BY <1>2, LenProperties
<1>4. long[1] = x /\ \A i \in 1 .. Len(s) : long[i + 1] = s[i]
  BY <1>1, <1>2
<1>5. ASSUME NEW i \in DOMAIN long, i # 1
      PROVE  i - 1 \in DOMAIN s /\ i = (i - 1) + 1
  BY <1>1, <1>3, <1>5
<1>6. 1 \in DOMAIN long /\ \A j \in DOMAIN s : j + 1 \in DOMAIN long
  BY <1>1, <1>3
<1>7. ToSet(long) = ToSet(s) \cup {x}
  <2>1. ASSUME NEW i \in DOMAIN long PROVE long[i] \in ToSet(s) \cup {x}
    BY <1>1, <1>4, <1>5, <2>1 DEF ToSet
  <2>2. ASSUME NEW y \in ToSet(s) \cup {x} PROVE \E i \in DOMAIN long : long[i] = y
    BY <1>1, <1>4, <1>6, <2>2 DEF ToSet
  <2> QED
    BY <2>1, <2>2 DEF ToSet
<1>8. ASSUME IsInjective(s), x \notin ToSet(s)
      PROVE  IsInjective(long)
  <2>1. ASSUME NEW i \in DOMAIN long, NEW k \in DOMAIN long, long[i] = long[k]
        PROVE  i = k
    <3>1. CASE i # 1 /\ k # 1
      <4>1. s[i - 1] = s[k - 1] /\ i - 1 \in DOMAIN s /\ k - 1 \in DOMAIN s
        BY <1>1, <1>4, <1>5, <2>1, <3>1
      <4>2. i - 1 = k - 1
        BY <1>8, <4>1 DEF IsInjective
      <4> QED
        BY <1>3, <4>2
    <3>2. CASE i = 1 /\ k # 1
      BY <1>1, <1>4, <1>5, <1>8, <2>1, <3>2 DEF ToSet
    <3>3. CASE i # 1 /\ k = 1
      BY <1>1, <1>4, <1>5, <1>8, <2>1, <3>3 DEF ToSet
    <3> QED
      BY <3>1, <3>2, <3>3
  <2> QED
    BY <2>1 DEF IsInjective
<1> QED
  BY <1>7, <1>8 DEF long

-----------------------------------------------------------------------------
(* Round-robin positions.                                                    *)

\* Division with remainder.
LEMMA Division ==
  ASSUME NEW n \in Nat \ {0}, NEW r \in Nat
  PROVE  /\ r % n \in 0 .. (n - 1)
         /\ \E q \in Int : r = (n * q) + (r % n)
<1>1. r = (n * (r \div n)) + (r % n) /\ r \div n \in Int
  OBVIOUS
<1>2. r % n \in 0 .. (n - 1)
  OBVIOUS
<1> QED
  BY <1>1, <1>2

\* ... and back.
LEMMA Remainder ==
  ASSUME NEW n \in Nat \ {0}, NEW q \in Int, NEW m \in 0 .. (n - 1)
  PROVE  ((n * q) + m) % n = m
OBVIOUS

\* Counting on from any number, every remainder has its turn.
LEMMA EveryTurn ==
  ASSUME NEW n \in Nat \ {0}, NEW r \in Nat, NEW m \in 0 .. (n - 1)
  PROVE  \E k \in 0 .. (n - 1) : (r + k) % n = m
<1> DEFINE s == r % n
<1>1. s \in 0 .. (n - 1)
  BY Division
<1>2. PICK q \in Int : r = (n * q) + s
  BY Division
<1> HIDE DEF s
<1>3. CASE m >= s
  <2>1. r + (m - s) = (n * q) + m
    BY <1>1, <1>2
  <2>2. (r + (m - s)) % n = m
    BY <2>1, Remainder
  <2>3. m - s \in 0 .. (n - 1)
    BY <1>1, <1>3
  <2> QED
    BY <2>2, <2>3
<1>4. CASE m < s
  <2>1. r + ((m + n) - s) = (n * (q + 1)) + m /\ q + 1 \in Int
    BY <1>1, <1>2
  <2>2. (r + ((m + n) - s)) % n = m
    <3>1. ((n * (q + 1)) + m) % n = m
      BY <2>1, Remainder
    <3> QED
      BY <2>1, <3>1
  <2>3. (m + n) - s \in 0 .. (n - 1)
    BY <1>1, <1>4
  <2> QED
    BY <2>2, <2>3
<1> QED
  BY <1>1, <1>3, <1>4

-----------------------------------------------------------------------------
(* A set of numbers has a least one: what induction shows of every number.   *)
LEMMA LeastOf ==
  ASSUME NEW S \in SUBSET Nat, S # {}
  PROVE  \E m \in S : \A k \in S : m <= k
<1> DEFINE Less == {pair \in Nat \X Nat : pair[1] < pair[2]}
<1>1. IsWellFoundedOn(Less, Nat)
  BY NatLessThanWellFounded DEF OpToRel
<1> HIDE DEF Less
<1>2. PICK m \in S : \A k \in S : ~(<<k, m>> \in Less)
  BY <1>1, WFMin
<1>3. \A k \in S : ~(k < m)
  BY <1>2 DEF Less
<1> QED
  BY <1>3

(* What an element added at the end, or taken off the front, changes. *)
LEMMA AppendAt ==
  ASSUME NEW S, NEW q \in Seq(S), NEW m \in S
  PROVE  /\ Append(q, m) \in Seq(S)
         /\ DOMAIN q \subseteq Nat /\ Len(q) + 1 \in Nat
         /\ DOMAIN Append(q, m) = DOMAIN q \cup {Len(q) + 1}
         /\ \A k \in DOMAIN q : k < Len(q) + 1 /\ Append(q, m)[k] = q[k]
         /\ Append(q, m)[Len(q) + 1] = m
<1>1. /\ DOMAIN q = 1 .. Len(q) /\ Len(q) \in Nat
      /\ Append(q, m) \in Seq(S) /\ Len(Append(q, m)) = Len(q) + 1
      /\ \A k \in 1 .. Len(q) : Append(q, m)[k] = q[k]
      /\ Append(q, m)[Len(q) + 1] = m
  BY LenProperties, AppendProperties
<1>2. DOMAIN Append(q, m) = 1 .. Len(q) + 1
  BY <1>1, LenProperties
<1> QED
  BY <1>1, <1>2

LEMMA TailAt ==
  ASSUME NEW S, NEW q \in Seq(S), q # <<>>
  PROVE  /\ Tail(q) \in Seq(S) /\ Head(q) \in S
         /\ DOMAIN q \subseteq Nat /\ DOMAIN Tail(q) \subseteq Nat
         /\ 1 \in DOMAIN q /\ q[1] = Head(q)
         /\ \A k \in DOMAIN Tail(q) : k + 1 \in DOMAIN q /\ k + 1 > 1 /\ Tail(q)[k] = q[k + 1]
         /\ \A k \in DOMAIN q : k = 1 \/ (k - 1 \in DOMAIN Tail(q) /\ k > 1 /\ q[k] = Tail(q)[k - 1])
<1>1. /\ DOMAIN q = 1 .. Len(q) /\ Len(q) \in Nat \ {0}
      /\ Tail(q) \in Seq(S) /\ Head(q) \in S /\ Len(Tail(q)) = Len(q) - 1
      /\ \A k \in 1 .. Len(Tail(q)) : Tail(q)[k] = q[k + 1]
  BY LenProperties, EmptySeq, HeadTailProperties
<1>2. DOMAIN Tail(q) = 1 .. Len(q) - 1
  BY <1>1, LenProperties
<1>3. Head(q) = q[1]
  OBVIOUS
<1> QED
  BY <1>1, <1>2, <1>3

\* Of sequences with a property one is the shortest, which takes the place of
\* induction over a sequence.
LEMMA ShortestOf ==
  ASSUME NEW S, NEW Q \in SUBSET Seq(S), Q # {}
  PROVE  \E s \in Q : \A t \in Q : Len(s) <= Len(t)
<1> DEFINE L == {Len(s) : s \in Q}
<1>1. L \in SUBSET Nat /\ L # {}
  BY LenProperties
<1>2. PICK m \in L : \A k \in L : m <= k
  <2> HIDE DEF L
  <2> QED
    BY <1>1, LeastOf
<1> QED
  BY <1>2

LEMMA FrontThenLast ==
  ASSUME NEW S, NEW s \in Seq(S), s # <<>>
  PROVE  /\ Front(s) \in Seq(S) /\ Last(s) \in S
         /\ s = Append(Front(s), Last(s))
         /\ Len(Front(s)) < Len(s)
<1>1. /\ Front(s) \in Seq(S) /\ Len(Front(s)) = Len(s) - 1
      /\ \A i \in 1 .. (Len(s) - 1) : Front(s)[i] = s[i]
  BY FrontProperties
<1>2. Len(s) \in Nat \ {0} /\ DOMAIN s = 1 .. Len(s) /\ Last(s) = s[Len(s)] /\ \A i \in 1 .. Len(s) : s[i] \in S
  BY EmptySeq, LenProperties, ElementOfSeq DEF Last
<1>3. Last(s) \in S
  BY <1>2
<1> DEFINE t == Append(Front(s), Last(s))
<1>4. /\ t \in Seq(S) /\ Len(t) = Len(s)
      /\ \A i \in 1 .. (Len(s) - 1) : t[i] = Front(s)[i]
      /\ t[Len(s)] = Last(s)
  <2>1. /\ t \in Seq(S) /\ Len(t) = Len(Front(s)) + 1
        /\ \A i \in 1 .. Len(Front(s)) : t[i] = Front(s)[i]
        /\ t[Len(Front(s)) + 1] = Last(s)
    BY <1>1, <1>3, AppendProperties
  <2> QED
    BY <1>1, <1>2, <2>1
<1> HIDE DEF t
<1>5. \A i \in 1 .. Len(s) : t[i] = s[i]
  BY <1>1, <1>2, <1>4
<1>6. s = t
  BY <1>2, <1>4, <1>5, SeqEqual
<1> QED
  BY <1>1, <1>2, <1>3, <1>6 DEF t

-----------------------------------------------------------------------------
\* A list without the elements that are gone.
Without(list, gone) ==
  LET rest[n \in 0 .. Len(list)] ==
        IF n = 0 THEN <<>>
        ELSE IF list[n] \in gone THEN rest[n-1] ELSE Append(rest[n-1], list[n])
  IN rest[Len(list)]

\* What is left of the first elements of a list, up to the m-th.
Rests(s, gone, m, f) ==
  f = [n \in 0 .. m |-> IF n = 0 THEN <<>>
                        ELSE IF s[n] \in gone THEN f[n-1] ELSE Append(f[n-1], s[n])]

LEMMA RestsExist ==
  ASSUME NEW s, NEW gone, NEW m \in Nat
  PROVE  \E f : Rests(s, gone, m, f)
<1> DEFINE None == {k \in Nat : ~\E f : Rests(s, gone, k, f)}
<1> SUFFICES ASSUME None # {} PROVE FALSE
  OBVIOUS
<1>1. PICK k \in None : \A l \in None : k <= l
  <2>1. None \in SUBSET Nat
    OBVIOUS
  <2> HIDE DEF None
  <2> QED
    BY <2>1, LeastOf
<1>2. CASE k = 0
  <2>1. Rests(s, gone, 0, [n \in 0 .. 0 |-> <<>>])
    BY DEF Rests
  <2> QED
    BY <1>1, <1>2, <2>1
<1>3. CASE k # 0
  <2>1. k - 1 \in Nat /\ k - 1 \notin None
    BY <1>1, <1>3
  <2>2. PICK f : Rests(s, gone, k - 1, f)
    BY <2>1
  <2> DEFINE last == IF s[k] \in gone THEN f[k-1] ELSE Append(f[k-1], s[k])
             g    == [n \in 0 .. k |-> IF n = k THEN last ELSE f[n]]
  <2>3. \A n \in 0 .. k - 1 : f[n] = IF n = 0 THEN <<>>
                        ELSE IF s[n] \in gone THEN f[n-1] ELSE Append(f[n-1], s[n])
    BY <2>2 DEF Rests
  <2>4. \A n \in 0 .. k : g[n] = IF n = 0 THEN <<>>
                        ELSE IF s[n] \in gone THEN g[n-1] ELSE Append(g[n-1], s[n])
    <3> SUFFICES ASSUME NEW n \in 0 .. k
                 PROVE  g[n] = IF n = 0 THEN <<>>
                        ELSE IF s[n] \in gone THEN g[n-1] ELSE Append(g[n-1], s[n])
      OBVIOUS
    <3>1. CASE n = k
      <4>1. n - 1 \in 0 .. k /\ n - 1 # k /\ n # 0
        BY <1>1, <1>3, <3>1
      <4>2. g[n-1] = f[n-1] /\ g[n] = last
        BY <3>1, <4>1
      <4> QED
        BY <3>1, <4>1, <4>2
    <3>2. CASE n # k /\ n # 0
      <4>1. n \in 0 .. k - 1 /\ n - 1 \in 0 .. k /\ n - 1 # k
        BY <1>1, <1>3, <3>2
      <4>2. g[n-1] = f[n-1] /\ g[n] = f[n]
        BY <3>2, <4>1
      <4> QED
        BY <2>3, <3>2, <4>1, <4>2
    <3>3. CASE n = 0
      BY <1>1, <1>3, <2>3, <3>3
    <3> QED
      BY <3>1, <3>2, <3>3
  <2>5. Rests(s, gone, k, g)
    <3> HIDE DEF last
    <3>1. g = [n \in 0 .. k |-> g[n]]
      OBVIOUS
    <3> HIDE DEF g
    <3> QED
      BY <2>4, <3>1 DEF Rests
  <2> QED
    BY <1>1, <2>5
<1> QED
  BY <1>2, <1>3

LEMMA WithoutRests ==
  ASSUME NEW S, NEW s \in Seq(S), NEW gone
  PROVE  \E f : Rests(s, gone, Len(s), f) /\ Without(s, gone) = f[Len(s)]
<1> DEFINE P(f) == f = [n \in 0 .. Len(s) |->
                          IF n = 0 THEN <<>>
                          ELSE IF s[n] \in gone THEN f[n-1] ELSE Append(f[n-1], s[n])]
<1>1. Without(s, gone) = (CHOOSE f : P(f))[Len(s)]
  BY Zenon DEF Without
<1>2. Len(s) \in Nat
  BY LenProperties
<1>3. \E f : P(f)
  <2>1. \E f : Rests(s, gone, Len(s), f)
    BY <1>2, RestsExist
  <2> QED
    BY <2>1 DEF Rests
<1> HIDE DEF P
<1>4. P(CHOOSE f : P(f))
  BY <1>3
<1>5. \A f : P(f) => Rests(s, gone, Len(s), f)
  BY DEF P, Rests
<1> QED
  BY <1>1, <1>4, <1>5

\* Lists that agree up to m, but for what is gone from each of them, have the
\* same rest there.
LEMMA RestsAgree ==
  ASSUME NEW s, NEW t, NEW A, NEW B, NEW l \in Nat, NEW k \in Nat, NEW f, NEW g,
         Rests(s, A, l, f), Rests(t, B, k, g), NEW m \in Nat, m <= l, m <= k,
         \A n \in 1 .. m : (s[n] \in A <=> t[n] \in B) /\ (s[n] \in A \/ s[n] = t[n])
  PROVE  f[m] = g[m]
<1> DEFINE Bad == {n \in 0 .. m : f[n] # g[n]}
<1> SUFFICES ASSUME Bad # {} PROVE FALSE
  OBVIOUS
<1>1. PICK n \in Bad : \A j \in Bad : n <= j
  <2>1. Bad \in SUBSET Nat
    OBVIOUS
  <2> HIDE DEF Bad
  <2> QED
    BY <2>1, LeastOf
<1>2. /\ f[n] = IF n = 0 THEN <<>> ELSE IF s[n] \in A THEN f[n-1] ELSE Append(f[n-1], s[n])
      /\ g[n] = IF n = 0 THEN <<>> ELSE IF t[n] \in B THEN g[n-1] ELSE Append(g[n-1], t[n])
  <2>1. n \in 0 .. l /\ n \in 0 .. k
    BY <1>1
  <2> QED
    BY <2>1 DEF Rests
<1>3. n # 0
  BY <1>1, <1>2
<1>4. n - 1 \in 0 .. m /\ n - 1 \notin Bad /\ n \in 1 .. m
  BY <1>1, <1>3
<1>5. f[n-1] = g[n-1]
  BY <1>4
<1> QED
  BY <1>1, <1>2, <1>3, <1>4, <1>5

LEMMA WithoutSame ==
  ASSUME NEW S, NEW s \in Seq(S), NEW T, NEW t \in Seq(T), NEW A, NEW B, Len(s) = Len(t),
         \A n \in DOMAIN s : (s[n] \in A <=> t[n] \in B) /\ (s[n] \in A \/ s[n] = t[n])
  PROVE  Without(s, A) = Without(t, B)
<1>1. PICK f : Rests(s, A, Len(s), f) /\ Without(s, A) = f[Len(s)]
  BY WithoutRests
<1>2. PICK g : Rests(t, B, Len(t), g) /\ Without(t, B) = g[Len(t)]
  BY WithoutRests
<1>3. Len(s) \in Nat /\ DOMAIN s = 1 .. Len(s)
  BY LenProperties
<1> QED
  BY <1>1, <1>2, <1>3, RestsAgree

LEMMA WithoutAppend ==
  ASSUME NEW S, NEW s \in Seq(S), NEW x \in S, NEW gone
  PROVE  Without(Append(s, x), gone) =
           IF x \in gone THEN Without(s, gone) ELSE Append(Without(s, gone), x)
<1> DEFINE t == Append(s, x)
           m == Len(s)
<1>1. /\ t \in Seq(S) /\ Len(t) = m + 1 /\ m \in Nat
      /\ \A i \in 1 .. m : t[i] = s[i]
      /\ t[m + 1] = x
  BY AppendProperties, LenProperties
<1>2. PICK f : Rests(s, gone, m, f) /\ Without(s, gone) = f[m]
  BY WithoutRests
<1> HIDE DEF t
<1>3. PICK g : Rests(t, gone, m + 1, g) /\ Without(t, gone) = g[m + 1]
  BY <1>1, WithoutRests
<1>4. f[m] = g[m]
  <2>1. ASSUME NEW l \in Nat, NEW k \in Nat, l <= k, Rests(s, gone, l, f), Rests(t, gone, k, g),
               \A n \in 1 .. l : t[n] = s[n]
        PROVE  f[l] = g[l]
    <3>1. \A n \in 1 .. l : (s[n] \in gone <=> t[n] \in gone) /\ (s[n] \in gone \/ s[n] = t[n])
      BY <2>1
    <3> QED
      BY <2>1, <3>1, RestsAgree
  <2>2. m \in Nat /\ m + 1 \in Nat /\ m <= m + 1
    BY <1>1
  <2> HIDE DEF m
  <2> QED
    BY <1>1, <1>2, <1>3, <2>1, <2>2
<1>5. g[m + 1] = IF x \in gone THEN g[m] ELSE Append(g[m], x)
  <2>1. m + 1 \in 0 .. m + 1 /\ m + 1 # 0 /\ (m + 1) - 1 = m
    BY <1>1
  <2> QED
    BY <1>1, <1>3, <2>1 DEF Rests
<1> QED
  BY <1>2, <1>3, <1>4, <1>5 DEF t

LEMMA WithoutEmpty ==
  ASSUME NEW gone
  PROVE  Without(<<>>, gone) = <<>>
<1>1. <<>> \in Seq({}) /\ Len(<<>>) = 0
  BY EmptySeq
<1>2. PICK f : Rests(<<>>, gone, 0, f) /\ Without(<<>>, gone) = f[0]
  BY <1>1, WithoutRests
<1> QED
  BY <1>2 DEF Rests

(* Without() on a list of one.                                               *)
LEMMA WithoutOne ==
  ASSUME NEW S, NEW x \in S, NEW gone
  PROVE  Without(<<x>>, gone) = IF x \in gone THEN <<>> ELSE <<x>>
<1> DEFINE e == <<>>
<1>1. e \in Seq(S) /\ Append(e, x) = <<x>> /\ Without(e, gone) = e
  BY EmptySeq, WithoutEmpty
<1> HIDE DEF e
<1>2. Without(Append(e, x), gone) = IF x \in gone THEN Without(e, gone) ELSE Append(Without(e, gone), x)
  BY <1>1, WithoutAppend
<1> QED
  BY <1>1, <1>2 DEF e

LEMMA WithoutElements ==
  ASSUME NEW S, NEW s \in Seq(S), NEW gone
  PROVE  Without(s, gone) \in Seq(S) /\ ToSet(Without(s, gone)) = ToSet(s) \ gone
<1> DEFINE Q == {t \in Seq(S) : ~(Without(t, gone) \in Seq(S) /\ ToSet(Without(t, gone)) = ToSet(t) \ gone)}
<1> SUFFICES ASSUME Q # {} PROVE FALSE
  OBVIOUS
<1>1. PICK t \in Q : \A u \in Q : Len(t) <= Len(u)
  <2>1. Q \in SUBSET Seq(S)
    OBVIOUS
  <2> HIDE DEF Q
  <2> QED
    BY <2>1, ShortestOf
<1>2. t # <<>>
  <2>1. ToSet(<<>>) = {} /\ <<>> \in Seq(S)
    BY EmptySeq DEF ToSet
  <2> QED
    BY <1>1, <2>1, WithoutEmpty
<1>3. PICK u \in Seq(S), x \in S : t = Append(u, x) /\ Len(u) < Len(t)
  BY <1>1, <1>2, FrontThenLast
<1>4. u \notin Q
  <2>1. Len(u) \in Nat /\ Len(t) \in Nat
    BY <1>1, LenProperties
  <2> QED
    BY <1>1, <1>3, <2>1
<1>5. Without(u, gone) \in Seq(S) /\ ToSet(Without(u, gone)) = ToSet(u) \ gone
  BY <1>4
<1>6. ToSet(t) = ToSet(u) \cup {x}
  BY <1>3, AppendElements
<1>7. Without(t, gone) = IF x \in gone THEN Without(u, gone) ELSE Append(Without(u, gone), x)
  BY <1>3, WithoutAppend
<1>8. Without(t, gone) \in Seq(S) /\ ToSet(Without(t, gone)) = ToSet(t) \ gone
  <2>1. CASE x \in gone
    BY <1>5, <1>6, <1>7, <2>1
  <2>2. CASE x \notin gone
    <3>1. /\ Append(Without(u, gone), x) \in Seq(S)
          /\ ToSet(Append(Without(u, gone), x)) = ToSet(Without(u, gone)) \cup {x}
      BY <1>5, AppendElements, AppendProperties
    <3> QED
      BY <1>5, <1>6, <1>7, <2>2, <3>1
  <2> QED
    BY <2>1, <2>2
<1> QED
  BY <1>1, <1>8

\* A list that has none of the elements stays as it is.
LEMMA WithoutNone ==
  ASSUME NEW S, NEW s \in Seq(S), NEW gone, ToSet(s) \cap gone = {}
  PROVE  Without(s, gone) = s
<1> DEFINE Q == {t \in Seq(S) : ToSet(t) \cap gone = {} /\ Without(t, gone) # t}
<1> SUFFICES ASSUME Q # {} PROVE FALSE
  OBVIOUS
<1>1. PICK t \in Q : \A u \in Q : Len(t) <= Len(u)
  <2>1. Q \in SUBSET Seq(S)
    OBVIOUS
  <2> HIDE DEF Q
  <2> QED
    BY <2>1, ShortestOf
<1>2. t # <<>>
  BY <1>1, WithoutEmpty
<1>3. PICK u \in Seq(S), x \in S : t = Append(u, x) /\ Len(u) < Len(t)
  BY <1>1, <1>2, FrontThenLast
<1>4. u \notin Q
  <2>1. Len(u) \in Nat /\ Len(t) \in Nat
    BY <1>1, LenProperties
  <2> QED
    BY <1>1, <1>3, <2>1
<1>5. ToSet(t) = ToSet(u) \cup {x}
  BY <1>3, AppendElements
<1>6. x \notin gone /\ Without(u, gone) = u
  BY <1>1, <1>4, <1>5
<1>7. Without(t, gone) = Append(Without(u, gone), x)
  BY <1>3, <1>6, WithoutAppend
<1> QED
  BY <1>1, <1>3, <1>6, <1>7

LEMMA WithoutTwice ==
  ASSUME NEW S, NEW s \in Seq(S), NEW A, NEW B
  PROVE  Without(Without(s, A), B) = Without(s, A \cup B)
<1> DEFINE Q == {t \in Seq(S) : Without(Without(t, A), B) # Without(t, A \cup B)}
<1> SUFFICES ASSUME Q # {} PROVE FALSE
  OBVIOUS
<1>1. PICK t \in Q : \A u \in Q : Len(t) <= Len(u)
  <2>1. Q \in SUBSET Seq(S)
    OBVIOUS
  <2> HIDE DEF Q
  <2> QED
    BY <2>1, ShortestOf
<1>2. t # <<>>
  BY <1>1, WithoutEmpty
<1>3. PICK u \in Seq(S), x \in S : t = Append(u, x) /\ Len(u) < Len(t)
  BY <1>1, <1>2, FrontThenLast
<1>4. Without(Without(u, A), B) = Without(u, A \cup B)
  <2>1. Len(u) \in Nat /\ Len(t) \in Nat
    BY <1>1, <1>3, LenProperties
  <2>2. u \notin Q
    <3> HIDE DEF Q
    <3> QED
      BY <1>1, <1>3, <2>1
  <2> QED
    BY <1>3, <2>2
<1>5. Without(t, A) = IF x \in A THEN Without(u, A) ELSE Append(Without(u, A), x)
  BY <1>3, WithoutAppend
<1>6. Without(t, A \cup B) = IF x \in A \cup B THEN Without(u, A \cup B) ELSE Append(Without(u, A \cup B), x)
  BY <1>3, WithoutAppend
<1>7. Without(Append(Without(u, A), x), B) =
        IF x \in B THEN Without(Without(u, A), B) ELSE Append(Without(Without(u, A), B), x)
  <2>1. Without(u, A) \in Seq(S)
    BY WithoutElements
  <2> QED
    BY <1>3, <2>1, WithoutAppend
<1> QED
  BY <1>1, <1>4, <1>5, <1>6, <1>7

\* What is removed from two lists in a row.
LEMMA WithoutConcat ==
  ASSUME NEW S, NEW r \in Seq(S), NEW s \in Seq(S), NEW gone
  PROVE  Without(r \o s, gone) = Without(r, gone) \o Without(s, gone)
<1> DEFINE Holds(t) == Without(r \o t, gone) = Without(r, gone) \o Without(t, gone)
           Q == {t \in Seq(S) : ~Holds(t)}
<1> HIDE DEF Holds
<1> SUFFICES ASSUME Q # {} PROVE FALSE
  BY DEF Holds
<1>1. PICK t \in Q : \A u \in Q : Len(t) <= Len(u)
  <2>1. Q \in SUBSET Seq(S)
    OBVIOUS
  <2> HIDE DEF Q
  <2> QED
    BY <2>1, ShortestOf
<1>2. Without(r, gone) \in Seq(S)
  BY WithoutElements
<1>3. t # <<>>
  <2>1. r \o <<>> = r /\ Without(r, gone) \o <<>> = Without(r, gone)
    BY <1>2, ConcatEmptySeq
  <2>2. Without(<<>>, gone) = <<>>
    BY WithoutEmpty
  <2>3. Holds(<<>>)
    BY <2>1, <2>2, Zenon DEF Holds
  <2> QED
    BY <1>1, <2>3
<1>4. PICK u \in Seq(S), y \in S : t = Append(u, y) /\ Len(u) < Len(t)
  BY <1>1, <1>3, FrontThenLast
<1>5. Holds(u)
  <2>1. Len(u) \in Nat /\ Len(t) \in Nat
    BY <1>1, LenProperties
  <2> QED
    BY <1>1, <1>4, <2>1
<1> DEFINE v == r \o u
           w == r \o t
<1>6. w = Append(v, y) /\ v \in Seq(S)
  BY <1>4, ConcatAppend, ConcatProperties
<1>7. Without(w, gone) = IF y \in gone THEN Without(v, gone) ELSE Append(Without(v, gone), y)
  <2> HIDE DEF v, w
  <2> QED
    BY <1>4, <1>6, WithoutAppend
<1>8. Without(t, gone) = IF y \in gone THEN Without(u, gone) ELSE Append(Without(u, gone), y)
  BY <1>4, WithoutAppend
<1>9. Without(r, gone) \o Append(Without(u, gone), y) = Append(Without(r, gone) \o Without(u, gone), y)
  <2>1. Without(u, gone) \in Seq(S)
    BY <1>4, WithoutElements
  <2> QED
    BY <1>2, <1>4, <2>1, ConcatAppend
<1>10. Holds(t)
  BY <1>5, <1>7, <1>8, <1>9 DEF Holds
<1> QED
  BY <1>1, <1>10
=============================================================================
