----------------------------- MODULE SignalProofs -----------------------------
(***************************************************************************)
(* Proofs about Signal, for every set of addresses and any number of       *)
(* connections and nested emissions: SignalInv is invariant, references    *)
(* are exact, the ring is closed, and Signal implements Handlers.          *)
(***************************************************************************)
EXTENDS Signal, FiniteSetTheorems

-----------------------------------------------------------------------------
(* The trail of a ring.                                                    *)

\* A ring has no more links than there are addresses.
LEMMA RingFits ==
  ASSUME NEW q \in Seq(Address), NEW head \in Address, IsInjective(q), head \notin ToSet(q)
  PROVE  Len(q) + 1 \in 1 .. Cardinality(Address)
<1> DEFINE f == Append(q, head)
           N == Cardinality(Address)
           n == Len(q) + 1
<1>1. /\ f \in Seq(Address) /\ Len(f) = n /\ n \in Nat \ {0}
      /\ \A i \in 1 .. n - 1 : f[i] = q[i]
      /\ f[n] = head
      /\ Len(q) \in Nat /\ DOMAIN q = 1 .. n - 1
  BY AppendProperties, LenProperties
<1>2. N \in Nat /\ IsFiniteSet(Address)
  BY SignalAssumption, FS_CardinalityType
<1>3. IsFiniteSet(1 .. n) /\ Cardinality(1 .. n) = n
  <2> HIDE DEF n
  <2> QED
    BY <1>1, FS_Interval
<1>4. f \in [1 .. n -> Address]
  BY <1>1, LenProperties, ElementOfSeq
<1> HIDE DEF f, n, N
<1>5. ASSUME N < n PROVE FALSE
  <2>1. PICK x, y \in 1 .. n : x # y /\ f[x] = f[y]
    BY <1>2, <1>3, <1>4, <1>5, FS_PigeonHole DEF N
  <2>2. \A i \in 1 .. n - 1 : q[i] # head
    BY <1>1 DEF ToSet
  <2>3. CASE x = n \/ y = n
    BY <1>1, <2>1, <2>2, <2>3
  <2>4. CASE x # n /\ y # n
    <3>1. x \in 1 .. n - 1 /\ y \in 1 .. n - 1
      BY <1>1, <2>4
    <3> QED
      BY <1>1, <2>1, <3>1 DEF IsInjective
  <2> QED
    BY <2>3, <2>4
<1> QED
  BY <1>1, <1>2, <1>5 DEF n, N

\* The steps of Trail.
Steps(h, head, m, f) ==
  f = [n \in 0 .. m |-> IF n = 0 THEN head ELSE IF f[n-1] = NULL THEN NULL ELSE h[f[n-1]].next]

\* The function that Trail is exists, whatever the links point to.
LEMMA StepsExist ==
  ASSUME NEW h, NEW head, NEW m \in Nat
  PROVE  \E f : Steps(h, head, m, f)
<1> DEFINE None == {k \in Nat : ~\E f : Steps(h, head, k, f)}
<1> SUFFICES ASSUME None # {} PROVE FALSE
  OBVIOUS
<1>1. PICK k \in None : \A l \in None : k <= l
  <2>1. None \in SUBSET Nat
    OBVIOUS
  <2> HIDE DEF None
  <2> QED
    BY <2>1, LeastOf
<1>2. CASE k = 0
  <2>1. Steps(h, head, 0, [n \in 0 .. 0 |-> head])
    BY DEF Steps
  <2> QED
    BY <1>1, <1>2, <2>1
<1>3. CASE k # 0
  <2>1. k - 1 \in Nat /\ k - 1 \notin None
    BY <1>1, <1>3
  <2>2. PICK f : Steps(h, head, k - 1, f)
    BY <2>1
  <2> DEFINE last == IF f[k-1] = NULL THEN NULL ELSE h[f[k-1]].next
             g    == [n \in 0 .. k |-> IF n = k THEN last ELSE f[n]]
  <2>3. \A n \in 0 .. k - 1 :
          f[n] = IF n = 0 THEN head ELSE IF f[n-1] = NULL THEN NULL ELSE h[f[n-1]].next
    BY <2>2 DEF Steps
  <2>4. \A n \in 0 .. k :
          g[n] = IF n = 0 THEN head ELSE IF g[n-1] = NULL THEN NULL ELSE h[g[n-1]].next
    <3> SUFFICES ASSUME NEW n \in 0 .. k
                 PROVE  g[n] = IF n = 0 THEN head
                               ELSE IF g[n-1] = NULL THEN NULL ELSE h[g[n-1]].next
      OBVIOUS
    <3>1. CASE n = k
      <4>1. n - 1 \in 0 .. k /\ n - 1 # k /\ n # 0
        BY <1>1, <1>3, <3>1
      <4>2. g[n-1] = f[n-1] /\ g[n] = last
        BY <3>1, <4>1
      <4> QED
        BY <3>1, <4>1, <4>2
    <3>2. CASE n # k /\ n # 0
      <4>1. n \in 0 .. k - 1 /\ n - 1 \in 0 .. k /\ n - 1 # k
        BY <1>1, <1>3, <3>2
      <4>2. g[n-1] = f[n-1] /\ g[n] = f[n]
        BY <3>2, <4>1
      <4> QED
        BY <2>3, <3>2, <4>1, <4>2
    <3>3. CASE n = 0
      BY <1>1, <1>3, <2>3, <3>3
    <3> QED
      BY <3>1, <3>2, <3>3
  <2>5. Steps(h, head, k, g)
    <3> HIDE DEF last
    <3>1. g = [n \in 0 .. k |-> g[n]]
      OBVIOUS
    <3> HIDE DEF g
    <3> QED
      BY <2>4, <3>1 DEF Steps
  <2> QED
    BY <1>1, <2>5
<1> QED
  BY <1>2, <1>3

\* Trail is that function.
LEMMA TrailSteps ==
  ASSUME NEW h, NEW head
  PROVE  Steps(h, head, Cardinality(Address), Trail(h, head))
<1> DEFINE N == Cardinality(Address)
           P(f) == f = [n \in 0 .. N |->
                          IF n = 0 THEN head ELSE IF f[n-1] = NULL THEN NULL ELSE h[f[n-1]].next]
<1>1. Trail(h, head) = CHOOSE f : P(f)
  BY Zenon DEF Trail
<1>2. N \in Nat
  BY SignalAssumption, FS_CardinalityType
<1>3. \E f : P(f)
  <2>1. \E f : Steps(h, head, N, f)
    <3> HIDE DEF N
    <3> QED
      BY <1>2, StepsExist
  <2> QED
    BY <2>1 DEF Steps
<1> HIDE DEF P
<1>4. P(CHOOSE f : P(f))
  BY <1>3
<1>5. \A f : P(f) => Steps(h, head, N, f)
  BY DEF P, Steps
<1> QED
  BY <1>1, <1>4, <1>5

\* From the head of a ring the trail leads through its links and back.
LEMMA TrailOfRing ==
  ASSUME NEW h, NEW q \in Seq(Address), NEW head \in Address, Ring(h, head, q)
  PROVE  /\ Trail(h, head)[0] = head
         /\ \A i \in DOMAIN q : Trail(h, head)[i] = q[i]
         /\ Trail(h, head)[Len(q) + 1] = head
<1> DEFINE at == Trail(h, head)
           N  == Cardinality(Address)
           n  == Len(q)
           Where(i) == Place(head, q, i)
           Bad == {i \in 0 .. n + 1 : at[i] # Where(i)}
<1>1. /\ n \in Nat /\ DOMAIN q = 1 .. n /\ \A i \in 1 .. n : q[i] \in Address
      /\ n + 1 <= N /\ N \in Nat
  <2>1. n + 1 \in 1 .. N
    BY RingFits DEF Ring
  <2>2. N \in Nat
    BY SignalAssumption, FS_CardinalityType
  <2>3. n \in Nat /\ DOMAIN q = 1 .. n /\ \A i \in 1 .. n : q[i] \in Address
    BY LenProperties, ElementOfSeq
  <2> QED
    BY <2>1, <2>2, <2>3
<1>2. \A i \in 0 .. n + 1 :
        at[i] = IF i = 0 THEN head ELSE IF at[i-1] = NULL THEN NULL ELSE h[at[i-1]].next
  <2>1. Steps(h, head, N, at)
    BY TrailSteps
  <2> HIDE DEF at, N
  <2>2. \A i \in 0 .. N :
          at[i] = IF i = 0 THEN head ELSE IF at[i-1] = NULL THEN NULL ELSE h[at[i-1]].next
    BY <2>1 DEF Steps
  <2>3. \A i \in 0 .. n + 1 : i \in 0 .. N
    BY <1>1
  <2> QED
    BY <2>2, <2>3
<1>3. ASSUME Bad # {} PROVE FALSE
  <2>1. PICK i \in Bad : \A j \in Bad : i <= j
    <3>1. Bad \in SUBSET Nat
      BY <1>1
    <3> HIDE DEF Bad
    <3> QED
      BY <1>3, <3>1, LeastOf
  <2>2. i # 0
    BY <1>1, <1>2, <2>1 DEF Place
  <2>3. i - 1 \in 0 .. n /\ i \in 1 .. n + 1 /\ at[i-1] = Where(i-1)
    BY <1>1, <2>1, <2>2
  <2>4. Where(i-1) \in Address
    BY <1>1, <2>3 DEF Place
  <2>5. at[i] = h[Where(i-1)].next
    BY <1>2, <2>2, <2>3, <2>4, SignalAssumption
  <2>6. h[Where(i-1)].next = Where(i)
    <3>1. i - 1 \in 0 .. Len(q) /\ (i - 1) + 1 = i
      BY <1>1, <2>3
    <3> HIDE DEF n
    <3> QED
      BY <3>1 DEF Ring
  <2> QED
    BY <2>1, <2>5, <2>6
<1>4. \A i \in 0 .. n + 1 : at[i] = Where(i)
  BY <1>3
<1>5. Where(0) = head /\ Where(n + 1) = head /\ \A i \in DOMAIN q : Where(i) = q[i] /\ i \in 0 .. n + 1
  BY <1>1 DEF Place
<1>6. at[0] = head /\ at[n + 1] = head /\ \A i \in DOMAIN q : at[i] = q[i]
  <2> HIDE DEF at, Where
  <2> QED
    BY <1>1, <1>4, <1>5
<1> QED
  BY <1>6

\* Siblings are the links of the ring.
LEMMA SiblingsAre ==
  ASSUME NEW h, NEW q \in Seq(Address), NEW head \in Address, Ring(h, head, q)
  PROVE  Siblings(h, head) = q
<1> DEFINE at  == Trail(h, head)
           N   == Cardinality(Address)
           n   == Len(q)
           Closed(i) == at[i] \in {head, NULL}
           P(m) == Closed(m) /\ \A k \in 1 .. m-1 : ~Closed(k)
           end == CHOOSE m \in 1 .. N : P(m)
<1>1. /\ n \in Nat /\ DOMAIN q = 1 .. n /\ \A i \in 1 .. n : q[i] \in Address
      /\ n + 1 \in 1 .. N /\ N \in Nat
  <2>1. n + 1 \in 1 .. N
    BY RingFits DEF Ring
  <2>2. N \in Nat
    BY SignalAssumption, FS_CardinalityType
  <2>3. n \in Nat /\ DOMAIN q = 1 .. n /\ \A i \in 1 .. n : q[i] \in Address
    BY LenProperties, ElementOfSeq
  <2> QED
    BY <2>1, <2>2, <2>3
<1>2. /\ \A i \in 1 .. n : at[i] = q[i]
      /\ at[n + 1] = head
  <2>1. /\ \A i \in DOMAIN q : at[i] = q[i]
        /\ at[Len(q) + 1] = head
    BY TrailOfRing
  <2> HIDE DEF at
  <2> QED
    BY <1>1, <2>1
<1>3. \A i \in 1 .. n : ~Closed(i)
  <2>1. \A i \in 1 .. n : q[i] # head /\ q[i] # NULL
    BY <1>1, SignalAssumption DEF Ring, ToSet
  <2> HIDE DEF at, n
  <2> QED
    BY <1>2, <2>1
<1>4. P(n + 1)
  <2> HIDE DEF at, n
  <2>1. (n + 1) - 1 = n
    BY <1>1
  <2> QED
    BY <1>2, <1>3, <2>1
<1>5. end \in 1 .. N /\ P(end)
  <2> HIDE DEF P, N, n
  <2> QED
    BY <1>1, <1>4
<1>6. end = n + 1
  <2>1. ~(end < n + 1)
    <3>1. end < n + 1 => end \in 1 .. n
      <4> HIDE DEF end, n, N, P
      <4> QED
        BY <1>1, <1>5
    <3> QED
      BY <1>3, <1>5, <3>1
  <2>2. ~(end > n + 1)
    <3>1. end > n + 1 => n + 1 \in 1 .. end - 1
      <4> HIDE DEF end, n, N, P
      <4> QED
        BY <1>1, <1>5
    <3>2. ~(n + 1 \in 1 .. end - 1)
      <4> HIDE DEF end, n, at
      <4> QED
        BY <1>4, <1>5
    <3> QED
      BY <3>1, <3>2
  <2> HIDE DEF end, n, N, P
  <2> QED
    BY <1>1, <1>5, <2>1, <2>2
<1>7. Siblings(h, head) = [i \in 1 .. end-1 |-> at[i]]
  <2>1. head # NULL
    BY SignalAssumption
  <2> QED
    BY <2>1 DEF Siblings
<1>8. end - 1 = n
  <2> HIDE DEF end, n
  <2> QED
    BY <1>1, <1>6
<1>9. q = [i \in 1 .. n |-> q[i]]
  BY <1>1
<1> HIDE DEF at, end, n
<1>10. [i \in 1 .. n |-> at[i]] = [i \in 1 .. n |-> q[i]]
  BY <1>2
<1> QED
  BY <1>7, <1>8, <1>9, <1>10

-----------------------------------------------------------------------------
(* Rings and the operations on them.                                       *)

\* No link is in two places of a ring.
LEMMA PlacesApart ==
  ASSUME NEW q \in Seq(Address), NEW head \in Address, IsInjective(q), head \notin ToSet(q)
  PROVE  /\ \A i \in 0 .. Len(q) + 1 : Place(head, q, i) \in {head} \cup ToSet(q)
         /\ \A i, j \in 0 .. Len(q) : Place(head, q, i) = Place(head, q, j) => i = j
         /\ \A i, j \in 1 .. Len(q) + 1 : Place(head, q, i) = Place(head, q, j) => i = j
         /\ \A a \in {head} \cup ToSet(q) : \E i \in 0 .. Len(q) : Place(head, q, i) = a
         /\ ToSet(q) \subseteq Address /\ Len(q) \in Nat
         /\ Place(head, q, 0) = head /\ Place(head, q, Len(q) + 1) = head
<1>1. Len(q) \in Nat /\ DOMAIN q = 1 .. Len(q) /\ \A i \in 1 .. Len(q) : q[i] \in Address
  BY LenProperties, ElementOfSeq
<1>2. ToSet(q) = {q[i] : i \in 1 .. Len(q)}
  BY <1>1 DEF ToSet
<1>3. \A i, j \in 1 .. Len(q) : q[i] = q[j] => i = j
  BY <1>1 DEF IsInjective
<1> DEFINE n == Len(q)
<1>4. n \in Nat /\ n = Len(q)
  BY <1>1
<1> HIDE DEF n
<1>5. \A i : Place(head, q, i) = IF i \in 1 .. n THEN q[i] ELSE head
  BY <1>1, <1>4 DEF Place
<1>6. \A i \in 1 .. n : q[i] \in ToSet(q) /\ q[i] # head /\ q[i] \in Address
  BY <1>1, <1>2, <1>4
<1>7. ToSet(q) \subseteq Address
  BY <1>1, <1>2
<1>8. \A i \in 0 .. n + 1 : Place(head, q, i) \in {head} \cup ToSet(q)
  BY <1>5, <1>6
<1>9. \A i, j \in 0 .. n : Place(head, q, i) = Place(head, q, j) => i = j
  BY <1>3, <1>4, <1>5, <1>6
<1>10. \A i, j \in 1 .. n + 1 : Place(head, q, i) = Place(head, q, j) => i = j
  BY <1>3, <1>4, <1>5, <1>6
<1>11. ASSUME NEW a \in {head} \cup ToSet(q)
       PROVE  \E i \in 0 .. n : Place(head, q, i) = a
  <2>1. CASE a = head
    BY <1>4, <1>5, <2>1
  <2>2. CASE a \in ToSet(q)
    <3>1. PICK i \in 1 .. n : q[i] = a
      BY <1>2, <1>4, <2>2
    <3> QED
      BY <1>4, <1>5, <3>1
  <2> QED
    BY <2>1, <2>2
<1>12. Place(head, q, 0) = head /\ Place(head, q, n + 1) = head
  BY <1>4, <1>5
<1> QED
  BY <1>1, <1>4, <1>7, <1>8, <1>9, <1>10, <1>11, <1>12

\* Links differ by a reference more.
LEMMA IncrefAt ==
  ASSUME NEW h \in [Address -> Links], NEW links
  PROVE  /\ Incref(h, links) \in [Address -> Links]
         /\ \A a \in Address :
              /\ Incref(h, links)[a].next = h[a].next
              /\ Incref(h, links)[a].prev = h[a].prev
              /\ Incref(h, links)[a].function = h[a].function
              /\ Incref(h, links)[a].ref = IF a \in links THEN h[a].ref + 1 ELSE h[a].ref
<1>1. \A a \in Address : [h[a] EXCEPT !.ref = @ + 1] \in Links
  BY DEF Links
<1> QED
  BY <1>1 DEF Incref, Links

\* A link is as it was but for a reference less, or it is deleted.
LEMMA DecrefAt ==
  ASSUME NEW h \in [Address -> Links], NEW links, \A a \in Address : a \in links => h[a].ref > 0
  PROVE  /\ Decref(h, links) \in [Address -> Links]
         /\ \A a \in Address :
              /\ Decref(h, links)[a].ref = IF a \in links THEN h[a].ref - 1 ELSE h[a].ref
              /\ \/ /\ Decref(h, links)[a].next = h[a].next
                    /\ Decref(h, links)[a].prev = h[a].prev
                    /\ Decref(h, links)[a].function = h[a].function
                 \/ h[a].ref = 1 /\ Decref(h, links)[a] = Unused
<1>1. Unused \in Links
  BY DEF Unused, Links
<1>2. ASSUME NEW a \in Address
      PROVE  /\ h[a].ref \in Nat
             /\ a \in links /\ h[a].ref # 1 => [h[a] EXCEPT !.ref = @ - 1] \in Links
  BY DEF Links
<1>3. \A a \in Address : Decref(h, links)[a] = IF a \notin links THEN h[a] ELSE IF h[a].ref = 1 THEN Unused
                                                ELSE [h[a] EXCEPT !.ref = @ - 1]
  BY DEF Decref
<1>4. Decref(h, links) = [a \in Address |-> Decref(h, links)[a]]
  BY DEF Decref
<1>5. \A a \in Address : Decref(h, links)[a] \in Links
  BY <1>1, <1>2, <1>3
<1>6. Decref(h, links) \in [Address -> Links]
  BY <1>4, <1>5
<1>7. ASSUME NEW a \in Address
      PROVE  /\ Decref(h, links)[a].ref = IF a \in links THEN h[a].ref - 1 ELSE h[a].ref
             /\ \/ /\ Decref(h, links)[a].next = h[a].next
                   /\ Decref(h, links)[a].prev = h[a].prev
                   /\ Decref(h, links)[a].function = h[a].function
                \/ h[a].ref = 1 /\ Decref(h, links)[a] = Unused
  <2>1. CASE a \notin links
    BY <1>3, <2>1
  <2>2. CASE a \in links /\ h[a].ref = 1
    <3>1. Decref(h, links)[a] = Unused
      BY <1>3, <2>2
    <3>2. Unused.ref = 0
      BY DEF Unused
    <3>3. h[a].ref - 1 = 0
      BY <2>2
    <3> QED
      BY <2>2, <3>1, <3>2, <3>3
  <2>3. CASE a \in links /\ h[a].ref # 1
    BY <1>2, <1>3, <2>3 DEF Links
  <2> QED
    BY <2>1, <2>2, <2>3
<1> QED
  BY <1>6, <1>7

\* A ring stays one when its links lead where they led.
LEMMA RingStays ==
  ASSUME NEW h, NEW g, NEW q \in Seq(Address), NEW head \in Address, Ring(h, head, q),
         \A a \in {head} \cup ToSet(q) : g[a].next = h[a].next /\ g[a].prev = h[a].prev
  PROVE  Ring(g, head, q)
<1>1. /\ Len(q) \in Nat
      /\ \A i \in 0 .. Len(q) + 1 : Place(head, q, i) \in {head} \cup ToSet(q)
  BY PlacesApart DEF Ring
<1>2. ASSUME NEW i \in 0 .. Len(q)
      PROVE  /\ g[Place(head, q, i)].next = Place(head, q, i + 1)
             /\ g[Place(head, q, i + 1)].prev = Place(head, q, i)
  <2>1. i \in 0 .. Len(q) + 1 /\ i + 1 \in 0 .. Len(q) + 1
    BY <1>1
  <2> QED
    BY <1>1, <2>1 DEF Ring
<1> QED
  BY <1>2 DEF Ring

\* The new link is the last one before head.
LEMMA AddBeforeRing ==
  ASSUME NEW h \in [Address -> Links], NEW q \in Seq(Address), NEW head \in Address,
         NEW a \in Address \ {head}, a \notin ToSet(q), NEW callback \in Callback,
         Ring(h, head, q)
  PROVE  /\ AddBefore(h, head, a, callback) \in [Address -> Links]
         /\ Append(q, a) \in Seq(Address) /\ ToSet(Append(q, a)) = ToSet(q) \cup {a}
         /\ Ring(AddBefore(h, head, a, callback), head, Append(q, a))
         /\ AddBefore(h, head, a, callback)[a].function = callback
         /\ AddBefore(h, head, a, callback)[a].ref = 1
         /\ \A b \in Address \ {a} :
              /\ AddBefore(h, head, a, callback)[b].function = h[b].function
              /\ AddBefore(h, head, a, callback)[b].ref = h[b].ref
              /\ b \notin {head} \cup ToSet(q) => AddBefore(h, head, a, callback)[b] = h[b]
<1> DEFINE n == Len(q)
           last == h[head].prev
           g == AddBefore(h, head, a, callback)
           r == Append(q, a)
<1>1. /\ \A i \in 0 .. n + 1 : Place(head, q, i) \in {head} \cup ToSet(q)
      /\ \A i, j \in 0 .. n : Place(head, q, i) = Place(head, q, j) => i = j
      /\ \A i, j \in 1 .. n + 1 : Place(head, q, i) = Place(head, q, j) => i = j
      /\ ToSet(q) \subseteq Address /\ n \in Nat
      /\ Place(head, q, 0) = head /\ Place(head, q, n + 1) = head
  BY PlacesApart DEF Ring
<1>2. \A i \in 0 .. n : h[Place(head, q, i)].next = Place(head, q, i + 1)
                        /\ h[Place(head, q, i + 1)].prev = Place(head, q, i)
  BY DEF Ring
<1>3. /\ last = Place(head, q, n)
      /\ last \in Address /\ last # a
  <2>1. n \in 0 .. n /\ n \in 0 .. n + 1
    BY <1>1
  <2> HIDE DEF n
  <2>2. last = Place(head, q, n)
    BY <1>1, <1>2, <2>1
  <2>3. Place(head, q, n) \in {head} \cup ToSet(q)
    BY <1>1, <2>1
  <2> HIDE DEF last
  <2> QED
    BY <1>1, <2>2, <2>3
<1>4. /\ r \in Seq(Address) /\ Len(r) = n + 1 /\ DOMAIN q = 1 .. n /\ DOMAIN r = 1 .. n + 1
      /\ \A i \in 1 .. n : r[i] = q[i]
      /\ r[n + 1] = a
      /\ ToSet(r) = ToSet(q) \cup {a}
  <2>1. /\ r \in Seq(Address) /\ Len(r) = Len(q) + 1
        /\ \A i \in 1 .. Len(q) : r[i] = q[i]
        /\ r[Len(q) + 1] = a
    BY AppendProperties
  <2>2. ToSet(r) = ToSet(q) \cup {a}
    BY AppendElements
  <2>3. DOMAIN q = 1 .. n /\ DOMAIN r = 1 .. Len(r)
    BY <2>1, LenProperties
  <2> QED
    BY <2>1, <2>2, <2>3
<1>5. \A i \in 0 .. n + 2 : Place(head, r, i) = IF i = n + 1 THEN a ELSE Place(head, q, i)
  <2> HIDE DEF n, r
  <2> QED
    BY <1>1, <1>4 DEF Place
<1> DEFINE new == [next |-> head, prev |-> last, function |-> callback, ref |-> 1]
<1>6. /\ new \in Links /\ h[head] \in Links /\ h[last] \in Links
      /\ [h[last] EXCEPT !.next = a] \in Links
      /\ [h[head] EXCEPT !.prev = a] \in Links
      /\ [[h[last] EXCEPT !.next = a] EXCEPT !.prev = a] \in Links
  BY <1>3 DEF Links
<1>7. /\ g \in [Address -> Links]
      /\ g[a] = new
      /\ last # head => g[last] = [h[last] EXCEPT !.next = a] /\ g[head] = [h[head] EXCEPT !.prev = a]
      /\ last = head => g[head] = [[h[last] EXCEPT !.next = a] EXCEPT !.prev = a]
      /\ \A b \in Address \ {a, last, head} : g[b] = h[b]
  <2> HIDE DEF new
  <2>1. g = [h EXCEPT ![a] = new, ![last].next = a, ![head].prev = a]
    BY DEF AddBefore, new
  <2> HIDE DEF g, last
  <2>2. CASE last = head
    BY <1>3, <1>6, <2>1, <2>2
  <2>3. CASE last # head
    BY <1>3, <1>6, <2>1, <2>3
  <2> QED
    BY <2>2, <2>3
<1>8. /\ g[a].next = head /\ g[a].prev = last /\ g[a].function = callback /\ g[a].ref = 1
      /\ g[last].next = a /\ g[head].prev = a
      /\ \A b \in Address \ {a} : /\ g[b].function = h[b].function /\ g[b].ref = h[b].ref
                                  /\ b # last => g[b].next = h[b].next
                                  /\ b # head => g[b].prev = h[b].prev
  <2> HIDE DEF g
  <2>1. g[a].next = head /\ g[a].prev = last /\ g[a].function = callback /\ g[a].ref = 1
    BY <1>7
  <2> HIDE DEF last, new
  <2>2. CASE last = head
    <3>1. g[head].next = a /\ g[head].prev = a /\ g[head].function = h[head].function /\ g[head].ref = h[head].ref
      BY <1>7, <2>2 DEF Links
    <3>2. \A b \in Address \ {a} : b = head \/ g[b] = h[b]
      BY <1>7, <2>2
    <3> QED
      BY <2>1, <2>2, <3>1, <3>2
  <2>3. CASE last # head
    BY <1>3, <1>6, <1>7, <2>1, <2>3 DEF Links
  <2> QED
    BY <2>2, <2>3
<1>9. Ring(g, head, r)
  <2>1. IsInjective(r)
    <3> HIDE DEF r, n
    <3>1. \A i, j \in 1 .. n : q[i] = q[j] => i = j
      BY <1>4 DEF IsInjective, Ring
    <3>2. \A i \in 1 .. n : q[i] # a
      BY <1>4 DEF ToSet
    <3> QED
      BY <1>1, <1>4, <3>1, <3>2 DEF IsInjective
  <2>2. head \notin ToSet(r)
    BY <1>4 DEF Ring
  <2>3. ASSUME NEW i \in 0 .. n + 1
        PROVE  /\ g[Place(head, r, i)].next = Place(head, r, i + 1)
               /\ g[Place(head, r, i + 1)].prev = Place(head, r, i)
    <3> HIDE DEF g, r, n, last, new
    <3>1. CASE i = n + 1
      <4>1. Place(head, r, i) = a /\ Place(head, r, i + 1) = head
        <5>1. n + 2 \in 0 .. n + 2 /\ n + 1 \in 0 .. n + 2 /\ i + 1 = n + 2 /\ n + 2 # n + 1
          BY <1>1, <3>1
        <5>2. Place(head, q, n + 2) = head
          BY <1>1, <1>4 DEF Place
        <5> QED
          BY <1>5, <3>1, <5>1, <5>2
      <4> QED
        BY <1>8, <4>1
    <3>2. CASE i = n
      <4>1. Place(head, r, i) = last /\ Place(head, r, i + 1) = a
        BY <1>1, <1>3, <1>5, <3>2
      <4> QED
        BY <1>8, <4>1
    <3>3. CASE i \in 0 .. n - 1
      <4>1. /\ Place(head, r, i) = Place(head, q, i) /\ Place(head, r, i + 1) = Place(head, q, i + 1)
            /\ i \in 0 .. n /\ i + 1 \in 1 .. n + 1 /\ i + 1 \in 0 .. n + 1 /\ i \in 0 .. n + 1
            /\ i # n /\ i + 1 # n + 1 /\ n \in 0 .. n /\ n + 1 \in 1 .. n + 1
        BY <1>1, <1>5, <3>3
      <4>2. Place(head, q, i) # last
        BY <1>1, <1>3, <4>1
      <4>3. Place(head, q, i + 1) # head
        BY <1>1, <4>1
      <4>4. Place(head, q, i) \in Address \ {a} /\ Place(head, q, i + 1) \in Address \ {a}
        BY <1>1, <4>1
      <4>5. h[Place(head, q, i)].next = Place(head, q, i + 1) /\ h[Place(head, q, i + 1)].prev = Place(head, q, i)
        BY <1>2, <4>1
      <4> QED
        BY <1>8, <4>1, <4>2, <4>3, <4>4, <4>5
    <3> QED
      BY <1>1, <3>1, <3>2, <3>3
  <2>4. \A i \in 0 .. Len(r) : /\ g[Place(head, r, i)].next = Place(head, r, i + 1)
                               /\ g[Place(head, r, i + 1)].prev = Place(head, r, i)
    <3> HIDE DEF g, r, n
    <3> QED
      BY <1>4, <2>3
  <2> HIDE DEF g, r
  <2> QED
    BY <2>1, <2>2, <2>4 DEF Ring
<1>10. \A b \in Address \ {a} : b \notin {head} \cup ToSet(q) => g[b] = h[b]
  <2>1. last \in {head} \cup ToSet(q)
    <3>1. n \in 0 .. n + 1
      BY <1>1
    <3> HIDE DEF n, last
    <3> QED
      BY <1>1, <1>3, <3>1
  <2> HIDE DEF g, last
  <2> QED
    BY <1>7, <2>1
<1> QED
  BY <1>4, <1>7, <1>8, <1>9, <1>10

\* The neighbours of a removed link become neighbours; the link is left to
\* the emissions that refer to it.
LEMMA UnlinkRing ==
  ASSUME NEW h \in [Address -> Links], NEW q \in Seq(Address), NEW head \in Address,
         NEW pos \in DOMAIN q, h[q[pos]].ref > 0, Ring(h, head, q)
  PROVE  /\ Unlink(h, q[pos]) \in [Address -> Links]
         /\ RemoveAt(q, pos) \in Seq(Address) /\ ToSet(RemoveAt(q, pos)) = ToSet(q) \ {q[pos]}
         /\ Ring(Unlink(h, q[pos]), head, RemoveAt(q, pos))
         /\ Removed(Unlink(h, q[pos])[q[pos]])
         /\ Unlink(h, q[pos])[q[pos]].ref = h[q[pos]].ref - 1
         /\ \A b \in Address \ {q[pos]} :
              /\ Unlink(h, q[pos])[b].function = h[b].function
              /\ Unlink(h, q[pos])[b].ref = h[b].ref
              /\ b \notin {head} \cup ToSet(q) => Unlink(h, q[pos])[b] = h[b]
<1> DEFINE n == Len(q)
           a == q[pos]
           before == h[a].prev
           after  == h[a].next
           around == [h EXCEPT ![h[a].next].prev = h[a].prev, ![h[a].prev].next = h[a].next]
           mid    == [around EXCEPT ![a] = Detached(h[a])]
           g == Unlink(h, a)
           r == RemoveAt(q, pos)
<1>1. /\ \A i \in 0 .. n + 1 : Place(head, q, i) \in {head} \cup ToSet(q)
      /\ \A i, j \in 0 .. n : Place(head, q, i) = Place(head, q, j) => i = j
      /\ \A i, j \in 1 .. n + 1 : Place(head, q, i) = Place(head, q, j) => i = j
      /\ ToSet(q) \subseteq Address /\ n \in Nat
      /\ Place(head, q, 0) = head /\ Place(head, q, n + 1) = head
  BY PlacesApart DEF Ring
<1>2. \A i \in 0 .. n : h[Place(head, q, i)].next = Place(head, q, i + 1)
                        /\ h[Place(head, q, i + 1)].prev = Place(head, q, i)
  BY DEF Ring
<1>3. /\ DOMAIN q = 1 .. n /\ pos \in 1 .. n /\ a = Place(head, q, pos) /\ a \in ToSet(q)
      /\ a \in Address /\ a # head
  <2>1. DOMAIN q = 1 .. n
    BY LenProperties
  <2>2. a \in ToSet(q) /\ a = Place(head, q, pos)
    BY DEF ToSet, Place
  <2>3. head \notin ToSet(q)
    BY DEF Ring
  <2> HIDE DEF a, n
  <2> QED
    BY <1>1, <2>1, <2>2, <2>3
<1>4. /\ before = Place(head, q, pos - 1) /\ after = Place(head, q, pos + 1)
      /\ before \in {head} \cup ToSet(q) /\ after \in {head} \cup ToSet(q)
      /\ before \in Address /\ after \in Address /\ before # a /\ after # a
  <2>1. pos \in 0 .. n /\ pos - 1 \in 0 .. n /\ (pos - 1) + 1 = pos /\ pos + 1 \in 0 .. n + 1 /\ pos - 1 \in 0 .. n + 1
        /\ pos + 1 \in 1 .. n + 1 /\ pos \in 1 .. n + 1 /\ pos - 1 # pos /\ pos + 1 # pos
    BY <1>1, <1>3
  <2> HIDE DEF a, n
  <2>2. before = Place(head, q, pos - 1)
    BY <1>2, <1>3, <2>1
  <2>3. after = Place(head, q, pos + 1)
    BY <1>2, <1>3, <2>1
  <2> HIDE DEF before, after
  <2> QED
    BY <1>1, <1>3, <2>1, <2>2, <2>3
<1>5. /\ around \in [Address -> Links]
      /\ around[a] = h[a]
      /\ around[before].next = after
      /\ around[after].prev = before
      /\ \A b \in Address : /\ around[b].function = h[b].function /\ around[b].ref = h[b].ref
                            /\ b # before => around[b].next = h[b].next
                            /\ b # after => around[b].prev = h[b].prev
                            /\ b # before /\ b # after => around[b] = h[b]
  <2>1. h[before] \in Links /\ h[after] \in Links
    BY <1>4
  <2>2. /\ [h[after] EXCEPT !.prev = before] \in Links
        /\ [h[before] EXCEPT !.next = after] \in Links
        /\ [[h[after] EXCEPT !.prev = before] EXCEPT !.next = after] \in Links
    BY <1>4, <2>1 DEF Links
  <2>3. around = [h EXCEPT ![after].prev = before, ![before].next = after]
    OBVIOUS
  <2> HIDE DEF around, before, after, a
  <2>4. CASE before = after
    <3>1. /\ around = [h EXCEPT ![after] = [[h[after] EXCEPT !.prev = before] EXCEPT !.next = after]]
      BY <1>4, <2>1, <2>2, <2>3, <2>4
    <3>2. around \in [Address -> Links] /\ \A b \in Address : b # after => around[b] = h[b]
      BY <1>4, <2>2, <3>1
    <3>3. /\ around[after].prev = before /\ around[after].next = after
          /\ around[after].function = h[after].function /\ around[after].ref = h[after].ref
      BY <1>4, <2>1, <3>1 DEF Links
    <3> QED
      BY <1>3, <1>4, <2>4, <3>2, <3>3
  <2>5. CASE before # after
    <3>1. /\ around = [h EXCEPT ![after] = [h[after] EXCEPT !.prev = before],
                                ![before] = [h[before] EXCEPT !.next = after]]
      BY <1>4, <2>1, <2>2, <2>3, <2>5
    <3>2. around \in [Address -> Links] /\ \A b \in Address : b # after /\ b # before => around[b] = h[b]
      BY <1>4, <2>2, <3>1
    <3>3. /\ around[after].prev = before /\ around[after].next = h[after].next
          /\ around[after].function = h[after].function /\ around[after].ref = h[after].ref
      BY <1>4, <2>1, <2>5, <3>1 DEF Links
    <3>4. /\ around[before].next = after /\ around[before].prev = h[before].prev
          /\ around[before].function = h[before].function /\ around[before].ref = h[before].ref
      BY <1>4, <2>1, <3>1 DEF Links
    <3> QED
      BY <1>3, <1>4, <2>5, <3>2, <3>3, <3>4
  <2> QED
    BY <2>4, <2>5
<1>6. /\ Detached(h[a]) \in Links
      /\ Removed(Detached(h[a])) /\ Detached(h[a]).ref = h[a].ref
  <2>1. h[a] \in Links
    BY <1>3
  <2> HIDE DEF a
  <2> QED
    BY <2>1 DEF Detached, Removed, Links
<1>7. /\ mid \in [Address -> Links] /\ mid[a] = Detached(h[a])
      /\ \A b \in Address \ {a} : mid[b] = around[b]
  <2> HIDE DEF around, a
  <2> QED
    BY <1>3, <1>5, <1>6
<1>8. /\ Decref(mid, {a}) \in [Address -> Links]
      /\ \A b \in Address :
           /\ Decref(mid, {a})[b].ref = IF b \in {a} THEN mid[b].ref - 1 ELSE mid[b].ref
           /\ \/ /\ Decref(mid, {a})[b].next = mid[b].next
                 /\ Decref(mid, {a})[b].prev = mid[b].prev
                 /\ Decref(mid, {a})[b].function = mid[b].function
              \/ mid[b].ref = 1 /\ Decref(mid, {a})[b] = Unused
      /\ \A b \in Address \ {a} : Decref(mid, {a})[b] = mid[b]
  <2>1. \A b \in Address : b \in {a} => mid[b].ref > 0
    BY <1>6, <1>7
  <2> HIDE DEF mid, a
  <2>2. \A b \in Address \ {a} : Decref(mid, {a})[b] = mid[b]
    BY DEF Decref
  <2> QED
    BY <1>7, <2>1, <2>2, DecrefAt
<1>9. g = Decref(mid, {a})
  BY DEF Unlink
<1>10. /\ g \in [Address -> Links]
       /\ Removed(g[a]) /\ g[a].ref = h[a].ref - 1
       /\ \A b \in Address \ {a} : g[b] = around[b]
  <2> HIDE DEF g, mid, around, a
  <2>1. Removed(g[a])
    <3>1. CASE g[a] = Unused
      BY <3>1 DEF Unused, Removed
    <3>2. CASE g[a] # Unused
      BY <1>3, <1>6, <1>7, <1>8, <1>9, <3>2 DEF Removed
    <3> QED
      BY <3>1, <3>2
  <2> QED
    BY <1>3, <1>6, <1>7, <1>8, <1>9, <2>1
<1>11. /\ r \in Seq(Address) /\ Len(r) = n - 1
       /\ \A i \in 1 .. n - 1 : r[i] = IF i < pos THEN q[i] ELSE q[i + 1]
       /\ DOMAIN r = 1 .. n - 1 /\ IsInjective(r) /\ ToSet(r) = ToSet(q) \ {a}
  <2>1. /\ r \in Seq(Address) /\ Len(r) = Len(q) - 1
        /\ \A i \in 1 .. (Len(q) - 1) : r[i] = IF i < pos THEN q[i] ELSE q[i + 1]
    BY RemoveAtProperties
  <2>2. DOMAIN r = 1 .. Len(r)
    BY <2>1, LenProperties
  <2>3. IsInjective(r) /\ ToSet(r) = ToSet(q) \ {a}
    BY RemoveAtElements DEF Ring
  <2> QED
    BY <2>1, <2>2, <2>3
<1>12. \A i \in 0 .. n : Place(head, r, i) = Place(head, q, IF i < pos THEN i ELSE i + 1)
  <2> HIDE DEF n, r
  <2> QED
    BY <1>1, <1>3, <1>11 DEF Place
<1>13. Ring(g, head, r)
  <2>1. ASSUME NEW i \in 0 .. n - 1
        PROVE  /\ g[Place(head, r, i)].next = Place(head, r, i + 1)
               /\ g[Place(head, r, i + 1)].prev = Place(head, r, i)
    <3> DEFINE k == IF i < pos THEN i ELSE i + 1
               m == IF i + 1 < pos THEN i + 1 ELSE i + 2
    <3>1. /\ k \in 0 .. n /\ k # pos /\ m \in 1 .. n + 1 /\ m # pos
          /\ m = (IF k = pos - 1 THEN pos + 1 ELSE k + 1)
          /\ (k = pos - 1 \/ (k # pos - 1 /\ m = k + 1 /\ m # pos + 1))
          /\ pos \in 0 .. n /\ pos \in 1 .. n + 1 /\ pos - 1 \in 0 .. n /\ pos + 1 \in 1 .. n + 1
          /\ k \in 0 .. n + 1 /\ m \in 0 .. n + 1
      BY <1>1, <1>3
    <3>2. Place(head, r, i) = Place(head, q, k) /\ Place(head, r, i + 1) = Place(head, q, m)
      <4>1. i \in 0 .. n /\ i + 1 \in 0 .. n /\ (i + 1) + 1 = i + 2
        BY <1>1
      <4> HIDE DEF n, r
      <4> QED
        BY <1>12, <4>1
    <3> HIDE DEF k, m, n, r, g, around, before, after, a
    <3>3. /\ Place(head, q, k) \in Address \ {a} /\ Place(head, q, m) \in Address \ {a}
      BY <1>1, <1>3, <3>1
    <3>4. CASE k = pos - 1
      <4>1. Place(head, q, k) = before /\ Place(head, q, m) = after
        BY <1>4, <3>1, <3>4
      <4> QED
        BY <1>5, <1>10, <3>2, <3>3, <4>1
    <3>5. CASE k # pos - 1
      <4>1. Place(head, q, k) # before /\ Place(head, q, m) # after
        BY <1>1, <1>4, <3>1, <3>5
      <4>2. h[Place(head, q, k)].next = Place(head, q, m) /\ h[Place(head, q, m)].prev = Place(head, q, k)
        BY <1>2, <3>1, <3>5
      <4> QED
        BY <1>5, <1>10, <3>2, <3>3, <4>1, <4>2
    <3> QED
      BY <3>4, <3>5
  <2>2. head \notin ToSet(r)
    BY <1>11 DEF Ring
  <2> HIDE DEF g, r, n
  <2> QED
    BY <1>11, <2>1, <2>2 DEF Ring
<1>14. \A b \in Address \ {a} : /\ g[b].function = h[b].function /\ g[b].ref = h[b].ref
                                /\ b \notin {head} \cup ToSet(q) => g[b] = h[b]
  <2> HIDE DEF g, around, before, after, a
  <2> QED
    BY <1>4, <1>5, <1>10
<1> QED
  BY <1>10, <1>11, <1>13, <1>14

\* All links are removed, and the references of the signal to its head dropped.
LEMMA DestroyRing ==
  ASSUME NEW h \in [Address -> Links], NEW q \in Seq(Address), NEW head \in Address,
         Ring(h, head, q), Siblings(h, head) = q,
         \A a \in ToSet(q) : h[a].ref > 0, h[head].ref > 1,
         NEW g, g = Decref(Decref(UnlinkAll(h, head), {head}), {head})
  PROVE  /\ g \in [Address -> Links]
         /\ \A a \in ToSet(q) : Removed(g[a]) /\ g[a].ref = h[a].ref - 1
         /\ Removed(g[head]) \/ LeftOver(g[head], head)
         /\ g[head].ref = h[head].ref - 2
         /\ g[head].function \in {NULL, h[head].function}
         /\ \A b \in Address \ ({head} \cup ToSet(q)) : g[b] = h[b]
<1> DEFINE gone == ToSet(q)
           alone == [a \in Address |-> IF a \in gone THEN Detached(h[a])
                              ELSE IF a = head THEN [h[a] EXCEPT !.next = head, !.prev = head]
                              ELSE h[a]]
           g1 == Decref(alone, gone)
           g2 == Decref(g1, {head})
<1>1. gone \subseteq Address /\ head \notin gone
  <2>1. ToSet(q) \subseteq Address
    BY PlacesApart DEF Ring
  <2> QED
    BY <2>1 DEF Ring
<1>2. g = Decref(g2, {head})
  BY DEF UnlinkAll
<1>3. ASSUME NEW a \in Address
      PROVE  Detached(h[a]) \in Links /\ Removed(Detached(h[a])) /\ Detached(h[a]).ref = h[a].ref
  <2>1. h[a] \in Links
    OBVIOUS
  <2> QED
    BY <2>1 DEF Detached, Removed, Links
<1> DEFINE lone == [h[head] EXCEPT !.next = head, !.prev = head]
<1>4. lone \in Links /\ LeftOver(lone, head) /\ lone.ref = h[head].ref /\ lone.function = h[head].function
  BY DEF Links, LeftOver
<1> HIDE DEF gone
<1>5. /\ alone \in [Address -> Links]
      /\ \A a \in gone : alone[a] = Detached(h[a])
      /\ alone[head] = lone
      /\ \A b \in Address \ ({head} \cup gone) : alone[b] = h[b]
  <2>1. \A a \in gone : alone[a] = Detached(h[a])
    BY <1>1
  <2>2. alone[head] = lone
    BY <1>1
  <2>3. \A b \in Address \ ({head} \cup gone) : alone[b] = h[b]
    OBVIOUS
  <2>4. \A a \in Address : alone[a] \in Links
    <3> HIDE DEF alone
    <3> QED
      BY <1>1, <1>3, <1>4, <2>1, <2>2, <2>3
  <2>5. alone = [a \in Address |-> alone[a]]
    OBVIOUS
  <2> HIDE DEF alone
  <2> QED
    BY <2>1, <2>2, <2>3, <2>4, <2>5
<1> HIDE DEF alone, lone
<1>6. /\ g1 \in [Address -> Links]
      /\ \A a \in gone : Removed(g1[a]) /\ g1[a].ref = h[a].ref - 1
      /\ \A b \in Address \ gone : g1[b] = alone[b]
  <2>1. \A a \in Address : a \in gone => alone[a].ref > 0
    BY <1>1, <1>3, <1>5 DEF gone
  <2>2. /\ g1 \in [Address -> Links]
        /\ \A a \in Address :
             /\ g1[a].ref = IF a \in gone THEN alone[a].ref - 1 ELSE alone[a].ref
             /\ \/ /\ g1[a].next = alone[a].next
                   /\ g1[a].prev = alone[a].prev
                   /\ g1[a].function = alone[a].function
                \/ alone[a].ref = 1 /\ g1[a] = Unused
    <3>1. alone \in [Address -> Links]
      BY <1>5
    <3> QED
      BY <2>1, <3>1, DecrefAt, SMTT(60)
  <2>3. \A b \in Address \ gone : g1[b] = alone[b]
    BY DEF Decref
  <2> HIDE DEF g1
  <2>4. ASSUME NEW a \in gone
        PROVE  Removed(g1[a]) /\ g1[a].ref = h[a].ref - 1
    <3>1. a \in Address /\ alone[a] = Detached(h[a]) /\ Removed(alone[a]) /\ alone[a].ref = h[a].ref
      BY <1>1, <1>3, <1>5
    <3>2. Removed(Unused)
      BY DEF Unused, Removed
    <3>3. Removed(g1[a])
      BY <2>2, <3>1, <3>2 DEF Removed
    <3> QED
      BY <2>2, <3>1, <3>3
  <2> QED
    BY <2>2, <2>3, <2>4
<1> HIDE DEF g1
<1>7. /\ g2 \in [Address -> Links]
      /\ g2[head].ref = h[head].ref - 1 /\ LeftOver(g2[head], head)
      /\ g2[head].function = h[head].function
      /\ \A b \in Address \ {head} : g2[b] = g1[b]
  <2>1. g1[head] = lone /\ h[head].ref \in Nat
    BY <1>1, <1>5, <1>6 DEF Links
  <2>2. \A a \in Address : a \in {head} => g1[a].ref > 0
    BY <1>4, <2>1
  <2>3. /\ g2 \in [Address -> Links]
        /\ g2[head].ref = IF head \in {head} THEN g1[head].ref - 1 ELSE g1[head].ref
        /\ \/ /\ g2[head].next = g1[head].next
              /\ g2[head].prev = g1[head].prev
              /\ g2[head].function = g1[head].function
           \/ g1[head].ref = 1 /\ g2[head] = Unused
    BY <1>6, <2>2, DecrefAt
  <2>4. \A b \in Address \ {head} : g2[b] = g1[b]
    BY DEF Decref
  <2> HIDE DEF g2
  <2> QED
    BY <1>4, <2>1, <2>3, <2>4 DEF LeftOver
<1> HIDE DEF g2
<1>8. /\ g \in [Address -> Links]
      /\ g[head].ref = h[head].ref - 2
      /\ Removed(g[head]) \/ LeftOver(g[head], head)
      /\ g[head].function \in {NULL, h[head].function}
      /\ \A b \in Address \ {head} : g[b] = g2[b]
  <2>1. h[head].ref \in Nat
    BY DEF Links
  <2>2. \A a \in Address : a \in {head} => g2[a].ref > 0
    BY <1>7, <2>1
  <2>3. /\ g \in [Address -> Links]
        /\ g[head].ref = IF head \in {head} THEN g2[head].ref - 1 ELSE g2[head].ref
        /\ \/ /\ g[head].next = g2[head].next
              /\ g[head].prev = g2[head].prev
              /\ g[head].function = g2[head].function
           \/ g2[head].ref = 1 /\ g[head] = Unused
    <3>1. g2 \in [Address -> Links]
      BY <1>7
    <3>2. /\ Decref(g2, {head}) \in [Address -> Links]
          /\ Decref(g2, {head})[head].ref = IF head \in {head} THEN g2[head].ref - 1 ELSE g2[head].ref
          /\ \/ /\ Decref(g2, {head})[head].next = g2[head].next
                /\ Decref(g2, {head})[head].prev = g2[head].prev
                /\ Decref(g2, {head})[head].function = g2[head].function
             \/ g2[head].ref = 1 /\ Decref(g2, {head})[head] = Unused
      BY <2>2, <3>1, DecrefAt
    <3> QED
      BY <1>2, <3>2, Zenon
  <2>4. \A b \in Address \ {head} : g[b] = g2[b]
    BY <1>2 DEF Decref
  <2>5. Removed(Unused) /\ Unused.function = NULL
    BY DEF Unused, Removed
  <2>6. g[head].ref = h[head].ref - 2
    BY <1>7, <2>1, <2>3
  <2>7. Removed(g[head]) \/ LeftOver(g[head], head)
    BY <1>7, <2>3, <2>5 DEF LeftOver
  <2>8. g[head].function \in {NULL, h[head].function}
    BY <1>7, <2>3, <2>5
  <2> QED
    BY <2>3, <2>4, <2>6, <2>7, <2>8
<1>9. \A a \in gone : g[a] = g1[a]
  BY <1>1, <1>7, <1>8
<1>10. \A b \in Address \ ({head} \cup gone) : g[b] = h[b]
  BY <1>5, <1>6, <1>7, <1>8
<1> QED
  BY <1>6, <1>8, <1>9, <1>10 DEF gone

-----------------------------------------------------------------------------
(* References and the emissions that hold them.                            *)

\* One more emission is one more user of each of its links.
LEMMA UsersAppend ==
  ASSUME NEW S, NEW fs \in Seq(S), NEW r \in S, NEW a
  PROVE  /\ Cardinality(UsersIn(fs, a)) \in Nat
         /\ Cardinality(UsersIn(Append(fs, r), a)) =
              Cardinality(UsersIn(fs, a)) + (IF a \in ToSet(r.links) THEN 1 ELSE 0)
<1> DEFINE n == Len(fs)
           U == UsersIn(fs, a)
           V == UsersIn(Append(fs, r), a)
<1>1. n \in Nat /\ DOMAIN fs = 1 .. n
  BY LenProperties
<1>2. /\ DOMAIN Append(fs, r) = 1 .. n + 1
      /\ \A i \in 1 .. n : Append(fs, r)[i] = fs[i]
      /\ Append(fs, r)[n + 1] = r
  <2>1. Append(fs, r) \in Seq(S) /\ Len(Append(fs, r)) = n + 1
        /\ (\A i \in 1 .. n : Append(fs, r)[i] = fs[i]) /\ Append(fs, r)[n + 1] = r
    BY AppendProperties
  <2>2. DOMAIN Append(fs, r) = 1 .. Len(Append(fs, r))
    BY <2>1, LenProperties
  <2> QED
    BY <2>1, <2>2
<1>3. U = {k \in 1 .. n : a \in ToSet(fs[k].links)}
  BY <1>1 DEF UsersIn
<1>4. V = {k \in 1 .. n + 1 : a \in ToSet(Append(fs, r)[k].links)}
  BY <1>2 DEF UsersIn
<1> HIDE DEF n, U, V
<1>5. V = IF a \in ToSet(r.links) THEN U \cup {n + 1} ELSE U
  BY <1>1, <1>2, <1>3, <1>4
<1>6. IsFiniteSet(U) /\ Cardinality(U) \in Nat /\ n + 1 \notin U
  <2>1. IsFiniteSet(1 .. n) /\ U \in SUBSET (1 .. n)
    BY <1>1, <1>3, FS_Interval
  <2>2. IsFiniteSet(U)
    BY <2>1, FS_Subset
  <2> QED
    BY <1>1, <1>3, <2>2, FS_CardinalityType
<1>7. Cardinality(U \cup {n + 1}) = Cardinality(U) + 1
  BY <1>6, FS_AddElement
<1>8. Cardinality(V) = Cardinality(U) + (IF a \in ToSet(r.links) THEN 1 ELSE 0)
  BY <1>5, <1>6, <1>7
<1> QED
  BY <1>6, <1>8 DEF U, V

\* Without emissions a link has no user.
LEMMA UsersNone ==
  ASSUME NEW a
  PROVE  Cardinality(UsersIn(<<>>, a)) = 0
<1>1. UsersIn(<<>>, a) = {}
  BY DEF UsersIn
<1> QED
  BY <1>1, FS_EmptySet

\* FirstSet finds the first link that has a callback.
LEMMA FirstSetIs ==
  ASSUME NEW h, NEW links \in Seq(Address)
  PROVE  \/ /\ FirstSet(h, links) = 0
            /\ \A i \in 1 .. Len(links) : h[links[i]].function = NULL
         \/ /\ FirstSet(h, links) \in 1 .. Len(links)
            /\ h[links[FirstSet(h, links)]].function # NULL
            /\ \A i \in 1 .. Len(links) : i < FirstSet(h, links) => h[links[i]].function = NULL
<1> DEFINE I == {i \in 1 .. Len(links) : h[links[i]].function # NULL}
<1>1. FirstSet(h, links) = IF I # {} THEN Min(I) ELSE 0
  BY DEF FirstSet, SelectInSeq
<1>2. ASSUME I # {}
      PROVE  Min(I) \in I /\ \A i \in I : Min(I) <= i
  <2>1. I \in SUBSET Nat
    BY LenProperties
  <2> HIDE DEF I
  <2>2. \E m \in I : \A i \in I : m <= i
    BY <1>2, <2>1, LeastOf
  <2> QED
    BY <2>2 DEF Min
<1>3. Len(links) \in Nat
  BY LenProperties
<1>4. CASE I = {}
  BY <1>1, <1>4
<1>5. CASE I # {}
  <2> DEFINE k == Min(I)
  <2>1. k \in I /\ \A i \in I : k <= i
    BY <1>2, <1>5
  <2> HIDE DEF k
  <2>2. \A i \in 1 .. Len(links) : i < k => i \notin I
    BY <1>3, <2>1
  <2>3. FirstSet(h, links) = k
    BY <1>1, <1>5 DEF k
  <2> QED
    BY <2>1, <2>2, <2>3
<1> QED
  BY <1>4, <1>5

\* Releasing the links up to k and keeping the rest for an emission keeps the
\* references to links in step with their users.
LEMMA WalkKeeps ==
  ASSUME NEW h \in [Address -> Links], NEW below \in Seq(Frame), NEW links \in Seq(Address),
         IsInjective(links), NEW R \in [Address -> Nat],
         \A a \in Address : h[a].ref = R[a] + Cardinality(UsersIn(below, a))
                                            + (IF a \in ToSet(links) THEN 1 ELSE 0),
         Walk(h, below, links)
  PROVE  /\ heap' \in [Address -> Links]
         /\ frames' \in Seq(Frame)
         /\ \A a \in Address :
              /\ heap'[a].ref = R[a] + Cardinality(UsersIn(frames', a))
              /\ \/ /\ heap'[a].next = h[a].next
                    /\ heap'[a].prev = h[a].prev
                    /\ heap'[a].function = h[a].function
                 \/ R[a] = 0 /\ heap'[a] = Unused
         /\ \/ frames' = below
            \/ \E r \in Frame :
                 /\ frames' = Append(below, r)
                 /\ r.links # <<>> /\ IsInjective(r.links)
                 /\ \A i \in 2 .. Len(r.links) : \E j \in 2 .. Len(links) : r.links[i] = links[j]
<1> DEFINE k    == FirstSet(h, links)
           past == IF k = 0 THEN links ELSE SubSeq(links, 1, k - 1)
           rest == SubSeq(links, k, Len(links))
           r    == [links |-> rest, running |-> h[rest[1]].function]
           n    == Len(links)
<1>1. n \in Nat /\ DOMAIN links = 1 .. n /\ \A i \in 1 .. n : links[i] \in Address
  BY LenProperties, ElementOfSeq
<1>2. ToSet(links) = {links[i] : i \in 1 .. n}
  BY <1>1 DEF ToSet
<1>3. /\ heap' = Decref(h, ToSet(past))
      /\ frames' = IF k = 0 THEN below ELSE Append(below, r)
  BY DEF Walk
<1>4. /\ ToSet(past) \subseteq ToSet(links)
      /\ k # 0 => /\ k \in 1 .. n /\ r \in Frame /\ rest # <<>> /\ IsInjective(rest)
                  /\ \A i \in 2 .. Len(rest) : \E j \in 2 .. n : rest[i] = links[j]
                  /\ ToSet(past) = ToSet(links) \ ToSet(rest) /\ ToSet(rest) \subseteq ToSet(links)
                  /\ r.links = rest
  <2>1. CASE k = 0
    BY <2>1
  <2>2. CASE k # 0
    <3>1. k \in 1 .. n /\ h[links[k]].function # NULL
      BY <2>2, FirstSetIs
    <3> HIDE DEF k, n
    <3>2. /\ rest \in Seq(Address) /\ Len(rest) = n - k + 1
          /\ \A i \in 1 .. n - k + 1 : rest[i] = links[k + i - 1]
      <4>1. k \in Int /\ n \in Int /\ k <= n /\ \A i \in k .. n : links[i] \in Address
        BY <1>1, <3>1
      <4>2. /\ SubSeq(links, k, n) \in Seq(Address)
            /\ Len(SubSeq(links, k, n)) = IF k <= n THEN n - k + 1 ELSE 0
            /\ \A i \in 1 .. n - k + 1 : SubSeq(links, k, n)[i] = links[k + i - 1]
        BY <4>1, SubSeqProperties
      <4> QED
        BY <4>1, <4>2 DEF n
    <3>3. /\ past \in Seq(Address) /\ Len(past) = k - 1
          /\ \A i \in 1 .. k - 1 : past[i] = links[i]
      <4>1. 1 \in Int /\ k - 1 \in Int /\ \A i \in 1 .. k - 1 : links[i] \in Address
        BY <1>1, <3>1
      <4>2. /\ SubSeq(links, 1, k - 1) \in Seq(Address)
            /\ Len(SubSeq(links, 1, k - 1)) = IF 1 <= k - 1 THEN (k - 1) - 1 + 1 ELSE 0
            /\ \A i \in 1 .. (k - 1) - 1 + 1 : SubSeq(links, 1, k - 1)[i] = links[1 + i - 1]
        BY <4>1, SubSeqProperties
      <4>3. past = SubSeq(links, 1, k - 1)
        BY <2>2
      <4> HIDE DEF past
      <4>4. (k - 1) - 1 + 1 = k - 1 /\ \A i \in 1 .. k - 1 : 1 + i - 1 = i
        BY <1>1, <3>1
      <4>5. \A i \in 1 .. k - 1 : past[i] = links[i]
        BY <4>2, <4>3, <4>4
      <4>6. Len(past) = k - 1
        BY <1>1, <3>1, <4>2, <4>3, <4>4
      <4> QED
        BY <4>2, <4>3, <4>5, <4>6
    <3> HIDE DEF past, rest
    <3>4. DOMAIN rest = 1 .. n - k + 1 /\ DOMAIN past = 1 .. k - 1 /\ n - k + 1 \in Nat /\ n - k + 1 > 0
      BY <1>1, <3>1, <3>2, <3>3, LenProperties
    <3>5. ToSet(rest) = {links[i] : i \in k .. n}
      <4>1. ToSet(rest) = {rest[i] : i \in 1 .. n - k + 1}
        BY <3>4 DEF ToSet
      <4>2. ASSUME NEW i \in 1 .. n - k + 1 PROVE rest[i] \in {links[j] : j \in k .. n}
        <5>1. k + i - 1 \in k .. n /\ rest[i] = links[k + i - 1]
          BY <1>1, <3>1, <3>2
        <5> QED
          BY <5>1
      <4>3. ASSUME NEW i \in k .. n PROVE links[i] \in {rest[j] : j \in 1 .. n - k + 1}
        <5>1. i - k + 1 \in 1 .. n - k + 1 /\ k + (i - k + 1) - 1 = i
          BY <1>1, <3>1
        <5>2. rest[i - k + 1] = links[i]
          BY <3>2, <5>1
        <5> QED
          BY <5>1, <5>2
      <4> QED
        BY <4>1, <4>2, <4>3
    <3>6. ToSet(past) = {links[i] : i \in 1 .. k - 1}
      <4>1. ToSet(past) = {past[i] : i \in 1 .. k - 1}
        BY <3>4 DEF ToSet
      <4> QED
        BY <3>3, <4>1
    <3>7. \A i, j \in 1 .. n : links[i] = links[j] => i = j
      BY <1>1 DEF IsInjective
    <3>8. ToSet(past) = ToSet(links) \ ToSet(rest) /\ ToSet(rest) \subseteq ToSet(links)
      <4>1. \A i \in 1 .. n : (i \in 1 .. k - 1) \/ (i \in k .. n)
        BY <1>1, <3>1
      <4>2. \A i \in 1 .. k - 1 : \A j \in k .. n : i \in 1 .. n /\ j \in 1 .. n /\ i # j
        BY <1>1, <3>1
      <4>3. \A j \in k .. n : j \in 1 .. n
        BY <1>1, <3>1
      <4>4. \A i \in 1 .. k - 1 : i \in 1 .. n
        BY <1>1, <3>1
      <4>5. \A a \in ToSet(past) : a \in ToSet(links) /\ a \notin ToSet(rest)
        BY <1>2, <3>5, <3>6, <3>7, <4>2, <4>4
      <4>6. \A a \in ToSet(links) : a \in ToSet(past) \/ a \in ToSet(rest)
        BY <1>2, <3>5, <3>6, <4>1
      <4>7. ToSet(rest) \subseteq ToSet(links)
        BY <1>2, <3>5, <4>3
      <4> QED
        BY <4>5, <4>6, <4>7
    <3>9. IsInjective(rest)
      <4>1. ASSUME NEW i \in 1 .. n - k + 1, NEW j \in 1 .. n - k + 1, rest[i] = rest[j]
            PROVE  i = j
        <5>1. k + i - 1 \in 1 .. n /\ k + j - 1 \in 1 .. n
          BY <1>1, <3>1
        <5>2. links[k + i - 1] = links[k + j - 1]
          BY <3>2, <4>1
        <5>3. k + i - 1 = k + j - 1
          BY <3>7, <5>1, <5>2
        <5> QED
          BY <1>1, <3>1, <5>3
      <4> QED
        BY <3>4, <4>1 DEF IsInjective
    <3>10. \A i \in 2 .. Len(rest) : \E j \in 2 .. n : rest[i] = links[j]
      <4>1. \A i \in 2 .. Len(rest) : i \in 1 .. n - k + 1 /\ k + i - 1 \in 2 .. n
        BY <1>1, <3>1, <3>2
      <4> QED
        BY <3>2, <4>1
    <3>11. r \in Frame /\ rest # <<>>
      <4>1. rest[1] = links[k]
        <5>1. 1 \in 1 .. n - k + 1 /\ k + 1 - 1 = k
          BY <1>1, <3>1, <3>4
        <5>2. rest[1] = links[k + 1 - 1]
          BY <3>2, <5>1
        <5> QED
          BY <5>1, <5>2
      <4>2. links[k] \in Address
        BY <1>1, <3>1
      <4>3. h[links[k]].function \in Callback
        BY <3>1, <4>2 DEF Links
      <4>4. Len(rest) # 0
        BY <3>2, <3>4
      <4>5. rest # <<>>
        BY <4>4, EmptySeq
      <4> QED
        BY <3>2, <4>1, <4>3, <4>5 DEF Frame
    <3>12. r.links = rest
      OBVIOUS
    <3> HIDE DEF r
    <3> QED
      BY <3>1, <3>8, <3>9, <3>10, <3>11, <3>12
  <2> QED
    BY <2>1, <2>2
<1> HIDE DEF past, rest, r, k
<1>5. ASSUME NEW a \in Address
      PROVE  /\ Cardinality(UsersIn(below, a)) \in Nat
             /\ k # 0 => Cardinality(UsersIn(Append(below, r), a)) =
                           Cardinality(UsersIn(below, a)) + (IF a \in ToSet(rest) THEN 1 ELSE 0)
  <2>1. CASE k # 0
    <3>1. r \in Frame /\ r.links = rest
      BY <1>4, <2>1
    <3>2. /\ Cardinality(UsersIn(below, a)) \in Nat
          /\ Cardinality(UsersIn(Append(below, r), a)) =
               Cardinality(UsersIn(below, a)) + (IF a \in ToSet(r.links) THEN 1 ELSE 0)
      BY <3>1, UsersAppend
    <3> QED
      BY <3>1, <3>2
  <2>2. Cardinality(UsersIn(below, a)) \in Nat
    <3> DEFINE some == [links |-> <<>>, running |-> Method]
    <3>1. some \in Frame
      BY DEF Frame, Callback
    <3> HIDE DEF some
    <3> QED
      BY <3>1, UsersAppend
  <2> QED
    BY <2>1, <2>2
<1>6. \A a \in Address : a \in ToSet(past) => h[a].ref > 0
  <2> QED
    BY <1>4, <1>5
<1>7. /\ heap' \in [Address -> Links]
      /\ \A a \in Address :
           /\ heap'[a].ref = IF a \in ToSet(past) THEN h[a].ref - 1 ELSE h[a].ref
           /\ \/ /\ heap'[a].next = h[a].next
                 /\ heap'[a].prev = h[a].prev
                 /\ heap'[a].function = h[a].function
              \/ h[a].ref = 1 /\ heap'[a] = Unused
      /\ \A a \in Address : a \notin ToSet(past) => heap'[a] = h[a]
  <2> DEFINE d == Decref(h, ToSet(past))
  <2>1. /\ d \in [Address -> Links]
        /\ \A a \in Address :
             /\ d[a].ref = IF a \in ToSet(past) THEN h[a].ref - 1 ELSE h[a].ref
             /\ \/ /\ d[a].next = h[a].next
                   /\ d[a].prev = h[a].prev
                   /\ d[a].function = h[a].function
                \/ h[a].ref = 1 /\ d[a] = Unused
    <3> QED
      BY <1>6, DecrefAt
  <2>2. \A a \in Address : a \notin ToSet(past) => d[a] = h[a]
    BY DEF Decref
  <2>3. heap' = d
    BY <1>3
  <2> HIDE DEF d
  <2> QED
    BY <2>1, <2>2, <2>3
<1>8. frames' \in Seq(Frame)
  <2>1. CASE k = 0
    BY <1>3, <2>1
  <2>2. CASE k # 0
    <3>1. r \in Frame
      BY <1>4, <2>2
    <3>2. Append(below, r) \in Seq(Frame)
      BY <3>1, AppendProperties
    <3> QED
      BY <1>3, <2>2, <3>2
  <2> QED
    BY <2>1, <2>2
<1>9. ASSUME NEW a \in Address
      PROVE  /\ heap'[a].ref = R[a] + Cardinality(UsersIn(frames', a))
             /\ \/ /\ heap'[a].next = h[a].next
                   /\ heap'[a].prev = h[a].prev
                   /\ heap'[a].function = h[a].function
                \/ R[a] = 0 /\ heap'[a] = Unused
  <2> DEFINE c == Cardinality(UsersIn(below, a))
             d == Cardinality(UsersIn(frames', a))
  <2>1. c \in Nat /\ R[a] \in Nat /\ h[a].ref = R[a] + c + (IF a \in ToSet(links) THEN 1 ELSE 0)
    BY <1>5
  <2>2. k = 0 => d = c /\ ToSet(past) = ToSet(links)
    BY <1>3 DEF past
  <2>3. k # 0 => d = c + (IF a \in ToSet(rest) THEN 1 ELSE 0)
    <3> QED
      BY <1>3, <1>5
  <2> HIDE DEF c, d
  <2>4. heap'[a].ref = R[a] + d
    <3>1. CASE k = 0
      BY <1>7, <2>1, <2>2, <3>1
    <3>2. CASE k # 0
      <4>1. CASE a \in ToSet(past)
        BY <1>4, <1>7, <2>1, <2>3, <3>2, <4>1
      <4>2. CASE a \notin ToSet(past)
        BY <1>4, <1>7, <2>1, <2>3, <3>2, <4>2
      <4> QED
        BY <4>1, <4>2
    <3> QED
      BY <3>1, <3>2
  <2>5. CASE a \notin ToSet(past)
    <3>1. heap'[a] = h[a]
      BY <1>7, <2>5
    <3> QED
      BY <2>4, <3>1 DEF d
  <2>6. CASE a \in ToSet(past)
    <3>1. h[a].ref = 1 => R[a] = 0
      BY <1>4, <2>1, <2>6
    <3> QED
      BY <1>7, <2>4, <3>1 DEF d
  <2> QED
    BY <2>5, <2>6
<1>10. \/ frames' = below
       \/ \E s \in Frame :
                 /\ frames' = Append(below, s)
                 /\ s.links # <<>> /\ IsInjective(s.links)
                 /\ \A i \in 2 .. Len(s.links) : \E j \in 2 .. Len(links) : s.links[i] = links[j]
  <2>1. CASE k = 0
    BY <1>3, <2>1
  <2>2. CASE k # 0
    <3>1. r \in Frame /\ r.links = rest /\ frames' = Append(below, r)
      BY <1>3, <1>4, <2>2
    <3>2. r.links # <<>> /\ IsInjective(r.links)
          /\ \A i \in 2 .. Len(r.links) : \E j \in 2 .. Len(links) : r.links[i] = links[j]
      BY <1>4, <2>2, <3>1
    <3> QED
      BY <3>1, <3>2
  <2> QED
    BY <2>1, <2>2
<1> QED
  BY <1>7, <1>8, <1>9, <1>10

-----------------------------------------------------------------------------
(* What the invariant says, and the steps of emissions.                    *)

\* What SignalInv says of the ring, whether it is there or not.
LEMMA RingFacts ==
  ASSUME SignalInv
  PROVE  /\ Siblings(heap, ring) \in Seq(Address)
         /\ ToSet(Siblings(heap, ring)) \subseteq Address
         /\ ring \notin ToSet(Siblings(heap, ring))
         /\ ring = NULL => Siblings(heap, ring) = <<>> /\ Members = {}
         /\ ring # NULL => ring \in Address /\ Ring(heap, ring, Siblings(heap, ring))
         /\ \A a \in Address : Held(a) \in Nat /\ (a \in Members <=> Held(a) # 0)
<1>1. CASE ring = NULL
  <2>1. Siblings(heap, ring) = <<>>
    BY <1>1 DEF Siblings
  <2>2. <<>> \in Seq(Address) /\ ToSet(<<>>) = {}
    BY EmptySeq DEF ToSet
  <2>3. Members = {} /\ \A a \in Address : Held(a) = 0
    BY <1>1, <2>1, <2>2, SignalAssumption DEF Members, Held
  <2> QED
    BY <1>1, <2>1, <2>2, <2>3
<1>2. CASE ring # NULL
  <2>1. /\ ring \in Address /\ Siblings(heap, ring) \in Seq(Address)
        /\ Ring(heap, ring, Siblings(heap, ring))
    BY <1>2 DEF SignalInv, SignalTypeOK, RingClosed
  <2>2. ToSet(Siblings(heap, ring)) \subseteq Address /\ ring \notin ToSet(Siblings(heap, ring))
    BY <2>1, PlacesApart DEF Ring
  <2>3. \A a \in Address : Held(a) \in Nat /\ (a \in Members <=> Held(a) # 0)
    BY <1>2 DEF Members, Held
  <2> QED
    BY <1>2, <2>1, <2>2, <2>3
<1> QED
  BY <1>1, <1>2

\* A link that an emission has not passed is not deleted.
LEMMA UsedIsAllocated ==
  ASSUME SignalInv, NEW k \in DOMAIN frames, NEW a \in ToSet(frames[k].links)
  PROVE  a \in Address /\ heap[a].ref > 0
<1>1. k \in 1 .. Len(frames) /\ frames[k] \in Frame /\ Len(frames) \in Nat
  BY LenProperties, ElementOfSeq DEF SignalInv, SignalTypeOK
<1>2. a \in Address
  <2>1. frames[k].links \in Seq(Address)
    BY <1>1 DEF Frame
  <2> QED
    BY <2>1, ElementOfSeq, LenProperties DEF ToSet
<1>3. heap[a].ref = Held(a) + Cardinality(Users(a)) /\ Held(a) \in Nat
  BY <1>2, RingFacts DEF SignalInv, References
<1>4. k \in Users(a)
  BY DEF Users, UsersIn
<1>5. IsFiniteSet(Users(a))
  <2>1. Users(a) \in SUBSET (1 .. Len(frames))
    <3>1. DOMAIN frames = 1 .. Len(frames)
      BY LenProperties DEF SignalInv, SignalTypeOK
    <3> QED
      BY <3>1 DEF Users, UsersIn
  <2>2. IsFiniteSet(1 .. Len(frames))
    BY <1>1, FS_Interval
  <2> QED
    BY <2>1, <2>2, FS_Subset
<1>6. Cardinality(Users(a)) \in Nat /\ Cardinality(Users(a)) # 0
  BY <1>4, <1>5, FS_CardinalityType, FS_EmptySet
<1> QED
  BY <1>2, <1>3, <1>6

\* The ring has the links it had, and no callback is lost.
RingAsBefore ==
  /\ Siblings(heap, ring)' = Siblings(heap, ring)
  /\ \A a \in Address : heap[a].function = NULL \/ a \in Members
                        => heap'[a].function = heap[a].function

\* Emissions and returns of callbacks leave the ring as it is.
LEMMA QuietStep ==
  ASSUME SignalInv, UNCHANGED <<ring, alive, ids, count>>,
         heap' \in [Address -> Links], frames' \in Seq(Frame),
         \A a \in Address : heap'[a].ref = Held(a) + Cardinality(UsersIn(frames', a)),
         \A a \in Address :
           \/ /\ heap'[a].next = heap[a].next
              /\ heap'[a].prev = heap[a].prev
              /\ heap'[a].function = heap[a].function
           \/ Held(a) = 0 /\ Removed(heap'[a]),
         \A k \in DOMAIN frames' :
           /\ frames'[k].links # <<>> /\ IsInjective(frames'[k].links)
           /\ \A i \in 2 .. Len(frames'[k].links) :
                \/ heap[frames'[k].links[i]].function = NULL
                \/ frames'[k].links[i] \in ToSet(Siblings(heap, ring))
  PROVE  SignalInv' /\ RingAsBefore
<1> DEFINE q == Siblings(heap, ring)
<1>1. /\ q \in Seq(Address) /\ ToSet(q) \subseteq Address /\ ring \notin ToSet(q)
      /\ ring = NULL => q = <<>> /\ Members = {}
      /\ ring # NULL => ring \in Address /\ Ring(heap, ring, q)
      /\ \A a \in Address : Held(a) \in Nat /\ (a \in Members <=> Held(a) # 0)
      /\ Members = ToSet(q) \cup ({ring} \ {NULL})
  BY RingFacts DEF Members
<1>2. \A a \in Members : /\ a \in Address
                         /\ heap'[a].next = heap[a].next
                         /\ heap'[a].prev = heap[a].prev
                         /\ heap'[a].function = heap[a].function
  <2>1. Members \subseteq Address
    BY <1>1
  <2> HIDE DEF q
  <2> QED
    BY <1>1, <2>1
<1>3. ring # NULL => Ring(heap', ring, q)
  <2> SUFFICES ASSUME ring # NULL PROVE Ring(heap', ring, q)
    OBVIOUS
  <2>1. \A a \in {ring} \cup ToSet(q) : heap'[a].next = heap[a].next /\ heap'[a].prev = heap[a].prev
    BY <1>1, <1>2
  <2> HIDE DEF q
  <2> QED
    BY <1>1, <2>1, RingStays
<1>4. Siblings(heap', ring) = q
  <2>1. CASE ring = NULL
    BY <1>1, <2>1 DEF Siblings
  <2>2. CASE ring # NULL
    <3> HIDE DEF q
    <3> QED
      BY <1>1, <1>3, <2>2, SiblingsAre
  <2> QED
    BY <2>1, <2>2
<1>5. Siblings(heap, ring)' = q
  BY <1>4
<1>6. Members' = Members /\ \A a : Held(a)' = Held(a)
  BY <1>5 DEF Members, Held
<1>7. SignalTypeOK'
  BY DEF SignalInv, SignalTypeOK
<1>8. RingClosed'
  <2>1. ring' # NULL => /\ alive'
                        /\ Siblings(heap, ring)' \in Seq(Address)
                        /\ Ring(heap', ring', Siblings(heap, ring)')
    <3> HIDE DEF q
    <3> QED
      BY <1>1, <1>3, <1>5 DEF SignalInv, RingClosed
  <2>2. ASSUME NEW a \in Address \ Members
        PROVE  Removed(heap'[a]) \/ (~alive /\ LeftOver(heap'[a], a))
    <3>1. Removed(heap[a]) \/ (~alive /\ LeftOver(heap[a], a))
      BY DEF SignalInv, RingClosed
    <3> QED
      BY <3>1 DEF Removed, LeftOver
  <2>3. \A a \in Address \ Members' : Removed(heap'[a]) \/ (~alive' /\ LeftOver(heap'[a], a))
    BY <1>6, <2>2
  <2> QED
    BY <2>1, <2>3 DEF RingClosed
<1>9. References'
  <2>1. \A a \in Address : Users(a)' = UsersIn(frames', a)
    BY DEF Users
  <2> QED
    BY <1>6, <2>1 DEF References
<1>10. HandlersKnown'
  <2>1. ring' # NULL => heap'[ring'].function \in {NULL, Method}
    BY <1>1, <1>2 DEF SignalInv, HandlersKnown
  <2>2. \A a \in ToSet(q) : a \in Members
    BY <1>1
  <2> HIDE DEF q
  <2>3. \A a \in ToSet(q) : heap'[a].function \in 1 .. count /\ ids[heap'[a].function] = a
    BY <1>2, <2>2 DEF SignalInv, HandlersKnown, q
  <2>4. \A c \in Connection : ids[c] # NULL => ids[c] \in ToSet(q) /\ heap'[ids[c]].function = c
    BY <1>2, <2>2 DEF SignalInv, HandlersKnown, q
  <2> QED
    BY <1>5, <2>1, <2>3, <2>4 DEF HandlersKnown
<1>11. EmissionsKnown'
  <2>1. ASSUME NEW k \in DOMAIN frames', NEW i \in 2 .. Len(frames'[k].links)
        PROVE  heap'[frames'[k].links[i]].function = NULL \/ frames'[k].links[i] \in ToSet(q)
    <3> DEFINE a == frames'[k].links[i]
    <3>1. a \in Address
      <4>1. frames'[k] \in Frame
        BY LenProperties, ElementOfSeq
      <4>2. frames'[k].links \in Seq(Address)
        BY <4>1 DEF Frame
      <4>3. i \in 1 .. Len(frames'[k].links)
        BY <4>2, LenProperties
      <4> QED
        BY <4>2, <4>3, ElementOfSeq
    <3>2. heap[a].function = NULL \/ a \in ToSet(q)
      OBVIOUS
    <3> HIDE DEF a, q
    <3>3. heap'[a].function = NULL \/ a \in ToSet(q)
      BY <3>1, <3>2 DEF Removed
    <3> QED
      BY <3>3 DEF a
  <2> QED
    BY <1>5, <2>1 DEF EmissionsKnown
<1>12. \A a \in Address : heap[a].function = NULL \/ a \in Members
                           => heap'[a].function = heap[a].function
  BY <1>2 DEF Removed
<1> QED
  BY <1>5, <1>7, <1>8, <1>9, <1>10, <1>11, <1>12 DEF SignalInv, RingAsBefore

\* The frame of an emission is one of those before it began, or a new one of
\* links of its own.
LEMMA WalkStep ==
  ASSUME SignalInv, UNCHANGED <<ring, alive, ids, count>>,
         NEW h \in [Address -> Links], NEW below \in Seq(Frame), NEW links \in Seq(Address),
         IsInjective(links), Walk(h, below, links),
         \A a \in Address :
           /\ h[a].ref = Held(a) + Cardinality(UsersIn(below, a)) + (IF a \in ToSet(links) THEN 1 ELSE 0)
           /\ \/ /\ h[a].next = heap[a].next
                 /\ h[a].prev = heap[a].prev
                 /\ h[a].function = heap[a].function
              \/ Held(a) = 0 /\ Removed(h[a]),
         \A k \in DOMAIN below : k \in DOMAIN frames /\ below[k] = frames[k],
         \A i \in 2 .. Len(links) : \/ heap[links[i]].function = NULL
                                    \/ links[i] \in ToSet(Siblings(heap, ring))
  PROVE  SignalInv' /\ RingAsBefore
<1> DEFINE R == [a \in Address |-> Held(a)]
           New(s) == /\ frames' = Append(below, s)
                     /\ s.links # <<>> /\ IsInjective(s.links)
                     /\ \A i \in 2 .. Len(s.links) : \E j \in 2 .. Len(links) : s.links[i] = links[j]
<1>1. R \in [Address -> Nat] /\ \A a \in Address : R[a] = Held(a)
  BY RingFacts
<1> HIDE DEF R
<1>2. /\ heap' \in [Address -> Links]
      /\ frames' \in Seq(Frame)
      /\ \A a \in Address :
           /\ heap'[a].ref = R[a] + Cardinality(UsersIn(frames', a))
           /\ \/ /\ heap'[a].next = h[a].next
                 /\ heap'[a].prev = h[a].prev
                 /\ heap'[a].function = h[a].function
              \/ R[a] = 0 /\ heap'[a] = Unused
      /\ frames' = below \/ \E s \in Frame : New(s)
  <2>1. \A a \in Address : h[a].ref = R[a] + Cardinality(UsersIn(below, a))
                                           + (IF a \in ToSet(links) THEN 1 ELSE 0)
    BY <1>1
  <2> QED
    BY <1>1, <2>1, WalkKeeps
<1>3. \A a \in Address : heap'[a].ref = Held(a) + Cardinality(UsersIn(frames', a))
  BY <1>1, <1>2
<1>4. \A a \in Address :
           \/ /\ heap'[a].next = heap[a].next
              /\ heap'[a].prev = heap[a].prev
              /\ heap'[a].function = heap[a].function
           \/ Held(a) = 0 /\ Removed(heap'[a])
  <2>1. Removed(Unused)
    BY DEF Removed, Unused
  <2> QED
    BY <1>1, <1>2, <2>1 DEF Removed
<1> DEFINE Fine(f) == /\ f.links # <<>> /\ IsInjective(f.links)
                      /\ \A i \in 2 .. Len(f.links) :
                           \/ heap[f.links[i]].function = NULL
                           \/ f.links[i] \in ToSet(Siblings(heap, ring))
<1>5. \A k \in DOMAIN below : Fine(below[k])
  BY DEF SignalInv, EmissionsKnown
<1>6. \A k \in DOMAIN frames' : Fine(frames'[k])
  <2>1. CASE frames' = below
    BY <1>5, <2>1
  <2>2. ASSUME NEW s \in Frame, New(s)
        PROVE  \A k \in DOMAIN frames' : Fine(frames'[k])
    <3>1. Fine(s)
      BY <2>2
    <3> HIDE DEF Fine
    <3>2. frames' = Append(below, s)
      BY <2>2
    <3>3. /\ DOMAIN Append(below, s) = DOMAIN below \cup {Len(below) + 1}
          /\ \A k \in DOMAIN below : Append(below, s)[k] = below[k]
          /\ Append(below, s)[Len(below) + 1] = s
      BY AppendAt
    <3> QED
      BY <1>5, <3>1, <3>2, <3>3
  <2> HIDE DEF New, Fine
  <2> QED
    BY <1>2, <2>1, <2>2
<1> QED
  BY <1>2, <1>3, <1>4, <1>6, QuietStep

\* The links an emission begins with: the head if it has a callback, and all others.
LEMMA LinksToEmit ==
  ASSUME SignalInv, ring # NULL,
         NEW links, links = (IF heap[ring].function = NULL THEN <<>> ELSE <<ring>>) \o Siblings(heap, ring)
  PROVE  /\ links \in Seq(Address) /\ IsInjective(links)
         /\ \A i \in 2 .. Len(links) : links[i] \in ToSet(Siblings(heap, ring))
<1> DEFINE q == Siblings(heap, ring)
<1>1. q \in Seq(Address) /\ ring \in Address /\ IsInjective(q) /\ ring \notin ToSet(q)
  BY RingFacts DEF Ring
<1>2. Len(q) \in Nat /\ DOMAIN q = 1 .. Len(q) /\ ToSet(q) = {q[i] : i \in DOMAIN q}
  BY <1>1, LenProperties DEF ToSet
<1>3. CASE heap[ring].function = NULL
  <2>1. links = q
    BY <1>1, <1>3, ConcatEmptySeq
  <2> HIDE DEF q
  <2>2. \A i \in 2 .. Len(q) : i \in DOMAIN q
    BY <1>2
  <2> QED
    BY <1>1, <1>2, <2>1, <2>2 DEF q
<1>4. CASE heap[ring].function # NULL
  <2>1. links = <<ring>> \o q
    BY <1>4
  <2> HIDE DEF q
  <2>2. <<ring>> \o q \in Seq(Address) /\ IsInjective(<<ring>> \o q)
    BY <1>1, ConsProperties, ConsElements
  <2>3. Len(<<ring>>) = 1 /\ <<ring>> \in Seq(Address)
    BY <1>1
  <2>4. /\ Len(<<ring>> \o q) = 1 + Len(q)
        /\ \A i \in 1 .. 1 + Len(q) : (<<ring>> \o q)[i] = IF i <= 1 THEN <<ring>>[i] ELSE q[i - 1]
    BY <1>1, <2>3, ConcatProperties
  <2>5. \A i \in 2 .. 1 + Len(q) : (<<ring>> \o q)[i] = q[i - 1] /\ i - 1 \in DOMAIN q
    BY <1>2, <2>4
  <2> QED
    BY <1>2, <2>1, <2>2, <2>4, <2>5 DEF q
<1> QED
  BY <1>3, <1>4

\* emit() refers to the links of the ring once more.
LEMMA EmitKeeps ==
  ASSUME SignalInv, Emit
  PROVE  SignalInv' /\ RingAsBefore
<1> DEFINE q == Siblings(heap, ring)
           links == (IF heap[ring].function = NULL THEN <<>> ELSE <<ring>>) \o q
           h == Incref(heap, ToSet(links))
<1>1. UNCHANGED <<ring, alive, ids, count>> /\ Walk(h, frames, links) /\ ring # NULL
  BY DEF Emit
<1>2. q \in Seq(Address) /\ ring \in Address /\ IsInjective(q) /\ ring \notin ToSet(q)
  BY <1>1, RingFacts DEF Ring
<1>3. /\ links \in Seq(Address) /\ IsInjective(links)
      /\ \A i \in 2 .. Len(links) : links[i] \in ToSet(q)
  BY <1>1, LinksToEmit
<1>4. heap \in [Address -> Links] /\ frames \in Seq(Frame)
  BY DEF SignalInv, SignalTypeOK
<1> HIDE DEF links
<1>5. /\ h \in [Address -> Links]
      /\ \A a \in Address :
           /\ h[a].next = heap[a].next
           /\ h[a].prev = heap[a].prev
           /\ h[a].function = heap[a].function
           /\ h[a].ref = IF a \in ToSet(links) THEN heap[a].ref + 1 ELSE heap[a].ref
  BY <1>4, IncrefAt
<1> HIDE DEF h
<1>6. \A a \in Address : h[a].ref = Held(a) + Cardinality(UsersIn(frames, a))
                                            + (IF a \in ToSet(links) THEN 1 ELSE 0)
  <2> SUFFICES ASSUME NEW a \in Address
               PROVE  h[a].ref = Held(a) + Cardinality(UsersIn(frames, a))
                                         + (IF a \in ToSet(links) THEN 1 ELSE 0)
    OBVIOUS
  <2>1. heap[a].ref = Held(a) + Cardinality(UsersIn(frames, a))
    BY DEF SignalInv, References, Users
  <2>2. heap[a].ref \in Nat
    BY <1>4 DEF Links
  <2> QED
    BY <1>5, <2>1, <2>2
<1>7. \A k \in DOMAIN frames : k \in DOMAIN frames /\ frames[k] = frames[k]
  OBVIOUS
<1> QED
  BY <1>1, <1>3, <1>4, <1>5, <1>6, <1>7, WalkStep

\* The innermost emission, and those below it.
LEMMA InnermostFacts ==
  ASSUME SignalInv, frames # <<>>
  PROVE  /\ Front(frames) \in Seq(Frame)
         /\ Last(frames) \in Frame /\ Last(frames).links \in Seq(Address)
         /\ Last(frames).links # <<>> /\ IsInjective(Last(frames).links)
         /\ \A i \in 2 .. Len(Last(frames).links) :
              \/ heap[Last(frames).links[i]].function = NULL
              \/ Last(frames).links[i] \in ToSet(Siblings(heap, ring))
         /\ \A k \in DOMAIN Front(frames) : k \in DOMAIN frames /\ Front(frames)[k] = frames[k]
         /\ \A a \in Address :
              /\ Held(a) \in Nat /\ Cardinality(UsersIn(Front(frames), a)) \in Nat
              /\ heap[a].ref = Held(a) + Cardinality(UsersIn(Front(frames), a))
                                       + (IF a \in ToSet(Last(frames).links) THEN 1 ELSE 0)
<1>1. frames \in Seq(Frame)
  BY DEF SignalInv, SignalTypeOK
<1>2. /\ Front(frames) \in Seq(Frame) /\ Last(frames) \in Frame
      /\ frames = Append(Front(frames), Last(frames))
  BY <1>1, FrontThenLast
<1>3. /\ Len(frames) \in Nat \ {0} /\ DOMAIN frames = 1 .. Len(frames)
      /\ Last(frames) = frames[Len(frames)]
      /\ DOMAIN Front(frames) = 1 .. (Len(frames) - 1)
      /\ \A k \in 1 .. (Len(frames) - 1) : Front(frames)[k] = frames[k]
  BY <1>1, LenProperties, EmptySeq, FrontProperties DEF Last
<1>4. Len(frames) \in DOMAIN frames
  BY <1>3
<1>5. /\ Last(frames).links # <<>> /\ IsInjective(Last(frames).links)
      /\ \A i \in 2 .. Len(Last(frames).links) :
              \/ heap[Last(frames).links[i]].function = NULL
              \/ Last(frames).links[i] \in ToSet(Siblings(heap, ring))
  BY <1>3, <1>4 DEF SignalInv, EmissionsKnown
<1>6. \A k \in DOMAIN Front(frames) : k \in DOMAIN frames /\ Front(frames)[k] = frames[k]
  BY <1>3
<1>7. Last(frames).links \in Seq(Address)
  BY <1>2 DEF Frame
<1>8. ASSUME NEW a \in Address
      PROVE  /\ Held(a) \in Nat /\ Cardinality(UsersIn(Front(frames), a)) \in Nat
             /\ heap[a].ref = Held(a) + Cardinality(UsersIn(Front(frames), a))
                                       + (IF a \in ToSet(Last(frames).links) THEN 1 ELSE 0)
  <2> DEFINE below == Front(frames)
             last  == Last(frames)
  <2>1. heap[a].ref = Held(a) + Cardinality(UsersIn(frames, a))
    BY DEF SignalInv, References, Users
  <2>2. Held(a) \in Nat
    BY RingFacts
  <2>3. below \in Seq(Frame) /\ last \in Frame /\ frames = Append(below, last)
    BY <1>2
  <2> HIDE DEF below, last
  <2>4. /\ Cardinality(UsersIn(below, a)) \in Nat
        /\ Cardinality(UsersIn(Append(below, last), a)) =
             Cardinality(UsersIn(below, a)) + (IF a \in ToSet(last.links) THEN 1 ELSE 0)
    BY <2>3, UsersAppend
  <2>5. Cardinality(UsersIn(frames, a)) = Cardinality(UsersIn(Append(below, last), a))
    BY <2>3
  <2>6. heap[a].ref = Held(a) + Cardinality(UsersIn(below, a)) + (IF a \in ToSet(last.links) THEN 1 ELSE 0)
    BY <2>1, <2>2, <2>4, <2>5
  <2> QED
    BY <2>2, <2>4, <2>6 DEF below, last
<1> QED
  BY <1>2, <1>5, <1>6, <1>7, <1>8

\* The emission releases the link it called, and those it passes.
LEMMA ProceedKeeps ==
  ASSUME SignalInv, Proceed
  PROVE  SignalInv' /\ RingAsBefore
<1> DEFINE links == Last(frames).links
           below == Front(frames)
           first == Head(links)
           rest  == Tail(links)
           h     == Decref(heap, {first})
<1>1. /\ frames # <<>> /\ UNCHANGED <<ring, alive, ids, count>>
      /\ Walk(h, below, rest)
  BY DEF Proceed
<1>2. heap \in [Address -> Links]
  BY DEF SignalInv, SignalTypeOK
<1>3. /\ below \in Seq(Frame) /\ links \in Seq(Address)
      /\ links # <<>> /\ IsInjective(links)
      /\ \A i \in 2 .. Len(links) : \/ heap[links[i]].function = NULL
                                    \/ links[i] \in ToSet(Siblings(heap, ring))
      /\ \A k \in DOMAIN below : k \in DOMAIN frames /\ below[k] = frames[k]
      /\ \A a \in Address :
           /\ Held(a) \in Nat /\ Cardinality(UsersIn(below, a)) \in Nat
           /\ heap[a].ref = Held(a) + Cardinality(UsersIn(below, a)) + (IF a \in ToSet(links) THEN 1 ELSE 0)
  BY <1>1, InnermostFacts
<1> HIDE DEF links, below
<1>4. /\ rest \in Seq(Address) /\ first \in Address
      /\ IsInjective(rest) /\ ToSet(links) = ToSet(rest) \cup {first} /\ first \notin ToSet(rest)
      /\ \A i \in 2 .. Len(rest) : i + 1 \in 2 .. Len(links) /\ rest[i] = links[i + 1]
  <2>1. /\ DOMAIN links = 1 .. Len(links) /\ Len(links) \in Nat \ {0}
        /\ rest \in Seq(Address) /\ first \in Address /\ Len(rest) = Len(links) - 1
        /\ \A i \in 1 .. Len(rest) : rest[i] = links[i + 1]
        /\ first = links[1]
    BY <1>3, LenProperties, EmptySeq, HeadTailProperties
  <2> HIDE DEF rest, first
  <2>2. DOMAIN rest = 1 .. Len(links) - 1
    BY <2>1, LenProperties
  <2>3. IsInjective(rest)
    <3>1. ASSUME NEW i \in 1 .. Len(links) - 1, NEW j \in 1 .. Len(links) - 1, rest[i] = rest[j]
          PROVE  i = j
      <4>1. i + 1 \in DOMAIN links /\ j + 1 \in DOMAIN links /\ links[i + 1] = links[j + 1]
        BY <2>1, <3>1
      <4>2. i + 1 = j + 1
        BY <1>3, <4>1 DEF IsInjective
      <4> QED
        BY <2>1, <4>2
    <3> QED
      BY <2>2, <3>1 DEF IsInjective
  <2>4. ToSet(links) = {links[i] : i \in 1 .. Len(links)} /\ ToSet(rest) = {rest[i] : i \in 1 .. Len(links) - 1}
    BY <2>1, <2>2 DEF ToSet
  <2>5. ToSet(links) = ToSet(rest) \cup {first}
    <3>1. ASSUME NEW i \in 1 .. Len(links) PROVE links[i] \in ToSet(rest) \cup {first}
      <4>1. CASE i = 1
        BY <2>1, <4>1
      <4>2. CASE i # 1
        <5>1. i - 1 \in 1 .. Len(links) - 1 /\ (i - 1) + 1 = i
          BY <2>1, <4>2
        <5>2. rest[i - 1] = links[i]
          BY <2>1, <5>1
        <5> QED
          BY <2>4, <5>1, <5>2
      <4> QED
        BY <4>1, <4>2
    <3>2. ASSUME NEW i \in 1 .. Len(links) - 1 PROVE rest[i] \in ToSet(links)
      <4>1. i + 1 \in 1 .. Len(links) /\ rest[i] = links[i + 1]
        BY <2>1
      <4> QED
        BY <2>4, <4>1
    <3>3. first \in ToSet(links)
      <4>1. 1 \in 1 .. Len(links)
        BY <2>1
      <4> QED
        BY <2>1, <2>4, <4>1
    <3> QED
      BY <2>4, <3>1, <3>2, <3>3
  <2>6. first \notin ToSet(rest)
    <3>1. ASSUME NEW i \in 1 .. Len(links) - 1 PROVE rest[i] # first
      <4>1. i + 1 \in DOMAIN links /\ 1 \in DOMAIN links /\ rest[i] = links[i + 1] /\ i + 1 # 1
        BY <2>1
      <4> QED
        BY <1>3, <2>1, <4>1 DEF IsInjective
    <3> QED
      BY <2>4, <3>1
  <2> QED
    BY <2>1, <2>3, <2>5, <2>6
<1> HIDE DEF rest, first
<1>5. \A a \in Address : a \in {first} => heap[a].ref > 0
  BY <1>3, <1>4
<1>6. /\ h \in [Address -> Links]
      /\ \A a \in Address :
           /\ h[a].ref = IF a \in {first} THEN heap[a].ref - 1 ELSE heap[a].ref
           /\ \/ /\ h[a].next = heap[a].next
                 /\ h[a].prev = heap[a].prev
                 /\ h[a].function = heap[a].function
              \/ heap[a].ref = 1 /\ h[a] = Unused
      /\ \A a \in Address : a # first => h[a] = heap[a]
  <2>1. \A a \in Address : a # first => h[a] = heap[a]
    BY DEF Decref
  <2> QED
    BY <1>2, <1>5, <2>1, DecrefAt
<1> HIDE DEF h
<1>7. ASSUME NEW a \in Address
      PROVE  /\ h[a].ref = Held(a) + Cardinality(UsersIn(below, a)) + (IF a \in ToSet(rest) THEN 1 ELSE 0)
             /\ \/ /\ h[a].next = heap[a].next
                   /\ h[a].prev = heap[a].prev
                   /\ h[a].function = heap[a].function
                \/ Held(a) = 0 /\ Removed(h[a])
  <2>1. /\ Held(a) \in Nat /\ Cardinality(UsersIn(below, a)) \in Nat
        /\ heap[a].ref = Held(a) + Cardinality(UsersIn(below, a)) + (IF a \in ToSet(links) THEN 1 ELSE 0)
    BY <1>3
  <2>2. h[a].ref = IF a = first THEN heap[a].ref - 1 ELSE heap[a].ref
    BY <1>6
  <2>3. h[a].ref = Held(a) + Cardinality(UsersIn(below, a)) + (IF a \in ToSet(rest) THEN 1 ELSE 0)
    <3>1. CASE a = first
      BY <1>4, <2>1, <2>2, <3>1
    <3>2. CASE a # first
      BY <1>4, <2>1, <2>2, <3>2
    <3> QED
      BY <3>1, <3>2
  <2>4. CASE a = first
    <3>1. heap[a].ref = 1 => Held(a) = 0
      BY <1>4, <2>1, <2>4
    <3>2. Removed(Unused)
      BY DEF Removed, Unused
    <3> QED
      BY <1>6, <2>3, <3>1, <3>2
  <2>5. CASE a # first
    BY <1>6, <2>3, <2>5
  <2> QED
    BY <2>4, <2>5
<1>8. \A i \in 2 .. Len(rest) : \/ heap[rest[i]].function = NULL
                                \/ rest[i] \in ToSet(Siblings(heap, ring))
  BY <1>3, <1>4
<1> QED
  BY <1>1, <1>3, <1>4, <1>6, <1>7, <1>8, WalkStep

\* The emission releases all links it has left.
LEMMA StopKeeps ==
  ASSUME SignalInv, Stop
  PROVE  SignalInv' /\ RingAsBefore
<1> DEFINE links == Last(frames).links
           below == Front(frames)
           h     == Decref(heap, ToSet(links))
<1>1. /\ frames # <<>> /\ UNCHANGED <<ring, alive, ids, count>>
      /\ heap' = h /\ frames' = below
  BY DEF Stop
<1>2. heap \in [Address -> Links]
  BY DEF SignalInv, SignalTypeOK
<1>3. /\ below \in Seq(Frame) /\ links \in Seq(Address)
      /\ \A k \in DOMAIN below : k \in DOMAIN frames /\ below[k] = frames[k]
      /\ \A a \in Address :
           /\ Held(a) \in Nat /\ Cardinality(UsersIn(below, a)) \in Nat
           /\ heap[a].ref = Held(a) + Cardinality(UsersIn(below, a)) + (IF a \in ToSet(links) THEN 1 ELSE 0)
  BY <1>1, InnermostFacts
<1> HIDE DEF links, below
<1>4. \A a \in Address : a \in ToSet(links) => heap[a].ref > 0
  BY <1>3
<1>5. /\ h \in [Address -> Links]
      /\ \A a \in Address :
           /\ h[a].ref = IF a \in ToSet(links) THEN heap[a].ref - 1 ELSE heap[a].ref
           /\ \/ /\ h[a].next = heap[a].next
                 /\ h[a].prev = heap[a].prev
                 /\ h[a].function = heap[a].function
              \/ heap[a].ref = 1 /\ h[a] = Unused
      /\ \A a \in Address : a \notin ToSet(links) => h[a] = heap[a]
  <2>1. \A a \in Address : a \notin ToSet(links) => h[a] = heap[a]
    BY DEF Decref
  <2> QED
    BY <1>2, <1>4, <2>1, DecrefAt
<1> HIDE DEF h
<1>6. ASSUME NEW a \in Address
      PROVE  /\ heap'[a].ref = Held(a) + Cardinality(UsersIn(frames', a))
             /\ \/ /\ heap'[a].next = heap[a].next
                   /\ heap'[a].prev = heap[a].prev
                   /\ heap'[a].function = heap[a].function
                \/ Held(a) = 0 /\ Removed(heap'[a])
  <2>1. /\ Held(a) \in Nat /\ Cardinality(UsersIn(below, a)) \in Nat
        /\ heap[a].ref = Held(a) + Cardinality(UsersIn(below, a)) + (IF a \in ToSet(links) THEN 1 ELSE 0)
    BY <1>3
  <2>2. heap'[a].ref = Held(a) + Cardinality(UsersIn(frames', a))
    BY <1>1, <1>5, <2>1
  <2>3. CASE a \in ToSet(links)
    <3>1. heap[a].ref = 1 => Held(a) = 0
      BY <2>1, <2>3
    <3>2. Removed(Unused)
      BY DEF Removed, Unused
    <3> QED
      BY <1>1, <1>5, <2>2, <3>1, <3>2
  <2>4. CASE a \notin ToSet(links)
    BY <1>1, <1>5, <2>2, <2>4
  <2> QED
    BY <2>3, <2>4
<1>7. \A k \in DOMAIN frames' :
        /\ frames'[k].links # <<>> /\ IsInjective(frames'[k].links)
        /\ \A i \in 2 .. Len(frames'[k].links) :
             \/ heap[frames'[k].links[i]].function = NULL
             \/ frames'[k].links[i] \in ToSet(Siblings(heap, ring))
  BY <1>1, <1>3 DEF SignalInv, EmissionsKnown
<1>8. heap' \in [Address -> Links] /\ frames' \in Seq(Frame)
  BY <1>1, <1>3, <1>5
<1> QED
  BY <1>1, <1>6, <1>7, <1>8, QuietStep

-----------------------------------------------------------------------------
(* connect(), disconnect() and the destructor.                             *)

\* A link that emissions have not passed is no free one.
LEMMA FreeIsUnused ==
  ASSUME SignalInv, NEW a \in Address, ~Allocated(heap, a)
  PROVE  /\ heap[a].ref = 0 /\ Held(a) = 0 /\ Cardinality(Users(a)) = 0
         /\ a \notin Members
         /\ \A k \in DOMAIN frames : a \notin ToSet(frames[k].links)
<1>1. heap[a].ref = 0
  BY DEF Allocated, SignalInv, SignalTypeOK, Links
<1>2. \A k \in DOMAIN frames : a \notin ToSet(frames[k].links)
  BY <1>1, UsedIsAllocated
<1>3. Users(a) = {}
  BY <1>2 DEF Users, UsersIn
<1>4. Cardinality(Users(a)) = 0
  BY <1>3, FS_EmptySet
<1>5. heap[a].ref = Held(a) + Cardinality(Users(a)) /\ Held(a) \in Nat /\ (a \in Members <=> Held(a) # 0)
  BY RingFacts DEF SignalInv, References
<1> QED
  BY <1>1, <1>2, <1>4, <1>5

\* connect() at a ring of the links q0, which may just have got its head.
LEMMA Connected ==
  ASSUME SignalInv, alive, alive' = alive, frames' = frames, count < MaxConnects, count' = count + 1,
         NEW head \in Address, NEW a \in Address, a # head, ring' = head,
         NEW q \in Seq(Address), q = Siblings(heap, ring), ring \in {NULL, head},
         NEW h \in [Address -> Links], Ring(h, head, q), a \notin ToSet(q),
         ring = NULL => head \notin Members,
         ~Allocated(heap, a), ring = NULL => ~Allocated(heap, head),
         \A b \in Address \ {head} : h[b] = heap[b],
         h[head].ref = 2 + Cardinality(Users(head)), h[head].function \in {NULL, Method},
         ring # NULL => h = heap,
         heap' = AddBefore(h, head, a, count'), ids' = [ids EXCEPT ![count'] = a]
  PROVE  SignalInv'
<1> DEFINE r == Append(q, a)
<1>1. /\ count \in Nat /\ count' \in Connection /\ count' \in 0 .. MaxConnects /\ count' \in Callback
      /\ \A c \in 1 .. count : c \in 1 .. count' /\ c # count' /\ c \in Connection
      /\ count' \in 1 .. count'
  BY SignalAssumption DEF SignalInv, SignalTypeOK, Connection, Callback
<1>2. /\ heap' \in [Address -> Links]
      /\ r \in Seq(Address) /\ ToSet(r) = ToSet(q) \cup {a}
      /\ Ring(heap', head, r)
      /\ heap'[a].function = count' /\ heap'[a].ref = 1
      /\ \A b \in Address \ {a} : /\ heap'[b].function = h[b].function
                                  /\ heap'[b].ref = h[b].ref
                                  /\ b \notin {head} \cup ToSet(q) => heap'[b] = h[b]
  <2> DEFINE g == AddBefore(h, head, a, count')
  <2>1. /\ g \in [Address -> Links]
        /\ r \in Seq(Address) /\ ToSet(r) = ToSet(q) \cup {a}
        /\ Ring(g, head, r)
        /\ g[a].function = count' /\ g[a].ref = 1
        /\ \A b \in Address \ {a} : /\ g[b].function = h[b].function
                                    /\ g[b].ref = h[b].ref
                                    /\ b \notin {head} \cup ToSet(q) => g[b] = h[b]
    BY <1>1, AddBeforeRing
  <2>2. heap' = g
    OBVIOUS
  <2> HIDE DEF g, r
  <2> QED
    BY <2>1, <2>2
<1> HIDE DEF r
<1>3. Siblings(heap', head) = r
  BY <1>2, SiblingsAre
<1>4. Siblings(heap, ring)' = r
  BY <1>3
<1>5. head # NULL /\ head \notin ToSet(q) /\ ToSet(q) \subseteq Address /\ head \notin ToSet(r)
  <2>1. head \notin ToSet(q) /\ head \notin ToSet(r)
    BY <1>2 DEF Ring
  <2>2. ToSet(q) \subseteq Address
    BY RingFacts
  <2> QED
    BY <2>1, <2>2, SignalAssumption
<1>6. /\ Members' = ToSet(q) \cup {a, head}
      /\ \A b : Held(b)' = (IF b = head THEN 2 ELSE 0) + (IF b \in ToSet(q) \cup {a} THEN 1 ELSE 0)
  <2>1. Members' = ToSet(r) \cup ({head} \ {NULL})
    BY <1>4 DEF Members
  <2>2. \A b : Held(b)' = (IF b = head THEN 2 ELSE 0) + (IF b \in ToSet(r) THEN 1 ELSE 0)
    BY <1>4 DEF Held
  <2> QED
    BY <1>2, <1>5, <2>1, <2>2
<1>7. SignalTypeOK'
  <2>1. ids' \in [Connection -> Address \cup {NULL}]
    BY <1>1 DEF SignalInv, SignalTypeOK
  <2> QED
    BY <1>1, <1>2, <2>1 DEF SignalInv, SignalTypeOK
<1>8. RingClosed'
  <2>1. ASSUME NEW b \in Address \ (ToSet(q) \cup {a, head})
        PROVE  Removed(heap'[b])
    <3>1. heap'[b] = heap[b]
      BY <1>2
    <3>2. b \notin Members
      BY DEF Members
    <3>3. Removed(heap[b])
      BY <3>2 DEF SignalInv, RingClosed
    <3> QED
      BY <3>1, <3>3
  <2> QED
    BY <1>2, <1>4, <1>6, <2>1 DEF RingClosed
<1>9. References'
  <2>1. ASSUME NEW b \in Address
        PROVE  heap'[b].ref = Held(b)' + Cardinality(Users(b))
    <3>1. CASE b = a
      <4>1. Cardinality(Users(a)) = 0
        BY FreeIsUnused
      <4> QED
        BY <1>2, <1>6, <3>1, <4>1
    <3>2. CASE b = head
      <4>1. heap'[head].ref = 2 + Cardinality(Users(head))
        BY <1>2
      <4>2. Held(head)' = 2
        BY <1>5, <1>6
      <4> QED
        BY <3>2, <4>1, <4>2
    <3>3. CASE b # a /\ b # head
      <4>1. heap'[b].ref = heap[b].ref
        BY <1>2, <3>3
      <4>2. heap[b].ref = Held(b) + Cardinality(Users(b))
        BY DEF SignalInv, References
      <4>3. Held(b)' = Held(b)
        <5>1. b # ring
          BY <3>3, SignalAssumption
        <5>2. Held(b) = (IF b = ring THEN 2 ELSE 0) + (IF b \in ToSet(q) THEN 1 ELSE 0)
          BY DEF Held
        <5> QED
          BY <1>6, <3>3, <5>1, <5>2
      <4> QED
        BY <4>1, <4>2, <4>3
    <3> QED
      BY <3>1, <3>2, <3>3
  <2>2. \A b : Users(b)' = Users(b)
    BY DEF Users
  <2> QED
    BY <2>1, <2>2 DEF References
<1>10. \A b \in ToSet(q) : b \in Address /\ b # head /\ b # a /\ heap'[b].function = heap[b].function
  <2>1. \A b \in ToSet(q) : b \in Address /\ b # head /\ b # a
    BY <1>5
  <2> QED
    BY <1>2, <2>1
<1>11. /\ \A b \in ToSet(q) : heap[b].function \in 1 .. count /\ ids[heap[b].function] = b
       /\ \A c \in Connection : ids[c] # NULL => ids[c] \in ToSet(q) /\ heap[ids[c]].function = c
  BY DEF SignalInv, HandlersKnown
<1>12. HandlersKnown'
  <2>1. ids \in [Connection -> Address \cup {NULL}]
    BY DEF SignalInv, SignalTypeOK
  <2>2. ids'[count'] = a /\ \A c \in Connection : c # count' => ids'[c] = ids[c]
    BY <1>1, <2>1
  <2>3. heap'[head].function \in {NULL, Method}
    BY <1>2
  <2>4. ASSUME NEW b \in ToSet(r)
        PROVE  heap'[b].function \in 1 .. count' /\ ids'[heap'[b].function] = b
    <3>1. CASE b = a
      BY <1>1, <1>2, <2>2, <3>1
    <3>2. CASE b \in ToSet(q)
      <4>1. heap'[b].function \in 1 .. count /\ ids[heap'[b].function] = b
        BY <1>10, <1>11, <3>2
      <4> QED
        BY <1>1, <2>2, <4>1
    <3> QED
      BY <1>2, <3>1, <3>2
  <2>5. ASSUME NEW c \in Connection, ids'[c] # NULL
        PROVE  ids'[c] \in ToSet(r) /\ heap'[ids'[c]].function = c
    <3>1. CASE c = count'
      BY <1>2, <2>2, <3>1
    <3>2. CASE c # count'
      <4>1. ids'[c] = ids[c] /\ ids[c] \in ToSet(q) /\ heap[ids[c]].function = c
        BY <1>11, <2>2, <2>5, <3>2
      <4> QED
        BY <1>2, <1>10, <4>1
    <3> QED
      BY <3>1, <3>2
  <2>6. ring' # NULL => heap'[ring'].function \in {NULL, Method}
    BY <2>3
  <2> QED
    BY <1>4, <2>4, <2>5, <2>6 DEF HandlersKnown
<1>13. EmissionsKnown'
  <2>1. ASSUME NEW k \in DOMAIN frames, NEW i \in 2 .. Len(frames[k].links)
        PROVE  heap'[frames[k].links[i]].function = NULL \/ frames[k].links[i] \in ToSet(r)
    <3> DEFINE b == frames[k].links[i]
    <3>1. b \in ToSet(frames[k].links)
      <4>1. frames[k] \in Frame
        BY LenProperties, ElementOfSeq DEF SignalInv, SignalTypeOK
      <4>2. frames[k].links \in Seq(Address)
        BY <4>1 DEF Frame
      <4>3. i \in DOMAIN frames[k].links
        BY <4>2, LenProperties
      <4> QED
        BY <4>3 DEF ToSet
    <3>2. b \in Address
      BY <3>1, UsedIsAllocated
    <3>3. heap[b].function = NULL \/ b \in ToSet(q)
      BY DEF SignalInv, EmissionsKnown
    <3>4. b # a /\ (ring = NULL => b # head)
      BY <3>1, FreeIsUnused
    <3> HIDE DEF b
    <3>5. CASE b \in ToSet(q)
      BY <1>2, <3>5 DEF b
    <3>6. CASE heap[b].function = NULL
      <4>1. h[b].function = NULL
        <5>1. CASE b # head
          BY <3>2, <3>6, <5>1
        <5>2. CASE b = head
          BY <3>4, <3>6, <5>2
        <5> QED
          BY <5>1, <5>2
      <4>2. heap'[b].function = NULL
        BY <1>2, <3>2, <3>4, <4>1
      <4> QED
        BY <4>2 DEF b
    <3> QED
      BY <3>3, <3>5, <3>6
  <2>2. \A k \in DOMAIN frames : frames[k].links # <<>> /\ IsInjective(frames[k].links)
    BY DEF SignalInv, EmissionsKnown
  <2> QED
    BY <1>4, <2>1, <2>2 DEF EmissionsKnown
<1> QED
  BY <1>7, <1>8, <1>9, <1>12, <1>13 DEF SignalInv

\* What connect() does to the ring of the links q and to the callbacks.
LEMMA Added ==
  ASSUME NEW h \in [Address -> Links], NEW q \in Seq(Address), NEW head \in Address,
         NEW a \in Address, a # head, a \notin ToSet(q), Ring(h, head, q), count' \in Callback,
         heap' = AddBefore(h, head, a, count'), ring' = head
  PROVE  /\ Siblings(heap, ring)' = Append(q, a)
         /\ heap'[a].function = count'
         /\ \A b \in Address \ {a} : heap'[b].function = h[b].function
<1> DEFINE g == AddBefore(h, head, a, count')
           r == Append(q, a)
<1>1. /\ r \in Seq(Address) /\ Ring(g, head, r) /\ g[a].function = count'
      /\ \A b \in Address \ {a} : g[b].function = h[b].function
  BY AddBeforeRing
<1> HIDE DEF g, r
<1>2. Siblings(g, head) = r
  BY <1>1, SiblingsAre
<1>3. heap' = g
  BY DEF g
<1> QED
  BY <1>1, <1>2, <1>3 DEF r

\* connect() adds a link that nobody uses, and a head if there is none.
LEMMA ConnectKeeps ==
  ASSUME SignalInv, Connect
  PROVE  /\ SignalInv'
         /\ \E a \in Address :
              /\ ~Allocated(heap, a) /\ Siblings(heap, ring)' = Append(Siblings(heap, ring), a)
              /\ heap'[a].function = count'
              /\ \A b \in Address : Allocated(heap, b) => heap'[b].function = heap[b].function
              /\ IF ring = NULL THEN heap'[ring'].function = NULL /\ ring' # a ELSE ring' = ring
<1> DEFINE free == {a \in Address : ~Allocated(heap, a)}
           q    == Siblings(heap, ring)
<1>0. PICK head \in (IF ring = NULL THEN free ELSE {ring}) : \E a \in free \ {head} :
          /\ ring' = head
          /\ heap' = AddBefore(IF ring = NULL THEN NewHead(heap, head, NULL) ELSE heap,
                               head, a, count')
          /\ ids' = [ids EXCEPT ![count'] = a]
  BY DEF Connect
<1>1. PICK a \in free \ {head} :
          /\ ring' = head
          /\ heap' = AddBefore(IF ring = NULL THEN NewHead(heap, head, NULL) ELSE heap,
                               head, a, count')
          /\ ids' = [ids EXCEPT ![count'] = a]
  BY <1>0
<1>8. count' \in Callback
  BY SignalAssumption DEF Connect, SignalInv, SignalTypeOK, Connection, Callback
<1>2. /\ alive /\ alive' = alive /\ frames' = frames /\ count < MaxConnects /\ count' = count + 1
  BY DEF Connect
<1>3. /\ q \in Seq(Address) /\ ToSet(q) \subseteq Address
      /\ ring = NULL => q = <<>> /\ Members = {}
      /\ ring # NULL => ring \in Address /\ Ring(heap, ring, q)
  BY RingFacts
<1>4. heap \in [Address -> Links]
  BY DEF SignalInv, SignalTypeOK
<1>5. a \in Address /\ a # head /\ ~Allocated(heap, a) /\ a \notin ToSet(q)
  <2>1. a \in Address /\ a # head /\ ~Allocated(heap, a)
    BY <1>1
  <2>2. a \notin Members
    BY <2>1, FreeIsUnused
  <2> QED
    BY <2>1, <2>2 DEF Members
<1>6. CASE ring = NULL
  <2> DEFINE new == [next |-> head, prev |-> head, function |-> NULL, ref |-> 2]
             h == [heap EXCEPT ![head] = new]
  <2>1. head \in Address /\ ~Allocated(heap, head) /\ head \notin Members
    BY <1>0, <1>3, <1>6
  <2>2. new \in Links
    BY <2>1 DEF Links
  <2>3. h \in [Address -> Links] /\ h[head] = new /\ \A b \in Address \ {head} : h[b] = heap[b]
    BY <1>4, <2>1, <2>2
  <2>4. heap' = AddBefore(h, head, a, count')
    BY <1>1, <1>6 DEF NewHead
  <2>5. h[head].ref = 2 + Cardinality(Users(head)) /\ h[head].function \in {NULL, Method}
    <3>1. Cardinality(Users(head)) = 0
      BY <2>1, FreeIsUnused
    <3>2. h[head].ref = 2 /\ h[head].function = NULL
      BY <2>3
    <3> QED
      BY <3>1, <3>2
  <2>6. Ring(h, head, q)
    <3>1. q = <<>> /\ Len(<<>>) = 0 /\ DOMAIN <<>> = {} /\ ToSet(<<>>) = {}
      BY <1>3, <1>6, EmptySeq DEF ToSet
    <3>2. \A i \in 0 .. 0 : Place(head, <<>>, i) = head /\ Place(head, <<>>, i + 1) = head
      BY <3>1 DEF Place
    <3>3. h[head].next = head /\ h[head].prev = head
      BY <2>3
    <3> HIDE DEF h, q
    <3>4. Ring(h, head, <<>>)
      BY <3>1, <3>2, <3>3 DEF Ring, IsInjective
    <3> QED
      BY <3>1, <3>4
  <2> HIDE DEF h, new, q
  <2>7. q = Siblings(heap, ring)
    BY DEF q
  <2>8. /\ Siblings(heap, ring)' = Append(q, a)
        /\ heap'[a].function = count'
        /\ \A b \in Address \ {a} : heap'[b].function = h[b].function
    BY <1>1, <1>3, <1>5, <1>8, <2>1, <2>3, <2>4, <2>6, Added
  <2>11. SignalInv'
    BY <1>1, <1>2, <1>3, <1>5, <1>6, <2>1, <2>3, <2>4, <2>5, <2>6, <2>7, Connected
  <2>9. heap'[head].function = NULL
    BY <1>5, <2>1, <2>3, <2>8 DEF new
  <2>10. \A b \in Address : Allocated(heap, b) => heap'[b].function = heap[b].function
    BY <1>5, <2>1, <2>3, <2>8
  <2> QED
    BY <1>1, <1>5, <1>6, <2>7, <2>8, <2>9, <2>10, <2>11
<1>7. CASE ring # NULL
  <2>1. head = ring /\ heap' = AddBefore(heap, head, a, count') /\ ring \in Address
    BY <1>0, <1>1, <1>3, <1>7
  <2>2. heap[head].ref = 2 + Cardinality(Users(head))
    <3>1. heap[ring].ref = Held(ring) + Cardinality(Users(ring))
      BY <2>1 DEF SignalInv, References
    <3>2. Held(ring) = 2
      BY RingFacts DEF Held
    <3> QED
      BY <2>1, <3>1, <3>2
  <2>3. heap[head].function \in {NULL, Method}
    BY <1>7, <2>1 DEF SignalInv, HandlersKnown
  <2> HIDE DEF q
  <2>4. q = Siblings(heap, ring)
    BY DEF q
  <2>5. /\ Siblings(heap, ring)' = Append(q, a)
        /\ heap'[a].function = count'
        /\ \A b \in Address \ {a} : heap'[b].function = heap[b].function
    BY <1>1, <1>3, <1>4, <1>5, <1>7, <1>8, <2>1, Added
  <2>7. SignalInv'
    BY <1>1, <1>2, <1>3, <1>4, <1>5, <1>7, <2>1, <2>2, <2>3, <2>4, Connected
  <2>6. \A b \in Address : Allocated(heap, b) => heap'[b].function = heap[b].function
    BY <1>5, <2>5
  <2> QED
    BY <1>1, <1>5, <1>7, <2>1, <2>4, <2>5, <2>6, <2>7
<1> QED
  BY <1>6, <1>7

\* disconnect() removes the link that the id names, and no other.
LEMMA DisconnectKeeps ==
  ASSUME NEW c \in Connection, SignalInv, Disconnect(c)
  PROVE  /\ SignalInv'
         /\ ring \in Address /\ UNCHANGED <<ring, alive, frames, count>>
         /\ heap[ids[c]].function = c /\ heap'[ids[c]].function = NULL
         /\ \A b \in Address \ {ids[c]} : heap'[b].function = heap[b].function
         /\ \A b \in ToSet(Siblings(heap, ring)) : heap[b].function = c => b = ids[c]
         /\ \E pos \in DOMAIN Siblings(heap, ring) :
              /\ Siblings(heap, ring)[pos] = ids[c]
              /\ Siblings(heap, ring)' = RemoveAt(Siblings(heap, ring), pos)
<1> DEFINE q == Siblings(heap, ring)
           a == ids[c]
<1>1. /\ alive /\ a # NULL /\ ids' = [ids EXCEPT ![c] = NULL]
      /\ UNCHANGED <<ring, alive, frames, count>>
  BY DEF Disconnect
<1>2. /\ \A d \in Connection : ids[d] # NULL => ids[d] \in ToSet(q) /\ heap[ids[d]].function = d
      /\ \A b \in ToSet(q) : heap[b].function \in 1 .. count /\ ids[heap[b].function] = b
  BY DEF SignalInv, HandlersKnown
<1>3. a \in ToSet(q) /\ heap[a].function = c /\ heap' = Unlink(heap, a)
  BY <1>1, <1>2 DEF Disconnect
<1>4. /\ q \in Seq(Address) /\ ToSet(q) \subseteq Address /\ ring \notin ToSet(q)
      /\ ring # NULL /\ ring \in Address /\ Ring(heap, ring, q)
      /\ heap \in [Address -> Links]
  <2>1. ToSet(<<>>) = {}
    BY DEF ToSet
  <2>2. heap \in [Address -> Links]
    BY DEF SignalInv, SignalTypeOK
  <2>3. ring # NULL
    BY <1>3, <2>1, RingFacts
  <2> QED
    BY <2>2, <2>3, RingFacts
<1>5. a \in Address /\ a # ring /\ heap[a].ref > 0 /\ Held(a) = 1
  <2>1. a \in Address /\ a # ring
    BY <1>3, <1>4
  <2>2. Held(a) = 1
    BY <1>3, <2>1 DEF Held
  <2>3. heap[a].ref = Held(a) + Cardinality(Users(a)) /\ heap[a].ref \in Nat
    BY <1>4, <2>1 DEF SignalInv, References, Links
  <2>4. Cardinality(Users(a)) \in Nat
    <3> DEFINE some == [links |-> <<>>, running |-> Method]
    <3>1. some \in Frame /\ frames \in Seq(Frame)
      BY DEF Frame, Callback, SignalInv, SignalTypeOK
    <3> HIDE DEF some
    <3> QED
      BY <3>1, UsersAppend DEF Users
  <2> QED
    BY <2>1, <2>2, <2>3, <2>4
<1> HIDE DEF a
<1>6. PICK pos \in DOMAIN q : q[pos] = a
  BY <1>3 DEF ToSet
<1> DEFINE r == RemoveAt(q, pos)
<1>7. /\ heap' \in [Address -> Links]
      /\ r \in Seq(Address) /\ ToSet(r) = ToSet(q) \ {a}
      /\ Ring(heap', ring, r)
      /\ Removed(heap'[a])
      /\ heap'[a].ref = heap[a].ref - 1
      /\ \A b \in Address \ {a} :
           /\ heap'[b].function = heap[b].function
           /\ heap'[b].ref = heap[b].ref
           /\ b \notin {ring} \cup ToSet(q) => heap'[b] = heap[b]
  <2> HIDE DEF q
  <2> DEFINE g == Unlink(heap, q[pos])
  <2>1. /\ g \in [Address -> Links]
        /\ r \in Seq(Address) /\ ToSet(r) = ToSet(q) \ {q[pos]}
        /\ Ring(g, ring, r)
        /\ Removed(g[q[pos]])
        /\ g[q[pos]].ref = heap[q[pos]].ref - 1
        /\ \A b \in Address \ {q[pos]} :
             /\ g[b].function = heap[b].function
             /\ g[b].ref = heap[b].ref
             /\ b \notin {ring} \cup ToSet(q) => g[b] = heap[b]
    BY <1>4, <1>5, <1>6, UnlinkRing
  <2>2. heap' = g
    BY <1>3, <1>6
  <2> HIDE DEF g, r
  <2> QED
    BY <1>6, <2>1, <2>2
<1> HIDE DEF r
<1>8. Siblings(heap, ring)' = r
  BY <1>1, <1>4, <1>7, SiblingsAre
<1>9. /\ Members = ToSet(q) \cup {ring} /\ Members' = (ToSet(q) \cup {ring}) \ {a}
      /\ \A b \in Address : Held(b)' = IF b = a THEN 0 ELSE Held(b)
  <2>1. Members = ToSet(q) \cup {ring} /\ Members' = ToSet(r) \cup {ring}
    BY <1>1, <1>4, <1>8 DEF Members
  <2>2. \A b : Held(b)' = (IF b = ring THEN 2 ELSE 0) + (IF b \in ToSet(r) THEN 1 ELSE 0)
    BY <1>1, <1>8 DEF Held
  <2>3. \A b : Held(b) = (IF b = ring THEN 2 ELSE 0) + (IF b \in ToSet(q) THEN 1 ELSE 0)
    BY DEF Held
  <2> HIDE DEF q
  <2> QED
    BY <1>5, <1>7, <2>1, <2>2, <2>3
<1> HIDE DEF q
<1>10. SignalTypeOK'
  BY <1>1, <1>7 DEF SignalInv, SignalTypeOK
<1>11. RingClosed'
  <2>1. ASSUME NEW b \in Address \ ((ToSet(q) \cup {ring}) \ {a})
        PROVE  Removed(heap'[b])
    <3>1. CASE b = a
      BY <1>7, <3>1
    <3>2. CASE b # a
      <4>1. heap'[b] = heap[b] /\ b \notin Members
        BY <1>7, <1>9, <3>2
      <4>2. Removed(heap[b])
        BY <1>1, <4>1 DEF SignalInv, RingClosed
      <4> QED
        BY <4>1, <4>2
    <3> QED
      BY <3>1, <3>2
  <2> QED
    BY <1>1, <1>7, <1>8, <1>9, <2>1 DEF RingClosed
<1>12. References'
  <2>1. ASSUME NEW b \in Address
        PROVE  heap'[b].ref = Held(b)' + Cardinality(Users(b))
    <3>1. heap[b].ref = Held(b) + Cardinality(Users(b)) /\ heap[b].ref \in Nat /\ Held(b) \in Nat
      BY <1>4, RingFacts DEF SignalInv, References, Links
    <3>2. Cardinality(Users(b)) \in Nat
      <4> DEFINE some == [links |-> <<>>, running |-> Method]
      <4>1. some \in Frame /\ frames \in Seq(Frame)
        BY DEF Frame, Callback, SignalInv, SignalTypeOK
      <4> HIDE DEF some
      <4> QED
        BY <4>1, UsersAppend DEF Users
    <3> QED
      BY <1>5, <1>7, <1>9, <3>1, <3>2
  <2>2. \A b : Users(b)' = Users(b)
    BY <1>1 DEF Users
  <2> QED
    BY <2>1, <2>2 DEF References
<1>13. HandlersKnown'
  <2>1. ids' \in [Connection -> Address \cup {NULL}] /\ ids'[c] = NULL
        /\ \A d \in Connection : d # c => ids'[d] = ids[d]
    BY <1>1 DEF SignalInv, SignalTypeOK
  <2>2. heap'[ring].function \in {NULL, Method}
    BY <1>4, <1>5, <1>7 DEF SignalInv, HandlersKnown
  <2>3. ASSUME NEW b \in ToSet(r)
        PROVE  heap'[b].function \in 1 .. count /\ ids'[heap'[b].function] = b
    <3>1. b \in ToSet(q) /\ b # a /\ b \in Address /\ heap'[b].function = heap[b].function
      BY <1>4, <1>7
    <3>2. heap[b].function \in 1 .. count /\ ids[heap[b].function] = b
      BY <1>2, <3>1
    <3>3. heap[b].function \in Connection /\ heap[b].function # c
      <4>1. heap[b].function \in Connection
        BY <3>2, SignalAssumption DEF SignalInv, SignalTypeOK, Connection
      <4>2. heap[b].function # c
        BY <3>1, <3>2 DEF a
      <4> QED
        BY <4>1, <4>2
    <3> QED
      BY <2>1, <3>1, <3>2, <3>3
  <2>4. ASSUME NEW d \in Connection, ids'[d] # NULL
        PROVE  ids'[d] \in ToSet(r) /\ heap'[ids'[d]].function = d
    <3>1. d # c /\ ids'[d] = ids[d]
      BY <2>1, <2>4
    <3>2. ids[d] \in ToSet(q) /\ heap[ids[d]].function = d
      BY <1>2, <2>4, <3>1
    <3>3. ids[d] # a
      BY <1>3, <3>1, <3>2
    <3> QED
      BY <1>4, <1>7, <3>1, <3>2, <3>3
  <2> QED
    BY <1>1, <1>8, <2>2, <2>3, <2>4 DEF HandlersKnown
<1>14. EmissionsKnown'
  <2>1. ASSUME NEW k \in DOMAIN frames, NEW i \in 2 .. Len(frames[k].links)
        PROVE  heap'[frames[k].links[i]].function = NULL \/ frames[k].links[i] \in ToSet(r)
    <3> DEFINE b == frames[k].links[i]
    <3>1. b \in Address
      <4>1. frames[k] \in Frame
        BY LenProperties, ElementOfSeq DEF SignalInv, SignalTypeOK
      <4>2. frames[k].links \in Seq(Address)
        BY <4>1 DEF Frame
      <4>3. i \in 1 .. Len(frames[k].links)
        BY <4>2, LenProperties
      <4> QED
        BY <4>2, <4>3, ElementOfSeq
    <3>2. heap[b].function = NULL \/ b \in ToSet(q)
      BY DEF SignalInv, EmissionsKnown, q
    <3> HIDE DEF b
    <3>3. heap'[b].function = NULL \/ b \in ToSet(r)
      <4>1. CASE b = a
        BY <1>7, <4>1 DEF Removed
      <4>2. CASE b # a
        BY <1>7, <3>1, <3>2, <4>2
      <4> QED
        BY <4>1, <4>2
    <3> QED
      BY <3>3 DEF b
  <2>2. \A k \in DOMAIN frames : frames[k].links # <<>> /\ IsInjective(frames[k].links)
    BY DEF SignalInv, EmissionsKnown
  <2> QED
    BY <1>1, <1>8, <2>1, <2>2 DEF EmissionsKnown
<1>15. SignalInv'
  BY <1>10, <1>11, <1>12, <1>13, <1>14 DEF SignalInv
<1>16. /\ heap'[a].function = NULL /\ \A b \in Address \ {a} : heap'[b].function = heap[b].function
       /\ \A b \in ToSet(q) : heap[b].function = c => b = a
  BY <1>2, <1>7 DEF Removed, a
<1> QED
  BY <1>1, <1>3, <1>4, <1>6, <1>8, <1>15, <1>16 DEF a, q, r

\* ~ProtoSignal() takes the callbacks of all links, but for the one of the head.
LEMMA DestroyKeeps ==
  ASSUME SignalInv, Destroy
  PROVE  /\ SignalInv'
         /\ \A a \in Address : a \in ToSet(Siblings(heap, ring)) \/ heap[a].function = NULL
                               => heap'[a].function = NULL
<1> DEFINE q == Siblings(heap, ring)
<1>1. /\ alive /\ alive' = FALSE /\ ring' = NULL /\ ids' = [c \in Connection |-> NULL]
      /\ UNCHANGED <<frames, count>>
  BY DEF Destroy
<1>2. heap \in [Address -> Links] /\ ring \in Address \cup {NULL} /\ frames \in Seq(Frame)
  BY DEF SignalInv, SignalTypeOK
<1>3. /\ q \in Seq(Address) /\ ToSet(q) \subseteq Address /\ ring \notin ToSet(q)
      /\ ring = NULL => q = <<>> /\ Members = {}
      /\ ring # NULL => ring \in Address /\ Ring(heap, ring, q)
  BY RingFacts
<1>4. ASSUME NEW a \in Address
      PROVE  /\ Cardinality(Users(a)) \in Nat /\ heap[a].ref \in Nat
             /\ heap[a].ref = Held(a) + Cardinality(Users(a))
             /\ Held(a) = (IF a = ring THEN 2 ELSE 0) + (IF a \in ToSet(q) THEN 1 ELSE 0)
  <2>1. Cardinality(Users(a)) \in Nat
    <3> DEFINE some == [links |-> <<>>, running |-> Method]
    <3>1. some \in Frame
      BY DEF Frame, Callback
    <3> HIDE DEF some
    <3> QED
      BY <1>2, <3>1, UsersAppend DEF Users
  <2>2. Held(a) = (IF a = ring THEN 2 ELSE 0) + (IF a \in ToSet(q) THEN 1 ELSE 0)
    BY DEF Held
  <2> QED
    BY <1>2, <2>1, <2>2 DEF SignalInv, References, Links
\* What every link is like when the signal is gone.
<1>5. /\ heap' \in [Address -> Links]
      /\ \A a \in Address : /\ heap'[a].ref = Cardinality(Users(a))
                            /\ Removed(heap'[a]) \/ LeftOver(heap'[a], a)
                            /\ a \in ToSet(q) \/ heap[a].function = NULL => heap'[a].function = NULL
  <2>1. CASE ring = NULL
    <3>1. heap' = heap
      BY <2>1 DEF Destroy
    <3>2. ASSUME NEW a \in Address
          PROVE  /\ heap[a].ref = Cardinality(Users(a)) /\ a \notin ToSet(q)
                 /\ Removed(heap[a]) \/ LeftOver(heap[a], a)
      <4>1. a # ring /\ a \notin ToSet(q) /\ a \notin Members
        <5>1. ToSet(<<>>) = {}
          BY DEF ToSet
        <5> QED
          BY <1>3, <2>1, <5>1, SignalAssumption
      <4>2. Removed(heap[a]) \/ LeftOver(heap[a], a)
        BY <4>1 DEF SignalInv, RingClosed
      <4>3. Held(a) = 0
        BY <1>4, <4>1
      <4> QED
        BY <1>4, <4>1, <4>2, <4>3
    <3> QED
      BY <1>2, <3>1, <3>2
  <2>2. CASE ring # NULL
    <3>1. heap' = Decref(Decref(UnlinkAll(heap, ring), {ring}), {ring})
      BY <2>2 DEF Destroy
    <3>2. \A a \in ToSet(q) : heap[a].ref > 0 /\ heap[a].ref - 1 = Cardinality(Users(a))
      <4> HIDE DEF q
      <4> QED
        BY <1>3, <1>4
    <3>3. heap[ring].ref > 1 /\ heap[ring].ref - 2 = Cardinality(Users(ring))
      <4> HIDE DEF q
      <4> QED
        BY <1>3, <1>4, <2>2
    <3>4. Siblings(heap, ring) = q
      OBVIOUS
    <3> HIDE DEF q
    <3>5. /\ heap' \in [Address -> Links]
          /\ \A a \in ToSet(q) : Removed(heap'[a]) /\ heap'[a].ref = heap[a].ref - 1
          /\ Removed(heap'[ring]) \/ LeftOver(heap'[ring], ring)
          /\ heap'[ring].ref = heap[ring].ref - 2
          /\ heap'[ring].function \in {NULL, heap[ring].function}
          /\ \A b \in Address \ ({ring} \cup ToSet(q)) : heap'[b] = heap[b]
      BY <1>2, <1>3, <2>2, <3>1, <3>2, <3>3, <3>4, DestroyRing
    <3>6. ASSUME NEW a \in Address
          PROVE  /\ heap'[a].ref = Cardinality(Users(a))
                 /\ Removed(heap'[a]) \/ LeftOver(heap'[a], a)
                 /\ a \in ToSet(q) \/ heap[a].function = NULL => heap'[a].function = NULL
      <4>1. CASE a \in ToSet(q)
        BY <3>2, <3>5, <4>1 DEF Removed
      <4>2. CASE a = ring
        BY <1>3, <3>3, <3>5, <4>2
      <4>3. CASE a \notin {ring} \cup ToSet(q)
        <5>1. heap'[a] = heap[a]
          BY <3>5, <4>3
        <5>2. a \notin Members
          BY <4>3 DEF Members, q
        <5>3. Removed(heap[a])
          BY <1>1, <5>2 DEF SignalInv, RingClosed
        <5>4. heap[a].ref = Cardinality(Users(a))
          BY <1>4, <4>3
        <5> QED
          BY <4>3, <5>1, <5>3, <5>4
      <4> QED
        BY <4>1, <4>2, <4>3
    <3> QED
      BY <3>5, <3>6
  <2> QED
    BY <2>1, <2>2
<1>6. Siblings(heap, ring)' = <<>> /\ Members' = {} /\ \A a \in Address : Held(a)' = 0
  <2>1. Siblings(heap, ring)' = <<>> /\ ToSet(<<>>) = {}
    BY <1>1 DEF Siblings, ToSet
  <2> QED
    BY <1>1, <2>1, SignalAssumption DEF Members, Held
<1>7. SignalTypeOK'
  BY <1>1, <1>5 DEF SignalInv, SignalTypeOK
<1>8. RingClosed'
  BY <1>1, <1>5 DEF RingClosed
<1>9. References'
  <2>1. \A a : Users(a)' = Users(a)
    BY <1>1 DEF Users
  <2> QED
    BY <1>4, <1>5, <1>6, <2>1 DEF References
<1>10. HandlersKnown'
  <2>1. ToSet(<<>>) = {}
    BY DEF ToSet
  <2> QED
    BY <1>1, <1>6, <2>1 DEF HandlersKnown
<1>11. EmissionsKnown'
  <2>1. ASSUME NEW k \in DOMAIN frames, NEW i \in 2 .. Len(frames[k].links)
        PROVE  heap'[frames[k].links[i]].function = NULL
    <3> DEFINE b == frames[k].links[i]
    <3>1. b \in Address
      <4>1. frames[k] \in Frame
        BY <1>2, LenProperties, ElementOfSeq
      <4>2. frames[k].links \in Seq(Address)
        BY <4>1 DEF Frame
      <4>3. i \in 1 .. Len(frames[k].links)
        BY <4>2, LenProperties
      <4> QED
        BY <4>2, <4>3, ElementOfSeq
    <3>2. heap[b].function = NULL \/ b \in ToSet(q)
      BY DEF SignalInv, EmissionsKnown
    <3> HIDE DEF b, q
    <3>3. heap'[b].function = NULL
      BY <1>5, <3>1, <3>2
    <3> QED
      BY <3>3 DEF b
  <2>2. \A k \in DOMAIN frames : frames[k].links # <<>> /\ IsInjective(frames[k].links)
    BY DEF SignalInv, EmissionsKnown
  <2> QED
    BY <1>1, <2>1, <2>2 DEF EmissionsKnown
<1> QED
  BY <1>5, <1>7, <1>8, <1>9, <1>10, <1>11 DEF SignalInv

-----------------------------------------------------------------------------
(* The invariant and what follows from it.                                 *)

\* The constructor leaves no link, or a head that is alone.
LEMMA SignalStarts == SignalInit => SignalInv
<1> SUFFICES ASSUME SignalInit PROVE SignalInv
  OBVIOUS
<1> DEFINE none == [a \in Address |-> Unused]
<1>1. /\ alive = TRUE /\ frames = <<>> /\ ids = [c \in Connection |-> NULL] /\ count = 0
      /\ \/ ring = NULL /\ heap = none
         \/ ring \in Address /\ heap = NewHead(none, ring, Method)
  BY DEF SignalInit
<1>2. Unused \in Links /\ Removed(Unused) /\ Unused.ref = 0 /\ none \in [Address -> Links]
  BY DEF Unused, Links, Removed
<1>3. <<>> \in Seq(Address) /\ <<>> \in Seq(Frame) /\ ToSet(<<>>) = {} /\ Len(<<>>) = 0 /\ DOMAIN <<>> = {}
  BY EmptySeq DEF ToSet
<1>4. \A a : Cardinality(Users(a)) = 0
  BY <1>1, UsersNone DEF Users
<1> DEFINE head == [next |-> ring, prev |-> ring, function |-> Method, ref |-> 2]
<1>5. /\ heap \in [Address -> Links]
      /\ ring # NULL => /\ ring \in Address /\ heap[ring] = head
      /\ \A a \in Address : a # ring => heap[a] = Unused
  <2>1. CASE ring = NULL /\ heap = none
    BY <1>2, <2>1
  <2>2. CASE ring \in Address /\ heap = NewHead(none, ring, Method)
    <3>1. head \in Links
      BY <2>2 DEF Links, Callback
    <3>2. heap = [none EXCEPT ![ring] = head]
      BY <2>2 DEF NewHead
    <3> HIDE DEF head
    <3> QED
      BY <1>2, <2>2, <3>1, <3>2
  <2> QED
    BY <1>1, <2>1, <2>2
<1>6. ring # NULL => Ring(heap, ring, <<>>)
  <2> SUFFICES ASSUME ring # NULL PROVE Ring(heap, ring, <<>>)
    OBVIOUS
  <2>1. \A i \in 0 .. 0 : Place(ring, <<>>, i) = ring /\ Place(ring, <<>>, i + 1) = ring
    BY <1>3 DEF Place
  <2>2. heap[ring].next = ring /\ heap[ring].prev = ring
    BY <1>5
  <2> QED
    BY <1>3, <2>1, <2>2 DEF Ring, IsInjective
<1>7. Siblings(heap, ring) = <<>>
  <2>1. CASE ring = NULL
    BY <2>1 DEF Siblings
  <2>2. CASE ring # NULL
    BY <1>3, <1>5, <1>6, <2>2, SiblingsAre
  <2> QED
    BY <2>1, <2>2
<1>8. SignalTypeOK
  <2>1. count \in 0 .. MaxConnects
    BY <1>1, SignalAssumption
  <2>2. ring \in Address \cup {NULL}
    BY <1>5
  <2> QED
    BY <1>1, <1>3, <1>5, <2>1, <2>2 DEF SignalTypeOK
<1>9. RingClosed
  <2>1. Members = {ring} \ {NULL}
    BY <1>3, <1>7 DEF Members
  <2>2. \A a \in Address \ Members : Removed(heap[a])
    BY <1>2, <1>5, <2>1, SignalAssumption
  <2>3. ring # NULL => Ring(heap, ring, Siblings(heap, ring))
    BY <1>6, <1>7
  <2>4. Siblings(heap, ring) \in Seq(Address)
    BY <1>3, <1>7
  <2> QED
    BY <1>1, <2>2, <2>3, <2>4 DEF RingClosed
<1>10. References
  <2>1. ASSUME NEW a \in Address
        PROVE  heap[a].ref = Held(a) + Cardinality(Users(a))
    <3>1. Held(a) = IF a = ring THEN 2 ELSE 0
      BY <1>3, <1>7 DEF Held
    <3>2. a = ring => ring # NULL
      BY SignalAssumption
    <3> QED
      BY <1>2, <1>4, <1>5, <3>1, <3>2
  <2> QED
    BY <2>1 DEF References
<1>11. HandlersKnown
  BY <1>1, <1>3, <1>5, <1>7 DEF HandlersKnown
<1>12. EmissionsKnown
  BY <1>1, <1>3 DEF EmissionsKnown
<1> QED
  BY <1>8, <1>9, <1>10, <1>11, <1>12 DEF SignalInv

\* SignalInv is inductive.
LEMMA SignalStep == SignalInv /\ [SignalNext]_signalVars => SignalInv'
<1> SUFFICES ASSUME SignalInv, [SignalNext]_signalVars PROVE SignalInv'
  OBVIOUS
<1>1. CASE Connect
  BY <1>1, ConnectKeeps
<1>2. CASE Destroy
  BY <1>2, DestroyKeeps
<1>3. CASE Emit
  BY <1>3, EmitKeeps
<1>4. CASE Proceed
  BY <1>4, ProceedKeeps
<1>5. CASE Stop
  BY <1>5, StopKeeps
<1>6. ASSUME NEW c \in Connection, Disconnect(c)
      PROVE  SignalInv'
  BY <1>6, DisconnectKeeps
<1>7. CASE UNCHANGED signalVars
  BY <1>7 DEF SignalInv, signalVars, SignalTypeOK, RingClosed, References, HandlersKnown,
              EmissionsKnown, Members, Held, Users
<1> QED
  BY <1>1, <1>2, <1>3, <1>4, <1>5, <1>6, <1>7 DEF SignalNext

(* SignalInv holds in every reachable state, for any number of addresses,
   connections and nested emissions: the ring stays closed while callbacks
   connect, disconnect, emit and destroy the signal, references are exact,
   ids name the links of their connections, and what an emission has still
   to visit is connected or was removed.                                   *)
THEOREM SignalInvariant == SignalSpec => []SignalInv
<1>1. SignalInit => SignalInv
  BY SignalStarts
<1>2. SignalInv /\ [SignalNext]_signalVars => SignalInv'
  BY SignalStep
<1> QED
  BY <1>1, <1>2, PTL DEF SignalSpec

(* References of the ring and of emissions under way are counted exactly:
   HandlerLink::decref deletes no link in use and leaks none.              *)
THEOREM ReferencesHold == SignalSpec => []References
<1>1. SignalInv => References
  BY DEF SignalInv
<1> QED
  BY <1>1, SignalInvariant, PTL

(* connect, disconnect and the destructor keep the ring closed in both
   directions, whatever emissions are under way.                           *)
THEOREM RingHolds == SignalSpec => []RingConsistent
<1>1. SignalInv => RingConsistent
  <2> SUFFICES ASSUME SignalInv PROVE RingConsistent
    OBVIOUS
  <2> DEFINE q == Siblings(heap, ring)
             n == Len(q)
  <2>1. ASSUME NEW a \in Address, a \in Members
        PROVE  /\ heap[a].next \in Members /\ heap[heap[a].next].prev = a
               /\ heap[a].prev \in Members /\ heap[heap[a].prev].next = a
               /\ a # ring => heap[a].function \in Connection
    <3>1. /\ ring \in Address /\ q \in Seq(Address) /\ Ring(heap, ring, q)
          /\ Members = {ring} \cup ToSet(q)
      BY <2>1, RingFacts, SignalAssumption DEF Members
    <3>2. /\ \A i \in 0 .. n + 1 : Place(ring, q, i) \in {ring} \cup ToSet(q)
          /\ \A b \in {ring} \cup ToSet(q) : \E i \in 0 .. n : Place(ring, q, i) = b
          /\ n \in Nat
          /\ Place(ring, q, 0) = ring /\ Place(ring, q, n + 1) = ring
      <4> HIDE DEF q
      <4> QED
        BY <3>1, PlacesApart DEF Ring
    <3>3. \A i \in 0 .. n : /\ heap[Place(ring, q, i)].next = Place(ring, q, i + 1)
                            /\ heap[Place(ring, q, i + 1)].prev = Place(ring, q, i)
      BY <3>1 DEF Ring
    <3>4. \A b \in ToSet(q) : heap[b].function \in Connection
      BY SignalAssumption DEF SignalInv, SignalTypeOK, HandlersKnown, Connection
    <3> HIDE DEF q, n
    <3>5. PICK i \in 0 .. n : Place(ring, q, i) = a
      BY <2>1, <3>1, <3>2
    <3>6. heap[a].next \in Members /\ heap[heap[a].next].prev = a
      <4>1. i + 1 \in 0 .. n + 1
        BY <3>2
      <4> QED
        BY <3>1, <3>2, <3>3, <3>5, <4>1
    <3>7. PICK j \in 0 .. n : Place(ring, q, j + 1) = a
      <4>1. CASE i = 0
        <5>1. n \in 0 .. n /\ a = ring
          BY <3>2, <3>5, <4>1
        <5> QED
          BY <3>2, <5>1
      <4>2. CASE i # 0
        <5>1. i - 1 \in 0 .. n /\ (i - 1) + 1 = i
          BY <3>2, <4>2
        <5> QED
          BY <3>5, <5>1
      <4> QED
        BY <4>1, <4>2
    <3>8. heap[a].prev \in Members /\ heap[heap[a].prev].next = a
      <4>1. j \in 0 .. n + 1
        BY <3>2
      <4> QED
        BY <3>1, <3>2, <3>3, <3>7, <4>1
    <3> QED
      BY <2>1, <3>1, <3>4, <3>6, <3>8
  <2>2. ASSUME NEW a \in Address, a \notin Members
        PROVE  /\ heap[a].next = heap[a].prev
               /\ heap[a].next \in {NULL} \cup IF alive THEN {} ELSE {a}
    <3>1. Removed(heap[a]) \/ (~alive /\ LeftOver(heap[a], a))
      BY <2>2 DEF SignalInv, RingClosed
    <3> QED
      BY <3>1 DEF Removed, LeftOver
  <2> QED
    BY <2>1, <2>2 DEF RingConsistent
<1> QED
  BY <1>1, SignalInvariant, PTL

(* Both, for any number of addresses, connections and nested emissions.      *)
THEOREM HandlersAreAlwaysKept == SignalSpec => []HandlersAreKept
<1>1. RingConsistent /\ References => HandlersAreKept
  BY DEF HandlersAreKept
<1> QED
  BY <1>1, ReferencesHold, RingHolds, PTL

-----------------------------------------------------------------------------
(* The callbacks of links, and those that emissions have to come.          *)

\* The callbacks of links are those that are set, in the order of the links.
LEMMA FunctionsIn ==
  ASSUME NEW h \in [Address -> Links], NEW s \in Seq(Address)
  PROVE  /\ [k \in DOMAIN s |-> h[s[k]].function] \in Seq(Callback \cup {NULL})
         /\ Len([k \in DOMAIN s |-> h[s[k]].function]) = Len(s)
         /\ DOMAIN s = 1 .. Len(s) /\ Len(s) \in Nat
         /\ Functions(h, s) \in Seq(Callback \cup {NULL})
         /\ ToSet(Functions(h, s)) = {h[a].function : a \in ToSet(s)} \ {NULL}
<1> DEFINE m == [k \in DOMAIN s |-> h[s[k]].function]
<1>1. DOMAIN s = 1 .. Len(s) /\ Len(s) \in Nat /\ \A k \in 1 .. Len(s) : s[k] \in Address
  BY LenProperties, ElementOfSeq
<1>2. \A k \in 1 .. Len(s) : h[s[k]].function \in Callback \cup {NULL}
  BY <1>1 DEF Links
<1>3. m \in Seq(Callback \cup {NULL}) /\ Len(m) = Len(s) /\ DOMAIN m = 1 .. Len(s)
  <2>1. m = [k \in 1 .. Len(s) |-> h[s[k]].function]
    BY <1>1
  <2> DEFINE n == Len(s)
  <2> HIDE DEF n
  <2>2. n \in Nat /\ \A k \in 1 .. n : h[s[k]].function \in Callback \cup {NULL}
    BY <1>1, <1>2 DEF n
  <2>3. [k \in 1 .. n |-> h[s[k]].function] \in Seq(Callback \cup {NULL})
    BY <2>2
  <2>4. Len([k \in 1 .. n |-> h[s[k]].function]) = n
    BY <2>2
  <2> QED
    BY <2>1, <2>3, <2>4 DEF n
<1>4. ToSet(m) = {h[a].function : a \in ToSet(s)}
  BY <1>1, <1>3 DEF ToSet
<1> HIDE DEF m
<1>5. Without(m, {NULL}) \in Seq(Callback \cup {NULL}) /\ ToSet(Without(m, {NULL})) = ToSet(m) \ {NULL}
  BY <1>3, WithoutElements
<1>6. Functions(h, s) = Without(m, {NULL})
  BY DEF Functions, m
<1> QED
  BY <1>1, <1>3, <1>4, <1>5, <1>6 DEF m

\* Links lose some of the callbacks.
LEMMA FunctionsForget ==
  ASSUME NEW h \in [Address -> Links], NEW g \in [Address -> Links], NEW s \in Seq(Address), NEW gone,
         \A a \in ToSet(s) : g[a].function = IF h[a].function \in gone THEN NULL ELSE h[a].function
  PROVE  Functions(g, s) = Without(Functions(h, s), gone)
<1> DEFINE m == [k \in DOMAIN s |-> h[s[k]].function]
           n == [k \in DOMAIN s |-> g[s[k]].function]
           T == Callback \cup {NULL}
<1>1. m \in Seq(T) /\ n \in Seq(T) /\ Len(m) = Len(n) /\ DOMAIN m = DOMAIN s
  <2>1. m \in Seq(T) /\ Len(m) = Len(s)
    BY FunctionsIn
  <2>2. n \in Seq(T) /\ Len(n) = Len(s)
    BY FunctionsIn
  <2>3. DOMAIN m = DOMAIN s
    OBVIOUS
  <2> HIDE DEF m, n
  <2> QED
    BY <2>1, <2>2, <2>3
<1>2. \A k \in DOMAIN m : /\ m[k] \in {NULL} \cup gone <=> n[k] \in {NULL}
                          /\ m[k] \in {NULL} \cup gone \/ m[k] = n[k]
  <2> SUFFICES ASSUME NEW k \in DOMAIN s
               PROVE  /\ m[k] \in {NULL} \cup gone <=> n[k] \in {NULL}
                      /\ m[k] \in {NULL} \cup gone \/ m[k] = n[k]
    BY <1>1
  <2>1. s[k] \in ToSet(s) /\ m[k] = h[s[k]].function /\ n[k] = g[s[k]].function
    BY DEF ToSet
  <2> HIDE DEF m, n
  <2> QED
    BY <2>1
<1> HIDE DEF m, n, T
<1>3. Without(m, {NULL} \cup gone) = Without(n, {NULL})
  BY <1>1, <1>2, WithoutSame
<1>4. Without(Without(m, {NULL}), gone) = Without(m, {NULL} \cup gone)
  BY <1>1, WithoutTwice
<1> QED
  BY <1>3, <1>4 DEF Functions, m, n

\* Links that keep their callbacks.
LEMMA FunctionsSame ==
  ASSUME NEW h \in [Address -> Links], NEW g \in [Address -> Links], NEW s \in Seq(Address),
         \A a \in ToSet(s) : g[a].function = h[a].function
  PROVE  Functions(g, s) = Functions(h, s)
<1>1. DOMAIN s = DOMAIN s /\ \A k \in DOMAIN s : s[k] \in ToSet(s)
  BY DEF ToSet
<1>2. [k \in DOMAIN s |-> g[s[k]].function] = [k \in DOMAIN s |-> h[s[k]].function]
  BY <1>1
<1> QED
  BY <1>2, Zenon DEF Functions

\* Two lists of links in a row.
LEMMA FunctionsConcat ==
  ASSUME NEW h \in [Address -> Links], NEW r \in Seq(Address), NEW s \in Seq(Address)
  PROVE  Functions(h, r \o s) = Functions(h, r) \o Functions(h, s)
<1> DEFINE mr == [k \in DOMAIN r |-> h[r[k]].function]
           ms == [k \in DOMAIN s |-> h[s[k]].function]
           t  == r \o s
           mt == [k \in DOMAIN t |-> h[t[k]].function]
           T  == Callback \cup {NULL}
<1>1. /\ t \in Seq(Address) /\ Len(t) = Len(r) + Len(s)
      /\ \A i \in 1 .. Len(r) + Len(s) : t[i] = IF i <= Len(r) THEN r[i] ELSE s[i - Len(r)]
  BY ConcatProperties
<1>2. /\ mr \in Seq(T) /\ Len(mr) = Len(r) /\ DOMAIN r = 1 .. Len(r) /\ Len(r) \in Nat
      /\ ms \in Seq(T) /\ Len(ms) = Len(s) /\ DOMAIN s = 1 .. Len(s) /\ Len(s) \in Nat
  BY FunctionsIn
<1>3. mt \in Seq(T) /\ Len(mt) = Len(t) /\ DOMAIN t = 1 .. Len(t)
  <2> HIDE DEF t
  <2> QED
    BY <1>1, FunctionsIn
<1>4. /\ mr \o ms \in Seq(T) /\ Len(mr \o ms) = Len(mr) + Len(ms)
      /\ \A i \in 1 .. Len(mr) + Len(ms) : (mr \o ms)[i] = IF i <= Len(mr) THEN mr[i] ELSE ms[i - Len(mr)]
  <2> HIDE DEF mr, ms, T
  <2> QED
    BY <1>2, ConcatProperties
<1>5. \A i \in DOMAIN r : mr[i] = h[r[i]].function
  OBVIOUS
<1>6. \A i \in DOMAIN s : ms[i] = h[s[i]].function
  OBVIOUS
<1>7. \A i \in DOMAIN t : mt[i] = h[t[i]].function
  OBVIOUS
<1> DEFINE both == mr \o ms
<1>8. both \in Seq(T) /\ Len(both) = Len(mt) /\ Len(mt) = Len(r) + Len(s)
  BY <1>1, <1>2, <1>3, <1>4
<1> HIDE DEF both
<1>9. \A i \in 1 .. Len(r) + Len(s) : both[i] = IF i <= Len(r) THEN mr[i] ELSE ms[i - Len(r)]
  BY <1>2, <1>4 DEF both
<1> HIDE DEF mr, ms, mt, t, T
<1>10. \A i \in 1 .. Len(mt) : mt[i] = both[i]
  <2> SUFFICES ASSUME NEW i \in 1 .. Len(r) + Len(s) PROVE mt[i] = both[i]
    BY <1>8
  <2>1. mt[i] = h[t[i]].function
    BY <1>1, <1>3, <1>7
  <2>2. CASE i <= Len(r)
    <3>1. i \in DOMAIN r /\ t[i] = r[i] /\ both[i] = mr[i]
      BY <1>1, <1>2, <1>9, <2>2
    <3> QED
      BY <1>5, <2>1, <3>1
  <2>3. CASE ~(i <= Len(r))
    <3>1. i - Len(r) \in DOMAIN s /\ t[i] = s[i - Len(r)] /\ both[i] = ms[i - Len(r)]
      BY <1>1, <1>2, <1>9, <2>3
    <3> QED
      BY <1>6, <2>1, <3>1
  <2> QED
    BY <2>2, <2>3
<1>11. mt = both
  BY <1>3, <1>8, <1>10, SeqEqual
<1>12. Without(both, {NULL}) = Without(mr, {NULL}) \o Without(ms, {NULL})
  BY <1>2, WithoutConcat DEF both
<1> QED
  BY <1>11, <1>12 DEF Functions, mr, ms, mt, t

\* A single link.
LEMMA FunctionsOne ==
  ASSUME NEW h \in [Address -> Links], NEW a \in Address
  PROVE  Functions(h, <<a>>) = IF h[a].function = NULL THEN <<>> ELSE <<h[a].function>>
<1> DEFINE f == h[a].function
           T == Callback \cup {NULL}
<1>1. f \in T
  BY DEF Links
<1>2. [k \in DOMAIN <<a>> |-> h[<<a>>[k]].function] = <<f>>
  OBVIOUS
<1>3. Functions(h, <<a>>) = Without(<<f>>, {NULL})
  BY <1>2, Zenon DEF Functions
<1> HIDE DEF f, T
<1>4. <<>> \in Seq(T)
  BY EmptySeq
<1>5. Without(Append(<<>>, f), {NULL}) =
        IF f \in {NULL} THEN Without(<<>>, {NULL}) ELSE Append(Without(<<>>, {NULL}), f)
  BY <1>1, <1>4, WithoutAppend
<1>6. Without(<<>>, {NULL}) = <<>>
  BY WithoutEmpty
<1>7. Without(<<f>>, {NULL}) = IF f = NULL THEN <<>> ELSE <<f>>
  BY <1>5, <1>6
<1> QED
  BY <1>3, <1>7 DEF f

\* An emission goes on at the first link whose callback is set, with those that follow.
LEMMA WalkFunctions ==
  ASSUME NEW h \in [Address -> Links], NEW below \in Seq(Frame), NEW links \in Seq(Address),
         Walk(h, below, links)
  PROVE  \/ frames' = below /\ Functions(h, links) = <<>>
         \/ \E r \in Frame :
              /\ frames' = Append(below, r) /\ Tail(r.links) \in Seq(Address)
              /\ ToSet(Tail(r.links)) \subseteq ToSet(links)
              /\ Functions(h, links) = <<r.running>> \o Functions(h, Tail(r.links))
<1> DEFINE k    == FirstSet(h, links)
           past == SubSeq(links, 1, k - 1)
           rest == SubSeq(links, k, Len(links))
           r    == [links |-> rest, running |-> h[rest[1]].function]
           n    == Len(links)
<1>1. n \in Nat /\ DOMAIN links = 1 .. n /\ \A i \in 1 .. n : links[i] \in Address
  BY LenProperties, ElementOfSeq
<1>2. frames' = IF k = 0 THEN below ELSE Append(below, r)
  BY DEF Walk
<1>3. ASSUME NEW s \in Seq(Address), \A a \in ToSet(s) : h[a].function = NULL
      PROVE  Functions(h, s) = <<>>
  <2> DEFINE f == Functions(h, s)
  <2>1. f \in Seq(Callback \cup {NULL}) /\ ToSet(f) = {h[a].function : a \in ToSet(s)} \ {NULL}
    BY FunctionsIn
  <2>2. ToSet(f) = {}
    BY <1>3, <2>1
  <2> HIDE DEF f
  <2>3. Len(f) \in Nat /\ DOMAIN f = 1 .. Len(f)
    BY <2>1, LenProperties
  <2>4. Len(f) = 0
    <3>1. \A i \in 1 .. Len(f) : f[i] \in ToSet(f)
      BY <2>3 DEF ToSet
    <3> QED
      BY <2>2, <2>3, <3>1
  <2>5. f = <<>>
    BY <2>1, <2>4, EmptySeq
  <2> QED
    BY <2>5 DEF f
<1>4. CASE k = 0
  <2>1. \A i \in 1 .. n : h[links[i]].function = NULL
    BY <1>1, <1>4, FirstSetIs
  <2>2. \A a \in ToSet(links) : h[a].function = NULL
    BY <1>1, <2>1 DEF ToSet
  <2> QED
    BY <1>2, <1>3, <1>4, <2>2
<1>5. CASE k # 0
  <2>1. /\ k \in 1 .. n /\ h[links[k]].function # NULL
        /\ \A i \in 1 .. n : i < k => h[links[i]].function = NULL
    BY <1>1, <1>5, FirstSetIs
  <2> HIDE DEF k, n
  <2>2. /\ rest \in Seq(Address) /\ Len(rest) = n - k + 1
        /\ \A i \in 1 .. n - k + 1 : rest[i] = links[k + i - 1]
    <3>1. k \in Int /\ n \in Int /\ k <= n /\ \A i \in k .. n : links[i] \in Address
      BY <1>1, <2>1
    <3>2. /\ SubSeq(links, k, n) \in Seq(Address)
          /\ Len(SubSeq(links, k, n)) = IF k <= n THEN n - k + 1 ELSE 0
          /\ \A i \in 1 .. n - k + 1 : SubSeq(links, k, n)[i] = links[k + i - 1]
      BY <3>1, SubSeqProperties
    <3> QED
      BY <3>1, <3>2 DEF n
  <2>3. past \in Seq(Address) /\ \A a \in ToSet(past) : h[a].function = NULL
    <3>1. 1 \in Int /\ k - 1 \in Int /\ \A i \in 1 .. k - 1 : links[i] \in Address
      BY <1>1, <2>1
    <3>2. /\ past \in Seq(Address)
          /\ Len(past) = IF 1 <= k - 1 THEN (k - 1) - 1 + 1 ELSE 0
          /\ \A i \in 1 .. (k - 1) - 1 + 1 : past[i] = links[1 + i - 1]
      BY <3>1, SubSeqProperties
    <3> HIDE DEF past
    <3>3. Len(past) = k - 1 /\ DOMAIN past = 1 .. Len(past) /\ (k - 1) - 1 + 1 = k - 1
          /\ \A i \in 1 .. k - 1 : i \in 1 .. n /\ i < k /\ 1 + i - 1 = i
      BY <1>1, <2>1, <3>2, LenProperties
    <3>4. \A i \in 1 .. k - 1 : past[i] = links[i]
      BY <3>2, <3>3
    <3>5. \A i \in 1 .. k - 1 : h[past[i]].function = NULL
      BY <2>1, <3>3, <3>4
    <3> QED
      BY <3>2, <3>3, <3>5 DEF ToSet
  <2>4. links = past \o rest
    <3>1. SubSeq(links, 1, k - 1) \o SubSeq(links, (k - 1) + 1, n) = SubSeq(links, 1, n)
      <4>1. 1 \in 1 .. Len(links) + 1 /\ k - 1 \in 1 - 1 .. Len(links) /\ n \in k - 1 .. Len(links)
        BY <1>1, <2>1 DEF n
      <4> QED
        BY <4>1, ConcatAdjacentSubSeq
    <3>2. (k - 1) + 1 = k
      BY <1>1, <2>1
    <3>3. SubSeq(links, 1, n) = links
      BY SubSeqFull DEF n
    <3> QED
      BY <3>1, <3>2, <3>3 DEF n
  <2>5. rest[1] = links[k] /\ Len(rest) # 0 /\ rest # <<>> /\ rest[1] \in Address
    <3> HIDE DEF rest
    <3>1. 1 \in 1 .. n - k + 1 /\ k + 1 - 1 = k
      BY <1>1, <2>1
    <3>2. rest[1] = links[k + 1 - 1]
      BY <2>2, <3>1
    <3>3. Len(rest) # 0
      BY <1>1, <2>1, <2>2
    <3> QED
      BY <1>1, <2>1, <3>1, <3>2, <3>3, EmptySeq
  <2> HIDE DEF past, rest
  <2> DEFINE f == h[rest[1]].function
  <2>6. f # NULL /\ f \in Callback
    BY <2>1, <2>5 DEF Links
  <2>7. r \in Frame /\ r.links = rest /\ r.running = f
    BY <2>2, <2>6 DEF Frame
  <2>8. Tail(rest) \in Seq(Address) /\ rest = <<rest[1]>> \o Tail(rest) /\ <<rest[1]>> \in Seq(Address)
    <3>1. Head(rest) \in Address /\ Tail(rest) \in Seq(Address) /\ <<Head(rest)>> \o Tail(rest) = rest
      BY <2>2, <2>5, HeadThenTail
    <3>2. Head(rest) = rest[1]
      BY <2>2, <2>5
    <3> QED
      BY <2>5, <3>1, <3>2
  <2>9. ToSet(Tail(rest)) \subseteq ToSet(links)
    <3>1. /\ Len(Tail(rest)) = Len(rest) - 1
          /\ \A i \in 1 .. Len(Tail(rest)) : Tail(rest)[i] = rest[i + 1]
      BY <2>2, <2>5, HeadTailProperties
    <3>2. DOMAIN Tail(rest) = 1 .. Len(Tail(rest))
      BY <2>8, LenProperties
    <3>3. ASSUME NEW i \in DOMAIN Tail(rest) PROVE Tail(rest)[i] \in ToSet(links)
      <4>1. i \in 1 .. n - k /\ i + 1 \in 1 .. n - k + 1 /\ k + (i + 1) - 1 \in 1 .. n
        BY <1>1, <2>1, <2>2, <3>1, <3>2
      <4>2. Tail(rest)[i] = links[k + (i + 1) - 1]
        BY <2>2, <3>1, <3>2, <4>1
      <4> QED
        BY <1>1, <4>1, <4>2 DEF ToSet
    <3> QED
      BY <3>3 DEF ToSet
  <2>10. Functions(h, rest) = <<f>> \o Functions(h, Tail(rest))
    <3> DEFINE a == rest[1]
               t == Tail(rest)
    <3>1. a \in Address /\ <<a>> \in Seq(Address) /\ t \in Seq(Address) /\ rest = <<a>> \o t
      BY <2>5, <2>8
    <3>2. h[a].function = f
      OBVIOUS
    <3> HIDE DEF a, t, f
    <3>3. Functions(h, <<a>> \o t) = Functions(h, <<a>>) \o Functions(h, t)
      BY <3>1, FunctionsConcat
    <3>4. Functions(h, <<a>>) = <<f>>
      BY <2>6, <3>1, <3>2, FunctionsOne
    <3>5. Functions(h, rest) = <<f>> \o Functions(h, t)
      BY <3>1, <3>3, <3>4, Zenon
    <3> QED
      BY <3>5 DEF t
  <2>11. Functions(h, links) = Functions(h, rest)
    <3>1. Functions(h, past \o rest) = Functions(h, past) \o Functions(h, rest)
      BY <2>2, <2>3, FunctionsConcat
    <3>2. Functions(h, past) = <<>>
      BY <1>3, <2>3
    <3>3. Functions(h, rest) \in Seq(Callback \cup {NULL})
      BY <2>2, FunctionsIn
    <3>4. <<>> \o Functions(h, rest) = Functions(h, rest)
      BY <3>3, ConcatEmptySeq
    <3> QED
      BY <2>4, <3>1, <3>2, <3>4, Zenon
  <2>12. frames' = Append(below, r)
    BY <1>2, <1>5
  <2> HIDE DEF r, f
  <2>13. Functions(h, links) = <<r.running>> \o Functions(h, Tail(r.links))
    BY <2>7, <2>10, <2>11, Zenon
  <2>14. Tail(r.links) \in Seq(Address) /\ ToSet(Tail(r.links)) \subseteq ToSet(links)
    BY <2>7, <2>8, <2>9
  <2> QED
    BY <2>7, <2>12, <2>13, <2>14
<1> QED
  BY <1>4, <1>5

\* The links an emission is to come to are in use, and connected unless their
\* callbacks were taken from them.
LEMMA LinksToCome ==
  ASSUME SignalInv, NEW k \in DOMAIN frames
  PROVE  /\ Tail(frames[k].links) \in Seq(Address)
         /\ \A a \in ToSet(Tail(frames[k].links)) :
              /\ a \in Address /\ Allocated(heap, a)
              /\ heap[a].function = NULL \/ a \in ToSet(Siblings(heap, ring))
<1> DEFINE links == frames[k].links
<1>1. links \in Seq(Address) /\ links # <<>>
  <2>1. frames[k] \in Frame
    BY LenProperties, ElementOfSeq DEF SignalInv, SignalTypeOK
  <2> QED
    BY <2>1 DEF Frame, SignalInv, EmissionsKnown
<1>2. \A i \in 2 .. Len(links) : heap[links[i]].function = NULL \/ links[i] \in ToSet(Siblings(heap, ring))
  BY DEF SignalInv, EmissionsKnown
<1>3. \A a \in ToSet(links) : a \in Address /\ heap[a].ref > 0
  BY UsedIsAllocated
<1> HIDE DEF links
<1>4. /\ Tail(links) \in Seq(Address) /\ Len(Tail(links)) = Len(links) - 1
      /\ \A i \in 1 .. Len(Tail(links)) : Tail(links)[i] = links[i + 1]
      /\ Len(links) \in Nat /\ DOMAIN links = 1 .. Len(links)
  BY <1>1, HeadTailProperties, LenProperties
<1>5. DOMAIN Tail(links) = 1 .. Len(links) - 1
  BY <1>4, LenProperties
<1>6. ASSUME NEW i \in 1 .. Len(links) - 1
      PROVE  /\ Tail(links)[i] \in Address /\ Allocated(heap, Tail(links)[i])
             /\ heap[Tail(links)[i]].function = NULL \/ Tail(links)[i] \in ToSet(Siblings(heap, ring))
  <2>1. i + 1 \in 2 .. Len(links) /\ i + 1 \in DOMAIN links /\ Tail(links)[i] = links[i + 1]
    BY <1>4
  <2>2. links[i + 1] \in ToSet(links)
    BY <2>1 DEF ToSet
  <2> QED
    BY <1>2, <1>3, <2>1, <2>2 DEF Allocated
<1>7. \A a \in ToSet(Tail(links)) : \E i \in 1 .. Len(links) - 1 : a = Tail(links)[i]
  BY <1>5 DEF ToSet
<1> QED
  BY <1>4, <1>6, <1>7 DEF links

\* Whether callbacks are forgotten and which are (none), emissions follow.
LEMMA EmissionsForget ==
  ASSUME SignalInv, heap' \in [Address -> Links], NEW gone,
         \A k \in DOMAIN frames : \A a \in ToSet(Tail(frames[k].links)) :
           heap'[a].function = IF heap[a].function \in gone THEN NULL ELSE heap[a].function
  PROVE  Emissions(heap', frames) =
           [k \in DOMAIN Emissions(heap, frames) |->
              <<Head(Emissions(heap, frames)[k])>> \o Without(Tail(Emissions(heap, frames)[k]), gone)]
<1> DEFINE P == Emissions(heap, frames)
           Q == Emissions(heap', frames)
           r(k) == <<Head(P[k])>> \o Without(Tail(P[k]), gone)
<1>1. DOMAIN P = DOMAIN frames /\ DOMAIN Q = DOMAIN frames
  BY DEF Emissions
<1>2. ASSUME NEW k \in DOMAIN frames
      PROVE  Q[k] = r(k)
  <2> DEFINE t == Tail(frames[k].links)
             f == frames[k].running
             F == Functions(heap, t)
             T == Callback \cup {NULL}
  <2>1. t \in Seq(Address) /\ heap \in [Address -> Links] /\ f \in T
    <3>1. frames[k] \in Frame /\ heap \in [Address -> Links]
      BY LenProperties, ElementOfSeq DEF SignalInv, SignalTypeOK
    <3> QED
      BY <3>1, LinksToCome DEF Frame
  <2>2. P[k] = <<f>> \o F /\ Q[k] = <<f>> \o Functions(heap', t)
    BY DEF Emissions
  <2>3. Functions(heap', t) = Without(F, gone)
    <3>1. \A a \in ToSet(t) : heap'[a].function = IF heap[a].function \in gone THEN NULL ELSE heap[a].function
      OBVIOUS
    <3> HIDE DEF t
    <3> QED
      BY <2>1, <3>1, FunctionsForget
  <2>4. F \in Seq(T)
    <3> HIDE DEF t
    <3> QED
      BY <2>1, FunctionsIn
  <2> HIDE DEF F, t, f, T, P, Q
  <2>5. Head(<<f>> \o F) = f /\ Tail(<<f>> \o F) = F
    BY <2>1, <2>4, ConsProperties
  <2>6. Head(P[k]) = f /\ Tail(P[k]) = F
    BY <2>2, <2>5, Zenon
  <2> QED
    BY <2>2, <2>3, <2>6, Zenon
<1>3. Q = [k \in DOMAIN frames |-> Q[k]]
  BY DEF Emissions
<1> HIDE DEF P, Q
<1>4. Q = [k \in DOMAIN P |-> r(k)]
  <2> HIDE DEF r
  <2> QED
    BY <1>1, <1>2, <1>3
<1> QED
  BY <1>4 DEF P, Q

\* Emissions whose links keep their callbacks.
LEMMA EmissionsSame ==
  ASSUME SignalInv, heap' \in [Address -> Links],
         \A k \in DOMAIN frames : \A a \in ToSet(Tail(frames[k].links)) :
           heap'[a].function = heap[a].function,
         NEW fs \in Seq(Frame), \A k \in DOMAIN fs : k \in DOMAIN frames /\ fs[k] = frames[k]
  PROVE  Emissions(heap', fs) = Emissions(heap, fs)
<1>1. ASSUME NEW k \in DOMAIN fs
      PROVE  Functions(heap', Tail(fs[k].links)) = Functions(heap, Tail(fs[k].links))
  <2> DEFINE t == Tail(frames[k].links)
  <2>1. t \in Seq(Address) /\ heap \in [Address -> Links] /\ fs[k] = frames[k]
    BY LinksToCome DEF SignalInv, SignalTypeOK
  <2>2. \A a \in ToSet(t) : heap'[a].function = heap[a].function
    OBVIOUS
  <2> HIDE DEF t
  <2>3. Functions(heap', t) = Functions(heap, t)
    BY <2>1, <2>2, FunctionsSame
  <2> QED
    BY <2>1, <2>3, Zenon DEF t
<1> QED
  BY <1>1, Zenon DEF Emissions

\* The innermost emission is the last one.
LEMMA EmissionsAppend ==
  ASSUME NEW h, NEW fs \in Seq(Frame), NEW r \in Frame
  PROVE  /\ Emissions(h, Append(fs, r)) = Append(Emissions(h, fs), <<r.running>> \o Functions(h, Tail(r.links)))
         /\ Front(Emissions(h, Append(fs, r))) = Emissions(h, fs)
         /\ Last(Emissions(h, Append(fs, r))) = <<r.running>> \o Functions(h, Tail(r.links))
         /\ Emissions(h, Append(fs, r)) # <<>>
<1> DEFINE P == Emissions(h, fs)
           x == <<r.running>> \o Functions(h, Tail(r.links))
           L == Emissions(h, Append(fs, r))
           n == Len(fs)
           S == {P[k] : k \in 1 .. n} \cup {x}
<1>1. n \in Nat /\ DOMAIN fs = 1 .. n
  BY LenProperties
<1>2. /\ DOMAIN Append(fs, r) = 1 .. n + 1
      /\ \A i \in 1 .. n : Append(fs, r)[i] = fs[i]
      /\ Append(fs, r)[n + 1] = r
  <2>1. Append(fs, r) \in Seq(Frame) /\ Len(Append(fs, r)) = n + 1
        /\ (\A i \in 1 .. n : Append(fs, r)[i] = fs[i]) /\ Append(fs, r)[n + 1] = r
    BY AppendProperties
  <2>2. DOMAIN Append(fs, r) = 1 .. Len(Append(fs, r))
    BY <2>1, LenProperties
  <2> QED
    BY <2>1, <2>2
<1>3. /\ P = [k \in 1 .. n |-> P[k]]
      /\ \A k \in 1 .. n : P[k] = <<fs[k].running>> \o Functions(h, Tail(fs[k].links))
  BY <1>1, Zenon DEF Emissions
<1>4. /\ L = [k \in 1 .. n + 1 |-> L[k]]
      /\ \A k \in 1 .. n + 1 : L[k] = <<Append(fs, r)[k].running>> \o Functions(h, Tail(Append(fs, r)[k].links))
  BY <1>2, Zenon DEF Emissions
<1> HIDE DEF n, P, L
<1>5. \A k \in 1 .. n : L[k] = P[k]
  <2>1. \A k \in 1 .. n : k \in 1 .. n + 1
    BY <1>1
  <2> QED
    BY <1>2, <1>3, <1>4, <2>1, Zenon
<1>6. L[n + 1] = x
  <2>1. n + 1 \in 1 .. n + 1
    BY <1>1
  <2> QED
    BY <1>2, <1>4, <2>1, Zenon
<1> HIDE DEF x
<1>7. P \in Seq(S) /\ Len(P) = n
  <2>1. \A k \in 1 .. n : P[k] \in S
    OBVIOUS
  <2> HIDE DEF S
  <2>2. [k \in 1 .. n |-> P[k]] \in Seq(S) /\ Len([k \in 1 .. n |-> P[k]]) = n
    BY <1>1, <2>1
  <2> QED
    BY <1>3, <2>2, Zenon
<1>8. L \in Seq(S) /\ Len(L) = n + 1
  <2>1. \A k \in 1 .. n + 1 : L[k] \in S
    <3>1. \A k \in 1 .. n + 1 : k \in 1 .. n \/ k = n + 1
      BY <1>1
    <3> QED
      BY <1>5, <1>6, <3>1
  <2> HIDE DEF S
  <2>2. [k \in 1 .. n + 1 |-> L[k]] \in Seq(S) /\ Len([k \in 1 .. n + 1 |-> L[k]]) = n + 1
    BY <1>1, <2>1
  <2> QED
    BY <1>4, <2>2, Zenon
<1>9. x \in S
  OBVIOUS
<1> HIDE DEF S
<1> DEFINE A == Append(P, x)
<1>10. A \in Seq(S) /\ Len(A) = n + 1 /\ (\A k \in 1 .. n : A[k] = P[k]) /\ A[n + 1] = x
  BY <1>7, <1>9, AppendProperties
<1> HIDE DEF A
<1>11. \A k \in 1 .. Len(L) : L[k] = A[k]
  <2>1. \A k \in 1 .. Len(L) : k \in 1 .. n \/ k = n + 1
    BY <1>1, <1>8
  <2> QED
    BY <1>5, <1>6, <1>10, <2>1
<1>12. L = A
  BY <1>8, <1>10, <1>11, SeqEqual
<1>13. L # <<>>
  <2>1. Len(L) # 0
    BY <1>1, <1>8
  <2> QED
    BY <2>1, EmptySeq
<1>14. Last(L) = x
  BY <1>6, <1>8 DEF Last
<1>15. Front(L) = P
  <2>1. /\ Front(L) \in Seq(S) /\ Len(Front(L)) = n
        /\ \A i \in 1 .. n : Front(L)[i] = L[i]
    <3>1. Len(L) - 1 = n
      BY <1>1, <1>8
    <3>2. /\ Front(L) \in Seq(S) /\ Len(Front(L)) = Len(L) - 1
          /\ \A i \in 1 .. (Len(L) - 1) : Front(L)[i] = L[i]
      BY <1>8, <1>13, FrontProperties
    <3> QED
      BY <3>1, <3>2
  <2>2. \A i \in 1 .. Len(P) : P[i] = Front(L)[i]
    BY <1>5, <1>7, <2>1
  <2> QED
    BY <1>7, <2>1, <2>2, SeqEqual
<1> QED
  BY <1>12, <1>13, <1>14, <1>15 DEF A, L, P, x

-----------------------------------------------------------------------------
(* Every step is one of Handlers.                                          *)

\* The callbacks connected are those of the head and of its siblings.
LEMMA AttachedIs ==
  ASSUME NEW h \in [Address -> Links], NEW head \in Address, NEW q \in Seq(Address)
  PROVE  /\ Functions(h, <<head>> \o q) = Functions(h, <<head>>) \o Functions(h, q)
         /\ ToSet(Functions(h, <<head>> \o q)) = {h[a].function : a \in {head} \cup ToSet(q)} \ {NULL}
         /\ <<head>> \o q \in Seq(Address) /\ ToSet(<<head>> \o q) = {head} \cup ToSet(q)
<1>1. <<head>> \in Seq(Address) /\ <<head>> \o q \in Seq(Address)
  BY ConsProperties
<1>2. ToSet(<<head>> \o q) = {head} \cup ToSet(q)
  BY ConsElements
<1>3. Functions(h, <<head>> \o q) = Functions(h, <<head>>) \o Functions(h, q)
  BY <1>1, FunctionsConcat
<1>4. ToSet(Functions(h, <<head>> \o q)) = {h[a].function : a \in ToSet(<<head>> \o q)} \ {NULL}
  BY <1>1, FunctionsIn
<1> QED
  BY <1>1, <1>2, <1>3, <1>4

\* What RingAsBefore means to handlers.
LEMMA HandlersAsBefore ==
  ASSUME SignalInv, heap' \in [Address -> Links], RingAsBefore, ring' = ring
  PROVE  /\ Attached' = Attached
         /\ \A fs \in Seq(Frame) :
              (\A k \in DOMAIN fs : k \in DOMAIN frames /\ fs[k] = frames[k])
              => Emissions(heap', fs) = Emissions(heap, fs)
<1> DEFINE q == Siblings(heap, ring)
<1>1. heap \in [Address -> Links] /\ Siblings(heap, ring)' = q
  BY DEF SignalInv, SignalTypeOK, RingAsBefore
<1>2. \A a \in Address : heap[a].function = NULL \/ a \in Members
                         => heap'[a].function = heap[a].function
  BY DEF RingAsBefore
<1>3. Attached' = Attached
  <2>1. CASE ring = NULL
    BY <2>1 DEF Attached
  <2>2. CASE ring # NULL
    <3>1. ring \in Address /\ q \in Seq(Address) /\ Members = {ring} \cup ToSet(q)
      BY <2>2, RingFacts DEF Members
    <3>2. Attached' = Functions(heap', <<ring>> \o q)
      BY <1>1, <2>2 DEF Attached
    <3>3. Attached = Functions(heap, <<ring>> \o q)
      BY <2>2 DEF Attached
    <3> HIDE DEF q
    <3>4. /\ <<ring>> \o q \in Seq(Address)
          /\ ToSet(<<ring>> \o q) = {ring} \cup ToSet(q)
      BY <1>1, <3>1, AttachedIs
    <3>5. \A a \in ToSet(<<ring>> \o q) : a \in Address /\ a \in Members
      <4>1. ToSet(q) \subseteq Address
        BY RingFacts DEF q
      <4> QED
        BY <3>1, <3>4, <4>1
    <3>6. \A a \in ToSet(<<ring>> \o q) : heap'[a].function = heap[a].function
      BY <1>2, <3>5
    <3>7. Functions(heap', <<ring>> \o q) = Functions(heap, <<ring>> \o q)
      <4> DEFINE s == <<ring>> \o q
      <4>1. s \in Seq(Address) /\ \A a \in ToSet(s) : heap'[a].function = heap[a].function
        BY <3>4, <3>6
      <4> HIDE DEF s
      <4>2. Functions(heap', s) = Functions(heap, s)
        BY <1>1, <4>1, FunctionsSame
      <4> QED
        BY <4>2 DEF s
    <3> QED
      BY <3>2, <3>3, <3>7
  <2> QED
    BY <2>1, <2>2
<1>4. \A k \in DOMAIN frames : \A a \in ToSet(Tail(frames[k].links)) :
        heap'[a].function = heap[a].function
  <2>1. ASSUME NEW k \in DOMAIN frames, NEW a \in ToSet(Tail(frames[k].links))
        PROVE  heap'[a].function = heap[a].function
    <3>1. a \in Address /\ (heap[a].function = NULL \/ a \in ToSet(Siblings(heap, ring)))
      BY LinksToCome
    <3> QED
      BY <1>2, <3>1 DEF Members
  <2> QED
    BY <2>1
<1>5. ASSUME NEW fs \in Seq(Frame), \A k \in DOMAIN fs : k \in DOMAIN frames /\ fs[k] = frames[k]
      PROVE  Emissions(heap', fs) = Emissions(heap, fs)
  BY <1>4, <1>5, EmissionsSame
<1> QED
  BY <1>3, <1>5

\* An emission that goes on with links calls the first of their callbacks.
LEMMA WalkSimulates ==
  ASSUME SignalInv, heap' \in [Address -> Links], RingAsBefore, ring' = ring,
         NEW h \in [Address -> Links], NEW below \in Seq(Frame), NEW links \in Seq(Address),
         Walk(h, below, links),
         \A k \in DOMAIN below : k \in DOMAIN frames /\ below[k] = frames[k],
         \A a \in ToSet(links) : h[a].function = heap'[a].function
  PROVE  Emissions(heap, frames)' = IF Functions(h, links) = <<>> THEN Emissions(heap, below)
                                  ELSE Append(Emissions(heap, below), Functions(h, links))
<1>1. Emissions(heap, frames)' = Emissions(heap', frames')
  OBVIOUS
<1>2. Emissions(heap', below) = Emissions(heap, below)
  BY HandlersAsBefore
<1>3. CASE frames' = below /\ Functions(h, links) = <<>>
  BY <1>1, <1>2, <1>3
<1>4. ASSUME NEW r \in Frame, frames' = Append(below, r), Tail(r.links) \in Seq(Address),
             ToSet(Tail(r.links)) \subseteq ToSet(links),
             Functions(h, links) = <<r.running>> \o Functions(h, Tail(r.links))
      PROVE  Emissions(heap, frames)' = IF Functions(h, links) = <<>> THEN Emissions(heap, below)
                                      ELSE Append(Emissions(heap, below), Functions(h, links))
  <2> DEFINE t == Tail(r.links)
  <2>1. \A a \in ToSet(t) : h[a].function = heap'[a].function
    BY <1>4
  <2>2. t \in Seq(Address)
    BY <1>4
  <2>3. Emissions(heap', Append(below, r)) = Append(Emissions(heap', below), <<r.running>> \o Functions(heap', t))
    BY EmissionsAppend
  <2>4. Functions(h, links) = <<r.running>> \o Functions(h, t)
    BY <1>4
  <2> HIDE DEF t
  <2>5. Functions(h, t) = Functions(heap', t)
    BY <2>1, <2>2, FunctionsSame
  <2>6. r.running \in Callback \cup {NULL} /\ Functions(h, t) \in Seq(Callback \cup {NULL})
    BY <2>2, FunctionsIn DEF Frame
  <2> DEFINE F == Functions(h, t)
  <2>7. F \in Seq(Callback \cup {NULL})
    BY <2>6
  <2> HIDE DEF F
  <2>8. <<r.running>> \o F # <<>>
    BY <2>6, <2>7, ConsProperties
  <2> QED
    BY <1>1, <1>2, <1>4, <2>3, <2>4, <2>5, <2>8, Zenon DEF F
<1>5. \/ frames' = below /\ Functions(h, links) = <<>>
      \/ \E r \in Frame :
           /\ frames' = Append(below, r) /\ Tail(r.links) \in Seq(Address)
           /\ ToSet(Tail(r.links)) \subseteq ToSet(links)
           /\ Functions(h, links) = <<r.running>> \o Functions(h, Tail(r.links))
  BY WalkFunctions
<1> QED
  BY <1>3, <1>4, <1>5, Zenon

\* The innermost emission, and those below it.
LEMMA EmissionsParts ==
  ASSUME SignalInv, frames # <<>>
  PROVE  /\ Emissions(heap, frames) # <<>>
         /\ Front(Emissions(heap, frames)) = Emissions(heap, Front(frames))
         /\ Tail(Last(Emissions(heap, frames))) = Functions(heap, Tail(Last(frames).links))
<1> DEFINE below == Front(frames)
           last  == Last(frames)
           F     == Functions(heap, Tail(last.links))
           T     == Callback \cup {NULL}
<1>1. below \in Seq(Frame) /\ last \in Frame /\ frames = Append(below, last)
  BY FrontThenLast DEF SignalInv, SignalTypeOK
<1>2. /\ Emissions(heap, Append(below, last)) # <<>>
      /\ Front(Emissions(heap, Append(below, last))) = Emissions(heap, below)
      /\ Last(Emissions(heap, Append(below, last))) = <<last.running>> \o F
  <2> HIDE DEF below, last
  <2> QED
    BY <1>1, EmissionsAppend
<1>3. Tail(last.links) \in Seq(Address) /\ last.running \in T
  <2>1. last.links \in Seq(Address) /\ last.links # <<>> /\ last.running \in Callback
    BY InnermostFacts DEF Frame
  <2> HIDE DEF last
  <2> QED
    BY <2>1, HeadThenTail
<1>4. F \in Seq(T)
  BY <1>3, FunctionsIn DEF SignalInv, SignalTypeOK
<1>5. Tail(<<last.running>> \o F) = F
  <2> HIDE DEF F, last, T
  <2> QED
    BY <1>3, <1>4, ConsProperties
<1> HIDE DEF below, last, F, T
<1>6. Tail(Last(Emissions(heap, frames))) = F
  BY <1>1, <1>2, <1>5, Zenon
<1> QED
  BY <1>1, <1>2, <1>6, Zenon DEF below, last, F

\* emit() begins with the callbacks connected; without any it does nothing.
LEMMA EmitSimulates ==
  ASSUME SignalInv, Emit
  PROVE  Abstract!Emit \/ UNCHANGED Abstract!vars
<1> DEFINE q == Siblings(heap, ring)
           links == (IF heap[ring].function = NULL THEN <<>> ELSE <<ring>>) \o q
           h == Incref(heap, ToSet(links))
<1>1. /\ UNCHANGED <<ring, alive, ids, count>> /\ Walk(h, frames, links) /\ ring # NULL /\ alive
  BY DEF Emit
<1>2. q \in Seq(Address) /\ ring \in Address
  BY <1>1, RingFacts
<1>3. /\ heap \in [Address -> Links] /\ frames \in Seq(Frame)
      /\ heap' \in [Address -> Links]
  BY EmitKeeps DEF SignalInv, SignalTypeOK
<1>4. links \in Seq(Address) /\ ToSet(links) \subseteq Members /\ Functions(heap, links) = Attached
  <2>1. Attached = Functions(heap, <<ring>> \o q) /\ Members = {ring} \cup ToSet(q)
    BY <1>1, <1>2, SignalAssumption DEF Attached, Members
  <2> HIDE DEF q
  <2>2. /\ Functions(heap, <<ring>> \o q) = Functions(heap, <<ring>>) \o Functions(heap, q)
        /\ <<ring>> \o q \in Seq(Address) /\ ToSet(<<ring>> \o q) = {ring} \cup ToSet(q)
    BY <1>2, <1>3, AttachedIs
  <2>3. CASE heap[ring].function = NULL
    <3>1. links = q
      BY <1>2, <2>3, ConcatEmptySeq
    <3>2. Functions(heap, <<ring>>) = <<>>
      BY <1>2, <1>3, <2>3, FunctionsOne
    <3>3. Functions(heap, q) \in Seq(Callback \cup {NULL})
      BY <1>2, <1>3, FunctionsIn
    <3>4. <<>> \o Functions(heap, q) = Functions(heap, q)
      BY <3>3, ConcatEmptySeq
    <3> HIDE DEF links
    <3> QED
      BY <1>2, <2>1, <2>2, <3>1, <3>2, <3>4
  <2>4. CASE heap[ring].function # NULL
    <3>1. links = <<ring>> \o q
      BY <2>4
    <3> HIDE DEF links
    <3> QED
      BY <2>1, <2>2, <3>1
  <2> QED
    BY <2>3, <2>4
<1> HIDE DEF links
<1>5. /\ h \in [Address -> Links]
      /\ \A a \in Address : h[a].function = heap[a].function
  BY <1>3, IncrefAt
<1>6. ToSet(links) \subseteq Address
  BY <1>4, RingFacts DEF Members
<1>7. RingAsBefore
  BY EmitKeeps
<1> HIDE DEF h
<1>8. \A a \in ToSet(links) : h[a].function = heap[a].function /\ h[a].function = heap'[a].function
  BY <1>4, <1>5, <1>6, <1>7 DEF RingAsBefore
<1>9. Functions(h, links) = Attached
  BY <1>3, <1>4, <1>5, <1>8, FunctionsSame
<1>10. \A k \in DOMAIN frames : k \in DOMAIN frames /\ frames[k] = frames[k]
  OBVIOUS
<1>11. Emissions(heap, frames)' = IF Functions(h, links) = <<>> THEN Emissions(heap, frames)
                                ELSE Append(Emissions(heap, frames), Functions(h, links))
  BY <1>1, <1>3, <1>4, <1>5, <1>7, <1>8, <1>10, WalkSimulates
<1>12. Attached' = Attached
  BY <1>1, <1>3, <1>7, HandlersAsBefore
<1>13. CASE Attached = <<>>
  <2>1. Emissions(heap, frames)' = Emissions(heap, frames)
    BY <1>9, <1>11, <1>13
  <2> QED
    BY <1>1, <1>12, <2>1, Zenon DEF Abstract!vars
<1>14. CASE Attached # <<>>
  <2>1. Emissions(heap, frames)' = Append(Emissions(heap, frames), Attached)
    BY <1>9, <1>11, <1>14
  <2> QED
    BY <1>1, <1>12, <1>14, <2>1, Zenon DEF Abstract!Emit
<1> QED
  BY <1>13, <1>14

\* The callbacks left of the innermost emission are dropped.
LEMMA StopSimulates ==
  ASSUME SignalInv, Stop
  PROVE  Abstract!Stop
<1>1. frames # <<>> /\ frames' = Front(frames) /\ UNCHANGED <<ring, alive, ids, count>>
  BY DEF Stop
<1>2. RingAsBefore /\ heap' \in [Address -> Links]
  BY StopKeeps DEF SignalInv, SignalTypeOK
<1>3. /\ Front(frames) \in Seq(Frame)
      /\ \A k \in DOMAIN Front(frames) : k \in DOMAIN frames /\ Front(frames)[k] = frames[k]
  BY <1>1, InnermostFacts
<1>4. Attached' = Attached /\ Emissions(heap', Front(frames)) = Emissions(heap, Front(frames))
  BY <1>1, <1>2, <1>3, HandlersAsBefore
<1>5. Emissions(heap, frames) # <<>> /\ Front(Emissions(heap, frames)) = Emissions(heap, Front(frames))
  BY <1>1, EmissionsParts
<1>6. Emissions(heap, frames)' = Front(Emissions(heap, frames))
  BY <1>1, <1>4, <1>5
<1> QED
  BY <1>1, <1>4, <1>5, <1>6 DEF Abstract!Stop, Abstract!Front, Front

\* The next callback is called, unless there is none.
LEMMA ProceedSimulates ==
  ASSUME SignalInv, Proceed
  PROVE  Abstract!Proceed
<1> DEFINE links == Last(frames).links
           below == Front(frames)
           h     == Decref(heap, {Head(links)})
           t     == Tail(links)
           F     == Functions(heap, t)
           P     == Emissions(heap, frames)
<1>1. /\ frames # <<>> /\ UNCHANGED <<ring, alive, ids, count>>
      /\ Walk(h, below, t)
  BY DEF Proceed
<1>2. RingAsBefore /\ heap \in [Address -> Links] /\ heap' \in [Address -> Links]
  BY ProceedKeeps DEF SignalInv, SignalTypeOK
<1>3. /\ below \in Seq(Frame) /\ links \in Seq(Address) /\ links # <<>> /\ IsInjective(links)
      /\ \A k \in DOMAIN below : k \in DOMAIN frames /\ below[k] = frames[k]
      /\ \A a \in Address : a \in ToSet(links) => heap[a].ref > 0
  <2>1. \A a \in Address : a \in ToSet(links) => heap[a].ref > 0
    <3>1. Len(frames) \in DOMAIN frames /\ links = frames[Len(frames)].links
      BY <1>1, EmptySeq, LenProperties DEF SignalInv, SignalTypeOK, Last
    <3> QED
      BY <3>1, UsedIsAllocated
  <2> QED
    BY <1>1, <2>1, InnermostFacts
<1>4. \A a \in ToSet(t) : /\ a \in Address
                          /\ heap[a].function = NULL \/ a \in ToSet(Siblings(heap, ring))
  <2>1. Len(frames) \in DOMAIN frames /\ links = frames[Len(frames)].links
    BY <1>1, EmptySeq, LenProperties DEF SignalInv, SignalTypeOK, Last
  <2> QED
    BY <2>1, LinksToCome
<1> HIDE DEF links, below
<1>5. /\ t \in Seq(Address) /\ Head(links) \in Address /\ Head(links) \notin ToSet(t)
      /\ Head(links) \in ToSet(links)
  <2>1. Head(links) \in Address /\ t \in Seq(Address) /\ <<Head(links)>> \o t = links
    BY <1>3, HeadThenTail
  <2>2. /\ Len(t) = Len(links) - 1 /\ \A i \in 1 .. Len(t) : t[i] = links[i + 1]
        /\ Head(links) = links[1]
    BY <1>3, HeadTailProperties
  <2>3. DOMAIN links = 1 .. Len(links) /\ Len(links) \in Nat \ {0} /\ DOMAIN t = 1 .. Len(t)
    BY <1>3, <2>1, LenProperties, EmptySeq
  <2> HIDE DEF t
  <2>4. ASSUME NEW i \in DOMAIN t PROVE t[i] # Head(links)
    <3>1. i + 1 \in DOMAIN links /\ 1 \in DOMAIN links /\ i + 1 # 1 /\ t[i] = links[i + 1]
      BY <2>2, <2>3
    <3> QED
      BY <1>3, <2>2, <3>1 DEF IsInjective
  <2>5. Head(links) \in ToSet(links)
    <3>1. 1 \in DOMAIN links
      BY <2>3
    <3> QED
      BY <2>2, <3>1 DEF ToSet
  <2> QED
    BY <2>1, <2>4, <2>5 DEF ToSet
<1>6. h \in [Address -> Links] /\ \A a \in Address \ {Head(links)} : h[a] = heap[a]
  <2>1. \A a \in Address \ {Head(links)} : h[a] = heap[a]
    BY DEF Decref
  <2>2. \A a \in Address : a \in {Head(links)} => heap[a].ref > 0
    BY <1>3, <1>5
  <2> QED
    BY <1>2, <2>1, <2>2, DecrefAt
<1> HIDE DEF h, t
<1>7. \A a \in ToSet(t) : h[a].function = heap[a].function /\ h[a].function = heap'[a].function
  <2>1. ASSUME NEW a \in ToSet(t)
        PROVE  h[a].function = heap[a].function /\ heap[a].function = heap'[a].function
    <3>1. a \in Address \ {Head(links)} /\ (heap[a].function = NULL \/ a \in Members)
      BY <1>4, <1>5 DEF Members
    <3> QED
      BY <1>2, <1>6, <3>1 DEF RingAsBefore
  <2> QED
    BY <2>1
<1>8. Functions(h, t) = F
  BY <1>2, <1>5, <1>6, <1>7, FunctionsSame
<1>9. Emissions(heap, frames)' = IF Functions(h, t) = <<>> THEN Emissions(heap, below)
                               ELSE Append(Emissions(heap, below), Functions(h, t))
  BY <1>1, <1>2, <1>3, <1>5, <1>6, <1>7, WalkSimulates
<1>10. Attached' = Attached
  BY <1>1, <1>2, HandlersAsBefore
<1>11. P # <<>> /\ Front(P) = Emissions(heap, below) /\ Tail(Last(P)) = F
  BY <1>1, EmissionsParts DEF below, t, links
<1>12. Emissions(heap, below) \o <<>> = Emissions(heap, below)
       /\ Emissions(heap, below) \o <<F>> = Append(Emissions(heap, below), F)
  <2> DEFINE B == Emissions(heap, below)
             S == {B[k] : k \in DOMAIN below} \cup {F}
  <2>1. B \in Seq(S) /\ F \in S
    <3>1. Len(below) \in Nat /\ DOMAIN below = 1 .. Len(below)
      BY <1>3, LenProperties
    <3>2. B = [k \in DOMAIN below |-> B[k]]
      BY DEF Emissions
    <3>3. \A k \in DOMAIN below : B[k] \in S
      OBVIOUS
    <3> HIDE DEF B, S
    <3>4. [k \in 1 .. Len(below) |-> B[k]] \in Seq(S)
      BY <3>1, <3>3
    <3>5. B \in Seq(S)
      BY <3>1, <3>2, <3>4, Zenon
    <3> QED
      BY <3>5 DEF S
  <2> HIDE DEF B, S, F
  <2>2. B \o <<F>> = Append(B, F)
    BY <2>1, AppendIsConcat
  <2>3. B \o <<>> = B
    BY <2>1, ConcatEmptySeq
  <2> QED
    BY <2>2, <2>3 DEF B
<1> HIDE DEF F
<1>13. Emissions(heap, frames)' = Front(P) \o (IF F = <<>> THEN <<>> ELSE <<F>>)
  <2>1. CASE F = <<>>
    BY <1>8, <1>9, <1>11, <1>12, <2>1
  <2>2. CASE F # <<>>
    BY <1>8, <1>9, <1>11, <1>12, <2>2
  <2> QED
    BY <2>1, <2>2
<1> QED
  BY <1>1, <1>10, <1>11, <1>13, Zenon DEF Abstract!Proceed, Abstract!Front, Abstract!Last, Front, Last

\* Handlers has the operators on sequences for itself.
LEMMA SameOperators ==
  /\ \A s, gone : Abstract!Without(s, gone) = Without(s, gone)
  /\ \A s : Abstract!ToSet(s) = ToSet(s)
<1>1. \A s, gone : Abstract!Without(s, gone) = Without(s, gone)
  BY Zenon DEF Abstract!Without, Without
<1>2. \A s : Abstract!ToSet(s) = ToSet(s)
  BY DEF Abstract!ToSet, ToSet
<1> QED
  BY <1>1, <1>2

\* A link without a callback makes no difference.
LEMMA FunctionsRemoved ==
  ASSUME NEW h \in [Address -> Links], NEW q \in Seq(Address), NEW pos \in DOMAIN q,
         h[q[pos]].function = NULL
  PROVE  Functions(h, RemoveAt(q, pos)) = Functions(h, q)
<1> DEFINE r == SubSeq(q, 1, pos - 1)
           s == SubSeq(q, pos + 1, Len(q))
           m == SubSeq(q, pos, pos)
           e == SubSeq(q, pos, Len(q))
           T == Callback \cup {NULL}
<1>1. Len(q) \in Nat /\ pos \in 1 .. Len(q) /\ \A i \in 1 .. Len(q) : q[i] \in Address
  BY LenProperties, ElementOfSeq
<1>2. RemoveAt(q, pos) = r \o s
  BY DEF RemoveAt
<1>3. r \in Seq(Address) /\ s \in Seq(Address) /\ m \in Seq(Address) /\ e \in Seq(Address)
  <2>1. 1 \in Int /\ pos - 1 \in Int /\ \A i \in 1 .. pos - 1 : q[i] \in Address
    BY <1>1
  <2>2. pos + 1 \in Int /\ Len(q) \in Int /\ \A i \in pos + 1 .. Len(q) : q[i] \in Address
    BY <1>1
  <2>3. pos \in Int /\ \A i \in pos .. pos : q[i] \in Address
    BY <1>1
  <2>4. pos \in Int /\ \A i \in pos .. Len(q) : q[i] \in Address
    BY <1>1
  <2>5. SubSeq(q, 1, pos - 1) \in Seq(Address)
    BY <2>1, SubSeqProperties
  <2>6. SubSeq(q, pos + 1, Len(q)) \in Seq(Address)
    BY <2>2, SubSeqProperties
  <2>7. SubSeq(q, pos, pos) \in Seq(Address)
    BY <2>3, SubSeqProperties
  <2>8. SubSeq(q, pos, Len(q)) \in Seq(Address)
    BY <2>2, <2>4, SubSeqProperties
  <2> QED
    BY <2>5, <2>6, <2>7, <2>8
<1>4. m = <<q[pos]>>
  <2>1. /\ Len(m) = 1 /\ m[1] = q[pos]
    <3> DEFINE k == pos
    <3>0. k \in Int /\ pos \in Int /\ \A i \in pos .. k : q[i] \in Address
      BY <1>1
    <3> HIDE DEF k
    <3>1. /\ Len(SubSeq(q, pos, k)) = IF pos <= k THEN k - pos + 1 ELSE 0
          /\ \A i \in 1 .. k - pos + 1 : SubSeq(q, pos, k)[i] = q[pos + i - 1]
      BY <3>0, SubSeqProperties
    <3> USE DEF k
    <3>2. pos - pos + 1 = 1 /\ pos <= pos /\ 1 \in 1 .. 1 /\ pos + 1 - 1 = pos
      BY <1>1
    <3> QED
      BY <3>1, <3>2
  <2> HIDE DEF m
  <2>2. <<q[pos]>> \in Seq(Address) /\ Len(<<q[pos]>>) = 1 /\ <<q[pos]>>[1] = q[pos]
    BY <1>1
  <2> QED
    BY <1>3, <2>1, <2>2, SeqEqual
<1>5. q = r \o e
  <2>1. SubSeq(q, 1, pos - 1) \o SubSeq(q, (pos - 1) + 1, Len(q)) = SubSeq(q, 1, Len(q))
    <3>1. 1 \in 1 .. Len(q) + 1 /\ pos - 1 \in 1 - 1 .. Len(q) /\ Len(q) \in pos - 1 .. Len(q)
      BY <1>1
    <3> QED
      BY <3>1, ConcatAdjacentSubSeq
  <2>2. (pos - 1) + 1 = pos /\ SubSeq(q, 1, Len(q)) = q
    BY <1>1, SubSeqFull
  <2> QED
    BY <2>1, <2>2
<1>6. e = m \o s
  <2>1. pos \in 1 .. Len(q) + 1 /\ pos \in pos - 1 .. Len(q) /\ Len(q) \in pos .. Len(q)
    BY <1>1
  <2> QED
    BY <2>1, ConcatAdjacentSubSeq
<1> HIDE DEF r, s, m, e
<1>7. Functions(h, r \o s) = Functions(h, r) \o Functions(h, s)
  BY <1>3, FunctionsConcat
<1>8. Functions(h, r \o e) = Functions(h, r) \o Functions(h, e)
  BY <1>3, FunctionsConcat
<1>9. Functions(h, m \o s) = Functions(h, m) \o Functions(h, s)
  BY <1>3, FunctionsConcat
<1>10. Functions(h, <<q[pos]>>) = <<>>
  BY <1>1, FunctionsOne
<1>11. Functions(h, s) \in Seq(T)
  BY <1>3, FunctionsIn
<1>12. <<>> \o Functions(h, s) = Functions(h, s)
  BY <1>11, ConcatEmptySeq
<1>13. Functions(h, e) = Functions(h, s)
  BY <1>4, <1>6, <1>9, <1>10, <1>12, Zenon
<1> QED
  BY <1>2, <1>5, <1>7, <1>8, <1>13, Zenon

\* The new callback is the last one, for emissions to come.
LEMMA ConnectSimulates ==
  ASSUME SignalInv, Connect
  PROVE  Abstract!Connect
<1> DEFINE q == Siblings(heap, ring)
           T == Callback \cup {NULL}
<1>1. /\ alive /\ count' = count + 1 /\ UNCHANGED <<alive, frames>> /\ ring' \in Address
      /\ heap' \in [Address -> Links] /\ heap \in [Address -> Links]
  <2>1. ring' \in Address
    BY DEF Connect, SignalInv, SignalTypeOK
  <2> QED
    BY <2>1, ConnectKeeps DEF Connect, SignalInv, SignalTypeOK
<1>2. PICK a \in Address :
        /\ ~Allocated(heap, a) /\ Siblings(heap, ring)' = Append(q, a)
        /\ heap'[a].function = count'
        /\ \A b \in Address : Allocated(heap, b) => heap'[b].function = heap[b].function
        /\ IF ring = NULL THEN heap'[ring'].function = NULL /\ ring' # a ELSE ring' = ring
  BY ConnectKeeps
<1>3. /\ q \in Seq(Address) /\ ToSet(q) \subseteq Address
      /\ ring = NULL => q = <<>>
      /\ ring # NULL => ring \in Address
      /\ \A b \in Address : b \in Members => Allocated(heap, b)
  <2>1. ASSUME NEW b \in Address, b \in Members PROVE Allocated(heap, b)
    BY <2>1, FreeIsUnused
  <2> QED
    BY <2>1, RingFacts
<1>4. ToSet(q) \subseteq Members /\ (ring # NULL => ring \in Members)
  BY DEF Members
<1> HIDE DEF q
<1>5. count' \in T /\ count' # NULL
  <2>1. count' \in Callback
    <3>1. heap'[a].function \in Callback \cup {NULL}
      BY <1>1 DEF Links
    <3>2. count' \in Nat
      BY <1>1, SignalAssumption DEF SignalInv, SignalTypeOK
    <3> QED
      BY <1>2, <3>1, <3>2, SignalAssumption
  <2>2. Callback \subseteq Nat
    BY SignalAssumption DEF Callback, Method, Connection
  <2> QED
    BY <2>1, <2>2, SignalAssumption
<1>6. Functions(heap', q) = Functions(heap, q)
  BY <1>1, <1>2, <1>3, <1>4, FunctionsSame
<1>7. Functions(heap', <<ring'>>) = IF ring = NULL THEN <<>> ELSE Functions(heap, <<ring>>)
  <2>1. CASE ring = NULL
    BY <1>1, <1>2, <2>1, FunctionsOne
  <2>2. CASE ring # NULL
    <3>1. ring' = ring /\ heap'[ring].function = heap[ring].function /\ ring \in Address
      BY <1>2, <1>3, <1>4, <2>2
    <3> QED
      BY <1>1, <2>2, <3>1, FunctionsOne
  <2> QED
    BY <2>1, <2>2
<1> DEFINE H == Functions(heap', <<ring'>>)
           F == Functions(heap, q)
<1>8. Attached = H \o F /\ H \in Seq(T) /\ F \in Seq(T)
  <2>1. <<ring'>> \in Seq(Address)
    BY <1>1
  <2>2. H \in Seq(T) /\ F \in Seq(T)
    BY <1>1, <1>3, <2>1, FunctionsIn
  <2>3. CASE ring = NULL
    <3>1. F = <<>>
      <4>1. ToSet(F) = {} /\ ToSet(<<>>) = {}
        <5>1. ToSet(F) = {heap[b].function : b \in ToSet(q)} \ {NULL}
          BY <1>1, <1>3, FunctionsIn
        <5>2. ToSet(<<>>) = {}
          BY DEF ToSet
        <5>3. ToSet(q) = {}
          BY <1>3, <2>3, <5>2
        <5> QED
          BY <5>1, <5>2, <5>3
      <4> HIDE DEF F
      <4>2. DOMAIN F = 1 .. Len(F) /\ Len(F) \in Nat
        BY <2>2, LenProperties
      <4>3. Len(F) = 0
        <5>1. \A i \in 1 .. Len(F) : F[i] \in ToSet(F)
          BY <4>2 DEF ToSet
        <5> QED
          BY <4>1, <4>2, <5>1
      <4> QED
        BY <2>2, <4>3, EmptySeq
    <3>2. H = <<>>
      BY <1>7, <2>3
    <3>3. Attached = <<>>
      BY <2>3 DEF Attached
    <3> HIDE DEF F, H
    <3>4. <<>> \o F = F
      BY <2>2, ConcatEmptySeq
    <3> QED
      BY <2>2, <3>1, <3>2, <3>3, <3>4
  <2>4. CASE ring # NULL
    <3>1. Attached = Functions(heap, <<ring>> \o q)
      BY <2>4 DEF Attached, q
    <3>2. Functions(heap, <<ring>> \o q) = Functions(heap, <<ring>>) \o Functions(heap, q)
      <4>1. heap \in [Address -> Links] /\ ring \in Address /\ q \in Seq(Address)
        BY <1>1, <1>3, <2>4
      <4> QED
        BY <4>1, AttachedIs, Zenon
    <3> QED
      BY <1>7, <2>2, <2>4, <3>1, <3>2
  <2> QED
    BY <2>3, <2>4
<1>9. Attached' = Append(Attached, count')
  <2>1. Attached' = Functions(heap', <<ring'>> \o Append(q, a))
    <3>1. ring' # NULL
      BY <1>1, SignalAssumption
    <3> QED
      BY <1>2, <3>1 DEF Attached
  <2>2. Append(q, a) = q \o <<a>> /\ <<a>> \in Seq(Address) /\ Append(q, a) \in Seq(Address)
    BY <1>3, AppendIsConcat
  <2>3. Functions(heap', <<ring'>> \o Append(q, a)) = H \o Functions(heap', Append(q, a))
    <3>1. heap' \in [Address -> Links] /\ ring' \in Address /\ Append(q, a) \in Seq(Address)
      BY <1>1, <2>2
    <3> QED
      BY <3>1, AttachedIs, Zenon
  <2>4. Functions(heap', q \o <<a>>) = Functions(heap', q) \o Functions(heap', <<a>>)
    BY <1>1, <1>3, <2>2, FunctionsConcat
  <2>5. Functions(heap', <<a>>) = <<count'>>
    BY <1>1, <1>2, <1>5, FunctionsOne
  <2> HIDE DEF H, F
  <2>6. F \o <<count'>> = Append(F, count')
    BY <1>5, <1>8, AppendIsConcat
  <2>7. H \o Append(F, count') = Append(H \o F, count')
    BY <1>5, <1>8, ConcatAppend
  <2>8. Functions(heap', Append(q, a)) = Append(F, count')
    BY <1>6, <2>2, <2>4, <2>5, <2>6, Zenon DEF F
  <2> QED
    BY <1>8, <2>1, <2>3, <2>7, <2>8, Zenon
<1>10. Emissions(heap, frames)' = Emissions(heap, frames)
  <2>1. \A k \in DOMAIN frames : \A b \in ToSet(Tail(frames[k].links)) :
          heap'[b].function = heap[b].function
    BY <1>2, LinksToCome
  <2>2. frames \in Seq(Frame) /\ \A k \in DOMAIN frames : k \in DOMAIN frames /\ frames[k] = frames[k]
    BY DEF SignalInv, SignalTypeOK
  <2>3. Emissions(heap', frames) = Emissions(heap, frames)
    BY <1>1, <2>1, <2>2, EmissionsSame
  <2> QED
    BY <1>1, <2>3
<1> QED
  BY <1>1, <1>9, <1>10, Zenon DEF Abstract!Connect

\* The callback is gone, also for the emissions under way.
LEMMA DisconnectSimulates ==
  ASSUME NEW c \in Connection, SignalInv, Disconnect(c)
  PROVE  Abstract!Disconnect(c) /\ c \in Abstract!ToSet(Attached)
<1> DEFINE q == Siblings(heap, ring)
           a == ids[c]
           gone(f) == IF f \in {c} THEN NULL ELSE f
<1>1. /\ ring \in Address /\ UNCHANGED <<ring, alive, frames, count>>
      /\ heap[a].function = c /\ heap'[a].function = NULL
      /\ \A b \in Address \ {a} : heap'[b].function = heap[b].function
      /\ \A b \in ToSet(q) : heap[b].function = c => b = a
  BY DisconnectKeeps
<1>2. PICK pos \in DOMAIN q : q[pos] = a /\ Siblings(heap, ring)' = RemoveAt(q, pos)
  BY DisconnectKeeps
<1>3. /\ heap \in [Address -> Links] /\ heap' \in [Address -> Links] /\ alive
      /\ heap[ring].function \in {NULL, Method}
  <2>1. ring # NULL
    BY <1>1, SignalAssumption
  <2> QED
    BY <2>1, DisconnectKeeps DEF Disconnect, SignalInv, SignalTypeOK, HandlersKnown
<1>4. q \in Seq(Address) /\ ToSet(q) \subseteq Address /\ ring \notin ToSet(q) /\ a \in ToSet(q)
  BY <1>2, RingFacts DEF ToSet
<1>5. c # NULL /\ c # Method /\ ring # NULL
  <2>1. c \in Nat /\ c # 0
    BY SignalAssumption DEF Connection
  <2> QED
    BY <1>1, <2>1, SignalAssumption DEF Method
<1> HIDE DEF q, a
<1>6. \A b \in Address : b = ring \/ b \in ToSet(q) \/ heap[b].function = NULL
                         => heap'[b].function = gone(heap[b].function)
  BY <1>1, <1>3, <1>4, <1>5
<1>7. /\ Functions(heap, <<ring>> \o q) = Functions(heap, <<ring>>) \o Functions(heap, q)
      /\ ToSet(Functions(heap, <<ring>> \o q)) = {heap[b].function : b \in {ring} \cup ToSet(q)} \ {NULL}
      /\ <<ring>> \o q \in Seq(Address) /\ ToSet(<<ring>> \o q) = {ring} \cup ToSet(q)
  <2>1. heap \in [Address -> Links] /\ ring \in Address /\ q \in Seq(Address)
    BY <1>1, <1>3, <1>4
  <2> QED
    BY <2>1, AttachedIs, Zenon
<1>8. Attached = Functions(heap, <<ring>> \o q) /\ c \in ToSet(Attached)
  <2>1. Attached = Functions(heap, <<ring>> \o q)
    BY <1>5 DEF Attached, q
  <2> QED
    BY <1>1, <1>4, <1>5, <1>7, <2>1
<1>9. Attached' = Without(Attached, {c})
  <2> DEFINE r == RemoveAt(q, pos)
             s == <<ring>> \o q
  <2>1. Attached' = Functions(heap', <<ring>> \o r)
    BY <1>1, <1>2, <1>5 DEF Attached
  <2>2. r \in Seq(Address)
    BY <1>2, <1>4, RemoveAtProperties
  <2>3. Functions(heap', r) = Functions(heap', q)
    BY <1>1, <1>2, <1>3, <1>4, FunctionsRemoved
  <2> HIDE DEF r
  <2>4. heap' \in [Address -> Links] /\ ring \in Address /\ q \in Seq(Address) /\ r \in Seq(Address)
    BY <1>1, <1>3, <1>4, <2>2
  <2>5. Functions(heap', <<ring>> \o r) = Functions(heap', <<ring>>) \o Functions(heap', r)
    BY <2>4, AttachedIs, Zenon
  <2>6. Functions(heap', <<ring>> \o q) = Functions(heap', <<ring>>) \o Functions(heap', q)
    BY <2>4, AttachedIs, Zenon
  <2>7. s \in Seq(Address) /\ \A b \in ToSet(s) : heap'[b].function = gone(heap[b].function)
    BY <1>1, <1>4, <1>6, <1>7
  <2> HIDE DEF s
  <2>8. Functions(heap', s) = Without(Functions(heap, s), {c})
    BY <1>3, <2>7, FunctionsForget
  <2> QED
    BY <1>8, <2>1, <2>3, <2>5, <2>6, <2>8, Zenon DEF s
<1>10. \A k \in DOMAIN frames : \A b \in ToSet(Tail(frames[k].links)) :
         heap'[b].function = gone(heap[b].function)
  <2>1. ASSUME NEW k \in DOMAIN frames, NEW b \in ToSet(Tail(frames[k].links))
        PROVE  b \in Address /\ (heap[b].function = NULL \/ b \in ToSet(q))
    BY LinksToCome DEF q
  <2> QED
    BY <1>6, <2>1
<1> DEFINE P == Emissions(heap, frames)
<1>11. Emissions(heap, frames)' = [k \in DOMAIN P |-> <<Head(P[k])>> \o Without(Tail(P[k]), {c})]
  <2>1. Emissions(heap', frames) = [k \in DOMAIN P |-> <<Head(P[k])>> \o Without(Tail(P[k]), {c})]
    BY <1>3, <1>10, EmissionsForget
  <2> QED
    BY <1>1, <2>1
<1>12. Abstract!Forget({c})
  BY <1>11, SameOperators, Zenon DEF Abstract!Forget
<1>13. Attached' = Abstract!Without(Attached, {c}) /\ c \in Abstract!ToSet(Attached)
  BY <1>8, <1>9, SameOperators, Zenon
<1> QED
  BY <1>1, <1>3, <1>5, <1>12, <1>13, Zenon DEF Abstract!Disconnect

\* All callbacks are gone; the one of the head runs in emissions that began with it.
LEMMA DestroySimulates ==
  ASSUME SignalInv, Destroy
  PROVE  Abstract!Destroy
<1> DEFINE q == Siblings(heap, ring)
           A == ToSet(Attached)
           P == Emissions(heap, frames)
<1>1. /\ alive /\ alive' = FALSE /\ ring' = NULL /\ UNCHANGED <<frames, count>>
      /\ heap \in [Address -> Links] /\ heap' \in [Address -> Links]
  BY DestroyKeeps DEF Destroy, SignalInv, SignalTypeOK
<1>2. \A b \in Address : b \in ToSet(q) \/ heap[b].function = NULL => heap'[b].function = NULL
  BY DestroyKeeps
<1>3. Attached' = <<>>
  BY <1>1 DEF Attached
<1>4. \A b \in ToSet(q) : heap[b].function \in A
  <2>1. CASE ring = NULL
    BY <2>1, RingFacts DEF ToSet
  <2>2. CASE ring # NULL
    <3>1. ring \in Address /\ q \in Seq(Address)
      BY <2>2, RingFacts
    <3>2. Attached = Functions(heap, <<ring>> \o q)
      BY <2>2 DEF Attached
    <3>3. \A b \in ToSet(q) : heap[b].function # NULL
      BY SignalAssumption DEF SignalInv, SignalTypeOK, HandlersKnown
    <3> HIDE DEF q
    <3>4. ToSet(Functions(heap, <<ring>> \o q)) = {heap[b].function : b \in {ring} \cup ToSet(q)} \ {NULL}
      BY <1>1, <3>1, AttachedIs
    <3> QED
      BY <3>2, <3>3, <3>4
  <2> QED
    BY <2>1, <2>2
<1>5. \A k \in DOMAIN frames : \A b \in ToSet(Tail(frames[k].links)) :
        heap'[b].function = IF heap[b].function \in A THEN NULL ELSE heap[b].function
  <2>1. ASSUME NEW k \in DOMAIN frames, NEW b \in ToSet(Tail(frames[k].links))
        PROVE  b \in Address /\ (heap[b].function = NULL \/ b \in ToSet(q))
    BY LinksToCome
  <2> HIDE DEF A, q
  <2> QED
    BY <1>2, <1>4, <2>1
<1> HIDE DEF A
<1>6. Emissions(heap, frames)' = [k \in DOMAIN P |-> <<Head(P[k])>> \o Without(Tail(P[k]), A)]
  <2>1. Emissions(heap', frames) = [k \in DOMAIN P |-> <<Head(P[k])>> \o Without(Tail(P[k]), A)]
    BY <1>1, <1>5, EmissionsForget
  <2> QED
    BY <1>1, <2>1
<1>7. Abstract!Forget(A)
  BY <1>6, SameOperators, Zenon DEF Abstract!Forget
<1>8. A = Abstract!ToSet(Attached)
  BY SameOperators DEF A
<1> QED
  BY <1>1, <1>3, <1>7, <1>8, Zenon DEF Abstract!Destroy

\* The default callback is the only one at first, or there is none.
LEMMA HandlersStart == SignalInit => Abstract!Init
<1> SUFFICES ASSUME SignalInit PROVE Abstract!Init
  OBVIOUS
<1>1. SignalInv /\ frames = <<>> /\ count = 0 /\ alive = TRUE
  BY SignalStarts DEF SignalInit
<1>2. Emissions(heap, frames) = <<>>
  <2>1. Emissions(heap, frames) = [k \in {} |-> <<frames[k].running>> \o Functions(heap, Tail(frames[k].links))]
    <3>1. DOMAIN frames = {}
      BY <1>1
    <3> QED
      BY <3>1, Zenon DEF Emissions
  <2> QED
    BY <2>1
<1>3. Attached \in {<<>>, <<Method>>}
  <2>1. CASE ring = NULL
    BY <2>1 DEF Attached
  <2>2. CASE ring # NULL
    <3>1. ring \in Address /\ Siblings(heap, ring) \in Seq(Address) /\ heap \in [Address -> Links]
      BY <1>1, <2>2, RingFacts DEF SignalInv, SignalTypeOK
    <3>2. Siblings(heap, ring) = <<>>
      <4>1. ToSet(Siblings(heap, ring)) = {}
        BY <1>1 DEF SignalInv, HandlersKnown
      <4>2. DOMAIN Siblings(heap, ring) = {}
        BY <4>1 DEF ToSet
      <4>3. Len(Siblings(heap, ring)) = 0
        BY <3>1, <4>2, LenProperties
      <4> QED
        BY <3>1, <4>3, EmptySeq
    <3>3. <<ring>> \o Siblings(heap, ring) = <<ring>>
      <4>1. <<ring>> \in Seq(Address)
        BY <3>1
      <4> QED
        BY <3>2, <4>1, ConcatEmptySeq
    <3>4. heap[ring].function \in {NULL, Method}
      BY <1>1, <2>2 DEF SignalInv, HandlersKnown
    <3>5. Attached = Functions(heap, <<ring>>)
      BY <2>2, <3>3 DEF Attached
    <3> QED
      BY <3>1, <3>4, <3>5, FunctionsOne
  <2> QED
    BY <2>1, <2>2
<1> QED
  BY <1>1, <1>2, <1>3, Zenon DEF Abstract!Init

\* Every step is a step of Handlers or changes nothing there.
LEMMA HandlersStep ==
  SignalInv /\ [SignalNext]_signalVars => [Abstract!Next]_Abstract!vars
<1> SUFFICES ASSUME SignalInv, [SignalNext]_signalVars PROVE [Abstract!Next]_Abstract!vars
  OBVIOUS
<1>1. CASE Connect
  BY <1>1, ConnectSimulates DEF Abstract!Next
<1>2. CASE Destroy
  BY <1>2, DestroySimulates DEF Abstract!Next
<1>3. CASE Emit
  BY <1>3, EmitSimulates DEF Abstract!Next
<1>4. CASE Proceed
  BY <1>4, ProceedSimulates DEF Abstract!Next
<1>5. CASE Stop
  BY <1>5, StopSimulates DEF Abstract!Next
<1>6. ASSUME NEW c \in Connection, Disconnect(c)
      PROVE  [Abstract!Next]_Abstract!vars
  BY <1>6, DisconnectSimulates DEF Abstract!Next
<1>7. CASE UNCHANGED signalVars
  BY <1>7 DEF signalVars, Abstract!vars, Attached, Emissions
<1> QED
  BY <1>1, <1>2, <1>3, <1>4, <1>5, <1>6, <1>7 DEF SignalNext

(* The ring of reference counted links, changed under the feet of nested
   emissions, implements the list of handlers of module Handlers: emit()
   calls those that were connected when it began and still are when their
   turn comes, in the order of connect(), and no other.                    *)
THEOREM HandlersAreImplemented == SignalSpec => ImplementsHandlers
<1>1. SignalInit => Abstract!Init
  BY HandlersStart
<1>2. SignalInv /\ [SignalNext]_signalVars => [Abstract!Next]_Abstract!vars
  BY HandlersStep
<1> QED
  BY <1>1, <1>2, SignalInvariant, PTL DEF SignalSpec, ImplementsHandlers, Abstract!Spec
=============================================================================
