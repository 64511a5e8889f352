----------------------------- MODULE LineLemmas -----------------------------
(***************************************************************************)
(* Lines of waiters: sequences in which nobody stands twice.  A waiter     *)
(* joins at the back (push_back), is served at the front (pop_front) and   *)
(* gives up in the middle (position, then remove); these lemmas say who is *)
(* in the line afterwards, and in which order.                             *)
(***************************************************************************)
EXTENDS Naturals, Sequences, SequencesExt, SequenceTheorems, WellFoundedInduction, TLAPS

\* A line of members of T.
LineOf(T) == {s \in Seq(T) : IsInjective(s)}

\* Membership is a position.
LEMMA InLine ==
  ASSUME NEW T, NEW s \in LineOf(T)
  PROVE  /\ s \in Seq(T) /\ Len(s) \in Nat /\ DOMAIN s = 1..Len(s)
         /\ \A i \in 1..Len(s) : s[i] \in T
         /\ \A i, j \in 1..Len(s) : s[i] = s[j] => i = j
         /\ \A x : x \in ToSet(s) <=> \E i \in 1..Len(s) : s[i] = x
         /\ \A x : Contains(s, x) <=> x \in ToSet(s)
         /\ ToSet(s) \subseteq T
         /\ s = <<>> <=> ToSet(s) = {}
<1>1. /\ s \in Seq(T) /\ Len(s) \in Nat /\ DOMAIN s = 1..Len(s)
      /\ \A i \in 1..Len(s) : s[i] \in T
      /\ \A i, j \in 1..Len(s) : s[i] = s[j] => i = j
  BY LenProperties DEF LineOf, IsInjective
<1>2. \A x : x \in ToSet(s) <=> \E i \in 1..Len(s) : s[i] = x
  BY <1>1 DEF ToSet
<1>3. s = <<>> <=> ToSet(s) = {}
  <2>1. s # <<>> => 1 \in 1..Len(s)
    BY <1>1, EmptySeq
  <2>2. s = <<>> => Len(s) = 0
    BY EmptySeq
  <2>. QED
    BY <1>1, <1>2, <2>1, <2>2
<1>. QED
  BY <1>1, <1>2, <1>3 DEF Contains

\* A sequence with one position per member is a line.
LEMMA IsLine ==
  ASSUME NEW T, NEW s \in Seq(T), \A i, j \in 1..Len(s) : s[i] = s[j] => i = j
  PROVE  s \in LineOf(T)
BY LenProperties DEF LineOf, IsInjective

\* The empty line.
LEMMA NobodyInLine ==
  ASSUME NEW T
  PROVE  <<>> \in LineOf(T) /\ ToSet(<<>>) = {}
<1>1. <<>> \in LineOf(T)
  <2>1. <<>> \in Seq(T) /\ Len(<<>>) = 0
    BY EmptySeq
  <2>2. \A i, j \in 1..Len(<<>>) : FALSE
    BY <2>1
  <2>. QED
    BY <2>1, <2>2, IsLine
<1>. QED
  BY <1>1, InLine

\* Joining at the back.
LEMMA JoinLine ==
  ASSUME NEW T, NEW s \in LineOf(T), NEW t \in T, t \notin ToSet(s)
  PROVE  /\ Append(s, t) \in LineOf(T) /\ Append(s, t) # <<>>
         /\ ToSet(Append(s, t)) = ToSet(s) \cup {t}
         /\ Len(Append(s, t)) = Len(s) + 1
         /\ s # <<>> => Head(Append(s, t)) = Head(s)
         /\ s = <<>> => Head(Append(s, t)) = t
<1>1. s \in Seq(T) /\ Len(s) \in Nat
  BY InLine
<1>2. /\ Append(s, t) \in Seq(T) /\ Append(s, t) # <<>> /\ Len(Append(s, t)) = Len(s) + 1
      /\ \A i \in 1..Len(s) : Append(s, t)[i] = s[i]
      /\ Append(s, t)[Len(s) + 1] = t
  BY <1>1, AppendProperties
<1>3. \A i \in 1..Len(s) : s[i] # t
  BY InLine
<1>4. \A i \in 1..(Len(s) + 1) : i \in 1..Len(s) \/ i = Len(s) + 1
  BY <1>1
<1>5. Append(s, t) \in LineOf(T)
  <2>1. \A i, j \in 1..Len(s) : s[i] = s[j] => i = j
    BY InLine
  <2>2. \A i, j \in 1..Len(Append(s, t)) : Append(s, t)[i] = Append(s, t)[j] => i = j
    BY <1>2, <1>3, <1>4, <2>1
  <2>. QED
    BY <1>2, <2>2, IsLine
<1>6. ToSet(Append(s, t)) = ToSet(s) \cup {t}
  <2>1. \A x : x \in ToSet(Append(s, t)) <=> \E i \in 1..(Len(s) + 1) : Append(s, t)[i] = x
    BY <1>2, <1>5, InLine
  <2>2. \A x : x \in ToSet(s) <=> \E i \in 1..Len(s) : s[i] = x
    BY InLine
  <2>3. \A i \in 1..Len(s) : i \in 1..(Len(s) + 1)
    BY <1>1
  <2>4. Len(s) + 1 \in 1..(Len(s) + 1)
    BY <1>1
  <2>. QED
    BY <1>2, <1>4, <2>1, <2>2, <2>3, <2>4
<1>7. /\ s # <<>> => Head(Append(s, t)) = Head(s)
      /\ s = <<>> => Head(Append(s, t)) = t
  BY <1>1, <1>2
<1>. QED
  BY <1>2, <1>5, <1>6, <1>7

\* Serving the front.
LEMMA ServeLine ==
  ASSUME NEW T, NEW s \in LineOf(T), s # <<>>
  PROVE  /\ Head(s) \in T /\ Head(s) \in ToSet(s) /\ Head(s) = s[1]
         /\ Tail(s) \in LineOf(T)
         /\ ToSet(Tail(s)) = ToSet(s) \ {Head(s)}
         /\ Len(s) \in Nat \ {0} /\ Len(Tail(s)) = Len(s) - 1
         /\ Len(s) = 1 <=> Tail(s) = <<>>
         /\ \A i \in 1..(Len(s) - 1) : Tail(s)[i] = s[i + 1]
<1>1. s \in Seq(T) /\ Len(s) \in Nat \ {0}
  BY InLine, EmptySeq
<1>2. /\ Head(s) \in T /\ Tail(s) \in Seq(T) /\ Len(Tail(s)) = Len(s) - 1
      /\ \A i \in 1..(Len(s) - 1) : Tail(s)[i] = s[i + 1]
  BY <1>1, HeadTailProperties
<1>3. Head(s) = s[1] /\ 1 \in 1..Len(s)
  BY <1>1
<1>4. \A i \in 1..(Len(s) - 1) : i + 1 \in 1..Len(s) /\ i + 1 # 1
  BY <1>1
<1>5. \A i \in 1..Len(s) : i # 1 => i - 1 \in 1..(Len(s) - 1) /\ (i - 1) + 1 = i
  BY <1>1
<1>6. \A i, j \in 1..Len(s) : s[i] = s[j] => i = j
  BY InLine
<1>7. Tail(s) \in LineOf(T)
  <2>1. \A i, j \in 1..Len(Tail(s)) : Tail(s)[i] = Tail(s)[j] => i = j
    <3>1. SUFFICES ASSUME NEW i \in 1..(Len(s) - 1), NEW j \in 1..(Len(s) - 1), s[i + 1] = s[j + 1]
                   PROVE  i = j
      BY <1>2
    <3>2. i + 1 = j + 1
      BY <1>4, <1>6, <3>1
    <3>. QED
      BY <3>2
  <2>. QED
    BY <1>2, <2>1, IsLine
<1>8. ToSet(Tail(s)) = ToSet(s) \ {Head(s)}
  <2>1. \A x : x \in ToSet(Tail(s)) <=> \E i \in 1..(Len(s) - 1) : s[i + 1] = x
    <3>1. \A x : x \in ToSet(Tail(s)) <=> \E i \in 1..Len(Tail(s)) : Tail(s)[i] = x
      BY <1>7, InLine
    <3>. QED
      BY <1>2, <3>1
  <2>2. \A x : x \in ToSet(s) <=> \E i \in 1..Len(s) : s[i] = x
    BY InLine
  <2>3. \A x : x \in ToSet(Tail(s)) => x \in ToSet(s) /\ x # Head(s)
    BY <1>3, <1>4, <1>6, <2>1, <2>2
  <2>4. \A x : x \in ToSet(s) /\ x # Head(s) => x \in ToSet(Tail(s))
    BY <1>3, <1>5, <2>1, <2>2
  <2>. QED
    BY <2>3, <2>4
<1>9. Len(s) = 1 <=> Tail(s) = <<>>
  <2>1. Tail(s) = <<>> => Len(Tail(s)) = 0
    BY EmptySeq
  <2>2. Tail(s) # <<>> => Len(Tail(s)) # 0
    BY <1>2, EmptySeq
  <2>. QED
    BY <1>1, <1>2, <2>1, <2>2
<1>10. Head(s) \in ToSet(s)
  BY <1>3, InLine
<1>. QED
  BY <1>1, <1>2, <1>3, <1>7, <1>8, <1>9, <1>10

\* What is left of a sequence without its position i.
LEMMA RemoveAtFacts ==
  ASSUME NEW T, NEW s \in Seq(T), NEW i \in 1..Len(s)
  PROVE  /\ RemoveAt(s, i) \in Seq(T) /\ Len(RemoveAt(s, i)) = Len(s) - 1
         /\ \A j \in 1..(Len(s) - 1) : RemoveAt(s, i)[j] = IF j < i THEN s[j] ELSE s[j + 1]
<1>. DEFINE a == SubSeq(s, 1, i - 1)
            b == SubSeq(s, i + 1, Len(s))
<1>1. a \in Seq(T) /\ Len(a) = i - 1 /\ \A j \in 1..(i - 1) : a[j] = s[j]
  OBVIOUS
<1>2. b \in Seq(T) /\ Len(b) = Len(s) - i /\ \A j \in 1..(Len(s) - i) : b[j] = s[j + i]
  OBVIOUS
<1>3. RemoveAt(s, i) = a \o b /\ Len(s) \in Nat
  BY LenProperties DEF RemoveAt
<1>. HIDE DEF a, b
<1>4. /\ a \o b \in Seq(T) /\ Len(a \o b) = (i - 1) + (Len(s) - i)
      /\ \A j \in 1..((i - 1) + (Len(s) - i)) : (a \o b)[j] = IF j <= i - 1 THEN a[j] ELSE b[j - (i - 1)]
  <2>1. /\ a \o b \in Seq(T) /\ Len(a \o b) = Len(a) + Len(b)
        /\ \A j \in 1..(Len(a) + Len(b)) : (a \o b)[j] = IF j <= Len(a) THEN a[j] ELSE b[j - Len(a)]
    BY <1>1, <1>2, ConcatProperties
  <2>. QED
    BY <1>1, <1>2, <2>1
<1>5. (i - 1) + (Len(s) - i) = Len(s) - 1
  BY <1>3
<1>6. ASSUME NEW j \in 1..(Len(s) - 1)
      PROVE  (a \o b)[j] = IF j < i THEN s[j] ELSE s[j + 1]
  <2>1. CASE j < i
    BY <1>1, <1>3, <1>4, <1>5, <2>1
  <2>2. CASE ~(j < i)
    <3>1. j - (i - 1) \in 1..(Len(s) - i) /\ (j - (i - 1)) + i = j + 1
      BY <1>3, <2>2
    <3>2. (a \o b)[j] = b[j - (i - 1)]
      <4>1. j \in 1..((i - 1) + (Len(s) - i)) /\ ~(j <= i - 1)
        BY <1>3, <1>5, <2>2
      <4>. QED
        BY <1>4, <4>1
    <3>. QED
      BY <1>2, <2>2, <3>1, <3>2
  <2>. QED
    BY <2>1, <2>2
<1>. QED
  BY <1>3, <1>4, <1>5, <1>6

\* In a line, the first position of a member is its only one.
LEMMA RemoveFirstIsRemoveAt ==
  ASSUME NEW T, NEW s \in LineOf(T), NEW i \in 1..Len(s)
  PROVE  RemoveFirst(s, s[i]) = RemoveAt(s, i)
<1>. DEFINE I == {j \in 1..Len(s) : s[j] = s[i]}
<1>1. I = {i}
  BY InLine
<1>2. Min(I) = i
  BY <1>1, InLine DEF Min
<1>3. SelectInSeq(s, LAMBDA v : v = s[i]) = IF I # {} THEN Min(I) ELSE 0
  BY DEF SelectInSeq
<1>4. SelectInSeq(s, LAMBDA v : v = s[i]) = i
  BY <1>1, <1>2, <1>3
<1>. QED
  BY <1>4 DEF RemoveFirst

\* Giving up: the member is gone, the others keep their order.
LEMMA LeaveLine ==
  ASSUME NEW T, NEW s \in LineOf(T), NEW t \in ToSet(s)
  PROVE  /\ RemoveFirst(s, t) \in LineOf(T)
         /\ ToSet(RemoveFirst(s, t)) = ToSet(s) \ {t}
         /\ Len(RemoveFirst(s, t)) = Len(s) - 1
         /\ s # <<>>
         /\ t = Head(s) => RemoveFirst(s, t) = Tail(s)
         /\ t # Head(s) => RemoveFirst(s, t) # <<>> /\ Head(RemoveFirst(s, t)) = Head(s)
<1>. DEFINE r == RemoveFirst(s, t)
<1>1. PICK i \in 1..Len(s) : s[i] = t
  BY InLine
<1>2. s \in Seq(T) /\ Len(s) \in Nat \ {0} /\ s # <<>>
  BY <1>1, InLine, EmptySeq
<1>3. /\ r \in Seq(T) /\ Len(r) = Len(s) - 1
      /\ \A j \in 1..(Len(s) - 1) : r[j] = IF j < i THEN s[j] ELSE s[j + 1]
  <2>1. r = RemoveAt(s, i)
    BY <1>1, RemoveFirstIsRemoveAt
  <2>. HIDE DEF r
  <2>. QED
    BY <1>2, <2>1, RemoveAtFacts
<1>. HIDE DEF r
<1>. DEFINE at(j) == IF j < i THEN j ELSE j + 1
<1>4. \A j \in 1..(Len(s) - 1) : at(j) \in 1..Len(s) /\ at(j) # i /\ r[j] = s[at(j)]
  BY <1>2, <1>3
<1>5. \A j, k \in 1..(Len(s) - 1) : at(j) = at(k) => j = k
  BY <1>2
<1>6. \A k \in 1..Len(s) : k # i => \E j \in 1..(Len(s) - 1) : at(j) = k
  <2>1. SUFFICES ASSUME NEW k \in 1..Len(s), k # i
                 PROVE  \E j \in 1..(Len(s) - 1) : at(j) = k
    OBVIOUS
  <2>2. CASE k < i
    <3>1. k \in 1..(Len(s) - 1) /\ at(k) = k
      BY <1>2, <2>2
    <3>. QED
      BY <3>1
  <2>3. CASE ~(k < i)
    <3>1. k - 1 \in 1..(Len(s) - 1) /\ at(k - 1) = k
      BY <1>2, <2>1, <2>3
    <3>. QED
      BY <3>1
  <2>. QED
    BY <2>2, <2>3
<1>. HIDE DEF at
<1>7. \A j, k \in 1..Len(s) : s[j] = s[k] => j = k
  BY InLine
<1>8. r \in LineOf(T)
  <2>1. \A j, k \in 1..Len(r) : r[j] = r[k] => j = k
    BY <1>3, <1>4, <1>5, <1>7, SMTT(30)
  <2>. QED
    BY <1>3, <2>1, IsLine
<1>9. ToSet(r) = ToSet(s) \ {t}
  <2>1. \A x : x \in ToSet(r) <=> \E j \in 1..(Len(s) - 1) : r[j] = x
    BY <1>3, <1>8, InLine
  <2>2. \A x : x \in ToSet(s) <=> \E k \in 1..Len(s) : s[k] = x
    BY InLine
  <2>3. \A x : x \in ToSet(r) => x \in ToSet(s) /\ x # t
    BY <1>1, <1>4, <1>7, <2>1, <2>2
  <2>4. \A x : x \in ToSet(s) /\ x # t => x \in ToSet(r)
    <3>1. SUFFICES ASSUME NEW x, x \in ToSet(s), x # t
                   PROVE  x \in ToSet(r)
      OBVIOUS
    <3>2. PICK k \in 1..Len(s) : s[k] = x
      BY <2>2, <3>1
    <3>3. PICK j \in 1..(Len(s) - 1) : at(j) = k
      BY <1>1, <1>6, <3>1, <3>2
    <3>4. r[j] = x
      BY <1>4, <3>2, <3>3
    <3>. QED
      BY <2>1, <3>4
  <2>. QED
    BY <2>3, <2>4
<1>10. Head(s) = s[1] /\ 1 \in 1..Len(s)
  BY <1>2
<1>11. ASSUME t = Head(s)
       PROVE  r = Tail(s)
  <2>1. i = 1
    BY <1>1, <1>7, <1>10, <1>11
  <2>2. /\ Tail(s) \in Seq(T) /\ Len(Tail(s)) = Len(s) - 1
        /\ \A j \in 1..(Len(s) - 1) : Tail(s)[j] = s[j + 1]
    BY <1>2, HeadTailProperties
  <2>3. \A j \in 1..(Len(s) - 1) : r[j] = Tail(s)[j]
    BY <1>2, <1>3, <2>1, <2>2
  <2>. QED
    BY <1>3, <2>2, <2>3, SeqEqual
<1>12. ASSUME t # Head(s)
       PROVE  r # <<>> /\ Head(r) = Head(s)
  <2>1. 1 < i /\ Len(s) > 1
    BY <1>1, <1>2, <1>10, <1>12
  <2>2. r # <<>> /\ Head(r) = r[1]
    BY <1>2, <1>3, <2>1, EmptySeq
  <2>. QED
    BY <1>2, <1>3, <1>10, <2>1, <2>2
<1>. QED
  BY <1>2, <1>3, <1>8, <1>9, <1>11, <1>12 DEF r

\* Who is not in the line cannot leave it.
LEMMA NotInLine ==
  ASSUME NEW T, NEW s \in LineOf(T), NEW t, t \notin ToSet(s)
  PROVE  RemoveFirst(s, t) = s
BY InLine DEF RemoveFirst

\* The order of the numbers, as a relation.
Less == {ss \in Nat \X Nat : ss[1] < ss[2]}

\* A set of numbers that is not empty has a least one.
LEMMA LeastNat ==
  ASSUME NEW S \in SUBSET Nat, S # {}
  PROVE  \E x \in S : \A y \in S : x <= y
<1>1. IsWellFoundedOn(Less, Nat)
  BY NatLessThanWellFounded DEF OpToRel, Less
<1>2. \E x \in S : \A y \in S : ~ (<<y, x>> \in Less)
  BY <1>1, WFMin
<1>3. \A x, y \in Nat : y < x => <<y, x>> \in Less
  BY DEF Less
<1>4. PICK x \in S : \A y \in S : ~ (<<y, x>> \in Less)
  BY <1>2
<1>5. ASSUME NEW y \in S
      PROVE  x <= y
  <2>1. x \in Nat /\ y \in Nat
    OBVIOUS
  <2>2. ~ (y < x)
    BY <1>3, <1>4, <2>1
  <2>. QED
    BY <2>1, <2>2
<1>. QED
  BY <1>5

\* A function on the numbers up to n, given by its first value and its steps.
Iterates(f, a, g, n) == f[0] = a /\ \A i \in 1..n : f[i] = g[<<i, f[i - 1]>>]

\* There is such a function, whatever the steps are.
LEMMA Recursion ==
  ASSUME NEW S, NEW a \in S, NEW g \in [Nat \X S -> S], NEW n \in Nat
  PROVE  \E f \in [0..n -> S] : Iterates(f, a, g, n)
<1>. DEFINE Good(m) == \E f \in [0..m -> S] : f[0] = a /\ \A i \in 1..m : f[i] = g[<<i, f[i - 1]>>]
            Bad == {m \in Nat : ~Good(m)}
<1>0. \A m \in Nat : Good(m) <=> \E f \in [0..m -> S] : Iterates(f, a, g, m)
  BY DEF Iterates
<1>1. SUFFICES Bad = {}
  BY <1>0
<1>2. SUFFICES ASSUME Bad # {} PROVE FALSE
  OBVIOUS
<1>3. PICK m \in Bad : \A y \in Bad : m <= y
  BY <1>2, LeastNat
<1>4. m # 0
  <2>1. Good(0)
    <3>. DEFINE f == [i \in 0..0 |-> a]
    <3>1. f \in [0..0 -> S] /\ f[0] = a
      OBVIOUS
    <3>2. \A i \in 1..0 : FALSE
      OBVIOUS
    <3>. HIDE DEF f
    <3>. QED
      BY <3>1, <3>2
  <2>. QED
    BY <2>1
<1>5. m - 1 \in Nat /\ Good(m - 1)
  BY <1>3, <1>4
<1>6. PICK f \in [0..(m - 1) -> S] :
        f[0] = a /\ \A i \in 1..(m - 1) : f[i] = g[<<i, f[i - 1]>>]
  BY <1>5
<1>. DEFINE h == [i \in 0..m |-> IF i = m THEN g[<<m, f[m - 1]>>] ELSE f[i]]
<1>7. h \in [0..m -> S]
  <2>1. f[m - 1] \in S /\ g[<<m, f[m - 1]>>] \in S
    BY <1>5, <1>6
  <2>. QED
    BY <1>5, <1>6, <2>1
<1>8. h[0] = a
  BY <1>4, <1>5, <1>6
<1>9. ASSUME NEW i \in 1..m
      PROVE  h[i] = g[<<i, h[i - 1]>>]
  <2>1. h[i - 1] = f[i - 1]
    <3>1. i - 1 \in 0..m /\ i - 1 # m
      BY <1>5
    <3>. QED
      BY <3>1
  <2>2. CASE i = m
    <3>1. m \in 0..m /\ h[m] = g[<<m, f[m - 1]>>]
      BY <1>5
    <3>. HIDE DEF h
    <3>. QED
      BY <2>1, <2>2, <3>1
  <2>3. CASE i # m
    <3>1. i \in 1..(m - 1) /\ h[i] = f[i]
      BY <1>5, <2>3
    <3>. QED
      BY <1>6, <2>1, <3>1
  <2>. QED
    BY <2>2, <2>3
<1>. HIDE DEF h
<1>. QED
  BY <1>3, <1>7, <1>8, <1>9
=============================================================================
