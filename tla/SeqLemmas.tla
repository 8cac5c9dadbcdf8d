----------------------------- MODULE SeqLemmas ------------------------------
(***************************************************************************)
(* What erase, insert and push_back do to a vector of pointers that holds  *)
(* each of them at most once.  The other modules' proofs see a sequence    *)
(* only as the set of its elements and the fact that it is injective.      *)
(***************************************************************************)
EXTENDS Integers, SequencesExt, SequenceTheorems, WellFoundedInduction, TLAPS

(* A non-empty set of naturals has a least element, which Min chooses. *)
LEMMA MinLeast ==
  ASSUME NEW S, S \subseteq Nat, S # {}
  PROVE  Min(S) \in S /\ \A y \in S : Min(S) <= y
<1> DEFINE R == OpToRel(<, Nat)
<1>1. PICK x \in S : \A y \in S : ~(<<y, x>> \in R)
  BY NatLessThanWellFounded, WFMin, Zenon
<1>2. \A y, z \in Nat : y < z => <<y, z>> \in R
  BY Zenon DEF OpToRel
<1> HIDE DEF R
<1>3. \A y \in S : ~(y < x)
  BY <1>1, <1>2, Zenon
<1>4. \A y \in S : x <= y
  BY <1>3
<1> QED
  BY <1>4 DEF Min

(* push_back. *)
LEMMA AppendRange ==
  ASSUME NEW S, NEW s \in Seq(S), NEW e \in S
  PROVE  /\ Append(s, e) \in Seq(S)
         /\ Range(Append(s, e)) = Range(s) \cup {e}
         /\ IsInjective(s) /\ e \notin Range(s) => IsInjective(Append(s, e))
<1> DEFINE a == Append(s, e)
<1>1. /\ a \in Seq(S) /\ Len(a) = Len(s) + 1 /\ a[Len(s) + 1] = e
      /\ \A n \in 1..Len(s) : a[n] = s[n]
  BY AppendProperties
<1>2. DOMAIN a = 1..(Len(s) + 1) /\ DOMAIN s = 1..Len(s) /\ Len(s) \in Nat
  BY <1>1, LenProperties
<1> HIDE DEF a
<1>3. Range(a) = Range(s) \cup {e}
  BY <1>1, <1>2 DEF Range
<1>4. ASSUME IsInjective(s), e \notin Range(s) PROVE IsInjective(a)
  BY <1>1, <1>2, <1>4 DEF IsInjective, Range
<1> QED
  BY <1>1, <1>3, <1>4 DEF a

(* The first element is taken off. *)
LEMMA TailRange ==
  ASSUME NEW S, NEW s \in Seq(S), s # <<>>
  PROVE  /\ Head(s) \in S /\ Tail(s) \in Seq(S)
         /\ Range(s) = Range(Tail(s)) \cup {Head(s)}
         /\ IsInjective(s) => IsInjective(Tail(s)) /\ Head(s) \notin Range(Tail(s))
<1> DEFINE t == Tail(s)
<1>1. /\ t \in Seq(S) /\ Len(t) = Len(s) - 1 /\ Head(s) \in S
      /\ \A n \in 1..Len(t) : t[n] = s[n + 1]
  BY HeadTailProperties
<1>2. Head(s) = s[1] /\ Len(s) \in Nat \ {0}
  BY EmptySeq
<1>3. DOMAIN t = 1..(Len(s) - 1) /\ DOMAIN s = 1..Len(s)
  BY <1>1, LenProperties
<1> HIDE DEF t
<1>4. Range(s) = Range(t) \cup {s[1]}
  <2>1. \A n \in 1..Len(s) : n = 1 \/ (n - 1 \in 1..Len(t) /\ t[n - 1] = s[n])
    BY <1>1, <1>2
  <2>2. \A n \in 1..Len(t) : n + 1 \in 1..Len(s) /\ t[n] = s[n + 1]
    BY <1>1, <1>2
  <2>3. 1 \in 1..Len(s) /\ DOMAIN t = 1..Len(t) /\ DOMAIN s = 1..Len(s)
    BY <1>1, <1>2, <1>3
  <2>4. Range(s) \subseteq Range(t) \cup {s[1]}
    BY <2>1, <2>3, Zenon DEF Range
  <2>5. Range(t) \cup {s[1]} \subseteq Range(s)
    BY <2>2, <2>3 DEF Range
  <2> QED
    BY <2>4, <2>5
<1>5. ASSUME IsInjective(s) PROVE IsInjective(t) /\ s[1] \notin Range(t)
  <2>1. \A m, n \in 1..Len(s) : s[m] = s[n] => m = n
    BY <1>3, <1>5 DEF IsInjective
  <2>2. \A m, n \in 1..Len(t) : t[m] = t[n] => m = n
    BY <1>1, <1>2, <2>1
  <2>3. \A n \in 1..Len(t) : t[n] # s[1]
    BY <1>1, <1>2, <2>1
  <2> QED
    BY <1>1, <1>3, <2>2, <2>3 DEF IsInjective, Range
<1> QED
  BY <1>1, <1>2, <1>4, <1>5 DEF t

(* The element at position k is erased. *)
LEMMA RemoveAtDef ==
  ASSUME NEW S, NEW s \in Seq(S), NEW k \in 1..Len(s)
  PROVE  /\ RemoveAt(s, k) \in Seq(S)
         /\ Len(RemoveAt(s, k)) = Len(s) - 1
         /\ \A n \in 1..(Len(s) - 1) :
              RemoveAt(s, k)[n] = IF n < k THEN s[n] ELSE s[n + 1]
<1>1. Len(s) \in Nat /\ \A n \in 1..Len(s) : s[n] \in S
  BY LenProperties, ElementOfSeq
<1> DEFINE u == SubSeq(s, 1, k - 1)
           v == SubSeq(s, k + 1, Len(s))
<1>2. /\ u \in Seq(S) /\ Len(u) = k - 1
      /\ \A n \in 1..(k - 1) : u[n] = s[n]
  <2>1. \A n \in 1..(k - 1) : s[n] \in S
    BY <1>1
  <2> QED
    BY <2>1, <1>1, SubSeqProperties
<1>3. /\ v \in Seq(S) /\ Len(v) = Len(s) - k
      /\ \A n \in 1..(Len(s) - k) : v[n] = s[k + n]
  <2>1. \A n \in (k + 1)..Len(s) : s[n] \in S
    BY <1>1
  <2> QED
    BY <2>1, <1>1, SubSeqProperties
<1>4. RemoveAt(s, k) = u \o v
  BY DEF RemoveAt
<1> HIDE DEF u, v
<1>5. /\ u \o v \in Seq(S) /\ Len(u \o v) = Len(u) + Len(v)
      /\ \A n \in 1..(Len(u) + Len(v)) :
           (u \o v)[n] = IF n <= Len(u) THEN u[n] ELSE v[n - Len(u)]
  BY <1>2, <1>3, ConcatProperties
<1> QED
  BY <1>1, <1>2, <1>3, <1>4, <1>5

(* e is put before position k. *)
LEMMA InsertAtDef ==
  ASSUME NEW S, NEW s \in Seq(S), NEW k \in 1..Len(s), NEW e \in S
  PROVE  /\ InsertAt(s, k, e) \in Seq(S)
         /\ Len(InsertAt(s, k, e)) = Len(s) + 1
         /\ \A n \in 1..(k - 1) : InsertAt(s, k, e)[n] = s[n]
         /\ InsertAt(s, k, e)[k] = e
         /\ \A n \in k..Len(s) : InsertAt(s, k, e)[n + 1] = s[n]
<1>1. Len(s) \in Nat /\ \A n \in 1..Len(s) : s[n] \in S
  BY LenProperties, ElementOfSeq
<1> DEFINE u == SubSeq(s, 1, k - 1)
           v == SubSeq(s, k, Len(s))
           w == u \o <<e>>
<1>2. /\ u \in Seq(S) /\ Len(u) = k - 1
      /\ \A n \in 1..(k - 1) : u[n] = s[n]
  <2>1. \A n \in 1..(k - 1) : s[n] \in S
    BY <1>1
  <2> QED
    BY <2>1, <1>1, SubSeqProperties
<1>3. /\ v \in Seq(S) /\ Len(v) = Len(s) - k + 1
      /\ \A n \in 1..(Len(s) - k + 1) : v[n] = s[k + n - 1]
  <2>1. \A n \in k..Len(s) : s[n] \in S
    BY <1>1
  <2> QED
    BY <2>1, <1>1, SubSeqProperties
<1>4. InsertAt(s, k, e) = w \o v
  BY DEF InsertAt
<1>5. <<e>> \in Seq(S) /\ Len(<<e>>) = 1 /\ <<e>>[1] = e
  OBVIOUS
<1> HIDE DEF u, v
<1>6. /\ w \in Seq(S) /\ Len(w) = k
      /\ \A n \in 1..k : w[n] = IF n < k THEN u[n] ELSE e
  BY <1>2, <1>5, ConcatProperties
<1> HIDE DEF w
<1>7. /\ w \o v \in Seq(S) /\ Len(w \o v) = Len(w) + Len(v)
      /\ \A n \in 1..(Len(w) + Len(v)) :
           (w \o v)[n] = IF n <= Len(w) THEN w[n] ELSE v[n - Len(w)]
  BY <1>3, <1>6, ConcatProperties
<1>8. Len(w) + Len(v) = Len(s) + 1
  BY <1>1, <1>3, <1>6
<1>9. /\ \A n \in 1..(k - 1) : (w \o v)[n] = s[n]
      /\ (w \o v)[k] = e
  BY <1>1, <1>2, <1>6, <1>7, <1>8
<1>10. \A n \in k..Len(s) : (w \o v)[n + 1] = s[n]
  <2> SUFFICES ASSUME NEW n \in k..Len(s) PROVE (w \o v)[n + 1] = s[n]
    OBVIOUS
  <2>1. (n + 1) - k \in 1..(Len(s) - k + 1) /\ k + ((n + 1) - k) - 1 = n
    BY <1>1
  <2>2. (w \o v)[n + 1] = v[(n + 1) - k]
    BY <1>1, <1>6, <1>7, <1>8
  <2> QED
    BY <2>1, <2>2, <1>3
<1> QED
  BY <1>4, <1>7, <1>8, <1>9, <1>10

(* Erasing position k keeps the elements of all others, each once. *)
LEMMA RemoveAtElements ==
  ASSUME NEW S, NEW s \in Seq(S), NEW k \in DOMAIN s
  PROVE  LET r == RemoveAt(s, k)
         IN  /\ r \in Seq(S)
             /\ \A n \in DOMAIN s \ {k} : \E m \in DOMAIN r : r[m] = s[n]
             /\ \A m \in DOMAIN r : \E n \in DOMAIN s \ {k} : r[m] = s[n]
             /\ \A l, m \in DOMAIN r : l # m =>
                  \E n, o \in DOMAIN s : n # o /\ r[l] = s[n] /\ r[m] = s[o]
<1> DEFINE r == RemoveAt(s, k)
<1>1. Len(s) \in Nat /\ DOMAIN s = 1..Len(s) /\ k \in 1..Len(s)
  BY LenProperties
<1>2. /\ r \in Seq(S) /\ Len(r) = Len(s) - 1
      /\ \A n \in 1..(Len(s) - 1) : r[n] = IF n < k THEN s[n] ELSE s[n + 1]
  BY <1>1, RemoveAtDef
<1>3. DOMAIN r = 1..(Len(s) - 1)
  BY <1>2, LenProperties
<1> HIDE DEF r
<1> DEFINE old(n) == IF n < k THEN n ELSE n + 1
<1>4. \A m \in DOMAIN r : old(m) \in DOMAIN s \ {k} /\ r[m] = s[old(m)]
  BY <1>1, <1>2, <1>3
<1>5. \A l, m \in DOMAIN r : l # m => old(l) # old(m)
  BY <1>1, <1>3
<1>6. \A n \in DOMAIN s \ {k} : \E m \in DOMAIN r : r[m] = s[n]
  <2> SUFFICES ASSUME NEW n \in 1..Len(s), n # k
      PROVE \E m \in 1..(Len(s) - 1) : r[m] = s[n]
    BY <1>1, <1>3
  <2>1. CASE n < k
    BY <2>1, <1>1, <1>2
  <2>2. CASE n > k
    <3>1. n - 1 \in 1..(Len(s) - 1) /\ ~(n - 1 < k) /\ (n - 1) + 1 = n
      BY <2>2, <1>1
    <3> QED
      BY <3>1, <1>2
  <2> QED
    BY <2>1, <2>2, <1>1
<1> HIDE DEF old
<1>7. \A m \in DOMAIN r : \E n \in DOMAIN s \ {k} : r[m] = s[n]
  BY <1>4
<1>8. \A l, m \in DOMAIN r : l # m =>
        \E n, o \in DOMAIN s : n # o /\ r[l] = s[n] /\ r[m] = s[o]
  BY <1>4, <1>5
<1> QED
  BY <1>2, <1>6, <1>7, <1>8 DEF r

(* Inserting e keeps the elements of all positions, each once. *)
LEMMA InsertAtElements ==
  ASSUME NEW S, NEW s \in Seq(S), NEW k \in 1..Len(s), NEW e \in S
  PROVE  LET r == InsertAt(s, k, e)
         IN  /\ r \in Seq(S)
             /\ k \in DOMAIN r /\ r[k] = e
             /\ \A n \in DOMAIN s : \E m \in DOMAIN r : r[m] = s[n]
             /\ \A m \in DOMAIN r \ {k} : \E n \in DOMAIN s : r[m] = s[n]
             /\ \A l, m \in DOMAIN r \ {k} : l # m =>
                  \E n, o \in DOMAIN s : n # o /\ r[l] = s[n] /\ r[m] = s[o]
<1> DEFINE r == InsertAt(s, k, e)
<1>1. Len(s) \in Nat /\ DOMAIN s = 1..Len(s) /\ k \in 1..Len(s)
  BY LenProperties
<1>2. /\ r \in Seq(S) /\ Len(r) = Len(s) + 1
      /\ \A n \in 1..(k - 1) : r[n] = s[n]
      /\ r[k] = e
      /\ \A n \in k..Len(s) : r[n + 1] = s[n]
  <2>1. k \in 1..Len(s)
    BY <1>1
  <2>2. r \in Seq(S) /\ Len(r) = Len(s) + 1
    BY <2>1, InsertAtDef
  <2>3. \A n \in 1..(k - 1) : r[n] = s[n]
    BY <2>1, InsertAtDef
  <2>4. r[k] = e
    BY <2>1, InsertAtDef
  <2>5. \A n \in k..Len(s) : r[n + 1] = s[n]
    BY <2>1, InsertAtDef
  <2> QED
    BY <2>2, <2>3, <2>4, <2>5
<1>3. DOMAIN r = 1..(Len(s) + 1)
  BY <1>2, LenProperties
<1> HIDE DEF r
<1> DEFINE old(n) == IF n < k THEN n ELSE n - 1
<1>4. \A m \in DOMAIN r \ {k} : old(m) \in DOMAIN s /\ r[m] = s[old(m)]
  <2> SUFFICES ASSUME NEW m \in 1..(Len(s) + 1), m # k
      PROVE old(m) \in 1..Len(s) /\ r[m] = s[old(m)]
    BY <1>1, <1>3
  <2>1. CASE m < k
    BY <2>1, <1>1, <1>2
  <2>2. CASE m > k
    <3>1. m - 1 \in k..Len(s) /\ (m - 1) + 1 = m
      BY <2>2, <1>1
    <3>2. r[(m - 1) + 1] = s[m - 1]
      BY <3>1, <1>2
    <3> QED
      BY <2>2, <3>1, <3>2, <1>1
  <2> QED
    BY <2>1, <2>2, <1>1
<1>5. \A l, m \in DOMAIN r \ {k} : l # m => old(l) # old(m)
  BY <1>1, <1>3
<1>6. \A n \in DOMAIN s : \E m \in DOMAIN r : r[m] = s[n]
  <2> SUFFICES ASSUME NEW n \in 1..Len(s)
      PROVE \E m \in 1..(Len(s) + 1) : r[m] = s[n]
    BY <1>1, <1>3
  <2>1. CASE n < k
    BY <2>1, <1>1, <1>2
  <2>2. CASE n >= k
    <3>1. n + 1 \in 1..(Len(s) + 1) /\ n \in k..Len(s)
      BY <2>2, <1>1
    <3> QED
      BY <3>1, <1>2
  <2> QED
    BY <2>1, <2>2, <1>1
<1>7. k \in DOMAIN r /\ r[k] = e
  BY <1>1, <1>2, <1>3
<1> HIDE DEF old
<1>8. \A m \in DOMAIN r \ {k} : \E n \in DOMAIN s : r[m] = s[n]
  BY <1>4
<1>9. \A l, m \in DOMAIN r \ {k} : l # m =>
        \E n, o \in DOMAIN s : n # o /\ r[l] = s[n] /\ r[m] = s[o]
  BY <1>4, <1>5
<1> QED
  BY <1>2, <1>6, <1>7, <1>8, <1>9 DEF r

(* erase of an element that a sequence holds at most once. *)
LEMMA RemoveFirstRange ==
  ASSUME NEW S, NEW s \in Seq(S), NEW e
  PROVE  /\ RemoveFirst(s, e) \in Seq(S)
         /\ IsInjective(s) => /\ IsInjective(RemoveFirst(s, e))
                              /\ Range(RemoveFirst(s, e)) = Range(s) \ {e}
<1>0. Len(s) \in Nat /\ DOMAIN s = 1..Len(s)
  BY LenProperties
<1>1. CASE \E n \in 1..Len(s) : s[n] = e
  <2> DEFINE I == {n \in 1..Len(s) : s[n] = e}
             k == Min(I)
             r == RemoveAt(s, k)
  <2>1. k \in I
    <3>1. I \subseteq Nat /\ I # {}
      BY <1>1
    <3> QED
      BY <3>1, MinLeast
  <2>2. RemoveFirst(s, e) = r
    BY <1>1, <2>1 DEF RemoveFirst, SelectInSeq
  <2>3. k \in DOMAIN s /\ s[k] = e
    BY <1>0, <2>1
  <2> HIDE DEF k
  <2>4. /\ r \in Seq(S)
        /\ \A n \in DOMAIN s \ {k} : \E m \in DOMAIN r : r[m] = s[n]
        /\ \A m \in DOMAIN r : \E n \in DOMAIN s \ {k} : r[m] = s[n]
        /\ \A l, m \in DOMAIN r : l # m =>
             \E n, o \in DOMAIN s : n # o /\ r[l] = s[n] /\ r[m] = s[o]
    BY <2>3, RemoveAtElements
  <2> HIDE DEF r
  <2>5. ASSUME IsInjective(s)
        PROVE  IsInjective(r) /\ Range(r) = Range(s) \ {e}
    <3>1. IsInjective(r)
      BY <2>4, <2>5 DEF IsInjective
    <3>2. Range(r) \subseteq Range(s) \ {e}
      BY <2>3, <2>4, <2>5 DEF Range, IsInjective
    <3>3. Range(s) \ {e} \subseteq Range(r)
      <4> SUFFICES ASSUME NEW n \in DOMAIN s, s[n] # e PROVE s[n] \in Range(r)
        BY DEF Range
      <4>1. n \in DOMAIN s \ {k}
        BY <2>3
      <4> QED
        BY <4>1, <2>4 DEF Range
    <3> QED
      BY <3>1, <3>2, <3>3
  <2> QED
    BY <2>2, <2>4, <2>5
<1>2. CASE ~ \E n \in 1..Len(s) : s[n] = e
  BY <1>0, <1>2 DEF RemoveFirst, Range
<1> QED
  BY <1>1, <1>2
=============================================================================
