-------------------------- MODULE PollWardenProofs --------------------------
(***************************************************************************)
(* Theorems about PollWarden, for every number of completions, descriptors *)
(* and handles and every clock.                                            *)
(***************************************************************************)
EXTENDS PollWarden, SeqLemmas

-----------------------------------------------------------------------------
(* The multimap of deadlines.                                              *)

(* An entry of the timeouts. *)
Entry == [at : Int, iop : Iop]

(* No IOP has two entries. *)
Distinct(ts) == \A m, n \in DOMAIN ts : ts[m].iop = ts[n].iop => m = n

(* insert_timeout adds the entry of a deadline, wherever it belongs. *)
LEMMA InsertTimeoutRange ==
  ASSUME timeouts \in Seq(Entry), NEW i \in Iop, NEW c,
         c.deadline \in Int \cup {NoDeadline}
  PROVE  /\ InsertTimeout(i, c) \in Seq(Entry)
         /\ Range(InsertTimeout(i, c)) = Range(timeouts) \cup
              (IF c.deadline = NoDeadline THEN {}
               ELSE {[at |-> c.deadline, iop |-> i]})
         /\ Distinct(timeouts) /\ (\A t \in Range(timeouts) : t.iop # i) =>
              Distinct(InsertTimeout(i, c))
<1>1. CASE c.deadline = NoDeadline
  BY <1>1 DEF InsertTimeout
<1>2. CASE c.deadline # NoDeadline
  <2> DEFINE e == [at |-> c.deadline, iop |-> i]
             I == {n \in 1..Len(timeouts) : timeouts[n].at > c.deadline}
             r == InsertTimeout(i, c)
  <2>1. e \in Entry /\ e.iop = i
    BY <1>2 DEF Entry
  <2>2. Len(timeouts) \in Nat /\ DOMAIN timeouts = 1..Len(timeouts)
    BY LenProperties
  <2> HIDE DEF e
  <2>3. CASE I = {}
    <3>1. r = Append(timeouts, e)
      BY <1>2, <2>3 DEF InsertTimeout, SelectInSeq, e
    <3>2. /\ r \in Seq(Entry) /\ Len(r) = Len(timeouts) + 1
          /\ r[Len(timeouts) + 1] = e
          /\ \A n \in 1..Len(timeouts) : r[n] = timeouts[n]
      BY <3>1, <2>1, AppendProperties
    <3>3. Range(r) = Range(timeouts) \cup {e}
      BY <3>1, <2>1, AppendRange
    <3>4. DOMAIN r = 1..(Len(timeouts) + 1)
      BY <3>2, LenProperties
    <3> HIDE DEF r
    <3>5. ASSUME Distinct(timeouts), \A t \in Range(timeouts) : t.iop # i
          PROVE  Distinct(r)
      <4>1. \A n \in 1..Len(timeouts) : timeouts[n].iop # i
        BY <2>2, <3>5 DEF Range
      <4> QED
        BY <2>1, <2>2, <3>2, <3>4, <3>5, <4>1 DEF Distinct
    <3> QED
      BY <1>2, <3>2, <3>3, <3>5 DEF r, e
  <2>4. CASE I # {}
    <3> DEFINE k == Min(I)
    <3>1. k \in I
      <4>1. I \subseteq Nat /\ I # {}
        BY <2>4, <2>2
      <4> HIDE DEF I
      <4> QED
        BY <4>1, MinLeast
    <3>2. k \in 1..Len(timeouts) /\ k # 0
      BY <3>1, <2>2
    <3>3. r = InsertAt(timeouts, k, e)
      BY <1>2, <2>4, <3>2 DEF InsertTimeout, SelectInSeq, e
    <3> HIDE DEF k, I, r
    <3>4. /\ r \in Seq(Entry)
          /\ k \in DOMAIN r /\ r[k] = e
          /\ \A n \in DOMAIN timeouts : \E m \in DOMAIN r : r[m] = timeouts[n]
          /\ \A m \in DOMAIN r \ {k} : \E n \in DOMAIN timeouts : r[m] = timeouts[n]
          /\ \A l, m \in DOMAIN r \ {k} : l # m =>
               \E n, o \in DOMAIN timeouts :
                 n # o /\ r[l] = timeouts[n] /\ r[m] = timeouts[o]
      BY ONLY timeouts \in Seq(Entry), <2>1, <3>2, <3>3, InsertAtElements
    <3>5. Range(r) = Range(timeouts) \cup {e}
      <4>1. Range(r) \subseteq Range(timeouts) \cup {e}
        BY <3>4 DEF Range
      <4>2. Range(timeouts) \cup {e} \subseteq Range(r)
        BY <3>4 DEF Range
      <4> QED
        BY <4>1, <4>2
    <3>6. ASSUME Distinct(timeouts), \A t \in Range(timeouts) : t.iop # i
          PROVE  Distinct(r)
      <4>1. \A m \in DOMAIN r \ {k} : r[m].iop # i
        BY <3>4, <3>6 DEF Range
      <4>2. \A l, m \in DOMAIN r \ {k} : l # m => r[l].iop # r[m].iop
        BY <3>4, <3>6 DEF Distinct
      <4> QED
        BY <2>1, <3>4, <4>1, <4>2 DEF Distinct
    <3> QED
      BY <1>2, <3>4, <3>5, <3>6 DEF r, e
  <2> QED
    BY <2>3, <2>4
<1> QED
  BY <1>1, <1>2

(* cancel_timeout takes out the entry of a completion that has one at most. *)
LEMMA CancelTimeoutRange ==
  ASSUME NEW ts \in Seq(Entry), NEW i
  PROVE  /\ CancelTimeout(ts, i) \in Seq(Entry)
         /\ Distinct(ts) =>
              /\ Distinct(CancelTimeout(ts, i))
              /\ Range(CancelTimeout(ts, i)) = {t \in Range(ts) : t.iop # i}
<1>0. Len(ts) \in Nat /\ DOMAIN ts = 1..Len(ts)
  BY LenProperties
<1>1. CASE \E n \in 1..Len(ts) : ts[n].iop = i
  <2> DEFINE I == {n \in 1..Len(ts) : ts[n].iop = i}
             k == Min(I)
             r == RemoveAt(ts, k)
  <2>1. k \in I
    <3>1. I \subseteq Nat /\ I # {}
      BY <1>1
    <3> QED
      BY <3>1, MinLeast
  <2>2. CancelTimeout(ts, i) = r
    BY <1>1, <2>1 DEF CancelTimeout, RemoveFirstMatch, SelectInSeq
  <2>3. k \in DOMAIN ts /\ ts[k].iop = i
    BY <1>0, <2>1
  <2> HIDE DEF k
  <2>4. /\ r \in Seq(Entry)
        /\ \A n \in DOMAIN ts \ {k} : \E m \in DOMAIN r : r[m] = ts[n]
        /\ \A m \in DOMAIN r : \E n \in DOMAIN ts \ {k} : r[m] = ts[n]
        /\ \A l, m \in DOMAIN r : l # m =>
             \E n, o \in DOMAIN ts : n # o /\ r[l] = ts[n] /\ r[m] = ts[o]
    BY <2>3, RemoveAtElements
  <2> HIDE DEF r
  <2>5. ASSUME Distinct(ts)
        PROVE  Distinct(r) /\ Range(r) = {t \in Range(ts) : t.iop # i}
    <3>1. Distinct(r)
      <4> SUFFICES ASSUME NEW l \in DOMAIN r, NEW m \in DOMAIN r, l # m
          PROVE r[l].iop # r[m].iop
        BY DEF Distinct
      <4>1. PICK n \in DOMAIN ts, o \in DOMAIN ts :
              n # o /\ r[l] = ts[n] /\ r[m] = ts[o]
        BY <2>4
      <4> QED
        BY <4>1, <2>5 DEF Distinct
    <3>2. Range(r) \subseteq {t \in Range(ts) : t.iop # i}
      BY <2>3, <2>4, <2>5 DEF Range, Distinct
    <3>3. {t \in Range(ts) : t.iop # i} \subseteq Range(r)
      <4> SUFFICES ASSUME NEW n \in DOMAIN ts, ts[n].iop # i
          PROVE ts[n] \in Range(r)
        BY DEF Range
      <4>1. n \in DOMAIN ts \ {k}
        BY <2>3
      <4> QED
        BY <4>1, <2>4 DEF Range
    <3> QED
      BY <3>1, <3>2, <3>3
  <2> QED
    BY <2>2, <2>4, <2>5
<1>2. CASE ~ \E n \in 1..Len(ts) : ts[n].iop = i
  <2>1. CancelTimeout(ts, i) = ts
    BY <1>2 DEF CancelTimeout, RemoveFirstMatch
  <2>2. Range(ts) = {t \in Range(ts) : t.iop # i}
    BY <1>0, <1>2 DEF Range
  <2> QED
    BY <2>1, <2>2
<1> QED
  BY <1>1, <1>2

(* The deadlines ts are in order. *)
Ordered(ts) == \A m, n \in DOMAIN ts : m < n => ts[m].at <= ts[n].at

(* insert_timeout keeps the order: it goes before the first later deadline. *)
LEMMA InsertTimeoutOrdered ==
  ASSUME timeouts \in Seq(Entry), NEW i \in Iop, NEW c,
         c.deadline \in Int \cup {NoDeadline}, Ordered(timeouts)
  PROVE  Ordered(InsertTimeout(i, c))
<1>1. CASE c.deadline = NoDeadline
  BY <1>1 DEF InsertTimeout
<1>2. CASE c.deadline # NoDeadline
  <2> DEFINE e == [at |-> c.deadline, iop |-> i]
             L == Len(timeouts)
             I == {n \in 1..L : timeouts[n].at > c.deadline}
             r == InsertTimeout(i, c)
  <2>1. e \in Entry /\ e.at = c.deadline /\ c.deadline \in Int
    BY <1>2 DEF Entry
  <2>2. L \in Nat /\ DOMAIN timeouts = 1..L
    BY LenProperties
  <2>3. \A n \in 1..L : timeouts[n].at \in Int
    <3>1. \A n \in 1..L : timeouts[n] \in Entry
      BY <2>2, ElementOfSeq
    <3> QED
      BY <3>1 DEF Entry
  <2>4. \A m, n \in 1..L : m < n => timeouts[m].at <= timeouts[n].at
    BY <2>2 DEF Ordered
  <2> HIDE DEF e
  <2>5. CASE I = {}
    <3>1. r = Append(timeouts, e)
      BY <1>2, <2>5 DEF InsertTimeout, SelectInSeq, e
    <3>2. /\ r \in Seq(Entry) /\ Len(r) = L + 1 /\ r[L + 1] = e
          /\ \A n \in 1..L : r[n] = timeouts[n]
      BY <3>1, <2>1, AppendProperties
    <3>3. DOMAIN r = 1..(L + 1)
      BY <3>2, LenProperties
    <3>4. \A n \in 1..L : timeouts[n].at <= c.deadline
      BY <2>1, <2>3, <2>5
    <3> HIDE DEF r, I, L
    <3> QED
      BY <2>1, <2>2, <2>4, <3>2, <3>3, <3>4 DEF Ordered, r
  <2>6. CASE I # {}
    <3> DEFINE k == Min(I)
    <3>1. k \in I /\ \A n \in I : k <= n
      <4>1. I \subseteq Nat /\ I # {}
        BY <2>6, <2>2
      <4> HIDE DEF I
      <4> QED
        BY <4>1, MinLeast
    <3>2. k \in 1..L /\ k # 0 /\ timeouts[k].at > c.deadline
      BY <3>1, <2>2
    <3>3. \A n \in 1..(k - 1) : timeouts[n].at <= c.deadline
      <4>1. \A n \in 1..(k - 1) : n \in 1..L /\ ~(k <= n)
        BY <2>2, <3>2
      <4>2. \A n \in 1..(k - 1) : n \notin I
        BY <3>1, <4>1
      <4> HIDE DEF k
      <4> QED
        BY <2>1, <2>3, <4>1, <4>2
    <3>4. r = InsertAt(timeouts, k, e)
      BY <1>2, <2>6, <3>2 DEF InsertTimeout, SelectInSeq, e
    <3> HIDE DEF k, I
    <3>5. /\ r \in Seq(Entry) /\ Len(r) = L + 1
          /\ \A n \in 1..(k - 1) : r[n] = timeouts[n]
          /\ r[k] = e
          /\ \A n \in k..L : r[n + 1] = timeouts[n]
      <4>1. k \in 1..Len(timeouts)
        BY <3>2
      <4> HIDE DEF r
      <4> QED
        BY <2>1, <3>4, <4>1, InsertAtDef
    <3>6. DOMAIN r = 1..(L + 1)
      BY <3>5, LenProperties
    <3> HIDE DEF r, L
    <3>7. \A n \in (k + 1)..(L + 1) : r[n] = timeouts[n - 1] /\ n - 1 \in k..L
      <4> TAKE n \in (k + 1)..(L + 1)
      <4>1. n - 1 \in k..L /\ (n - 1) + 1 = n
        BY <2>2, <3>2
      <4> QED
        BY <3>5, <4>1
    <3>8. \A n \in k..L : timeouts[n].at >= c.deadline
      <4> TAKE n \in k..L
      <4>1. n \in 1..L /\ (n = k \/ k < n)
        BY <2>2, <3>2
      <4>2. timeouts[k].at <= timeouts[n].at
        BY <2>3, <2>4, <3>2, <4>1
      <4> QED
        BY <2>1, <2>3, <3>2, <4>1, <4>2
    <3>9. ASSUME NEW m \in 1..(L + 1), NEW n \in 1..(L + 1), m < n
          PROVE  r[m].at <= r[n].at
      <4>1. CASE n < k
        <5>1. m \in 1..(k - 1) /\ n \in 1..(k - 1) /\ m \in 1..L /\ n \in 1..L
          BY <2>2, <3>2, <3>9, <4>1
        <5> QED
          BY <2>4, <3>5, <3>9, <5>1
      <4>2. CASE n = k
        <5>1. m \in 1..(k - 1)
          BY <2>2, <3>2, <3>9, <4>2
        <5> QED
          BY <2>1, <3>3, <3>5, <4>2, <5>1
      <4>3. CASE m = k
        <5>1. n \in (k + 1)..(L + 1)
          BY <2>2, <3>2, <3>9, <4>3
        <5>2. r[n] = timeouts[n - 1] /\ timeouts[n - 1].at >= c.deadline
          BY <3>7, <3>8, <5>1
        <5>3. timeouts[n - 1].at \in Int
          BY <2>2, <2>3, <3>2, <3>7, <5>1
        <5> QED
          BY <2>1, <3>5, <4>3, <5>2, <5>3
      <4>4. CASE m < k /\ n > k
        <5>1. m \in 1..(k - 1) /\ n \in (k + 1)..(L + 1) /\ m \in 1..L
          BY <2>2, <3>2, <4>4
        <5>2. n - 1 \in 1..L /\ m < n - 1 /\ r[n] = timeouts[n - 1] /\ r[m] = timeouts[m]
          BY <2>2, <3>2, <3>5, <3>7, <4>4, <5>1
        <5> QED
          BY <2>4, <5>1, <5>2
      <4>5. CASE m > k
        <5>1. m \in (k + 1)..(L + 1) /\ n \in (k + 1)..(L + 1)
          BY <2>2, <3>2, <3>9, <4>5
        <5>2. /\ m - 1 \in 1..L /\ n - 1 \in 1..L /\ m - 1 < n - 1
              /\ r[m] = timeouts[m - 1] /\ r[n] = timeouts[n - 1]
          BY <2>2, <3>2, <3>7, <3>9, <5>1
        <5> QED
          BY <2>4, <5>2
      <4> QED
        BY <2>2, <3>2, <3>9, <4>1, <4>2, <4>3, <4>4, <4>5
    <3> QED
      BY <3>6, <3>9 DEF Ordered, r
  <2> QED
    BY <2>5, <2>6
<1> QED
  BY <1>1, <1>2

(* A sequence of which one element is left out keeps its order. *)
LEMMA RemoveAtOrdered ==
  ASSUME NEW ts \in Seq(Entry), NEW k \in DOMAIN ts, Ordered(ts)
  PROVE  Ordered(RemoveAt(ts, k))
<1> DEFINE L == Len(ts)
           r == RemoveAt(ts, k)
<1>1. L \in Nat /\ DOMAIN ts = 1..L /\ k \in 1..L
  BY LenProperties
<1>2. /\ r \in Seq(Entry) /\ Len(r) = L - 1
      /\ \A n \in 1..(L - 1) : r[n] = IF n < k THEN ts[n] ELSE ts[n + 1]
  BY <1>1, RemoveAtDef
<1>3. DOMAIN r = 1..(L - 1)
  BY <1>2, LenProperties
<1> HIDE DEF r, L
<1>4. ASSUME NEW m \in 1..(L - 1), NEW n \in 1..(L - 1), m < n
      PROVE  r[m].at <= r[n].at
  <2>1. \E a, b \in 1..L : a < b /\ r[m] = ts[a] /\ r[n] = ts[b]
    <3>1. CASE n < k
      <4>1. m < k /\ m \in 1..L /\ n \in 1..L
        BY <1>1, <1>4, <3>1
      <4> QED
        BY <1>2, <1>4, <3>1, <4>1
    <3>2. CASE ~(n < k) /\ m < k
      <4>1. m \in 1..L /\ n + 1 \in 1..L /\ m < n + 1
        BY <1>1, <1>4
      <4> QED
        BY <1>2, <3>2, <4>1
    <3>3. CASE ~(n < k) /\ ~(m < k)
      <4>1. m + 1 \in 1..L /\ n + 1 \in 1..L /\ m + 1 < n + 1
        BY <1>1, <1>4
      <4> QED
        BY <1>2, <3>3, <4>1
    <3> QED
      BY <1>1, <1>4, <3>1, <3>2, <3>3
  <2> QED
    BY <1>1, <2>1 DEF Ordered
<1> QED
  BY <1>3, <1>4 DEF Ordered, r

(* So do the deadlines when cancel_timeout takes one out. *)
LEMMA CancelTimeoutOrdered ==
  ASSUME NEW ts \in Seq(Entry), NEW i, Ordered(ts)
  PROVE  Ordered(CancelTimeout(ts, i))
<1>0. Len(ts) \in Nat /\ DOMAIN ts = 1..Len(ts)
  BY LenProperties
<1>1. CASE \E n \in 1..Len(ts) : ts[n].iop = i
  <2> DEFINE I == {n \in 1..Len(ts) : ts[n].iop = i}
             k == Min(I)
  <2>1. k \in I
    <3>1. I \subseteq Nat /\ I # {}
      BY <1>1
    <3> QED
      BY <3>1, MinLeast
  <2>2. CancelTimeout(ts, i) = RemoveAt(ts, k)
    BY <1>1, <2>1 DEF CancelTimeout, RemoveFirstMatch, SelectInSeq
  <2>3. k \in DOMAIN ts
    BY <1>0, <2>1
  <2> HIDE DEF k
  <2> QED
    BY <2>2, <2>3, RemoveAtOrdered
<1>2. CASE ~ \E n \in 1..Len(ts) : ts[n].iop = i
  BY <1>2 DEF CancelTimeout, RemoveFirstMatch
<1> QED
  BY <1>1, <1>2

(* The deadlines after the first are in order. *)
LEMMA TailOrdered ==
  ASSUME NEW ts \in Seq(Entry), ts # <<>>, Ordered(ts)
  PROVE  Ordered(Tail(ts))
<1>1. /\ Tail(ts) \in Seq(Entry) /\ Len(Tail(ts)) = Len(ts) - 1
      /\ \A n \in 1..Len(Tail(ts)) : Tail(ts)[n] = ts[n + 1]
  BY HeadTailProperties
<1>2. /\ Len(ts) \in Nat /\ DOMAIN ts = 1..Len(ts)
      /\ DOMAIN Tail(ts) = 1..(Len(ts) - 1)
  BY <1>1, LenProperties
<1>3. \A m, n \in 1..(Len(ts) - 1) : m < n =>
        m + 1 \in 1..Len(ts) /\ n + 1 \in 1..Len(ts) /\ m + 1 < n + 1
  BY <1>2
<1> QED
  BY <1>1, <1>2, <1>3 DEF Ordered

-----------------------------------------------------------------------------
(* Types.                                                                  *)

USE ConstantsAssumption, KindAssumption

(* A deadline as far as an `int` sees it. *)
LEMMA PollWaitInt ==
  ASSUME TypeOK
  PROVE  PollWait \in Int
<1>1. \A n \in Int : ToInt(n) \in Int
  <2>1. 2 * (IntMax + 1) \in Nat \ {0}
    OBVIOUS
  <2>2. \A n \in Int, m \in Nat \ {0} : n % m \in Int
    OBVIOUS
  <2> QED
    BY <2>1, <2>2 DEF ToInt
<1>2. ASSUME timeouts # <<>> PROVE (Head(timeouts).at - now) \div Ms \in Int
  <2>1. Head(timeouts) \in [at : Int, iop : Iop]
    BY <1>2, HeadTailProperties DEF TypeOK
  <2>2. Head(timeouts).at - now \in Int
    BY <2>1 DEF TypeOK
  <2>3. \A n \in Int, m \in Nat \ {0} : n \div m \in Int
    OBVIOUS
  <2> QED
    BY <2>2, <2>3
<1> QED
  BY <1>1, <1>2 DEF PollWait

(* The parts of TypeOK that a completion's own code changes. *)
RegistryOK ==
  /\ comp \in [Iop -> Completion]
  /\ \A i \in Iop : comp[i].st \in {"suspended", "resumed"} =>
       comp[i].kind \in Kind /\ comp[i].fd \in Fd
  /\ requests \in [Queue -> Seq(Iop)] /\ mapped \subseteq Fd
  /\ timeouts \in Seq(Entry)

(* errno and the sockets have their types. *)
KernelOK ==
  /\ errno \in {"EINPROGRESS", "other"}
  /\ sock \in [Fd -> {"open", "idle", "connecting", "failed", "hup", "closed"}]
  /\ ready \subseteq Queue

(* A record that a completion in use can be. *)
Used(c) == c \in Completion /\ c.kind \in Kind /\ c.fd \in Fd

(* Waiting in a queue keeps the types. *)
LEMMA ParkType ==
  ASSUME TypeOK, NEW i \in Iop, NEW c, Used(c), NEW ts \in Seq(Entry), Park(i, c, ts)
  PROVE  RegistryOK'
<1>1. QueueOf(c) \in Queue
  BY DEF Used, QueueOf, Queue, Side
<1>2. requests[QueueOf(c)] \in Seq(Iop)
  BY <1>1 DEF TypeOK
<1>3. Append(requests[QueueOf(c)], i) \in Seq(Iop)
  BY <1>2, AppendProperties
<1>4. requests' \in [Queue -> Seq(Iop)]
  BY <1>1, <1>3 DEF Park, TypeOK
<1>5. comp' \in [Iop -> Completion] /\ mapped' \subseteq Fd /\ timeouts' \in Seq(Entry)
  BY DEF Park, TypeOK, Used
<1>6. \A j \in Iop : comp'[j].st \in {"suspended", "resumed"} =>
        comp'[j].kind \in Kind /\ comp'[j].fd \in Fd
  BY DEF Park, TypeOK, Used
<1> QED
  BY <1>4, <1>5, <1>6 DEF RegistryOK

(* So does cancel_timeout_then_resume. *)
LEMMA ResumeType ==
  ASSUME TypeOK, NEW i \in Iop, NEW c, Used(c), NEW ts \in Seq(Entry),
         NEW r \in {"none", "value", "error", "badfd", "timeout"},
         ResumeWith(i, c, ts, r)
  PROVE  RegistryOK'
<1> DEFINE d == [c EXCEPT !.st = "resumed", !.result = r]
<1>1. d \in Completion /\ d.kind = c.kind /\ d.fd = c.fd
  BY DEF Used, Completion
<1>2. comp' = [comp EXCEPT ![i] = d]
  BY DEF ResumeWith
<1> HIDE DEF d
<1>3. comp' \in [Iop -> Completion]
  BY <1>1, <1>2 DEF TypeOK
<1>4. \A j \in Iop : comp'[j].st \in {"suspended", "resumed"} =>
        comp'[j].kind \in Kind /\ comp'[j].fd \in Fd
  BY <1>1, <1>2 DEF TypeOK, Used
<1>5. timeouts' \in Seq(Entry)
  BY CancelTimeoutRange DEF ResumeWith
<1>6. requests' \in [Queue -> Seq(Iop)] /\ mapped' \subseteq Fd
  BY DEF ResumeWith, TypeOK
<1> QED
  BY <1>3, <1>4, <1>5, <1>6 DEF RegistryOK

(* So does try_or_resume of every kind of completion. *)
LEMMA TryType ==
  ASSUME TypeOK, NEW i \in Iop, NEW c, Used(c)
  PROVE  /\ \A ts \in Seq(Entry) : TryIo(i, c, ts) => RegistryOK' /\ KernelOK'
         /\ TryConnect(i, c) => RegistryOK' /\ KernelOK'
         /\ TryReady(i, c) => RegistryOK' /\ KernelOK'
<1>0. timeouts \in Seq(Entry) /\ InsertTimeout(i, c) \in Seq(Entry)
  <2>1. timeouts \in Seq(Entry) /\ c.deadline \in Int \cup {NoDeadline}
    BY DEF TypeOK, Entry, Used, Completion
  <2> QED
    BY <2>1, InsertTimeoutRange
<1>1. ASSUME NEW ts \in Seq(Entry), TryIo(i, c, ts) PROVE RegistryOK' /\ KernelOK'
  <2>1. CASE WouldBlock(QueueOf(c))
    <3>1. Park(i, c, ts) /\ errno' = "other" /\ UNCHANGED kernel
      BY <1>1, <2>1 DEF TryIo
    <3> QED
      BY <3>1, ParkType DEF KernelOK, TypeOK, kernel
  <2>2. CASE ~WouldBlock(QueueOf(c))
    <3> DEFINE r == IoResult(QueueOf(c), c.kind)
    <3>1. /\ ResumeWith(i, c, ts, r) /\ IoEffect(QueueOf(c))
          /\ errno' = IF r = "value" THEN errno ELSE "other"
      BY <1>1, <2>2 DEF TryIo
    <3>2. r \in {"none", "value", "error", "badfd", "timeout"}
      BY DEF IoResult
    <3>3. RegistryOK'
      BY <3>1, <3>2, ResumeType
    <3>4. KernelOK'
      BY <3>1 DEF KernelOK, TypeOK, IoEffect
    <3> QED
      BY <3>3, <3>4
  <2> QED
    BY <2>1, <2>2
<1>2. ASSUME TryConnect(i, c) PROVE RegistryOK' /\ KernelOK'
  <2>1. KernelOK'
    BY <1>2 DEF TryConnect, KernelOK, TypeOK, kernel
  <2>2. \/ Park(i, c, InsertTimeout(i, c))
        \/ ResumeWith(i, c, timeouts, "error")
        \/ ResumeWith(i, c, timeouts, "none")
    BY <1>2 DEF TryConnect
  <2> QED
    BY <1>0, <2>1, <2>2, ParkType, ResumeType
<1>3. ASSUME TryReady(i, c) PROVE RegistryOK' /\ KernelOK'
  <2>1. ResumeWith(i, c, timeouts, "none") /\ KernelOK'
    BY <1>3 DEF TryReady, KernelOK, TypeOK, kernel
  <2> QED
    BY <1>0, <2>1, ResumeType
<1> QED
  BY <1>1, <1>2, <1>3

(* So does await_suspend of every kind of completion. *)
LEMMA AwaitType ==
  ASSUME TypeOK, NEW i \in Iop, NEW c, Used(c), AwaitSuspend(i, c)
  PROVE  RegistryOK' /\ KernelOK'
<1>0. timeouts \in Seq(Entry) /\ InsertTimeout(i, c) \in Seq(Entry)
  <2>1. timeouts \in Seq(Entry) /\ c.deadline \in Int \cup {NoDeadline}
    BY DEF TypeOK, Entry, Used, Completion
  <2> QED
    BY <2>1, InsertTimeoutRange
<1>1. CASE TryIo(i, c, InsertTimeout(i, c))
  BY <1>0, <1>1, TryType
<1>2. CASE AwaitClose(i, c)
  <2>1. ResumeWith(i, c, timeouts, "none") /\ KernelOK'
    BY <1>2 DEF AwaitClose, Closed, KernelOK, TypeOK
  <2> QED
    BY <1>0, <2>1, ResumeType
<1>3. CASE AwaitSleep(i, c)
  <2>1. comp' = [comp EXCEPT ![i] = c] /\ UNCHANGED <<requests, mapped>>
        /\ timeouts' = InsertTimeout(i, c) /\ KernelOK'
    BY <1>3 DEF AwaitSleep, KernelOK, TypeOK, kernel
  <2> QED
    BY <1>0, <2>1 DEF RegistryOK, TypeOK, Used
<1>4. CASE AwaitConnect(i, c)
  <2>0. <<c.fd, "writes">> \in Queue /\ c.fd \in Fd
    BY DEF Used, Queue, Side
  <2>1. KernelOK'
    <3>1. errno' \in {"EINPROGRESS", "other"}
      BY <1>4 DEF AwaitConnect, TypeOK
    <3>2. sock' \in [Fd -> {"open", "idle", "connecting", "failed", "hup", "closed"}]
      BY <1>4, <2>0 DEF AwaitConnect, Established, TypeOK, kernel
    <3>3. ready' = ready \/ ready' = ready \cup {<<c.fd, "writes">>}
      BY <1>4 DEF AwaitConnect, Established, kernel
    <3> QED
      BY <2>0, <3>1, <3>2, <3>3 DEF KernelOK, TypeOK
  <2>2. \/ Park(i, c, InsertTimeout(i, c))
        \/ ResumeWith(i, c, timeouts, "error")
        \/ ResumeWith(i, c, timeouts, "none")
    BY <1>4 DEF AwaitConnect
  <2> QED
    BY <1>0, <2>1, <2>2, ParkType, ResumeType
<1>5. CASE AwaitReady(i, c)
  <2>1. Park(i, c, InsertTimeout(i, c)) /\ KernelOK'
    BY <1>5 DEF AwaitReady, KernelOK, TypeOK, kernel
  <2> QED
    BY <1>0, <2>1, ParkType
<1> QED
  BY <1>1, <1>2, <1>3, <1>4, <1>5 DEF AwaitSuspend

(* What cancel_iop leaves of the queues. *)
LEMMA CancelIopType ==
  ASSUME TypeOK, NEW i \in Iop, comp[i].st \in {"suspended", "resumed"}, CancelIop(i)
  PROVE  requests' \in [Queue -> Seq(Iop)] /\ mapped' \subseteq Fd
<1>1. CASE comp[i].kind \in {"close", "sleep"}
  BY <1>1 DEF CancelIop, TypeOK
<1>2. CASE comp[i].kind \notin {"close", "sleep"}
  <2> DEFINE q == QueueOf(comp[i])
  <2>1. q \in Queue /\ comp[i].fd \in Fd
    BY DEF TypeOK, QueueOf, Queue, Side
  <2>2. /\ requests' = [requests EXCEPT ![q] = RemoveFirst(requests[q], i)]
        /\ mapped' = mapped \cup {comp[i].fd}
    BY <1>2 DEF CancelIop
  <2> HIDE DEF q
  <2>3. RemoveFirst(requests[q], i) \in Seq(Iop)
    BY <2>1, RemoveFirstRange DEF TypeOK
  <2> QED
    BY <2>1, <2>2, <2>3 DEF TypeOK
<1> QED
  BY <1>1, <1>2

(* The members of poll_warden keep their types, whatever is awaited. *)
THEOREM PollTypeCorrect == Spec => []TypeOK
<1>1. Init => TypeOK
  BY DEF Init, TypeOK, Completion, Unused, Queue, Entry
<1>2. TypeOK /\ [Next]_vars => TypeOK'
  <2> SUFFICES ASSUME TypeOK, [Next]_vars PROVE TypeOK'
    OBVIOUS
  <2> USE DEF Entry
  <2>1. ASSUME NEW i \in Iop, NEW k \in Kind, NEW f \in Fd, NEW d \in Deadlines(k),
               Await(i, k, f, d)
        PROVE  TypeOK'
    <3> DEFINE c == [st |-> "suspended", kind |-> k, fd |-> f,
                     deadline |-> d, result |-> "none"]
    <3>1. d \in Int \cup {NoDeadline}
      <4>1. \A t \in Timeout : now + t \in Int
        BY DEF TypeOK
      <4> QED
        BY <4>1 DEF Deadlines
    <3>2. Used(c)
      BY <3>1 DEF Used, Completion
    <3>3. AwaitSuspend(i, c)
      BY <2>1 DEF Await
    <3>4. RegistryOK' /\ KernelOK'
      BY <3>2, <3>3, AwaitType
    <3> QED
      BY <2>1, <3>4 DEF TypeOK, RegistryOK, KernelOK, Await, loop, async
  <2>2. ASSUME NEW i \in Iop, Destruct(i) PROVE TypeOK'
    <3>1. timeouts' \in Seq(Entry)
      BY <2>2, CancelTimeoutRange DEF Destruct, TypeOK
    <3>2. requests' \in [Queue -> Seq(Iop)] /\ mapped' \subseteq Fd
      BY <2>2, CancelIopType DEF Destruct
    <3>3. /\ comp' \in [Iop -> Completion]
          /\ \A j \in Iop : comp'[j].st \in {"suspended", "resumed"} =>
               comp'[j].kind \in Kind /\ comp'[j].fd \in Fd
      BY <2>2 DEF Destruct, TypeOK, Unused, Completion
    <3> QED
      BY <2>2, <3>1, <3>2, <3>3 DEF Destruct, TypeOK, loop, async, kernel
  <2>3. ASSUME NEW f \in Fd, Discard(f) PROVE TypeOK'
    BY <2>3 DEF Discard, TypeOK, loop, async, kernel
  <2>4. ASSUME NEW f \in Fd, CloseFd(f) PROVE TypeOK'
    BY <2>4 DEF CloseFd, Closed, TypeOK, loop, async
  <2>5. ASSUME NEW f \in Fd, NEW s \in NewSock, OpenFd(f, s) PROVE TypeOK'
    BY <2>5 DEF OpenFd, TypeOK, loop, async
  <2>6. ASSUME NEW h1 \in Handle \cup {Null}, NEW h2 \in Handle \cup {Null},
               AsyncResume(h1, h2)
        PROVE  TypeOK'
    <3> DEFINE hs == (IF h1 = Null THEN <<>> ELSE <<h1>>)
                       \o (IF h2 = Null THEN <<>> ELSE <<h2>>)
    <3>1. hs \in Seq(Handle)
      OBVIOUS
    <3>2. queued' = queued \o hs
      BY <2>6 DEF AsyncResume
    <3>3. queued' \in Seq(Handle)
      BY <3>1, <3>2, ConcatProperties DEF TypeOK
    <3>4. pipe' \in 0..PipeCap
      BY <2>6 DEF AsyncResume, Wake, TypeOK
    <3>5. errno' \in {"EINPROGRESS", "other"}
      BY <2>6 DEF AsyncResume, WakeErrno, TypeOK
    <3> QED
      BY <2>6, <3>3, <3>4, <3>5 DEF AsyncResume, TypeOK, loop, kernel
  <2>7. CASE FinishPrimary
    BY <2>7 DEF FinishPrimary, TypeOK, async, kernel
  <2>8. CASE UserReturn
    BY <2>8 DEF UserReturn, TypeOK, async, kernel
  <2>9. CASE RunUntil \/ RunBatch
    BY <2>9 DEF RunUntil, RunBatch, TypeOK, async, kernel
  <2>10. CASE ClearTimeout
    <3> DEFINE i == Head(timeouts).iop
    <3>1. timeouts # <<>>
      BY <2>10 DEF ClearTimeout, EarliestDue
    <3>2. i \in Iop /\ Tail(timeouts) \in Seq(Entry)
      <4>1. timeouts \in Seq(Entry)
        BY DEF TypeOK
      <4>2. Head(timeouts) \in Entry /\ Tail(timeouts) \in Seq(Entry)
        BY <3>1, <4>1, HeadTailProperties
      <4> QED
        BY <4>2
    <3>3. TimedOut(i)
      BY <2>10 DEF ClearTimeout
    <3> HIDE DEF i
    <3>4. CASE Suspended(i)
      <4>1. CancelIop(i)
        BY <3>3, <3>4 DEF TimedOut
      <4>2. requests' \in [Queue -> Seq(Iop)] /\ mapped' \subseteq Fd
        BY <3>2, <3>4, <4>1, CancelIopType DEF Suspended
      <4>3. /\ comp' \in [Iop -> Completion]
            /\ \A j \in Iop : comp'[j].st \in {"suspended", "resumed"} =>
                 comp'[j].kind \in Kind /\ comp'[j].fd \in Fd
        <5> DEFINE r == IF comp[i].kind = "sleep" THEN "none" ELSE "timeout"
                   d == [comp[i] EXCEPT !.st = "resumed", !.result = r]
        <5>1. comp' = [comp EXCEPT ![i] = d]
          BY <3>3, <3>4 DEF TimedOut
        <5>2. comp[i] \in Completion /\ comp[i].kind \in Kind /\ comp[i].fd \in Fd
          BY <3>2, <3>4 DEF TypeOK, Suspended
        <5>3. d \in Completion /\ d.kind \in Kind /\ d.fd \in Fd
          BY <5>2 DEF Completion
        <5> HIDE DEF d
        <5> QED
          BY <3>2, <5>1, <5>3 DEF TypeOK
      <4> QED
        BY <2>10, <3>2, <3>3, <3>4, <4>2, <4>3
        DEF TimedOut, TypeOK, async, kernel
    <3>5. CASE ~Suspended(i)
      BY <3>2, <3>3, <3>5 DEF TimedOut, TypeOK, async, kernel
    <3> QED
      BY <3>4, <3>5
  <2>11. CASE TimeoutsCleared
    <3>1. until' \in Int
      <4>1. now + PollWait * Ms \in Int /\ now \in Int
        BY PollWaitInt DEF TypeOK
      <4> HIDE DEF PollWait
      <4> QED
        BY <2>11, <4>1 DEF TimeoutsCleared, TypeOK
    <3> QED
      BY <2>11, <3>1 DEF TimeoutsCleared, TypeOK, async, kernel
  <2>12. CASE PollReady
    <3>1. \A q \in Queue : requests[q] \in Seq(Iop) /\ <<>> \in Seq(Iop)
      BY EmptySeq DEF TypeOK
    <3>2. continuations' \in [Queue -> Seq(Iop)] /\ requests' \in [Queue -> Seq(Iop)]
      BY <2>12, <3>1 DEF PollReady
    <3>3. pipe' \in 0..PipeCap /\ errno' \in {"EINPROGRESS", "other"}
      BY <2>12 DEF PollReady, TypeOK
    <3> QED
      BY <2>12, <3>2, <3>3 DEF PollReady, TypeOK, kernel
  <2>13. CASE PollTimesOut \/ PollInterrupted
    <3>1. PollReturns /\ errno' \in {"EINPROGRESS", "other"}
      BY <2>13 DEF PollTimesOut, PollInterrupted, TypeOK
    <3> QED
      BY <3>1 DEF PollReturns, TypeOK, async, kernel
  <2>14. CASE PollThrows
    BY <2>14 DEF PollThrows, TypeOK, async, kernel
  <2>15. ASSUME NEW q \in Queue, Dispatch(q) PROVE TypeOK'
    <3> DEFINE i == Head(continuations[q])
    <3>1. continuations[q] \in Seq(Iop) /\ continuations[q] # <<>>
      BY <2>15 DEF Dispatch, FirstWoken, TypeOK
    <3>2. i \in Iop /\ Tail(continuations[q]) \in Seq(Iop)
      BY <3>1, HeadTailProperties
    <3>3. continuations' \in [Queue -> Seq(Iop)]
      BY <2>15, <3>2 DEF Dispatch, TypeOK
    <3>4. CASE Suspended(i)
      <4>1. TryOrResume(i, comp[i]) /\ UNCHANGED pc /\ user' = (comp'[i].st = "resumed")
        BY <2>15, <3>4 DEF Dispatch
      <4>2. Used(comp[i])
        BY <3>2, <3>4 DEF Used, Suspended, TypeOK
      <4>3. timeouts \in Seq(Entry)
        BY DEF TypeOK
      <4> HIDE DEF i
      <4>4. RegistryOK' /\ KernelOK'
        BY <3>2, <4>1, <4>2, <4>3, TryType DEF TryOrResume
      <4>5. user' \in BOOLEAN
        BY <4>1, Zenon
      <4> QED
        BY <2>15, <3>3, <4>1, <4>4, <4>5
        DEF Dispatch, TypeOK, RegistryOK, KernelOK, async
    <3>5. CASE ~Suspended(i)
      BY <2>15, <3>3, <3>5 DEF Dispatch, TypeOK, async, kernel
    <3> QED
      BY <3>4, <3>5
  <2>16. CASE SwapQueues
    BY <2>16 DEF SwapQueues, TypeOK, kernel
  <2>17. CASE ResumeNext
    <3>1. Tail(resuming) \in Seq(Handle)
      BY <2>17, HeadTailProperties DEF ResumeNext, TypeOK
    <3> QED
      BY <2>17, <3>1 DEF ResumeNext, TypeOK, kernel
  <2>18. CASE ResumedAll
    BY <2>18 DEF ResumedAll, TypeOK, async, kernel
  <2>19. CASE Tick
    BY <2>19 DEF Tick, TypeOK, loop, async, kernel
  <2>20. ASSUME NEW q \in Queue, PeerActs(q) PROVE TypeOK'
    <3>1. q[1] \in Fd /\ <<q[1], "writes">> \in Queue
      BY DEF Queue, Side
    <3> QED
      BY <2>20, <3>1 DEF PeerActs, Established, TypeOK, loop, async
  <2>21. CASE UNCHANGED vars
    BY <2>21 DEF vars, TypeOK, loop, async, kernel
  <2> QED
    BY <2>1, <2>2, <2>3, <2>4, <2>5, <2>6, <2>7, <2>8, <2>9, <2>10, <2>11, <2>12,
       <2>13, <2>14, <2>15, <2>16, <2>17, <2>18, <2>19, <2>20, <2>21
    DEF Next, User, Loop, Environment
<1> QED
  BY <1>1, <1>2, PTL DEF Spec

-----------------------------------------------------------------------------
(* Pointers.                                                               *)

(* The queues R, the continuations C and the deadlines ts are right about   *)
(* every completion but i, and i waits in no queue.                         *)
Others(i, R, C, ts) ==
  /\ \A q \in Queue :
       /\ IsInjective(R[q]) /\ IsInjective(C[q])
       /\ Range(R[q]) \cap Range(C[q]) = {}
       /\ \A j \in Range(R[q]) \cup Range(C[q]) : j # i /\ Waiting(j, q)
  /\ Distinct(ts)
  /\ \A t \in Range(ts) : t.iop # i => Suspended(t.iop) /\ comp[t.iop].deadline = t.at
  /\ \A j \in Iop \ {i} : Suspended(j) =>
       /\ comp[j].kind # "sleep" =>
            j \in Range(R[QueueOf(comp[j])]) \cup Range(C[QueueOf(comp[j])])
       /\ comp[j].deadline # NoDeadline =>
            [at |-> comp[j].deadline, iop |-> j] \in Range(ts)

(* An entry of the timeouts is to a completion. *)
LEMMA EntryIop ==
  ASSUME NEW ts \in Seq(Entry)
  PROVE  \A t \in Range(ts) : t.iop \in Iop
<1>1. Range(ts) \subseteq Entry
  BY RangeOfSeq
<1> QED
  BY <1>1 DEF Entry

(* A completion that is resumed or deleted leaves nothing behind. *)
LEMMA GoneSafe ==
  ASSUME TypeOK, NEW i \in Iop, NEW d, comp' = [comp EXCEPT ![i] = d],
         d.st # "suspended",
         requests' \in [Queue -> Seq(Iop)], continuations' \in [Queue -> Seq(Iop)],
         timeouts' \in Seq(Entry),
         Others(i, requests', continuations', timeouts'),
         \A t \in Range(timeouts') : t.iop # i
  PROVE  PointersLive' /\ Registered'
<1>1. \A j \in Iop \ {i} : comp'[j] = comp[j]
  BY DEF TypeOK
<1>2. comp'[i].st # "suspended"
  BY DEF TypeOK
<1>3. \A q \in Queue : Range(requests'[q]) \subseteq Iop /\ Range(continuations'[q]) \subseteq Iop
  BY RangeOfSeq
<1>4. \A t \in Range(timeouts') : t.iop \in Iop \ {i}
  BY EntryIop
<1>5. \A q \in Queue : \A j \in Range(requests'[q]) \cup Range(continuations'[q]) :
        Waiting(j, q)'
  BY <1>1, <1>3 DEF Others, Waiting, Suspended, QueueOf
<1>6. \A t \in Range(timeouts') : Suspended(t.iop)' /\ comp'[t.iop].deadline = t.at
  BY <1>1, <1>4 DEF Others, Suspended
<1>7. PointersLive'
  BY <1>5, <1>6 DEF PointersLive, Others, Distinct
<1>8. Registered'
  BY <1>1, <1>2 DEF Registered, Others, Suspended, QueueOf
<1> QED
  BY <1>7, <1>8

(* A completion that is parked waits in one place, with its deadline. *)
LEMMA ParkSafe ==
  ASSUME TypeOK, NEW i \in Iop, NEW c, Used(c), c.st = "suspended",
         c.kind \notin {"sleep", "close"},
         continuations' \in [Queue -> Seq(Iop)],
         NEW ts \in Seq(Entry), Park(i, c, ts),
         Others(i, requests, continuations', ts),
         \A t \in Range(ts) : t.iop = i => t.at = c.deadline,
         c.deadline # NoDeadline => [at |-> c.deadline, iop |-> i] \in Range(ts)
  PROVE  PointersLive' /\ Registered'
<1> DEFINE p == QueueOf(c)
<1>1. /\ comp' = [comp EXCEPT ![i] = c] /\ timeouts' = ts
      /\ requests' = [requests EXCEPT ![p] = Append(requests[p], i)]
  BY DEF Park
<1>2. p \in Queue /\ requests[p] \in Seq(Iop)
  BY DEF TypeOK, Used, QueueOf, Queue, Side
<1>3. /\ comp'[i] = c
      /\ \A j \in Iop \ {i} : comp'[j] = comp[j]
  BY <1>1 DEF TypeOK
<1>4. QueueOf(comp'[i]) = p
  BY <1>3
<1> HIDE DEF p
<1>5. /\ \A q \in Queue \ {p} : requests'[q] = requests[q]
      /\ requests'[p] = Append(requests[p], i)
  BY <1>1, <1>2 DEF TypeOK
<1>6. i \notin Range(requests[p]) /\ IsInjective(requests[p])
  BY <1>2 DEF Others
<1>7. /\ Range(requests'[p]) = Range(requests[p]) \cup {i}
      /\ IsInjective(requests'[p])
  BY <1>2, <1>5, <1>6, AppendRange
<1>8. \A q \in Queue : Range(requests[q]) \subseteq Iop /\ Range(continuations'[q]) \subseteq Iop
  BY RangeOfSeq DEF TypeOK
<1>9. \A q \in Queue : \A j \in Range(requests[q]) \cup Range(continuations'[q]) :
        j # i /\ Waiting(j, q)'
  <2> SUFFICES ASSUME NEW q \in Queue,
                      NEW j \in Range(requests[q]) \cup Range(continuations'[q])
      PROVE j # i /\ Waiting(j, q)'
    OBVIOUS
  <2>1. j # i /\ Waiting(j, q)
    BY DEF Others
  <2>2. comp'[j] = comp[j]
    BY <2>1, <1>3, <1>8
  <2> QED
    BY <2>1, <2>2 DEF Waiting, Suspended, QueueOf
<1>10. Waiting(i, p)'
  BY <1>3, <1>4 DEF Waiting, Suspended
<1>11. \A t \in Range(ts) : Suspended(t.iop)' /\ comp'[t.iop].deadline = t.at
  <2>1. \A t \in Range(ts) : t.iop \in Iop
    BY EntryIop
  <2> QED
    BY <1>3, <2>1 DEF Others, Suspended
<1>12. \A q \in Queue :
         /\ IsInjective(requests'[q]) /\ IsInjective(continuations'[q])
         /\ Range(requests'[q]) \cap Range(continuations'[q]) = {}
         /\ \A j \in Range(requests'[q]) \cup Range(continuations'[q]) : Waiting(j, q)'
  <2> SUFFICES ASSUME NEW q \in Queue
      PROVE  /\ IsInjective(requests'[q]) /\ IsInjective(continuations'[q])
             /\ Range(requests'[q]) \cap Range(continuations'[q]) = {}
             /\ \A j \in Range(requests'[q]) \cup Range(continuations'[q]) : Waiting(j, q)'
    OBVIOUS
  <2>1. CASE q = p
    BY <2>1, <1>7, <1>9, <1>10 DEF Others
  <2>2. CASE q # p
    BY <2>2, <1>5, <1>9 DEF Others
  <2> QED
    BY <2>1, <2>2
<1>13. PointersLive'
  BY <1>1, <1>11, <1>12 DEF PointersLive, Others, Distinct
<1>14. \A q \in Queue : Range(requests[q]) \subseteq Range(requests'[q])
  BY <1>5, <1>7
<1>15. ASSUME NEW j \in Iop, Suspended(j)'
       PROVE  /\ comp'[j].kind # "sleep" =>
                   j \in Range(requests'[QueueOf(comp'[j])])
                            \cup Range(continuations'[QueueOf(comp'[j])])
              /\ comp'[j].deadline # NoDeadline =>
                   [at |-> comp'[j].deadline, iop |-> j] \in Range(timeouts')
  <2>1. CASE j = i
    BY <2>1, <1>1, <1>3, <1>4, <1>7
  <2>2. CASE j # i
    <3>1. comp'[j] = comp[j] /\ Suspended(j)
      BY <2>2, <1>3, <1>15 DEF Suspended
    <3>2. QueueOf(comp[j]) \in Queue
      BY <3>1 DEF TypeOK, Suspended, QueueOf, Queue, Side
    <3> QED
      BY <2>2, <3>1, <3>2, <1>1, <1>14 DEF Others
  <2> QED
    BY <2>1, <2>2
<1>16. Registered'
  BY <1>15 DEF Registered
<1> QED
  BY <1>13, <1>16

(* cancel_timeout_then_resume, of a completion that waits nowhere else. *)
LEMMA ResumeSafe ==
  ASSUME TypeOK, NEW i \in Iop, NEW c, Used(c), NEW ts \in Seq(Entry),
         NEW r \in {"none", "value", "error", "badfd", "timeout"},
         ResumeWith(i, c, ts, r),
         continuations' \in [Queue -> Seq(Iop)],
         Others(i, requests, continuations', ts)
  PROVE  PointersLive' /\ Registered'
<1> DEFINE d == [c EXCEPT !.st = "resumed", !.result = r]
<1>1. d.st # "suspended"
  BY DEF Used, Completion
<1>2. /\ comp' = [comp EXCEPT ![i] = d] /\ requests' = requests
      /\ timeouts' = CancelTimeout(ts, i)
  BY DEF ResumeWith
<1> HIDE DEF d
<1>3. /\ timeouts' \in Seq(Entry) /\ Distinct(timeouts')
      /\ Range(timeouts') = {t \in Range(ts) : t.iop # i}
  BY <1>2, CancelTimeoutRange DEF Others
<1>4. requests' \in [Queue -> Seq(Iop)]
  BY <1>2 DEF TypeOK
<1>5. Others(i, requests', continuations', timeouts')
  BY <1>2, <1>3 DEF Others
<1> QED
  BY <1>1, <1>2, <1>3, <1>4, <1>5, GoneSafe

(* Nothing is known of a completion whose address was never used. *)
LEMMA UnusedOthers ==
  ASSUME TypeOK, PointersLive, Registered, NEW i \in Iop, ~Suspended(i)
  PROVE  /\ Others(i, requests, continuations, timeouts)
         /\ \A t \in Range(timeouts) : t.iop # i
  BY DEF PointersLive, Registered, Others, Waiting, Distinct

(* ... and its deadline does not disturb the others. *)
LEMMA InsertOthers ==
  ASSUME TypeOK, PointersLive, Registered, NEW i \in Iop, ~Suspended(i),
         NEW c, Used(c)
  PROVE  LET ts == InsertTimeout(i, c)
         IN  /\ ts \in Seq(Entry)
             /\ Others(i, requests, continuations, ts)
             /\ \A t \in Range(ts) : t.iop = i => t.at = c.deadline
             /\ c.deadline # NoDeadline =>
                  [at |-> c.deadline, iop |-> i] \in Range(ts)
<1> DEFINE ts == InsertTimeout(i, c)
           e == [at |-> c.deadline, iop |-> i]
<1>1. timeouts \in Seq(Entry) /\ c.deadline \in Int \cup {NoDeadline}
  BY DEF TypeOK, Entry, Used, Completion
<1>2. Others(i, requests, continuations, timeouts) /\ \A t \in Range(timeouts) : t.iop # i
  BY UnusedOthers
<1>3. /\ ts \in Seq(Entry) /\ Distinct(ts)
      /\ Range(ts) = Range(timeouts) \cup (IF c.deadline = NoDeadline THEN {} ELSE {e})
  BY <1>1, <1>2, InsertTimeoutRange DEF Others
<1>4. e.iop = i /\ e.at = c.deadline
  OBVIOUS
<1> HIDE DEF ts, e
<1>5. Others(i, requests, continuations, ts)
  BY <1>2, <1>3, <1>4 DEF Others
<1> QED
  BY <1>2, <1>3, <1>4, <1>5 DEF ts, e

(* Awaiting an IOP. *)
LEMMA AwaitSafe ==
  ASSUME TypeOK, PointersLive, Registered, NEW i \in Iop, ~Suspended(i),
         NEW c, Used(c), c.st = "suspended", AwaitSuspend(i, c),
         UNCHANGED continuations
  PROVE  PointersLive' /\ Registered'
<1> DEFINE ts == InsertTimeout(i, c)
<1>1. /\ ts \in Seq(Entry)
      /\ Others(i, requests, continuations, ts)
      /\ \A t \in Range(ts) : t.iop = i => t.at = c.deadline
      /\ c.deadline # NoDeadline => [at |-> c.deadline, iop |-> i] \in Range(ts)
  BY InsertOthers
<1>2. timeouts \in Seq(Entry) /\ Others(i, requests, continuations, timeouts)
  BY UnusedOthers DEF TypeOK, Entry
<1>3. continuations' \in [Queue -> Seq(Iop)] /\ continuations' = continuations
  BY DEF TypeOK
<1>4. ASSUME Park(i, c, ts), c.kind \notin {"sleep", "close"}
      PROVE  PointersLive' /\ Registered'
  BY <1>1, <1>3, <1>4, ParkSafe
<1>5. ASSUME NEW r \in {"none", "value", "error", "badfd", "timeout"},
             ResumeWith(i, c, timeouts, r) \/ ResumeWith(i, c, ts, r)
      PROVE  PointersLive' /\ Registered'
  BY <1>1, <1>2, <1>3, <1>5, ResumeSafe
<1>6. CASE TryIo(i, c, ts)
  <2>1. c.kind \notin {"sleep", "close"}
    BY <1>6 DEF TryIo, IoKinds
  <2>2. CASE WouldBlock(QueueOf(c))
    BY <1>4, <1>6, <2>1, <2>2 DEF TryIo
  <2>3. CASE ~WouldBlock(QueueOf(c))
    <3>1. ResumeWith(i, c, ts, IoResult(QueueOf(c), c.kind))
      BY <1>6, <2>3 DEF TryIo
    <3>2. IoResult(QueueOf(c), c.kind) \in {"none", "value", "error", "badfd", "timeout"}
      BY DEF IoResult
    <3> QED
      BY <1>5, <3>1, <3>2
  <2> QED
    BY <2>2, <2>3
<1>7. CASE AwaitClose(i, c)
  BY <1>5, <1>7 DEF AwaitClose
<1>8. CASE AwaitSleep(i, c)
  <2>1. /\ c.kind = "sleep" /\ comp' = [comp EXCEPT ![i] = c] /\ timeouts' = ts
        /\ requests' = requests
    BY <1>8 DEF AwaitSleep
  <2>2. comp'[i] = c /\ \A j \in Iop \ {i} : comp'[j] = comp[j]
    BY <2>1 DEF TypeOK
  <2>3. \A t \in Range(ts) : t.iop \in Iop
    BY <1>1, EntryIop
  <2>4. \A q \in Queue : Range(requests[q]) \subseteq Iop /\ Range(continuations[q]) \subseteq Iop
    BY RangeOfSeq DEF TypeOK
  <2> HIDE DEF ts
  <2>5. \A t \in Range(ts) : Suspended(t.iop)' /\ comp'[t.iop].deadline = t.at
    BY <1>1, <2>2, <2>3 DEF Others, Suspended
  <2>6. \A q \in Queue : \A j \in Range(requests[q]) \cup Range(continuations[q]) :
          Waiting(j, q)'
    <3> SUFFICES ASSUME NEW q \in Queue,
                        NEW j \in Range(requests[q]) \cup Range(continuations[q])
        PROVE Waiting(j, q)'
      OBVIOUS
    <3>1. j # i /\ Waiting(j, q)
      BY <1>1 DEF Others
    <3>2. comp'[j] = comp[j]
      BY <3>1, <2>2, <2>4
    <3> QED
      BY <3>1, <3>2 DEF Waiting, Suspended, QueueOf
  <2>7. PointersLive'
    BY <1>1, <1>3, <2>1, <2>5, <2>6 DEF PointersLive, Others, Distinct
  <2>8. Registered'
    BY <1>1, <1>3, <2>1, <2>2 DEF Registered, Others, Suspended
  <2> QED
    BY <2>7, <2>8
<1>9. CASE AwaitConnect(i, c)
  BY <1>4, <1>5, <1>9 DEF AwaitConnect
<1>10. CASE AwaitReady(i, c)
  BY <1>4, <1>10 DEF AwaitReady, ReadyKinds
<1> QED
  BY <1>6, <1>7, <1>8, <1>9, <1>10 DEF AwaitSuspend

(* cancel_iop takes the completion out of the queues, and no other. *)
LEMMA CancelIopRange ==
  ASSUME TypeOK, PointersLive, NEW i \in Iop, comp[i].st \in {"suspended", "resumed"},
         CancelIop(i)
  PROVE  \A q \in Queue : /\ IsInjective(requests'[q])
                          /\ Range(requests'[q]) = Range(requests[q]) \ {i}
<1> SUFFICES ASSUME NEW q \in Queue
    PROVE IsInjective(requests'[q]) /\ Range(requests'[q]) = Range(requests[q]) \ {i}
  OBVIOUS
<1>1. IsInjective(requests[q]) /\ requests[q] \in Seq(Iop)
  BY DEF PointersLive, TypeOK
<1>2. CASE comp[i].kind \in {"close", "sleep"} \/ QueueOf(comp[i]) # q
  <2>1. requests'[q] = requests[q]
    BY <1>2 DEF CancelIop, TypeOK
  <2>2. i \notin Range(requests[q])
    BY <1>2 DEF PointersLive, Waiting
  <2> QED
    BY <1>1, <2>1, <2>2
<1>3. CASE comp[i].kind \notin {"close", "sleep"} /\ QueueOf(comp[i]) = q
  <2>1. requests'[q] = RemoveFirst(requests[q], i)
    BY <1>3 DEF CancelIop, TypeOK
  <2> QED
    BY <1>1, <2>1, RemoveFirstRange
<1> QED
  BY <1>2, <1>3

(* The completion leaves its queue and the deadlines: ~iop, iop_timedout. *)
LEMMA LeaveSafe ==
  ASSUME TypeOK, PointersLive, Registered, NEW i \in Iop,
         comp[i].st \in {"suspended", "resumed"}, CancelIop(i),
         \A q \in Queue : i \notin Range(continuations[q]),
         UNCHANGED continuations,
         NEW d, comp' = [comp EXCEPT ![i] = d], d.st # "suspended",
         timeouts' \in Seq(Entry), Distinct(timeouts'),
         Range(timeouts') = {t \in Range(timeouts) : t.iop # i}
  PROVE  PointersLive' /\ Registered'
<1>1. \A q \in Queue : /\ IsInjective(requests'[q])
                       /\ Range(requests'[q]) = Range(requests[q]) \ {i}
  BY CancelIopRange
<1>2. requests' \in [Queue -> Seq(Iop)] /\ continuations' \in [Queue -> Seq(Iop)]
  BY CancelIopType DEF TypeOK
<1>3. \A j \in Iop : Suspended(j) => QueueOf(comp[j]) \in Queue
  BY DEF TypeOK, Suspended, QueueOf, Queue, Side
<1>4. \A q \in Queue :
        /\ IsInjective(requests'[q]) /\ IsInjective(continuations'[q])
        /\ Range(requests'[q]) \cap Range(continuations'[q]) = {}
        /\ \A j \in Range(requests'[q]) \cup Range(continuations'[q]) :
             j # i /\ Waiting(j, q)
  <2> TAKE q \in Queue
  <2>1. /\ IsInjective(requests'[q]) /\ continuations'[q] = continuations[q]
        /\ Range(requests'[q]) = Range(requests[q]) \ {i}
        /\ i \notin Range(continuations[q])
    BY <1>1
  <2>2. /\ IsInjective(continuations[q])
        /\ Range(requests[q]) \cap Range(continuations[q]) = {}
        /\ \A j \in Range(requests[q]) \cup Range(continuations[q]) : Waiting(j, q)
    BY DEF PointersLive
  <2> QED
    BY <2>1, <2>2
<1>5. \A j \in Iop \ {i} : Suspended(j) =>
        /\ comp[j].kind # "sleep" =>
             j \in Range(requests'[QueueOf(comp[j])])
                     \cup Range(continuations'[QueueOf(comp[j])])
        /\ comp[j].deadline # NoDeadline =>
             [at |-> comp[j].deadline, iop |-> j] \in Range(timeouts')
  BY <1>1, <1>3 DEF Registered
<1>6. \A t \in Range(timeouts') : t.iop # i /\ Suspended(t.iop)
                                    /\ comp[t.iop].deadline = t.at
  BY DEF PointersLive
<1>7. Others(i, requests', continuations', timeouts')
  BY <1>4, <1>5, <1>6 DEF Others
<1> QED
  BY <1>2, <1>6, <1>7, GoneSafe

(* One turn of the loop over the continuations, when it is not a connect's. *)
LEMMA DispatchSafe ==
  ASSUME TypeOK, PointersLive, Registered, NEW q \in Queue, Dispatch(q),
         "connect" \notin Kind
  PROVE  PointersLive' /\ Registered' /\ pc' = pc
<1> DEFINE i == Head(continuations[q])
<1>1. continuations[q] \in Seq(Iop) /\ continuations[q] # <<>>
  BY DEF Dispatch, FirstWoken, TypeOK
<1>2. /\ i \in Iop /\ Tail(continuations[q]) \in Seq(Iop)
      /\ Range(continuations[q]) = Range(Tail(continuations[q])) \cup {i}
      /\ IsInjective(Tail(continuations[q])) /\ i \notin Range(Tail(continuations[q]))
  BY <1>1, TailRange DEF PointersLive
<1>3. Waiting(i, q)
  BY <1>2 DEF PointersLive
<1>4. TryOrResume(i, comp[i]) /\ pc' = pc
  BY <1>3 DEF Dispatch, Waiting
<1>5. /\ continuations' \in [Queue -> Seq(Iop)]
      /\ continuations'[q] = Tail(continuations[q])
      /\ \A p \in Queue \ {q} : continuations'[p] = continuations[p]
  BY <1>2 DEF Dispatch, TypeOK
<1>6. Used(comp[i]) /\ comp[i].st = "suspended"
  BY <1>2, <1>3 DEF Used, Waiting, Suspended, TypeOK
<1>7. timeouts \in Seq(Entry)
  BY DEF TypeOK, Entry
<1> HIDE DEF i
<1>8. \A p \in Queue :
        /\ IsInjective(requests[p]) /\ IsInjective(continuations'[p])
        /\ Range(requests[p]) \cap Range(continuations'[p]) = {}
        /\ \A j \in Range(requests[p]) \cup Range(continuations'[p]) :
             j # i /\ Waiting(j, p)
  <2> TAKE p \in Queue
  <2>0. /\ IsInjective(requests[p]) /\ IsInjective(continuations[p])
        /\ Range(requests[p]) \cap Range(continuations[p]) = {}
        /\ \A j \in Range(requests[p]) \cup Range(continuations[p]) : Waiting(j, p)
    BY DEF PointersLive
  <2>1. CASE p = q
    BY <2>0, <2>1, <1>2, <1>5
  <2>2. CASE p # q
    <3>1. i \notin Range(requests[p]) \cup Range(continuations[p])
      BY <2>0, <2>2, <1>3 DEF Waiting
    <3> QED
      BY <2>0, <2>2, <3>1, <1>5
  <2> QED
    BY <2>1, <2>2
<1>9. \A j \in Iop \ {i} : Suspended(j) =>
        /\ comp[j].kind # "sleep" =>
             j \in Range(requests[QueueOf(comp[j])])
                     \cup Range(continuations'[QueueOf(comp[j])])
        /\ comp[j].deadline # NoDeadline =>
             [at |-> comp[j].deadline, iop |-> j] \in Range(timeouts)
  <2>1. \A j \in Iop : Suspended(j) => QueueOf(comp[j]) \in Queue
    BY DEF TypeOK, Suspended, QueueOf, Queue, Side
  <2>2. \A p \in Queue : Range(continuations[p]) \subseteq Range(continuations'[p]) \cup {i}
    BY <1>2, <1>5
  <2> QED
    BY <2>1, <2>2 DEF Registered
<1>10. Others(i, requests, continuations', timeouts)
  BY <1>8, <1>9 DEF Others, PointersLive, Distinct
<1>11. CASE TryIo(i, comp[i], timeouts)
  <2>1. CASE WouldBlock(QueueOf(comp[i]))
    <3>1. Park(i, comp[i], timeouts)
      BY <1>11, <2>1 DEF TryIo
    <3>2. comp[i].kind \notin {"sleep", "close"}
      BY <1>3 DEF Waiting
    <3>3. /\ \A t \in Range(timeouts) : t.iop = i => t.at = comp[i].deadline
          /\ comp[i].deadline # NoDeadline =>
               [at |-> comp[i].deadline, iop |-> i] \in Range(timeouts)
      BY <1>2, <1>6 DEF PointersLive, Registered, Suspended
    <3> DEFINE c == comp[i]
    <3>4. /\ Park(i, c, timeouts) /\ Used(c) /\ c.st = "suspended"
          /\ c.kind \notin {"sleep", "close"}
          /\ \A t \in Range(timeouts) : t.iop = i => t.at = c.deadline
          /\ c.deadline # NoDeadline =>
               [at |-> c.deadline, iop |-> i] \in Range(timeouts)
      BY <1>6, <3>1, <3>2, <3>3
    <3> HIDE DEF c
    <3>5. i \in Iop /\ continuations' \in [Queue -> Seq(Iop)]
      BY <1>2, <1>5
    <3>6. PointersLive' /\ Registered'
      BY ONLY TypeOK, <1>7, <1>10, <3>4, <3>5, ParkSafe
    <3> QED
      BY <1>4, <3>6
  <2>2. CASE ~WouldBlock(QueueOf(comp[i]))
    <3>1. ResumeWith(i, comp[i], timeouts, IoResult(QueueOf(comp[i]), comp[i].kind))
      BY <1>11, <2>2 DEF TryIo
    <3>2. IoResult(QueueOf(comp[i]), comp[i].kind)
            \in {"none", "value", "error", "badfd", "timeout"}
      BY DEF IoResult
    <3> QED
      BY <1>2, <1>4, <1>5, <1>6, <1>7, <1>10, <3>1, <3>2, ResumeSafe
  <2> QED
    BY <2>1, <2>2
<1>12. CASE TryReady(i, comp[i])
  <2>1. ResumeWith(i, comp[i], timeouts, "none")
    BY <1>12 DEF TryReady
  <2> QED
    BY <1>2, <1>4, <1>5, <1>6, <1>7, <1>10, <2>1, ResumeSafe
<1>13. ~TryConnect(i, comp[i])
  BY <1>6 DEF TryConnect, Used
<1> QED
  BY <1>4, <1>11, <1>12, <1>13 DEF TryOrResume

(* The loop over the continuations runs to its end: none is left over. *)
Dispatched == pc # "dispatch" => \A q \in Queue : continuations[q] = <<>>

(* The inductive invariant of the warden's pointers. *)
PollInv == TypeOK /\ PointersLive /\ Registered /\ Dispatched /\ NoUndefined

(* The pointers are looked at only through the state below. *)
LEMMA PollInvFrame ==
  ASSUME PollInv, TypeOK', UNCHANGED <<comp, requests, continuations, timeouts>>,
         pc' # "undefined", pc' # "dispatch" =>
           pc # "dispatch" \/ \A q \in Queue : continuations[q] = <<>>
  PROVE  PollInv'
<1>1. PointersLive'
  BY DEF PollInv, PointersLive, Waiting, Suspended
<1>2. Registered'
  BY DEF PollInv, Registered, Suspended
<1>3. Dispatched' /\ NoUndefined'
  BY DEF PollInv, Dispatched, NoUndefined
<1> QED
  BY <1>1, <1>2, <1>3 DEF PollInv

(* Neither the loop nor a destructor follows a pointer to a completion that *)
(* is gone, and every pointer kept is to a suspended completion - provided  *)
(* that no coroutine destroys an IOP that has just been polled ready, and   *)
(* that there is no connect.                                                *)
THEOREM PollPointersSafe ==
  ASSUME "connect" \notin Kind, CancelsWoken = FALSE
  PROVE  Spec => [](NoUndefined /\ PointersLive)
<1>1. Init => PollInv
  <2> SUFFICES ASSUME Init PROVE PollInv
    OBVIOUS
  <2>1. TypeOK
    BY DEF Init, TypeOK, Completion, Unused, Queue, Entry
  <2>2. Range(<<>>) = {} /\ IsInjective(<<>>)
    BY DEF Range, IsInjective
  <2>3. PointersLive
    BY <2>2 DEF Init, PointersLive
  <2>4. Registered /\ Dispatched /\ NoUndefined
    BY DEF Init, Registered, Dispatched, NoUndefined, Suspended, Unused
  <2> QED
    BY <2>1, <2>3, <2>4 DEF PollInv
<1>2. PollInv /\ TypeOK' /\ [Next]_vars => PollInv'
  <2> SUFFICES ASSUME PollInv, TypeOK', [Next]_vars PROVE PollInv'
    OBVIOUS
  <2>0. TypeOK /\ PointersLive /\ Registered /\ Dispatched /\ NoUndefined
    BY DEF PollInv
  <2>1. ASSUME NEW i \in Iop, NEW k \in Kind, NEW f \in Fd, NEW d \in Deadlines(k),
               Await(i, k, f, d)
        PROVE  PollInv'
    <3> DEFINE c == [st |-> "suspended", kind |-> k, fd |-> f,
                     deadline |-> d, result |-> "none"]
    <3>1. d \in Int \cup {NoDeadline}
      <4>1. \A t \in Timeout : now + t \in Int
        BY <2>0 DEF TypeOK
      <4> QED
        BY <4>1 DEF Deadlines
    <3>2. Used(c) /\ c.st = "suspended"
      BY <3>1 DEF Used, Completion
    <3>3. /\ AwaitSuspend(i, c) /\ ~Suspended(i)
          /\ continuations' = continuations /\ pc' = pc
      BY <2>1 DEF Await, Suspended, loop
    <3> HIDE DEF c
    <3>4. PointersLive' /\ Registered'
      BY <2>0, <3>2, <3>3, AwaitSafe
    <3> QED
      BY <2>0, <3>3, <3>4 DEF PollInv, Dispatched, NoUndefined
  <2>2. ASSUME NEW i \in Iop, Destruct(i) PROVE PollInv'
    <3> DEFINE d == [Unused EXCEPT !.st = "deleted"]
    <3>1. /\ comp[i].st \in {"suspended", "resumed"} /\ CancelIop(i)
          /\ continuations' = continuations /\ pc' = pc
          /\ comp' = [comp EXCEPT ![i] = d] /\ timeouts' = CancelTimeout(timeouts, i)
          /\ \A q \in Queue : ~Contains(continuations[q], i)
      BY <2>2 DEF Destruct, loop
    <3>2. \A q \in Queue : i \notin Range(continuations[q])
      <4>1. \A q \in Queue : DOMAIN continuations[q] = 1..Len(continuations[q])
        BY <2>0, LenProperties DEF TypeOK
      <4> QED
        BY <3>1, <4>1 DEF Contains, Range
    <3>3. d.st # "suspended"
      BY DEF Unused
    <3>4. timeouts \in Seq(Entry) /\ Distinct(timeouts)
      BY <2>0 DEF TypeOK, PointersLive, Distinct, Entry
    <3>5. /\ timeouts' \in Seq(Entry) /\ Distinct(timeouts')
          /\ Range(timeouts') = {t \in Range(timeouts) : t.iop # i}
      BY <3>1, <3>4, CancelTimeoutRange
    <3> HIDE DEF d
    <3>6. PointersLive' /\ Registered'
      BY <2>0, <3>1, <3>2, <3>3, <3>5, LeaveSafe
    <3> QED
      BY <2>0, <3>1, <3>6 DEF PollInv, Dispatched, NoUndefined
  <2>3. CASE ClearTimeout
    <3> DEFINE i == Head(timeouts).iop
               r == IF comp[i].kind = "sleep" THEN "none" ELSE "timeout"
               d == [comp[i] EXCEPT !.st = "resumed", !.result = r]
    <3>1. timeouts # <<>> /\ pc = "timeouts" /\ TimedOut(i) /\ timeouts \in Seq(Entry)
      BY <2>0, <2>3 DEF ClearTimeout, EarliestDue, TypeOK, Entry
    <3>2. /\ Head(timeouts) \in Entry /\ Tail(timeouts) \in Seq(Entry)
          /\ Len(Tail(timeouts)) = Len(timeouts) - 1
          /\ \A n \in 1..Len(Tail(timeouts)) : Tail(timeouts)[n] = timeouts[n + 1]
          /\ Range(timeouts) = Range(Tail(timeouts)) \cup {Head(timeouts)}
      BY <3>1, HeadTailProperties, TailRange
    <3>3. i \in Iop /\ Suspended(i)
      BY <2>0, <3>2 DEF Entry, PointersLive
    <3>4. /\ CancelIop(i) /\ continuations' = continuations /\ pc' = pc
          /\ comp' = [comp EXCEPT ![i] = d] /\ timeouts' = Tail(timeouts)
      BY <3>1, <3>3 DEF TimedOut
    <3>5. comp[i].st \in {"suspended", "resumed"} /\ d.st # "suspended"
      BY <2>0, <3>3 DEF Suspended, TypeOK, Completion
    <3>6. \A q \in Queue : i \notin Range(continuations[q])
      BY <2>0, <3>1 DEF Dispatched, Range
    <3>7. Distinct(timeouts) /\ Len(timeouts) \in Nat \ {0}
      BY <2>0, <3>1, EmptySeq DEF PointersLive, Distinct
    <3>8. /\ DOMAIN timeouts = 1..Len(timeouts) /\ Head(timeouts) = timeouts[1]
          /\ DOMAIN Tail(timeouts) = 1..(Len(timeouts) - 1)
      BY <3>1, <3>2, LenProperties
    <3>9. \A n \in DOMAIN Tail(timeouts) :
            n + 1 \in DOMAIN timeouts /\ Tail(timeouts)[n] = timeouts[n + 1] /\ n + 1 # 1
      BY <3>2, <3>7, <3>8
    <3>10. \A m, n \in DOMAIN Tail(timeouts) : m + 1 = n + 1 => m = n
      BY <3>8
    <3>11. Distinct(timeouts')
      BY <3>4, <3>7, <3>9, <3>10 DEF Distinct
    <3>12. \A t \in Range(Tail(timeouts)) : t.iop # i
      <4>1. 1 \in DOMAIN timeouts
        BY <3>7, <3>8
      <4> QED
        BY <3>7, <3>8, <3>9, <4>1 DEF Distinct, Range
    <3>13. Range(timeouts') = {t \in Range(timeouts) : t.iop # i}
      BY <3>2, <3>4, <3>12
    <3> HIDE DEF i, d
    <3>14. PointersLive' /\ Registered'
      BY <2>0, <3>2, <3>3, <3>4, <3>5, <3>6, <3>11, <3>13, LeaveSafe
    <3> QED
      BY <2>0, <3>4, <3>14 DEF PollInv, Dispatched, NoUndefined
  <2>4. CASE PollReady
    <3>1. /\ \A q \in Queue : continuations[q] = <<>>
          /\ pc' = "dispatch" /\ comp' = comp /\ timeouts' = timeouts
      BY <2>0, <2>4 DEF PollReady, Dispatched
    <3>2. \A q \in Queue :
            \/ continuations'[q] = requests[q] /\ requests'[q] = <<>>
            \/ continuations'[q] = <<>> /\ requests'[q] = requests[q]
      BY <2>4 DEF PollReady
    <3>3. Range(<<>>) = {} /\ IsInjective(<<>>)
      BY DEF Range, IsInjective
    <3>4. \A q \in Queue :
            /\ Range(requests'[q]) \cup Range(continuations'[q]) =
                 Range(requests[q]) \cup Range(continuations[q])
            /\ IsInjective(requests'[q]) /\ IsInjective(continuations'[q])
            /\ Range(requests'[q]) \cap Range(continuations'[q]) = {}
      BY <2>0, <3>1, <3>2, <3>3 DEF PointersLive
    <3>5. PointersLive'
      BY <2>0, <3>1, <3>4 DEF PointersLive, Waiting, Suspended
    <3>6. Registered'
      <4>1. \A j \in Iop : Suspended(j) => QueueOf(comp[j]) \in Queue
        BY <2>0 DEF TypeOK, Suspended, QueueOf, Queue, Side
      <4> QED
        BY <2>0, <3>1, <3>4, <4>1 DEF Registered, Suspended
    <3> QED
      BY <3>1, <3>5, <3>6 DEF PollInv, Dispatched, NoUndefined
  <2>5. ASSUME NEW q \in Queue, Dispatch(q) PROVE PollInv'
    <3>1. PointersLive' /\ Registered' /\ pc' = pc /\ pc = "dispatch"
      BY <2>0, <2>5, DispatchSafe DEF Dispatch
    <3> QED
      BY <3>1 DEF PollInv, Dispatched, NoUndefined
  <2>6. ASSUME NEW f \in Fd, Discard(f) \/ CloseFd(f) \/ \E s \in NewSock : OpenFd(f, s)
        PROVE  PollInv'
    <3>1. UNCHANGED <<comp, requests, continuations, timeouts, pc>>
      BY <2>6 DEF Discard, CloseFd, OpenFd, loop
    <3> QED
      BY <2>0, <3>1, PollInvFrame DEF NoUndefined, Dispatched
  <2>7. ASSUME NEW h1 \in Handle \cup {Null}, NEW h2 \in Handle \cup {Null},
               AsyncResume(h1, h2)
        PROVE  PollInv'
    <3>1. UNCHANGED <<comp, requests, continuations, timeouts, pc>>
      BY <2>7 DEF AsyncResume, loop
    <3> QED
      BY <2>0, <3>1, PollInvFrame DEF NoUndefined, Dispatched
  <2>8. CASE FinishPrimary \/ UserReturn \/ RunUntil \/ RunBatch \/ TimeoutsCleared
    <3>1. /\ UNCHANGED <<comp, requests, continuations, timeouts>>
          /\ pc' = pc \/ (pc # "dispatch" /\ pc' # "undefined")
      BY <2>8 DEF FinishPrimary, UserReturn, RunUntil, RunBatch, TimeoutsCleared
    <3> QED
      BY <2>0, <3>1, PollInvFrame DEF NoUndefined, Dispatched
  <2>9. CASE PollTimesOut \/ PollInterrupted \/ PollThrows
    <3>1. /\ UNCHANGED <<comp, requests, continuations, timeouts>>
          /\ pc # "dispatch" /\ pc' # "undefined"
      BY <2>9 DEF PollTimesOut, PollInterrupted, PollReturns, PollThrows
    <3> QED
      BY <3>1, PollInvFrame
  <2>10. CASE SwapQueues \/ ResumeNext \/ ResumedAll
    <3>1. /\ UNCHANGED <<comp, requests, continuations, timeouts>>
          /\ pc' # "undefined"
          /\ pc # "dispatch" \/ \A q \in Queue : continuations[q] = <<>>
      BY <2>10 DEF SwapQueues, ResumeNext, ResumedAll
    <3> QED
      BY <3>1, PollInvFrame
  <2>11. CASE Tick \/ \E q \in Queue : PeerActs(q)
    <3>1. UNCHANGED <<comp, requests, continuations, timeouts, pc>>
      BY <2>11 DEF Tick, PeerActs, loop
    <3> QED
      BY <2>0, <3>1, PollInvFrame DEF NoUndefined, Dispatched
  <2>12. CASE UNCHANGED vars
    <3>1. UNCHANGED <<comp, requests, continuations, timeouts, pc>>
      BY <2>12 DEF vars, loop
    <3> QED
      BY <2>0, <3>1, PollInvFrame DEF NoUndefined, Dispatched
  <2> QED
    BY <2>1, <2>2, <2>3, <2>4, <2>5, <2>6, <2>7, <2>8, <2>9, <2>10, <2>11, <2>12
    DEF Next, User, Loop, Environment
<1>3. PollInv => NoUndefined /\ PointersLive
  BY DEF PollInv
<1> QED
  BY <1>1, <1>2, <1>3, PollTypeCorrect, PTL DEF Spec

-----------------------------------------------------------------------------
(* What a step does to the completions, whichever step it is.              *)

(* Completion i, whose record is c, is left suspended with the deadlines ts. *)
Waits(i, c, ts) ==
  \/ Park(i, c, ts) /\ c.kind \notin {"sleep", "close"}
  \/ /\ c.kind = "sleep"
     /\ comp' = [comp EXCEPT ![i] = c] /\ timeouts' = ts
     /\ UNCHANGED <<requests, mapped>>

(* The coroutine of completion i goes on, but not for its deadline. *)
Resumes(i, c, ts) ==
  \E r \in {"none", "value", "error", "badfd"} :
    /\ c.kind # "sleep" /\ (c.kind \in IoKinds => r # "none")
    /\ ResumeWith(i, c, ts, r)

(* Deadline d is no further away than the longest time out. *)
Near(d) == \E u \in Timeout : d <= now + u

(* A fresh IOP is awaited. *)
Awaited ==
  \E i \in Iop, c \in Completion :
    /\ Used(c) /\ c.st = "suspended" /\ comp[i].st = "unused"
    /\ c.deadline # NoDeadline => Near(c.deadline)
    /\ \/ Waits(i, c, InsertTimeout(i, c))
       \/ Resumes(i, c, timeouts) \/ Resumes(i, c, InsertTimeout(i, c))
    /\ UNCHANGED <<continuations, now, pc>>

(* An IOP is destroyed. *)
Destructed ==
  \E i \in Iop :
    /\ comp[i].st \in {"suspended", "resumed"}
    /\ comp' = [comp EXCEPT ![i] = [Unused EXCEPT !.st = "deleted"]]
    /\ timeouts' = CancelTimeout(timeouts, i)
    /\ CancelIop(i)
    /\ UNCHANGED <<continuations, now, pc>>

(* A deadline is due. *)
Cleared ==
  /\ pc = "timeouts" /\ EarliestDue
  /\ TimedOut(Head(timeouts).iop)

(* The first continuation of queue q is called, or is dead. *)
DispatchOf(q, i) ==
  /\ pc = "dispatch" /\ continuations[q] # <<>> /\ i = Head(continuations[q])
  /\ continuations' = [continuations EXCEPT ![q] = Tail(@)]
  /\ \/ /\ Suspended(i) /\ UNCHANGED pc
        /\ \/ Waits(i, comp[i], timeouts) \/ Waits(i, comp[i], InsertTimeout(i, comp[i]))
           \/ Resumes(i, comp[i], timeouts)
     \/ ~Suspended(i) /\ pc' = "undefined" /\ UNCHANGED <<comp, requests, timeouts>>
  /\ UNCHANGED now

(* poll found events. *)
Polled ==
  /\ pc = "poll" /\ pc' = "dispatch"
  /\ \A q \in Queue :
       \/ continuations'[q] = requests[q] /\ requests'[q] = <<>>
       \/ continuations'[q] = <<>> /\ requests'[q] = requests[q]
  /\ UNCHANGED <<comp, timeouts, now>>

(* The registry is as before, and the clock does not go back. *)
Idle ==
  /\ UNCHANGED <<comp, requests, timeouts, continuations>>
  /\ now' >= now
  /\ \/ pc' = pc
     \/ pc \notin {"dispatch", "undefined"}
     \/ pc = "dispatch" /\ \A q \in Queue : continuations[q] = <<>>

(* A try is of the kind of the completion. *)
LEMMA TryEffects ==
  ASSUME NEW i, NEW c, NEW ts, TryIo(i, c, ts)
  PROVE  Waits(i, c, ts) \/ Resumes(i, c, ts)
<1>1. c.kind \notin {"sleep", "close"} /\ c.kind \in IoKinds
  BY DEF TryIo, IoKinds
<1>2. CASE WouldBlock(QueueOf(c))
  <2>1. Park(i, c, ts)
    BY <1>2 DEF TryIo
  <2> QED
    BY <1>1, <2>1 DEF Waits
<1>3. CASE ~WouldBlock(QueueOf(c))
  <2> DEFINE r == IoResult(QueueOf(c), c.kind)
  <2>1. ResumeWith(i, c, ts, r)
    BY <1>3 DEF TryIo
  <2>2. r \in {"value", "error", "badfd"}
    BY DEF IoResult
  <2> HIDE DEF r
  <2> QED
    BY <1>1, <2>1, <2>2 DEF Resumes
<1> QED
  BY <1>2, <1>3

(* The kinds that have no result. *)
LEMMA ConnectKind ==
  /\ "connect" \notin IoKinds
  /\ \A k \in ReadyKinds : k \notin IoKinds \cup {"sleep", "close"}
  BY DEF IoKinds, ReadyKinds

(* await_suspend, of whichever kind. *)
LEMMA AwaitEffects ==
  ASSUME NEW i, NEW c, AwaitSuspend(i, c)
  PROVE  \/ Waits(i, c, InsertTimeout(i, c))
         \/ Resumes(i, c, timeouts) \/ Resumes(i, c, InsertTimeout(i, c))
<1>1. CASE TryIo(i, c, InsertTimeout(i, c))
  BY <1>1, TryEffects
<1>2. CASE AwaitClose(i, c)
  <2>1. c.kind = "close" /\ ResumeWith(i, c, timeouts, "none")
    BY <1>2 DEF AwaitClose
  <2>2. c.kind \notin IoKinds /\ c.kind # "sleep"
    BY <2>1 DEF IoKinds
  <2> QED
    BY <2>1, <2>2 DEF Resumes
<1>3. CASE AwaitSleep(i, c)
  BY <1>3 DEF AwaitSleep, Waits
<1>4. CASE AwaitConnect(i, c)
  <2>1. c.kind = "connect" /\ c.kind \notin {"sleep", "close"} /\ c.kind \notin IoKinds
    BY <1>4, ConnectKind DEF AwaitConnect
  <2>2. \/ Park(i, c, InsertTimeout(i, c))
        \/ ResumeWith(i, c, timeouts, "error") \/ ResumeWith(i, c, timeouts, "none")
    BY <1>4 DEF AwaitConnect
  <2> QED
    BY <2>1, <2>2 DEF Waits, Resumes
<1>5. CASE AwaitReady(i, c)
  <2>1. Park(i, c, InsertTimeout(i, c)) /\ c.kind \notin {"sleep", "close"}
    BY <1>5, ConnectKind DEF AwaitReady
  <2> QED
    BY <2>1 DEF Waits
<1> QED
  BY <1>1, <1>2, <1>3, <1>4, <1>5 DEF AwaitSuspend

(* try_or_resume, of whichever kind. *)
LEMMA RetryEffects ==
  ASSUME NEW i, NEW c, TryOrResume(i, c)
  PROVE  \/ Waits(i, c, timeouts) \/ Waits(i, c, InsertTimeout(i, c))
         \/ Resumes(i, c, timeouts)
<1>1. CASE TryIo(i, c, timeouts)
  BY <1>1, TryEffects
<1>2. CASE TryConnect(i, c)
  <2>1. c.kind = "connect" /\ c.kind \notin {"sleep", "close"} /\ c.kind \notin IoKinds
    BY <1>2, ConnectKind DEF TryConnect
  <2>2. \/ Park(i, c, InsertTimeout(i, c))
        \/ ResumeWith(i, c, timeouts, "error") \/ ResumeWith(i, c, timeouts, "none")
    BY <1>2 DEF TryConnect
  <2> QED
    BY <2>1, <2>2 DEF Waits, Resumes
<1>3. CASE TryReady(i, c)
  <2>1. ResumeWith(i, c, timeouts, "none") /\ c.kind \notin IoKinds \cup {"sleep", "close"}
    BY <1>3, ConnectKind DEF TryReady
  <2> QED
    BY <2>1 DEF Resumes
<1> QED
  BY <1>1, <1>2, <1>3 DEF TryOrResume

(* Every step is one of these. *)
LEMMA StepEffects ==
  ASSUME TypeOK, [Next]_vars
  PROVE  \/ Awaited \/ Destructed \/ Cleared \/ Polled \/ Idle
         \/ \E q \in Queue, i \in Iop : DispatchOf(q, i)
<1>1. ASSUME NEW i \in Iop, NEW k \in Kind, NEW f \in Fd, NEW d \in Deadlines(k),
             Await(i, k, f, d)
      PROVE  Awaited
  <2> DEFINE c == [st |-> "suspended", kind |-> k, fd |-> f,
                   deadline |-> d, result |-> "none"]
  <2>1. d \in Int \cup {NoDeadline}
    <3>1. \A t \in Timeout : now + t \in Int
      BY DEF TypeOK
    <3> QED
      BY <3>1 DEF Deadlines
  <2>2. c \in Completion /\ Used(c) /\ c.st = "suspended"
    BY <2>1 DEF Used, Completion
  <2>3. AwaitSuspend(i, c) /\ comp[i].st = "unused" /\ UNCHANGED <<continuations, now, pc>>
    BY <1>1 DEF Await, loop
  <2>5. c.deadline # NoDeadline => Near(c.deadline)
    <3>1. d # NoDeadline => \E u \in Timeout : d = now + u
      BY DEF Deadlines
    <3>2. \A u \in Timeout : now + u \in Int
      BY DEF TypeOK
    <3> QED
      BY <3>1, <3>2 DEF Near
  <2> HIDE DEF c
  <2>4. \/ Waits(i, c, InsertTimeout(i, c))
        \/ Resumes(i, c, timeouts) \/ Resumes(i, c, InsertTimeout(i, c))
    BY <2>3, AwaitEffects
  <2> QED
    BY <2>2, <2>3, <2>4, <2>5 DEF Awaited
<1>2. ASSUME NEW i \in Iop, Destruct(i) PROVE Destructed
  BY <1>2 DEF Destruct, Destructed, loop
<1>3. CASE ClearTimeout
  BY <1>3 DEF ClearTimeout, Cleared
<1>4. CASE PollReady
  <2>1. \A q \in Queue :
          \/ continuations'[q] = requests[q] /\ requests'[q] = <<>>
          \/ continuations'[q] = <<>> /\ requests'[q] = requests[q]
    BY <1>4 DEF PollReady
  <2> QED
    BY <1>4, <2>1 DEF PollReady, Polled
<1>5. ASSUME NEW q \in Queue, Dispatch(q) PROVE \E i \in Iop : DispatchOf(q, i)
  <2> DEFINE i == Head(continuations[q])
  <2>1. continuations[q] \in Seq(Iop) /\ continuations[q] # <<>>
    BY <1>5 DEF Dispatch, FirstWoken, TypeOK
  <2>2. i \in Iop
    BY <2>1, HeadTailProperties
  <2>3. /\ pc = "dispatch" /\ now' = now
        /\ continuations' = [continuations EXCEPT ![q] = Tail(continuations[q])]
    BY <1>5 DEF Dispatch
  <2>4. \/ Suspended(i) /\ TryOrResume(i, comp[i]) /\ UNCHANGED pc
        \/ ~Suspended(i) /\ pc' = "undefined" /\ UNCHANGED <<comp, requests, timeouts>>
    BY <1>5 DEF Dispatch
  <2>5. DispatchOf(q, i)
    <3>1. i = Head(continuations[q])
      OBVIOUS
    <3> HIDE DEF i
    <3>2. CASE Suspended(i) /\ TryOrResume(i, comp[i]) /\ UNCHANGED pc
      BY <2>1, <2>3, <3>1, <3>2, RetryEffects DEF DispatchOf
    <3>3. CASE ~Suspended(i) /\ pc' = "undefined" /\ UNCHANGED <<comp, requests, timeouts>>
      BY <2>1, <2>3, <3>1, <3>3 DEF DispatchOf
    <3> QED
      BY <2>4, <3>2, <3>3
  <2> QED
    BY <2>2, <2>5
<1>6. now' = now => now' >= now
  BY DEF TypeOK
<1>7. ASSUME NEW f, Discard(f) \/ CloseFd(f) \/ \E s \in NewSock : OpenFd(f, s)
      PROVE  Idle
  BY <1>6, <1>7 DEF Discard, CloseFd, OpenFd, Idle, loop
<1>8. ASSUME NEW h1, NEW h2, AsyncResume(h1, h2) PROVE Idle
  BY <1>6, <1>8 DEF AsyncResume, Idle, loop
<1>9. CASE FinishPrimary \/ UserReturn \/ RunUntil \/ RunBatch \/ TimeoutsCleared
  BY <1>6, <1>9 DEF FinishPrimary, UserReturn, RunUntil, RunBatch, TimeoutsCleared, Idle
<1>10. CASE PollTimesOut \/ PollInterrupted \/ PollThrows
  BY <1>6, <1>10 DEF PollTimesOut, PollInterrupted, PollReturns, PollThrows, Idle
<1>11. CASE SwapQueues \/ ResumeNext \/ ResumedAll
  BY <1>6, <1>11 DEF SwapQueues, ResumeNext, ResumedAll, Idle
<1>12. CASE Tick
  BY <1>12 DEF Tick, Idle, loop, TypeOK
<1>13. ASSUME NEW q, PeerActs(q) PROVE Idle
  BY <1>6, <1>13 DEF PeerActs, Idle, loop
<1>14. CASE UNCHANGED vars
  BY <1>6, <1>14 DEF vars, Idle, loop
<1> QED
  BY <1>1, <1>2, <1>3, <1>4, <1>5, <1>7, <1>8, <1>9, <1>10, <1>11, <1>12, <1>13, <1>14
  DEF Next, User, Loop, Environment

-----------------------------------------------------------------------------
(* Deadlines.                                                              *)

(* `timeouts` is in the order of the deadlines, as std::multimap keeps it. *)
TimeoutsOrdered ==
  \A m, n \in DOMAIN timeouts : m < n => timeouts[m].at <= timeouts[n].at

(* The model of multimap::insert and erase keeps the order. *)
LEMMA PollTimeoutsOrdered == Spec => []TimeoutsOrdered
<1>1. Init => TimeoutsOrdered
  BY DEF Init, TimeoutsOrdered
<1>2. TypeOK /\ TimeoutsOrdered /\ [Next]_vars => TimeoutsOrdered'
  <2> SUFFICES ASSUME TypeOK, TimeoutsOrdered, [Next]_vars PROVE Ordered(timeouts')
    BY DEF TimeoutsOrdered, Ordered
  <2>0. timeouts \in Seq(Entry) /\ Ordered(timeouts)
    BY DEF TypeOK, Entry, TimeoutsOrdered, Ordered
  <2>1. ASSUME NEW i \in Iop, NEW c \in Completion
        PROVE  /\ InsertTimeout(i, c) \in Seq(Entry) /\ Ordered(InsertTimeout(i, c))
               /\ \A ts \in Seq(Entry) : Ordered(ts) =>
                    (Waits(i, c, ts) \/ Resumes(i, c, ts) => Ordered(timeouts'))
    <3>1. c.deadline \in Int \cup {NoDeadline}
      BY DEF Completion
    <3>2. InsertTimeout(i, c) \in Seq(Entry) /\ Ordered(InsertTimeout(i, c))
      BY <2>0, <3>1, InsertTimeoutRange, InsertTimeoutOrdered
    <3>3. ASSUME NEW ts \in Seq(Entry), Ordered(ts), Waits(i, c, ts) \/ Resumes(i, c, ts)
          PROVE  Ordered(timeouts')
      <4>1. timeouts' = ts \/ timeouts' = CancelTimeout(ts, i)
        BY <3>3 DEF Waits, Resumes, Park, ResumeWith
      <4> QED
        BY <3>3, <4>1, CancelTimeoutOrdered
    <3> QED
      BY <3>2, <3>3
  <2>2. CASE Awaited
    BY <2>0, <2>1, <2>2 DEF Awaited
  <2>3. CASE Destructed
    BY <2>0, <2>3, CancelTimeoutOrdered DEF Destructed
  <2>4. CASE Cleared
    <3>1. timeouts # <<>> /\ timeouts' = Tail(timeouts)
      BY <2>4 DEF Cleared, EarliestDue, TimedOut
    <3> QED
      BY <2>0, <3>1, TailOrdered
  <2>5. CASE Polled \/ Idle
    BY <2>0, <2>5 DEF Polled, Idle
  <2>6. ASSUME NEW q \in Queue, NEW i \in Iop, DispatchOf(q, i) PROVE Ordered(timeouts')
    <3>1. comp[i] \in Completion
      BY DEF TypeOK
    <3> QED
      BY <2>0, <2>1, <2>6, <3>1 DEF DispatchOf
  <2> QED
    BY <2>2, <2>3, <2>4, <2>5, <2>6, StepEffects
<1> QED
  BY <1>1, <1>2, PollTypeCorrect, PTL DEF Spec

(* An entry of the timeouts is of a completion that was awaited with that   *)
(* deadline, and that may be gone.                                          *)
EntriesTrue ==
  \A t \in Range(timeouts) :
    /\ comp[t.iop].st # "unused"
    /\ comp[t.iop].st # "deleted" => comp[t.iop].deadline = t.at

(* The outcome c of a resumed completion is right. *)
OutcomeOK(c) ==
  c.st = "resumed" =>
    /\ c.kind \in IoKinds => c.result # "none"
    /\ c.kind = "sleep" => c.result = "none" /\ c.deadline \in Int /\ Expired(c.deadline)
    /\ c.result = "timeout" => c.deadline \in Int /\ Expired(c.deadline)

(* Outcomes is not inductive alone: that what is resumed by clear_timeouts  *)
(* had that deadline needs EntriesTrue.                                     *)
OutcomesInv == EntriesTrue /\ \A i \in Iop : OutcomeOK(comp[i])

(* What cancel_timeout leaves was there before. *)
LEMMA CancelTimeoutSubset ==
  ASSUME NEW ts \in Seq(Entry), NEW i
  PROVE  /\ CancelTimeout(ts, i) \in Seq(Entry)
         /\ Range(CancelTimeout(ts, i)) \subseteq Range(ts)
         /\ \A t \in Range(ts) : t.iop # i => t \in Range(CancelTimeout(ts, i))
<1>0. Len(ts) \in Nat /\ DOMAIN ts = 1..Len(ts)
  BY LenProperties
<1>1. CASE \E n \in 1..Len(ts) : ts[n].iop = i
  <2> DEFINE I == {n \in 1..Len(ts) : ts[n].iop = i}
             k == Min(I)
             r == RemoveAt(ts, k)
  <2>1. k \in I
    <3>1. I \subseteq Nat /\ I # {}
      BY <1>1
    <3> QED
      BY <3>1, MinLeast
  <2>2. CancelTimeout(ts, i) = r
    BY <1>1, <2>1 DEF CancelTimeout, RemoveFirstMatch, SelectInSeq
  <2>3. k \in DOMAIN ts /\ ts[k].iop = i
    BY <1>0, <2>1
  <2> HIDE DEF k
  <2>4. /\ r \in Seq(Entry)
        /\ \A n \in DOMAIN ts \ {k} : \E m \in DOMAIN r : r[m] = ts[n]
        /\ \A m \in DOMAIN r : \E n \in DOMAIN ts \ {k} : r[m] = ts[n]
    BY <2>3, RemoveAtElements
  <2> HIDE DEF r
  <2>5. Range(r) \subseteq Range(ts)
    BY <2>4 DEF Range
  <2>6. \A t \in Range(ts) : t.iop # i => t \in Range(r)
    <3> SUFFICES ASSUME NEW n \in DOMAIN ts, ts[n].iop # i
        PROVE ts[n] \in Range(r)
      BY DEF Range
    <3>1. n \in DOMAIN ts \ {k}
      BY <2>3
    <3> QED
      BY <3>1, <2>4 DEF Range
  <2> QED
    BY <2>2, <2>4, <2>5, <2>6
<1>2. CASE ~ \E n \in 1..Len(ts) : ts[n].iop = i
  BY <1>2 DEF CancelTimeout, RemoveFirstMatch
<1> QED
  BY <1>1, <1>2

(* The deadlines ts fit completion i as it becomes b. *)
Fit(ts, i, b) ==
  \A t \in Range(ts) : \/ t \in Range(timeouts) /\ t.iop # i
                       \/ t.iop = i /\ (b.st # "deleted" => b.deadline = t.at)

(* One completion changes, and the entries are still true. *)
LEMMA EntriesTrueStep ==
  ASSUME TypeOK, EntriesTrue, NEW i \in Iop, NEW b, comp' = [comp EXCEPT ![i] = b],
         timeouts' \in Seq(Entry), b.st # "unused", Fit(timeouts', i, b)
  PROVE  EntriesTrue'
<1>1. comp'[i] = b /\ \A j \in Iop \ {i} : comp'[j] = comp[j]
  BY DEF TypeOK
<1>2. \A t \in Range(timeouts') : t.iop \in Iop
  BY EntryIop
<1> QED
  BY <1>1, <1>2 DEF EntriesTrue, Fit

(* The outcomes of the others stay right as one completion changes. *)
LEMMA OutcomesStep ==
  ASSUME TypeOK, \A j \in Iop : OutcomeOK(comp[j]), NEW i \in Iop, NEW b,
         comp' = [comp EXCEPT ![i] = b], now' = now, OutcomeOK(b)
  PROVE  \A j \in Iop : OutcomeOK(comp[j])'
<1>1. comp'[i] = b /\ \A j \in Iop \ {i} : comp'[j] = comp[j]
  BY DEF TypeOK
<1> QED
  BY <1>1 DEF OutcomeOK, Expired

(* await_suspend and try_or_resume. *)
LEMMA SettlesOutcome ==
  ASSUME TypeOK, OutcomesInv, NEW i \in Iop, NEW c \in Completion, c.st = "suspended",
         NEW ts \in Seq(Entry),
         Fit(ts, i, c), Waits(i, c, ts) \/ Resumes(i, c, ts), now' = now
  PROVE  OutcomesInv'
<1>1. CASE Waits(i, c, ts)
  <2>1. comp' = [comp EXCEPT ![i] = c] /\ timeouts' = ts
    BY <1>1 DEF Waits, Park
  <2>2. EntriesTrue'
    <3>1. Fit(timeouts', i, c)
      BY <2>1 DEF Fit
    <3>2. timeouts' \in Seq(Entry) /\ EntriesTrue /\ c.st # "unused"
      BY <2>1 DEF OutcomesInv
    <3> QED
      BY <2>1, <3>1, <3>2, EntriesTrueStep
  <2>3. OutcomeOK(c)
    BY DEF OutcomeOK
  <2> QED
    BY <2>1, <2>2, <2>3, OutcomesStep DEF OutcomesInv
<1>2. CASE Resumes(i, c, ts)
  <2>1. PICK r \in {"none", "value", "error", "badfd"} :
          /\ c.kind # "sleep" /\ (c.kind \in IoKinds => r # "none")
          /\ ResumeWith(i, c, ts, r)
    BY <1>2 DEF Resumes
  <2> DEFINE b == [c EXCEPT !.st = "resumed", !.result = r]
  <2>2. b.st = "resumed" /\ b.kind = c.kind /\ b.result = r /\ b.deadline = c.deadline
    BY DEF Completion
  <2>3. comp' = [comp EXCEPT ![i] = b] /\ timeouts' = CancelTimeout(ts, i)
    BY <2>1 DEF ResumeWith
  <2> HIDE DEF b
  <2>4. timeouts' \in Seq(Entry) /\ Range(timeouts') \subseteq Range(ts)
    BY <2>3, CancelTimeoutSubset
  <2>5. EntriesTrue'
    <3>1. Fit(timeouts', i, b)
      BY <2>2, <2>4 DEF Fit
    <3>2. EntriesTrue /\ b.st # "unused"
      BY <2>2 DEF OutcomesInv
    <3> QED
      BY <2>3, <2>4, <3>1, <3>2, EntriesTrueStep
  <2>6. OutcomeOK(b)
    BY <2>1, <2>2 DEF OutcomeOK
  <2> QED
    BY <2>3, <2>5, <2>6, OutcomesStep DEF OutcomesInv
<1> QED
  BY <1>1, <1>2

(* The deadlines of completion i with the one that is inserted. *)
LEMMA InsertedEntries ==
  ASSUME TypeOK, NEW i \in Iop, NEW c \in Completion,
         \A t \in Range(timeouts) : t.iop = i => t.at = c.deadline
  PROVE  /\ timeouts \in Seq(Entry) /\ InsertTimeout(i, c) \in Seq(Entry)
         /\ Fit(timeouts, i, c) /\ Fit(InsertTimeout(i, c), i, c)
<1>1. c.deadline \in Int \cup {NoDeadline} /\ timeouts \in Seq(Entry)
  BY DEF Completion, TypeOK, Entry
<1>2. /\ InsertTimeout(i, c) \in Seq(Entry)
      /\ Range(InsertTimeout(i, c)) = Range(timeouts) \cup
           (IF c.deadline = NoDeadline THEN {}
            ELSE {[at |-> c.deadline, iop |-> i]})
  BY <1>1, InsertTimeoutRange
<1> QED
  BY <1>1, <1>2 DEF Fit

(* The inductive invariant of the outcomes. *)
THEOREM OutcomesInvariant == Spec => []OutcomesInv
<1>1. Init => OutcomesInv
  <2> SUFFICES ASSUME Init PROVE OutcomesInv
    OBVIOUS
  <2>1. Range(<<>>) = {}
    BY DEF Range
  <2> QED
    BY <2>1 DEF Init, OutcomesInv, EntriesTrue, OutcomeOK, Unused
<1>2. TypeOK /\ TypeOK' /\ OutcomesInv /\ [Next]_vars => OutcomesInv'
  <2> SUFFICES ASSUME TypeOK, TypeOK', OutcomesInv, [Next]_vars PROVE OutcomesInv'
    OBVIOUS
  <2>0. timeouts \in Seq(Entry) /\ timeouts' \in Seq(Entry)
    BY DEF TypeOK, Entry
  <2>1. CASE Awaited
    <3>1. PICK i \in Iop, c \in Completion :
            /\ Used(c) /\ c.st = "suspended" /\ comp[i].st = "unused"
            /\ \/ Waits(i, c, InsertTimeout(i, c))
               \/ Resumes(i, c, timeouts) \/ Resumes(i, c, InsertTimeout(i, c))
            /\ UNCHANGED <<continuations, now, pc>>
      BY <2>1 DEF Awaited
    <3>2. \A t \in Range(timeouts) : t.iop # i
      BY <3>1 DEF OutcomesInv, EntriesTrue
    <3>3. /\ InsertTimeout(i, c) \in Seq(Entry)
          /\ Fit(timeouts, i, c) /\ Fit(InsertTimeout(i, c), i, c)
      BY <3>2, InsertedEntries
    <3> QED
      BY <2>0, <3>1, <3>3, SettlesOutcome
  <2>2. CASE Destructed
    <3> DEFINE b == [Unused EXCEPT !.st = "deleted"]
    <3>1. PICK i \in Iop :
            /\ comp' = [comp EXCEPT ![i] = b]
            /\ timeouts' = CancelTimeout(timeouts, i)
            /\ UNCHANGED now
      BY <2>2 DEF Destructed
    <3>2. b.st = "deleted"
      BY DEF Unused
    <3> HIDE DEF b
    <3>3. Range(timeouts') \subseteq Range(timeouts)
      BY <2>0, <3>1, CancelTimeoutSubset
    <3>4. EntriesTrue'
      <4>1. Fit(timeouts', i, b)
        BY <3>2, <3>3 DEF Fit
      <4> QED
        BY <2>0, <3>1, <3>2, <4>1, EntriesTrueStep DEF OutcomesInv
    <3>5. OutcomeOK(b)
      BY <3>2 DEF OutcomeOK
    <3> QED
      BY <3>1, <3>4, <3>5, OutcomesStep DEF OutcomesInv
  <2>3. CASE Cleared
    <3> DEFINE e == Head(timeouts)
               i == e.iop
               r == IF comp[i].kind = "sleep" THEN "none" ELSE "timeout"
               b == [comp[i] EXCEPT !.st = "resumed", !.result = r]
    <3>1. timeouts # <<>> /\ Expired(e.at) /\ TimedOut(i)
      BY <2>3 DEF Cleared, EarliestDue
    <3>2. /\ e \in Entry /\ Range(timeouts) = Range(Tail(timeouts)) \cup {e}
      BY <2>0, <3>1, TailRange
    <3>3. i \in Iop /\ e.at \in Int
      BY <3>2 DEF Entry
    <3>4. /\ timeouts' = Tail(timeouts) /\ now' = now
          /\ \/ Suspended(i) /\ comp' = [comp EXCEPT ![i] = b]
             \/ comp' = comp
      BY <3>1 DEF TimedOut
    <3>5. CASE Suspended(i) /\ comp' = [comp EXCEPT ![i] = b]
      <4>1. comp[i].deadline = e.at
        BY <3>2, <3>5 DEF OutcomesInv, EntriesTrue, Suspended
      <4>2. comp[i] \in Completion
        BY <3>3 DEF TypeOK
      <4>3. /\ b.st = "resumed" /\ b.kind = comp[i].kind /\ b.result = r
            /\ b.deadline = e.at
        BY <4>1, <4>2 DEF Completion
      <4>4. b.kind = "sleep" => r = "none"
        BY <4>3
      <4>5. b.kind # "sleep" => r = "timeout"
        BY <4>3
      <4>6. comp' = [comp EXCEPT ![i] = b]
        BY <3>5
      <4>7. \A t \in Range(timeouts') :
              \/ t \in Range(timeouts) /\ t.iop # i
              \/ t.iop = i /\ e.at = t.at
        BY <3>2, <3>4, <3>5, <4>1 DEF OutcomesInv, EntriesTrue, Suspended
      <4> HIDE DEF b, r, i, e
      <4>8. EntriesTrue'
        <5>1. Fit(timeouts', i, b)
          BY <4>3, <4>7 DEF Fit
        <5>2. EntriesTrue /\ b.st # "unused"
          BY <4>3 DEF OutcomesInv
        <5> QED
          BY <2>0, <3>3, <4>6, <5>1, <5>2, EntriesTrueStep
      <4>9. OutcomeOK(b)
        BY <3>1, <3>3, <4>3, <4>4, <4>5 DEF OutcomeOK, IoKinds
      <4> QED
        BY <3>3, <3>4, <4>6, <4>8, <4>9, OutcomesStep DEF OutcomesInv
    <3>6. CASE comp' = comp
      <4>1. Range(timeouts') \subseteq Range(timeouts)
        BY <3>2, <3>4
      <4> QED
        BY <3>4, <3>6, <4>1 DEF OutcomesInv, EntriesTrue, OutcomeOK, Expired
    <3> QED
      BY <3>4, <3>5, <3>6
  <2>4. CASE Polled \/ Idle
    <3>1. comp' = comp /\ timeouts' = timeouts /\ now' >= now
      BY <2>4 DEF Polled, Idle, TypeOK
    <3>2. \A d \in Int : d - now < Ms => d - now' < Ms
      <4>1. now \in Int /\ now' \in Int /\ Ms \in Int
        BY DEF TypeOK
      <4>2. \A m, n, d \in Int : n >= m /\ d - m < Ms => d - n < Ms
        BY ONLY <4>1
      <4> QED
        BY <3>1, <4>1, <4>2
    <3> QED
      BY <3>1, <3>2 DEF OutcomesInv, EntriesTrue, OutcomeOK, Expired
  <2>5. ASSUME NEW q \in Queue, NEW i \in Iop, DispatchOf(q, i) PROVE OutcomesInv'
    <3>1. CASE comp' = comp /\ timeouts' = timeouts
      BY <2>5, <3>1 DEF OutcomesInv, EntriesTrue, OutcomeOK, DispatchOf, Expired
    <3>2. CASE /\ Suspended(i)
               /\ \/ Waits(i, comp[i], timeouts) \/ Waits(i, comp[i], InsertTimeout(i, comp[i]))
                  \/ Resumes(i, comp[i], timeouts)
      <4> DEFINE c == comp[i]
      <4>1. c \in Completion /\ c.st = "suspended" /\ now' = now
        BY <2>5, <3>2 DEF TypeOK, Suspended, DispatchOf
      <4>2. \A t \in Range(timeouts) : t.iop = i => t.at = c.deadline
        BY <3>2 DEF OutcomesInv, EntriesTrue, Suspended
      <4>3. \/ Waits(i, c, timeouts) \/ Waits(i, c, InsertTimeout(i, c))
            \/ Resumes(i, c, timeouts)
        BY <3>2
      <4> HIDE DEF c
      <4>4. /\ InsertTimeout(i, c) \in Seq(Entry)
            /\ Fit(timeouts, i, c) /\ Fit(InsertTimeout(i, c), i, c)
        BY <4>1, <4>2, InsertedEntries
      <4> QED
        BY <2>0, <4>1, <4>3, <4>4, SettlesOutcome
    <3> QED
      BY <2>5, <3>1, <3>2 DEF DispatchOf
  <2> QED
    BY <2>1, <2>2, <2>3, <2>4, <2>5, StepEffects
<1> QED
  BY <1>1, <1>2, PollTypeCorrect, PTL DEF Spec

(* Every resumed coroutine finds an outcome of its kind, a sleep ends       *)
(* without an error and not a millisecond early, and no IOP times out more  *)
(* than a millisecond early: for every kind of IOP, and also when a stale   *)
(* pointer is followed.                                                     *)
THEOREM PollOutcomes == Spec => []Outcomes
<1>1. OutcomesInv => Outcomes
  BY DEF OutcomesInv, OutcomeOK, Outcomes
<1> QED
  BY <1>1, OutcomesInvariant, PTL

-----------------------------------------------------------------------------
(* The wake-up.                                                            *)

(* A handle that async_resume queued has a byte in the pipe, or the loop is *)
(* on its way to resume_all: for any capacity of the pipe and any number of *)
(* handles, until a dead pointer is followed.                               *)
THEOREM PollWakePending == Spec => [](NoUndefined => WakePending)
<1>1. Init => (NoUndefined => WakePending)
  BY DEF Init, WakePending
<1>2. TypeOK /\ (NoUndefined => WakePending) /\ [Next]_vars => (NoUndefined => WakePending)'
  <2> SUFFICES ASSUME TypeOK, NoUndefined => WakePending, [Next]_vars, pc' # "undefined"
      PROVE WakePending'
    BY DEF NoUndefined
  <2>0. pipe \in Int /\ pipe >= 0
    BY DEF TypeOK
  <2> USE DEF NoUndefined, WakePending
  <2>1. ASSUME UNCHANGED <<queued, pipe, pc>> PROVE WakePending'
    BY <2>1
  <2>2. ASSUME NEW h1, NEW h2, AsyncResume(h1, h2) PROVE WakePending'
    <3> DEFINE hs == (IF h1 = Null THEN <<>> ELSE <<h1>>)
                       \o (IF h2 = Null THEN <<>> ELSE <<h2>>)
    <3>1. queued' = queued \o hs /\ pipe' = Wake(hs) /\ pc' = pc
      BY <2>2 DEF AsyncResume, loop
    <3> HIDE DEF hs
    <3>2. CASE queued # <<>>
      BY <3>1, <3>2 DEF Wake
    <3>3. CASE queued = <<>> /\ hs # <<>>
      BY <2>0, <3>1, <3>3 DEF Wake, TypeOK
    <3>4. CASE queued = <<>> /\ hs = <<>>
      BY <3>1, <3>4
    <3> QED
      BY <3>2, <3>3, <3>4
  <2>3. ASSUME NEW i, NEW k, NEW f, NEW d, Await(i, k, f, d) PROVE WakePending'
    BY <2>1, <2>3 DEF Await, loop, async
  <2>4. ASSUME NEW i, Destruct(i) PROVE WakePending'
    BY <2>1, <2>4 DEF Destruct, loop, async
  <2>5. ASSUME NEW f, Discard(f) \/ CloseFd(f) \/ \E s \in NewSock : OpenFd(f, s)
        PROVE  WakePending'
    BY <2>1, <2>5 DEF Discard, CloseFd, OpenFd, loop, async
  <2>6. CASE FinishPrimary \/ UserReturn
    BY <2>1, <2>6 DEF FinishPrimary, UserReturn, async
  <2>7. CASE RunUntil \/ RunBatch \/ TimeoutsCleared
    BY <2>7 DEF RunUntil, RunBatch, TimeoutsCleared, async
  <2>8. CASE ClearTimeout
    BY <2>1, <2>8 DEF ClearTimeout, TimedOut, async
  <2>9. CASE PollReady \/ PollTimesOut \/ PollInterrupted
    BY <2>9 DEF PollReady, PollTimesOut, PollInterrupted, PollReturns
  <2>10. CASE PollThrows
    BY <2>10 DEF PollThrows, async
  <2>11. ASSUME NEW q, Dispatch(q) PROVE WakePending'
    BY <2>11 DEF Dispatch, async
  <2>12. CASE SwapQueues
    BY <2>12 DEF SwapQueues
  <2>13. CASE ResumeNext \/ ResumedAll
    BY <2>13 DEF ResumeNext, ResumedAll, async
  <2>14. CASE Tick \/ \E q \in Queue : PeerActs(q)
    BY <2>1, <2>14 DEF Tick, PeerActs, loop, async
  <2>15. CASE UNCHANGED vars
    BY <2>1, <2>15 DEF vars, loop, async
  <2> QED
    BY <2>2, <2>3, <2>4, <2>5, <2>6, <2>7, <2>8, <2>9, <2>10, <2>11, <2>12, <2>13,
       <2>14, <2>15
    DEF Next, User, Loop, Environment
<1> QED
  BY <1>1, <1>2, PollTypeCorrect, PTL DEF Spec

(* Where no dead pointer is followed, the wake-up is never missing. *)
THEOREM PollWakeKept ==
  ASSUME "connect" \notin Kind, CancelsWoken = FALSE
  PROVE  Spec => []WakePending
<1>1. Spec => [](NoUndefined /\ PointersLive)
  BY PollPointersSafe
<1> QED
  BY <1>1, PollWakePending, PTL

-----------------------------------------------------------------------------
(* No waiter is lost, whatever happens.                                    *)

(* A queue and its continuations hold each completion once; a continuation  *)
(* may be to a completion that was destroyed since poll returned.           *)
QueueOK(q, R, C) ==
  /\ IsInjective(R) /\ IsInjective(C) /\ Range(R) \cap Range(C) = {}
  /\ \A i \in Range(R) : Waiting(i, q)
  /\ \A i \in Range(C) : Waiting(i, q) \/ comp[i].st = "deleted"

(* Every queue is right. *)
QueuesOK == \A q \in Queue : QueueOK(q, requests[q], continuations[q])

(* Completion i is found by an event and by its deadline. *)
Listed(i, R, C, ts) ==
  Suspended(i) =>
    /\ comp[i].kind # "sleep" =>
         i \in Range(R[QueueOf(comp[i])]) \cup Range(C[QueueOf(comp[i])])
    /\ comp[i].deadline # NoDeadline =>
         [at |-> comp[i].deadline, iop |-> i] \in Range(ts)

(* Registered is not inductive alone: a completion that is taken out of its *)
(* queue must be there once, and in no other.                               *)
RegisteredInv ==
  /\ QueuesOK /\ Registered
  /\ pc \notin {"dispatch", "undefined"} => \A q \in Queue : continuations[q] = <<>>

(* Completion i is in none of the queues R and C, which are right. *)
Free(i, R, C) ==
  \A q \in Queue : /\ QueueOK(q, R[q], C[q])
                   /\ i \notin Range(R[q]) \cup Range(C[q])

(* Registered, completion by completion. *)
LEMMA RegisteredListed ==
  Registered <=> \A i \in Iop : Listed(i, requests, continuations, timeouts)
  BY DEF Registered, Listed

(* The queues of the others do not see what becomes of one completion. *)
LEMMA QueueOKStep ==
  ASSUME TypeOK, NEW i \in Iop, NEW b, comp' = [comp EXCEPT ![i] = b],
         NEW q \in Queue, NEW R \in Seq(Iop), NEW C \in Seq(Iop), QueueOK(q, R, C),
         i \notin Range(R), i \notin Range(C) \/ b.st = "deleted"
  PROVE  /\ IsInjective(R) /\ IsInjective(C) /\ Range(R) \cap Range(C) = {}
         /\ \A j \in Range(R) : Waiting(j, q)'
         /\ \A j \in Range(C) : Waiting(j, q)' \/ comp'[j].st = "deleted"
<1>1. comp'[i] = b /\ \A j \in Iop \ {i} : comp'[j] = comp[j]
  BY DEF TypeOK
<1>2. Range(R) \subseteq Iop /\ Range(C) \subseteq Iop
  BY RangeOfSeq
<1>3. \A j \in Iop \ {i} : Waiting(j, q)' <=> Waiting(j, q)
  BY <1>1 DEF Waiting, Suspended, QueueOf
<1> QED
  BY <1>1, <1>2, <1>3 DEF QueueOK

(* Nor do the others' places. *)
LEMMA ListedStep ==
  ASSUME TypeOK, NEW i \in Iop, NEW b, comp' = [comp EXCEPT ![i] = b],
         \A j \in Iop \ {i} : Listed(j, requests', continuations', timeouts')
  PROVE  \A j \in Iop \ {i} : Listed(j, requests, continuations, timeouts)'
<1>1. \A j \in Iop \ {i} : comp'[j] = comp[j]
  BY DEF TypeOK
<1> QED
  BY <1>1 DEF Listed, Suspended, QueueOf

(* A completion goes: its coroutine is resumed, or it is deleted. *)
LEMMA GoneListed ==
  ASSUME TypeOK, NEW i \in Iop, NEW b, comp' = [comp EXCEPT ![i] = b],
         b.st # "suspended",
         requests' \in [Queue -> Seq(Iop)], continuations' \in [Queue -> Seq(Iop)],
         \A q \in Queue :
           /\ QueueOK(q, requests'[q], continuations'[q])
           /\ i \notin Range(requests'[q])
           /\ i \notin Range(continuations'[q]) \/ b.st = "deleted",
         \A j \in Iop \ {i} : Listed(j, requests', continuations', timeouts')
  PROVE  QueuesOK' /\ Registered'
<1>1. ASSUME NEW q \in Queue
      PROVE  /\ IsInjective(requests'[q]) /\ IsInjective(continuations'[q])
             /\ Range(requests'[q]) \cap Range(continuations'[q]) = {}
             /\ \A j \in Range(requests'[q]) : Waiting(j, q)'
             /\ \A j \in Range(continuations'[q]) : Waiting(j, q)' \/ comp'[j].st = "deleted"
  <2> DEFINE R == requests'[q]
             C == continuations'[q]
  <2>1. /\ R \in Seq(Iop) /\ C \in Seq(Iop) /\ QueueOK(q, R, C)
        /\ i \notin Range(R) /\ (i \notin Range(C) \/ b.st = "deleted")
    OBVIOUS
  <2> HIDE DEF R, C
  <2>2. /\ IsInjective(R) /\ IsInjective(C) /\ Range(R) \cap Range(C) = {}
        /\ \A j \in Range(R) : Waiting(j, q)'
        /\ \A j \in Range(C) : Waiting(j, q)' \/ comp'[j].st = "deleted"
    BY <2>1, QueueOKStep
  <2> QED
    BY <2>2 DEF R, C
<1>2. QueuesOK'
  BY <1>1 DEF QueuesOK, QueueOK
<1>3. \A j \in Iop \ {i} : Listed(j, requests, continuations, timeouts)'
  BY ListedStep
<1>4. Listed(i, requests, continuations, timeouts)'
  <2>1. comp'[i] = b
    BY DEF TypeOK
  <2> QED
    BY <2>1 DEF Listed, Suspended
<1>5. Registered'
  BY <1>3, <1>4 DEF Registered, Listed
<1> QED
  BY <1>2, <1>5

(* A completion waits in its queue. *)
LEMMA ParkListed ==
  ASSUME TypeOK, NEW i \in Iop, NEW c, Used(c), c.st = "suspended",
         c.kind \notin {"sleep", "close"}, NEW ts, Park(i, c, ts),
         continuations' \in [Queue -> Seq(Iop)], Free(i, requests, continuations'),
         \A j \in Iop \ {i} : Listed(j, requests, continuations', ts),
         c.deadline # NoDeadline => [at |-> c.deadline, iop |-> i] \in Range(ts)
  PROVE  QueuesOK' /\ Registered'
<1> DEFINE p == QueueOf(c)
<1>1. /\ comp' = [comp EXCEPT ![i] = c] /\ timeouts' = ts
      /\ requests' = [requests EXCEPT ![p] = Append(requests[p], i)]
  BY DEF Park
<1>2. p \in Queue /\ requests[p] \in Seq(Iop)
  BY DEF TypeOK, Used, QueueOf, Queue, Side
<1>3. comp'[i] = c /\ QueueOf(comp'[i]) = p
  BY <1>1 DEF TypeOK
<1> HIDE DEF p
<1>4. /\ \A q \in Queue \ {p} : requests'[q] = requests[q]
      /\ requests'[p] = Append(requests[p], i)
  BY <1>1, <1>2 DEF TypeOK
<1>5. /\ Range(requests'[p]) = Range(requests[p]) \cup {i}
      /\ IsInjective(requests'[p])
  BY <1>2, <1>4, AppendRange DEF Free, QueueOK
<1>6. ASSUME NEW q \in Queue
      PROVE  /\ IsInjective(requests[q]) /\ IsInjective(continuations'[q])
             /\ Range(requests[q]) \cap Range(continuations'[q]) = {}
             /\ \A j \in Range(requests[q]) : Waiting(j, q)'
             /\ \A j \in Range(continuations'[q]) : Waiting(j, q)' \/ comp'[j].st = "deleted"
  <2> DEFINE R == requests[q]
             C == continuations'[q]
  <2>1. /\ R \in Seq(Iop) /\ C \in Seq(Iop) /\ QueueOK(q, R, C)
        /\ i \notin Range(R) /\ i \notin Range(C)
    BY DEF Free, TypeOK
  <2> HIDE DEF R, C
  <2>2. /\ IsInjective(R) /\ IsInjective(C) /\ Range(R) \cap Range(C) = {}
        /\ \A j \in Range(R) : Waiting(j, q)'
        /\ \A j \in Range(C) : Waiting(j, q)' \/ comp'[j].st = "deleted"
    BY <1>1, <2>1, QueueOKStep
  <2> QED
    BY <2>2 DEF R, C
<1>7. Waiting(i, p)'
  BY <1>3 DEF Waiting, Suspended
<1>8. \A q \in Queue : i \notin Range(continuations'[q])
  BY DEF Free
<1>9. QueuesOK'
  <2> SUFFICES ASSUME NEW q \in Queue
      PROVE  /\ IsInjective(requests'[q]) /\ IsInjective(continuations'[q])
             /\ Range(requests'[q]) \cap Range(continuations'[q]) = {}
             /\ \A j \in Range(requests'[q]) : Waiting(j, q)'
             /\ \A j \in Range(continuations'[q]) : Waiting(j, q)' \/ comp'[j].st = "deleted"
    BY DEF QueuesOK, QueueOK
  <2>1. CASE q = p
    BY <2>1, <1>5, <1>6, <1>7, <1>8
  <2>2. CASE q # p
    BY <2>2, <1>4, <1>6
  <2> QED
    BY <2>1, <2>2
<1>10. \A j \in Iop \ {i} : Listed(j, requests', continuations', timeouts')
  <2>1. \A q \in Queue : Range(requests[q]) \subseteq Range(requests'[q])
    BY <1>4, <1>5
  <2>2. \A j \in Iop : Suspended(j) => QueueOf(comp[j]) \in Queue
    BY DEF TypeOK, Suspended, QueueOf, Queue, Side
  <2> QED
    BY <1>1, <2>1, <2>2 DEF Listed
<1>11. \A j \in Iop \ {i} : Listed(j, requests, continuations, timeouts)'
  BY <1>1, <1>10, ListedStep
<1>12. Listed(i, requests, continuations, timeouts)'
  BY <1>1, <1>3, <1>5 DEF Listed
<1>13. Registered'
  BY <1>11, <1>12 DEF Registered, Listed
<1> QED
  BY <1>9, <1>13

(* await_suspend and try_or_resume of a completion that is in no queue. *)
LEMMA SettlesListed ==
  ASSUME TypeOK, NEW i \in Iop, NEW c, c \in Completion, Used(c), c.st = "suspended",
         NEW ts \in Seq(Entry), Waits(i, c, ts) \/ Resumes(i, c, ts),
         continuations' \in [Queue -> Seq(Iop)], Free(i, requests, continuations'),
         \A j \in Iop \ {i} : Listed(j, requests, continuations', ts),
         Waits(i, c, ts) /\ c.deadline # NoDeadline =>
           [at |-> c.deadline, iop |-> i] \in Range(ts)
  PROVE  QueuesOK' /\ Registered'
<1>1. CASE c.kind \notin {"sleep", "close"} /\ Waits(i, c, ts)
  <2>1. Park(i, c, ts)
    BY <1>1 DEF Waits
  <2> QED
    BY <1>1, <2>1, ParkListed
<1>2. CASE c.kind = "sleep" /\ Waits(i, c, ts)
  <2>1. comp' = [comp EXCEPT ![i] = c] /\ timeouts' = ts /\ requests' = requests
    BY <1>2 DEF Waits
  <2>2. comp'[i] = c
    BY <2>1 DEF TypeOK
  <2>3. ASSUME NEW q \in Queue
        PROVE  /\ IsInjective(requests'[q]) /\ IsInjective(continuations'[q])
               /\ Range(requests'[q]) \cap Range(continuations'[q]) = {}
               /\ \A j \in Range(requests'[q]) : Waiting(j, q)'
               /\ \A j \in Range(continuations'[q]) :
                    Waiting(j, q)' \/ comp'[j].st = "deleted"
    <3> DEFINE R == requests[q]
               C == continuations'[q]
    <3>1. /\ R \in Seq(Iop) /\ C \in Seq(Iop) /\ QueueOK(q, R, C)
          /\ i \notin Range(R) /\ i \notin Range(C)
      BY DEF Free, TypeOK
    <3> HIDE DEF R, C
    <3>2. /\ IsInjective(R) /\ IsInjective(C) /\ Range(R) \cap Range(C) = {}
          /\ \A j \in Range(R) : Waiting(j, q)'
          /\ \A j \in Range(C) : Waiting(j, q)' \/ comp'[j].st = "deleted"
      BY <2>1, <3>1, QueueOKStep
    <3> QED
      BY <2>1, <3>2 DEF R, C
  <2>4. QueuesOK'
    BY <2>3 DEF QueuesOK, QueueOK
  <2>5. \A j \in Iop \ {i} : Listed(j, requests, continuations, timeouts)'
    BY <2>1, ListedStep
  <2>6. Listed(i, requests, continuations, timeouts)'
    BY <1>2, <2>1, <2>2 DEF Listed
  <2>7. Registered'
    BY <2>5, <2>6 DEF Registered, Listed
  <2> QED
    BY <2>4, <2>7
<1>3. CASE Resumes(i, c, ts)
  <2>1. PICK r \in {"none", "value", "error", "badfd"} : ResumeWith(i, c, ts, r)
    BY <1>3 DEF Resumes
  <2> DEFINE b == [c EXCEPT !.st = "resumed", !.result = r]
  <2>2. b.st = "resumed"
    BY DEF Completion
  <2>3. /\ comp' = [comp EXCEPT ![i] = b] /\ timeouts' = CancelTimeout(ts, i)
        /\ requests' = requests
    BY <2>1 DEF ResumeWith
  <2> HIDE DEF b
  <2>4. \A t \in Range(ts) : t.iop # i => t \in Range(timeouts')
    BY <2>3, CancelTimeoutSubset
  <2>5. \A j \in Iop \ {i} : Listed(j, requests', continuations', timeouts')
    BY <2>3, <2>4 DEF Listed
  <2>6. \A q \in Queue :
          /\ QueueOK(q, requests'[q], continuations'[q])
          /\ i \notin Range(requests'[q])
          /\ i \notin Range(continuations'[q]) \/ b.st = "deleted"
    BY <2>3 DEF Free
  <2>7. requests' \in [Queue -> Seq(Iop)]
    BY <2>3 DEF TypeOK
  <2> QED
    BY <2>2, <2>3, <2>5, <2>6, <2>7, GoneListed
<1> QED
  BY <1>1, <1>2, <1>3 DEF Waits
(* cancel_iop takes the completion out of its queue. *)
LEMMA CancelIopQueue ==
  ASSUME TypeOK, QueuesOK, NEW i \in Iop, comp[i].st \in {"suspended", "resumed"},
         CancelIop(i)
  PROVE  \A q \in Queue : /\ IsInjective(requests'[q])
                          /\ Range(requests'[q]) = Range(requests[q]) \ {i}
<1> SUFFICES ASSUME NEW q \in Queue
    PROVE IsInjective(requests'[q]) /\ Range(requests'[q]) = Range(requests[q]) \ {i}
  OBVIOUS
<1>1. /\ IsInjective(requests[q]) /\ requests[q] \in Seq(Iop)
      /\ \A j \in Range(requests[q]) : Waiting(j, q)
  BY DEF QueuesOK, QueueOK, TypeOK
<1>2. CASE comp[i].kind \in {"close", "sleep"} \/ QueueOf(comp[i]) # q
  <2>1. requests'[q] = requests[q]
    BY <1>2 DEF CancelIop, TypeOK
  <2>2. i \notin Range(requests[q])
    BY <1>1, <1>2 DEF Waiting
  <2> QED
    BY <1>1, <2>1, <2>2
<1>3. CASE comp[i].kind \notin {"close", "sleep"} /\ QueueOf(comp[i]) = q
  <2>1. requests'[q] = RemoveFirst(requests[q], i)
    BY <1>3 DEF CancelIop, TypeOK
  <2> QED
    BY <1>1, <2>1, RemoveFirstRange
<1> QED
  BY <1>2, <1>3

(* ~iop and iop_timedout. *)
LEMMA LeaveListed ==
  ASSUME TypeOK, QueuesOK, Registered, NEW i \in Iop,
         comp[i].st \in {"suspended", "resumed"}, CancelIop(i),
         NEW b, comp' = [comp EXCEPT ![i] = b], b.st # "suspended",
         continuations' = continuations,
         b.st = "deleted" \/ \A q \in Queue : i \notin Range(continuations[q]),
         \A t \in Range(timeouts) : t.iop # i => t \in Range(timeouts')
  PROVE  QueuesOK' /\ Registered'
<1>1. \A q \in Queue : /\ IsInjective(requests'[q])
                       /\ Range(requests'[q]) = Range(requests[q]) \ {i}
  BY CancelIopQueue
<1>2. requests' \in [Queue -> Seq(Iop)] /\ continuations' \in [Queue -> Seq(Iop)]
  BY CancelIopType DEF TypeOK
<1>3. \A q \in Queue :
        /\ QueueOK(q, requests'[q], continuations'[q])
        /\ i \notin Range(requests'[q])
        /\ i \notin Range(continuations'[q]) \/ b.st = "deleted"
  <2> TAKE q \in Queue
  <2>1. QueueOK(q, requests[q], continuations[q])
    BY DEF QueuesOK
  <2> QED
    BY <1>1, <2>1 DEF QueueOK
<1>4. \A j \in Iop \ {i} : Listed(j, requests', continuations', timeouts')
  <2>1. \A j \in Iop : Suspended(j) => QueueOf(comp[j]) \in Queue
    BY DEF TypeOK, Suspended, QueueOf, Queue, Side
  <2>2. \A j \in Iop : Listed(j, requests, continuations, timeouts)
    BY DEF Registered, Listed
  <2> QED
    BY <1>1, <2>1, <2>2 DEF Listed
<1> QED
  BY <1>2, <1>3, <1>4, GoneListed

(* Every suspended coroutine can still be woken: its completion is in its   *)
(* queue or among the continuations, and its deadline among the timeouts.   *)
(* This holds for connect too, whose retry enters its deadline a second     *)
(* time, and when coroutines destroy IOPs that were polled ready.           *)
THEOREM PollRegistered == Spec => []Registered
<1>1. Init => RegisteredInv
  <2> SUFFICES ASSUME Init PROVE RegisteredInv
    OBVIOUS
  <2>1. Range(<<>>) = {} /\ IsInjective(<<>>)
    BY DEF Range, IsInjective
  <2> QED
    BY <2>1 DEF Init, RegisteredInv, QueuesOK, QueueOK, Registered, Suspended, Unused
<1>2. TypeOK /\ TypeOK' /\ RegisteredInv /\ [Next]_vars => RegisteredInv'
  <2> SUFFICES ASSUME TypeOK, TypeOK', RegisteredInv, [Next]_vars PROVE RegisteredInv'
    OBVIOUS
  <2>0. /\ timeouts \in Seq(Entry) /\ timeouts' \in Seq(Entry)
        /\ continuations' \in [Queue -> Seq(Iop)]
        /\ QueuesOK /\ Registered
        /\ \A j \in Iop : Listed(j, requests, continuations, timeouts)
    BY RegisteredListed DEF TypeOK, Entry, RegisteredInv
  <2>1. CASE Awaited
    <3>1. PICK i \in Iop, c \in Completion :
            /\ Used(c) /\ c.st = "suspended" /\ comp[i].st = "unused"
            /\ \/ Waits(i, c, InsertTimeout(i, c))
               \/ Resumes(i, c, timeouts) \/ Resumes(i, c, InsertTimeout(i, c))
            /\ UNCHANGED <<continuations, now, pc>>
      BY <2>1 DEF Awaited
    <3>2. Free(i, requests, continuations')
      BY <2>0, <3>1 DEF Free, QueuesOK, QueueOK, Waiting, Suspended
    <3>3. /\ InsertTimeout(i, c) \in Seq(Entry)
          /\ Range(InsertTimeout(i, c)) = Range(timeouts) \cup
               (IF c.deadline = NoDeadline THEN {}
                ELSE {[at |-> c.deadline, iop |-> i]})
      <4>1. c.deadline \in Int \cup {NoDeadline}
        BY DEF Completion
      <4> QED
        BY <2>0, <4>1, InsertTimeoutRange
    <3>4. \A j \in Iop \ {i} : Listed(j, requests, continuations', InsertTimeout(i, c))
      BY <2>0, <3>1, <3>3 DEF Listed
    <3>5. \A j \in Iop \ {i} : Listed(j, requests, continuations', timeouts)
      BY <2>0, <3>1
    <3>6. CASE Resumes(i, c, timeouts)
      <4>1. ~Waits(i, c, timeouts)
        <5>1. comp'[i].st = "resumed"
          BY <3>6 DEF Resumes, ResumeWith, TypeOK, Completion
        <5>2. Waits(i, c, timeouts) => comp'[i] = c
          BY DEF Waits, Park, TypeOK
        <5> QED
          BY <3>1, <5>1, <5>2
      <4>2. QueuesOK' /\ Registered'
        BY <2>0, <3>1, <3>2, <3>5, <3>6, <4>1, SettlesListed
      <4> QED
        BY <3>1, <4>2 DEF RegisteredInv
    <3>7. CASE Waits(i, c, InsertTimeout(i, c)) \/ Resumes(i, c, InsertTimeout(i, c))
      <4>1. c.deadline # NoDeadline =>
              [at |-> c.deadline, iop |-> i] \in Range(InsertTimeout(i, c))
        BY <3>3
      <4>2. QueuesOK' /\ Registered'
        BY <2>0, <3>1, <3>2, <3>3, <3>4, <3>7, <4>1, SettlesListed
      <4> QED
        BY <3>1, <4>2 DEF RegisteredInv
    <3> QED
      BY <3>1, <3>6, <3>7
  <2>2. CASE Destructed
    <3> DEFINE b == [Unused EXCEPT !.st = "deleted"]
    <3>1. PICK i \in Iop :
            /\ comp[i].st \in {"suspended", "resumed"}
            /\ comp' = [comp EXCEPT ![i] = b]
            /\ timeouts' = CancelTimeout(timeouts, i) /\ CancelIop(i)
            /\ UNCHANGED <<continuations, pc>>
      BY <2>2 DEF Destructed
    <3>2. b.st = "deleted"
      BY DEF Unused
    <3> HIDE DEF b
    <3>3. \A t \in Range(timeouts) : t.iop # i => t \in Range(timeouts')
      BY <2>0, <3>1, CancelTimeoutSubset
    <3>4. QueuesOK' /\ Registered'
      BY <2>0, <3>1, <3>2, <3>3, LeaveListed
    <3> QED
      BY <3>1, <3>4 DEF RegisteredInv
  <2>3. CASE Cleared
    <3> DEFINE e == Head(timeouts)
               i == e.iop
               r == IF comp[i].kind = "sleep" THEN "none" ELSE "timeout"
               b == [comp[i] EXCEPT !.st = "resumed", !.result = r]
    <3>1. timeouts # <<>> /\ TimedOut(i) /\ pc = "timeouts"
      BY <2>3 DEF Cleared, EarliestDue
    <3>2. e \in Entry /\ Range(timeouts) = Range(Tail(timeouts)) \cup {e}
      BY <2>0, <3>1, TailRange
    <3>3. i \in Iop
      BY <3>2 DEF Entry
    <3>4. /\ timeouts' = Tail(timeouts) /\ continuations' = continuations
          /\ \/ Suspended(i) /\ comp' = [comp EXCEPT ![i] = b] /\ CancelIop(i) /\ pc' = pc
             \/ ~Suspended(i) /\ UNCHANGED <<comp, requests>> /\ pc' = "undefined"
      BY <3>1 DEF TimedOut
    <3>5. \A t \in Range(timeouts) : t.iop # i => t \in Range(timeouts')
      BY <3>2, <3>4
    <3>6. CASE Suspended(i) /\ comp' = [comp EXCEPT ![i] = b] /\ CancelIop(i) /\ pc' = pc
      <4>1. comp[i] \in Completion /\ comp[i].st \in {"suspended", "resumed"}
        BY <3>3, <3>6 DEF TypeOK, Suspended
      <4>2. b.st # "suspended" /\ comp' = [comp EXCEPT ![i] = b]
        BY <3>6, <4>1 DEF Completion
      <4>3. \A q \in Queue : i \notin Range(continuations[q])
        BY <3>1 DEF RegisteredInv, Range
      <4> HIDE DEF b, i
      <4>4. QueuesOK' /\ Registered'
        BY <2>0, <3>3, <3>4, <3>5, <3>6, <4>1, <4>2, <4>3, LeaveListed
      <4> QED
        BY <3>4, <3>6, <4>4 DEF RegisteredInv
    <3>7. CASE ~Suspended(i) /\ UNCHANGED <<comp, requests>> /\ pc' = "undefined"
      <4> HIDE DEF i
      <4>1. QueuesOK'
        BY <2>0, <3>4, <3>7 DEF QueuesOK, QueueOK, Waiting, Suspended
      <4>2. \A j \in Iop : Listed(j, requests, continuations, timeouts)'
        BY <2>0, <3>4, <3>5, <3>7 DEF Listed, Suspended
      <4>3. Registered'
        BY <4>2 DEF Registered, Listed
      <4> QED
        BY <3>7, <4>1, <4>3 DEF RegisteredInv
    <3> QED
      BY <3>4, <3>6, <3>7
  <2>4. CASE Polled
    <3>1. /\ \A q \in Queue : continuations[q] = <<>>
          /\ pc' = "dispatch" /\ comp' = comp /\ timeouts' = timeouts
      BY <2>4 DEF Polled, RegisteredInv
    <3>2. Range(<<>>) = {} /\ IsInjective(<<>>)
      BY DEF Range, IsInjective
    <3>3. \A q \in Queue :
            \/ continuations'[q] = requests[q] /\ requests'[q] = <<>>
            \/ continuations'[q] = <<>> /\ requests'[q] = requests[q]
      BY <2>4 DEF Polled
    <3>4. \A q \in Queue :
            /\ Range(requests'[q]) \cup Range(continuations'[q]) =
                 Range(requests[q]) \cup Range(continuations[q])
            /\ IsInjective(requests'[q]) /\ IsInjective(continuations'[q])
            /\ Range(requests'[q]) \cap Range(continuations'[q]) = {}
            /\ \A j \in Range(requests'[q]) \cup Range(continuations'[q]) : Waiting(j, q)
      BY <2>0, <3>1, <3>2, <3>3 DEF QueuesOK, QueueOK
    <3>5. QueuesOK'
      BY <3>1, <3>4 DEF QueuesOK, QueueOK, Waiting, Suspended
    <3>6. Registered'
      <4>1. \A j \in Iop : Suspended(j) => QueueOf(comp[j]) \in Queue
        BY DEF TypeOK, Suspended, QueueOf, Queue, Side
      <4> QED
        BY <2>0, <3>1, <3>4, <4>1 DEF Registered, Suspended
    <3> QED
      BY <3>1, <3>5, <3>6 DEF RegisteredInv
  <2>5. CASE Idle
    <3>1. UNCHANGED <<comp, requests, timeouts, continuations>>
      BY <2>5 DEF Idle
    <3>2. QueuesOK' /\ Registered'
      BY <2>0, <3>1 DEF QueuesOK, QueueOK, Waiting, Suspended, Registered
    <3> QED
      BY <2>5, <3>1, <3>2 DEF RegisteredInv, Idle
  <2>6. ASSUME NEW q \in Queue, NEW i \in Iop, DispatchOf(q, i) PROVE RegisteredInv'
    <3>1. /\ continuations[q] \in Seq(Iop) /\ continuations[q] # <<>>
          /\ i = Head(continuations[q]) /\ pc = "dispatch"
          /\ continuations' = [continuations EXCEPT ![q] = Tail(continuations[q])]
      BY <2>6 DEF DispatchOf, TypeOK
    <3>2. /\ Range(continuations[q]) = Range(Tail(continuations[q])) \cup {i}
          /\ IsInjective(Tail(continuations[q])) /\ i \notin Range(Tail(continuations[q]))
      BY <2>0, <3>1, TailRange DEF QueuesOK, QueueOK
    <3>3. /\ continuations'[q] = Tail(continuations[q])
          /\ \A p \in Queue \ {q} : continuations'[p] = continuations[p]
      BY <3>1 DEF TypeOK
    <3>4. \A p \in Queue : QueueOK(p, requests[p], continuations'[p])
      <4> TAKE p \in Queue
      <4>1. QueueOK(p, requests[p], continuations[p])
        BY <2>0 DEF QueuesOK
      <4>2. CASE p = q
        BY <3>2, <3>3, <4>1, <4>2 DEF QueueOK
      <4>3. CASE p # q
        BY <3>3, <4>1, <4>3
      <4> QED
        BY <4>2, <4>3
    <3>5. \A j \in Iop \ {i} : Listed(j, requests, continuations', timeouts)
      <4>1. \A j \in Iop : Suspended(j) => QueueOf(comp[j]) \in Queue
        BY DEF TypeOK, Suspended, QueueOf, Queue, Side
      <4>2. \A p \in Queue : Range(continuations[p]) \subseteq Range(continuations'[p]) \cup {i}
        BY <3>2, <3>3
      <4> QED
        BY <2>0, <4>1, <4>2 DEF Listed
    <3>6. CASE /\ Suspended(i) /\ UNCHANGED pc
               /\ \/ Waits(i, comp[i], timeouts)
                  \/ Waits(i, comp[i], InsertTimeout(i, comp[i]))
                  \/ Resumes(i, comp[i], timeouts)
      <4> DEFINE c == comp[i]
      <4>1. c \in Completion /\ Used(c) /\ c.st = "suspended"
        BY <3>6 DEF TypeOK, Suspended, Used
      <4>2. Free(i, requests, continuations')
        <5>1. Waiting(i, q)
          BY <2>0, <3>2, <4>1 DEF QueuesOK, QueueOK
        <5>2. \A p \in Queue : i \notin Range(requests[p]) \cup Range(continuations'[p])
          <6> TAKE p \in Queue
          <6>1. QueueOK(p, requests[p], continuations[p])
            BY <2>0 DEF QueuesOK
          <6>2. CASE p = q
            BY <3>2, <3>3, <6>1, <6>2 DEF QueueOK
          <6>3. CASE p # q
            BY <3>3, <4>1, <5>1, <6>1, <6>3 DEF QueueOK, Waiting
          <6> QED
            BY <6>2, <6>3
        <5> QED
          BY <3>4, <5>2 DEF Free
      <4>3. c.deadline # NoDeadline =>
              [at |-> c.deadline, iop |-> i] \in Range(timeouts)
        BY <2>0, <4>1 DEF Listed, Suspended
      <4>4. \/ Waits(i, c, timeouts) \/ Waits(i, c, InsertTimeout(i, c))
            \/ Resumes(i, c, timeouts)
        BY <3>6
      <4> HIDE DEF c
      <4>5. /\ InsertTimeout(i, c) \in Seq(Entry)
            /\ Range(timeouts) \subseteq Range(InsertTimeout(i, c))
        <5>1. c.deadline \in Int \cup {NoDeadline}
          BY <4>1 DEF Completion
        <5> QED
          BY <2>0, <5>1, InsertTimeoutRange
      <4>6. \A j \in Iop \ {i} : Listed(j, requests, continuations', InsertTimeout(i, c))
        BY <3>5, <4>5 DEF Listed
      <4>7. c.deadline # NoDeadline =>
              [at |-> c.deadline, iop |-> i] \in Range(InsertTimeout(i, c))
        BY <4>3, <4>5
      <4>8. QueuesOK' /\ Registered'
        <5>1. CASE Waits(i, c, timeouts) \/ Resumes(i, c, timeouts)
          BY <2>0, <3>5, <4>1, <4>2, <4>3, <5>1, SettlesListed
        <5>2. CASE Waits(i, c, InsertTimeout(i, c))
          BY <2>0, <4>1, <4>2, <4>5, <4>6, <4>7, <5>2, SettlesListed
        <5> QED
          BY <4>4, <5>1, <5>2
      <4> QED
        BY <3>1, <3>6, <4>8 DEF RegisteredInv
    <3>7. CASE ~Suspended(i) /\ pc' = "undefined" /\ UNCHANGED <<comp, requests, timeouts>>
      <4>1. QueuesOK'
        BY <3>4, <3>7 DEF QueuesOK, QueueOK, Waiting, Suspended
      <4>2. \A j \in Iop : Listed(j, requests, continuations', timeouts)
        BY <3>5, <3>7 DEF Listed
      <4>3. Registered'
        BY <3>7, <4>2 DEF Registered, Listed, Suspended
      <4> QED
        BY <3>7, <4>1, <4>3 DEF RegisteredInv
    <3> QED
      BY <2>6, <3>6, <3>7 DEF DispatchOf
  <2> QED
    BY <2>1, <2>2, <2>3, <2>4, <2>5, <2>6, StepEffects
<1>3. RegisteredInv => Registered
  BY DEF RegisteredInv
<1> QED
  BY <1>1, <1>2, <1>3, PollTypeCorrect, PTL DEF Spec

-----------------------------------------------------------------------------
(* The time out given to poll.                                             *)

(* Every deadline that is waited for, or that was, is near. *)
DeadlinesNear ==
  /\ \A t \in Range(timeouts) : Near(t.at)
  /\ \A i \in Iop : comp[i].deadline # NoDeadline => Near(comp[i].deadline)

(* A deadline gets no further away as the clock advances. *)
LEMMA NearStep ==
  ASSUME TypeOK, TypeOK', now' >= now,
         \A t \in Range(timeouts') : Near(t.at),
         \A i \in Iop : comp'[i].deadline # NoDeadline => Near(comp'[i].deadline)
  PROVE  DeadlinesNear'
<1>1. now \in Int /\ now' \in Int
  BY DEF TypeOK
<1>2. \A t \in Range(timeouts') : t.at \in Int
  <2>1. timeouts' \in Seq(Entry)
    BY DEF TypeOK, Entry
  <2>2. Range(timeouts') \subseteq Entry
    BY <2>1, RangeOfSeq
  <2> QED
    BY <2>2 DEF Entry
<1>3. \A i \in Iop : comp'[i].deadline # NoDeadline => comp'[i].deadline \in Int
  BY DEF TypeOK, Completion
<1>4. ASSUME NEW d \in Int, Near(d) PROVE \E u \in Timeout : d <= now' + u
  <2>1. PICK u \in Timeout : d <= now + u
    BY <1>4 DEF Near
  <2>2. u \in Int
    BY ConstantsAssumption
  <2>3. \A a, b, m, n \in Int : a <= m + b /\ n >= m => a <= n + b
    OBVIOUS
  <2>4. d <= now' + u
    BY <1>1, <2>1, <2>2, <2>3
  <2> QED
    BY <2>4
<1> QED
  BY <1>2, <1>3, <1>4 DEF DeadlinesNear, Near

(* Deadlines are made of time outs, and a connect that is armed again has   *)
(* the deadline it had.                                                     *)
LEMMA PollDeadlinesNear == Spec => []DeadlinesNear
<1>1. Init => DeadlinesNear
  BY DEF Init, DeadlinesNear, Unused, Range
<1>2. TypeOK /\ TypeOK' /\ DeadlinesNear /\ [Next]_vars => DeadlinesNear'
  <2> SUFFICES ASSUME TypeOK, TypeOK', DeadlinesNear, [Next]_vars PROVE DeadlinesNear'
    OBVIOUS
  <2>0. /\ timeouts \in Seq(Entry) /\ comp \in [Iop -> Completion] /\ now \in Int
        /\ now' = now => now' >= now
    BY DEF TypeOK, Entry
  <2>1. ASSUME NEW i \in Iop, NEW c \in Completion, now' = now,
               c.deadline # NoDeadline => Near(c.deadline),
               NEW ts, ts \in {timeouts, InsertTimeout(i, c)},
               Waits(i, c, ts) \/ Resumes(i, c, ts)
        PROVE  DeadlinesNear'
    <3>1. c.deadline \in Int \cup {NoDeadline}
      BY DEF Completion
    <3>2. ts \in Seq(Entry) /\ \A t \in Range(ts) : Near(t.at)
      <4>1. CASE ts = timeouts
        BY <2>0, <4>1 DEF DeadlinesNear
      <4>2. CASE ts = InsertTimeout(i, c)
        BY <2>0, <2>1, <3>1, <4>2, InsertTimeoutRange DEF DeadlinesNear
      <4> QED
        BY <2>1, <4>1, <4>2
    <3>3. \A t \in Range(timeouts') : Near(t.at)
      <4>1. timeouts' = ts \/ timeouts' = CancelTimeout(ts, i)
        BY <2>1 DEF Waits, Resumes, Park, ResumeWith
      <4> QED
        BY <3>2, <4>1, CancelTimeoutSubset
    <3>4. \A j \in Iop : comp'[j].deadline \in {comp[j].deadline, c.deadline}
      <4>1. CASE Waits(i, c, ts)
        BY <2>0, <4>1 DEF Waits, Park
      <4>2. CASE Resumes(i, c, ts)
        <5>1. PICK res \in {"none", "value", "error", "badfd"} :
                comp' = [comp EXCEPT ![i] = [c EXCEPT !.st = "resumed", !.result = res]]
          BY <4>2, Zenon DEF Resumes, ResumeWith
        <5>2. [c EXCEPT !.st = "resumed", !.result = res].deadline = c.deadline
          BY DEF Completion
        <5> QED
          BY <2>0, <5>1, <5>2
      <4> QED
        BY <2>1, <4>1, <4>2
    <3> QED
      BY <2>0, <2>1, <3>3, <3>4, NearStep DEF DeadlinesNear
  <2>2. CASE Awaited
    BY <2>1, <2>2 DEF Awaited
  <2>3. CASE Destructed
    <3>1. \A t \in Range(timeouts') : Near(t.at)
      BY <2>0, <2>3, CancelTimeoutSubset DEF Destructed, DeadlinesNear
    <3>2. \A j \in Iop : comp'[j].deadline \in {comp[j].deadline, NoDeadline}
      BY <2>0, <2>3 DEF Destructed, Unused
    <3> QED
      BY <2>0, <2>3, <3>1, <3>2, NearStep DEF Destructed, DeadlinesNear
  <2>4. CASE Cleared
    <3>1. timeouts # <<>> /\ timeouts' = Tail(timeouts) /\ now' = now
      BY <2>4 DEF Cleared, EarliestDue, TimedOut
    <3>2. \A t \in Range(timeouts') : Near(t.at)
      BY <2>0, <3>1, TailRange DEF DeadlinesNear
    <3>3. \A j \in Iop : comp'[j].deadline = comp[j].deadline
      <4> DEFINE i == Head(timeouts).iop
                 c(res) == [comp[i] EXCEPT !.st = "resumed", !.result = res]
                 res == IF comp[i].kind = "sleep" THEN "none" ELSE "timeout"
      <4>1. comp' = comp \/ comp' = [comp EXCEPT ![i] = c(res)]
        BY <2>4 DEF Cleared, TimedOut
      <4>2. i \in Iop
        <5>1. Head(timeouts) \in Entry
          BY <2>0, <3>1, HeadTailProperties
        <5> QED
          BY <5>1 DEF Entry
      <4>3. c(res).deadline = comp[i].deadline
        BY <2>0, <4>2 DEF Completion
      <4> HIDE DEF i, c
      <4> QED
        BY <2>0, <4>1, <4>2, <4>3
    <3> QED
      BY <2>0, <3>1, <3>2, <3>3, NearStep DEF DeadlinesNear
  <2>5. CASE Polled \/ Idle
    BY <2>0, <2>5, NearStep DEF Polled, Idle, DeadlinesNear
  <2>6. ASSUME NEW q \in Queue, NEW i \in Iop, DispatchOf(q, i) PROVE DeadlinesNear'
    <3>1. comp[i] \in Completion /\ (comp[i].deadline # NoDeadline => Near(comp[i].deadline))
      BY <2>0 DEF DeadlinesNear
    <3>2. CASE UNCHANGED <<comp, timeouts>>
      BY <2>0, <2>6, <3>2, NearStep DEF DispatchOf, DeadlinesNear
    <3> QED
      BY <2>1, <2>6, <3>1, <3>2 DEF DispatchOf
  <2> QED
    BY <2>2, <2>3, <2>4, <2>5, <2>6, StepEffects
<1> QED
  BY <1>1, <1>2, PollTypeCorrect, PTL DEF Spec

(* Whole milliseconds are cut, and a count of them that fits an int keeps   *)
(* its value.                                                               *)
LEMMA CutToMilliseconds ==
  ASSUME NEW D \in Int, NEW u \in Int, D <= u, u \div Ms <= IntMax, D >= Ms
  PROVE  /\ D \div Ms \in Nat /\ ToInt(D \div Ms) = D \div Ms
         /\ (D \div Ms) * Ms <= D /\ D - (D \div Ms) * Ms < Ms
<1> DEFINE a == D \div Ms
           b == u \div Ms
<1>0. Ms \in Nat \ {0} /\ IntMax \in Nat
  BY ConstantsAssumption
<1>1. a \in Int /\ a * Ms <= D /\ D < a * Ms + Ms
  BY <1>0
<1>2. b \in Int /\ b * Ms <= u /\ u < b * Ms + Ms
  BY <1>0
<1>3. b <= IntMax
  OBVIOUS
<1> HIDE DEF a, b
<1>4. \A x, y \in Int : x < y => x * Ms + Ms <= y * Ms
  <2> SUFFICES ASSUME NEW x \in Int, NEW y \in Int, x < y
               PROVE  x * Ms + Ms <= y * Ms
    OBVIOUS
  <2>1. PICK k \in Nat : y = x + 1 + k
    <3>1. y - x - 1 \in Nat /\ y = x + 1 + (y - x - 1)
      OBVIOUS
    <3> QED
      BY <3>1
  <2>2. y * Ms = x * Ms + Ms + k * Ms /\ k * Ms >= 0
    BY <1>0, <2>1
  <2> QED
    BY <1>0, <2>2
<1>5. a <= b
  <2> SUFFICES ASSUME b < a PROVE FALSE
    BY <1>1, <1>2
  <2>1. b * Ms + Ms <= a * Ms
    BY <1>1, <1>2, <1>4
  <2> QED
    BY <1>0, <1>1, <1>2, <2>1
<1>6. a >= 0
  <2> SUFFICES ASSUME a < 0 PROVE FALSE
    BY <1>1
  <2>1. a * Ms + Ms <= 0 * Ms
    BY <1>1, <1>4
  <2> QED
    BY <1>0, <1>1, <2>1
<1>7. a + IntMax + 1 \in 0..(2 * (IntMax + 1) - 1)
  BY <1>0, <1>1, <1>2, <1>3, <1>5, <1>6
<1>8. (a + IntMax + 1) % (2 * (IntMax + 1)) = a + IntMax + 1
  BY <1>0, <1>1, <1>7
<1>9. ToInt(a) = a
  BY <1>0, <1>1, <1>8 DEF ToInt
<1> QED
  BY <1>0, <1>1, <1>6, <1>9 DEF a

(* What poll is about to be given, when no deadline is due. *)
LEMMA PollWaitRight ==
  ASSUME TypeOK, Registered, TimeoutsOrdered, DeadlinesNear, ~EarliestDue,
         \A u \in Timeout : u \div Ms <= IntMax,
         NEW w \in Int, w = IF run = "batch" THEN now
                           ELSE IF PollWait < 0 THEN -1 ELSE now + PollWait * Ms
  PROVE  /\ \A i \in Iop :
              Suspended(i) /\ comp[i].deadline # NoDeadline => w \in 0..comp[i].deadline
         /\ w >= 0 /\ run # "batch" => \E t \in Range(timeouts) : t.at - w < Ms
<1>0. timeouts \in Seq(Entry) /\ now \in Nat /\ Ms \in Nat \ {0}
  BY ConstantsAssumption DEF TypeOK, Entry
<1>1. CASE timeouts = <<>>
  <2>1. \A i \in Iop : ~(Suspended(i) /\ comp[i].deadline # NoDeadline)
    BY <1>1 DEF Registered, Range
  <2>2. run # "batch" => w = -1
    BY <1>1 DEF PollWait
  <2> QED
    BY <2>1, <2>2
<1>2. CASE timeouts # <<>>
  <2> DEFINE h == Head(timeouts)
  <2>1. h \in Entry /\ h = timeouts[1] /\ 1 \in DOMAIN timeouts /\ h \in Range(timeouts)
    BY <1>0, <1>2, HeadTailProperties, LenProperties DEF Range
  <2>2. PICK x \in Int : x = h.at
    BY <2>1 DEF Entry
  <2> DEFINE D == x - now
  <2>3. D \in Int /\ D >= Ms
    <3>1. ~(x - now < Ms)
      BY <1>2, <2>2 DEF EarliestDue, Expired
    <3> QED
      BY <1>0, <3>1
  <2>4. PICK u \in Timeout : x <= now + u
    BY <2>1, <2>2 DEF DeadlinesNear, Near
  <2>5. u \in Int /\ D <= u /\ u \div Ms <= IntMax
    <3>1. u \in Int /\ u \div Ms <= IntMax
      BY ConstantsAssumption
    <3>2. \A m, n \in Int : m <= now + n => m - now <= n
      BY <1>0
    <3> QED
      BY <2>4, <3>1, <3>2
  <2> DEFINE a == D \div Ms
  <2>6. a \in Nat /\ ToInt(a) = a /\ a * Ms <= D /\ D - a * Ms < Ms
    BY <2>3, <2>5, CutToMilliseconds
  <2>7. PollWait = ToInt(a)
    BY <1>2, <2>2 DEF PollWait
  <2>8. \A t \in Range(timeouts) : t.at \in Int /\ x <= t.at
    <3> SUFFICES ASSUME NEW n \in DOMAIN timeouts
                 PROVE  timeouts[n].at \in Int /\ x <= timeouts[n].at
      BY DEF Range
    <3>1. DOMAIN timeouts = 1..Len(timeouts) /\ Len(timeouts) \in Nat
      BY <1>0, LenProperties
    <3>2. timeouts[n].at \in Int
      <4>1. timeouts[n] \in Entry
        BY <1>0, <3>1, ElementOfSeq
      <4> QED
        BY <4>1 DEF Entry
    <3>3. CASE n = 1
      BY <2>1, <2>2, <3>2, <3>3
    <3>4. CASE n # 1
      <4>1. 1 < n
        BY <3>1, <3>4
      <4> QED
        BY <2>1, <2>2, <3>2, <4>1 DEF TimeoutsOrdered
    <3> QED
      BY <3>3, <3>4
  <2> HIDE DEF h, a
  <2>9. w \in 0..x /\ (run # "batch" => x - w < Ms)
    <3>1. CASE run = "batch"
      <4>1. w = now
        BY <3>1
      <4> QED
        BY <1>0, <2>3, <3>1, <4>1
    <3>2. CASE run # "batch"
      <4>1. w = now + a * Ms
        BY <2>6, <2>7, <3>2
      <4> DEFINE p == a * Ms
      <4>2. p \in Nat
        BY <1>0, <2>6
      <4>3. w = now + p /\ p <= D /\ D - p < Ms
        BY <2>6, <4>1
      <4> HIDE DEF p
      <4>4. p <= x - now /\ x - now - p < Ms
        BY <4>3
      <4>5. now + p \in 0..x /\ x - (now + p) < Ms
        BY <1>0, <4>2, <4>4
      <4> QED
        BY <4>3, <4>5
    <3> QED
      BY <3>1, <3>2
  <2>10. ASSUME NEW i \in Iop, Suspended(i), comp[i].deadline # NoDeadline
         PROVE  w \in 0..comp[i].deadline
    <3> DEFINE e == [at |-> comp[i].deadline, iop |-> i]
    <3>1. e \in Range(timeouts)
      BY <2>10 DEF Registered
    <3>2. e.at = comp[i].deadline
      OBVIOUS
    <3> HIDE DEF e
    <3> QED
      BY <2>8, <2>9, <3>1, <3>2
  <2> QED
    BY <2>1, <2>2, <2>9, <2>10
<1> QED
  BY <1>1, <1>2

(* poll sleeps to the earliest deadline in whole milliseconds and not past  *)
(* it, for any number of IOPs with deadlines in any order, through connects *)
(* that are armed again, destroyed IOPs and a clock that advances at any    *)
(* time - provided that no time out is of more milliseconds than an int     *)
(* holds.                                                                   *)
THEOREM PollWakesInTime ==
  ASSUME \A u \in Timeout : u \div Ms <= IntMax
  PROVE  Spec => []WakesInTime
<1> DEFINE Inv == WakesInTime /\ (pc = "poll" => ~user)
<1>1. Init => Inv
  BY DEF Init, WakesInTime
<1>2. (TypeOK /\ TypeOK' /\ Registered /\ TimeoutsOrdered /\ DeadlinesNear /\ Inv
         /\ [Next]_vars) => Inv'
  <2> SUFFICES ASSUME TypeOK, TypeOK', Registered, TimeoutsOrdered, DeadlinesNear, Inv,
                      [Next]_vars
               PROVE  Inv'
    OBVIOUS
  <2>1. CASE TimeoutsCleared
    <3>1. CASE pc' = "poll"
      <4>1. /\ ~EarliestDue /\ user' = FALSE
            /\ until' = IF run = "batch" THEN now
                        ELSE IF PollWait < 0 THEN -1 ELSE now + PollWait * Ms
            /\ UNCHANGED <<run, comp, timeouts>>
        BY <2>1, <3>1 DEF TimeoutsCleared
      <4>2. until' \in Int
        BY DEF TypeOK
      <4>3. /\ \A i \in Iop : Suspended(i) /\ comp[i].deadline # NoDeadline =>
                 until' \in 0..comp[i].deadline
            /\ until' >= 0 /\ run # "batch" =>
                 \E t \in Range(timeouts) : t.at - until' < Ms
        BY <4>1, <4>2, PollWaitRight
      <4> QED
        BY <4>1, <4>3 DEF WakesInTime, Suspended
    <3>2. CASE pc' # "poll"
      BY <3>2 DEF WakesInTime
    <3> QED
      BY <3>1, <3>2
  <2>2. CASE pc = "poll" /\ UNCHANGED <<pc, run, user, until, comp, timeouts>>
    BY <2>2 DEF WakesInTime, Suspended
  <2>3. CASE pc' # "poll"
    BY <2>3 DEF WakesInTime
  <2>4. \/ TimeoutsCleared \/ pc' # "poll"
        \/ pc = "poll" /\ UNCHANGED <<pc, run, user, until, comp, timeouts>>
    <3>1. CASE User \/ UserReturn
      <4>1. user /\ pc # "poll" /\ pc' = pc
        BY <3>1 DEF User, UserReturn, Await, Destruct, Discard, CloseFd, OpenFd,
                    AsyncResume, FinishPrimary, loop
      <4> QED
        BY <4>1
    <3>2. CASE RunUntil \/ RunBatch
      BY <3>2 DEF RunUntil, RunBatch
    <3>3. CASE Loop
      <4>1. ASSUME NEW q \in Queue, Dispatch(q) PROVE pc' # "poll"
        BY <4>1 DEF Dispatch
      <4>2. CASE ClearTimeout
        BY <4>2 DEF ClearTimeout, TimedOut
      <4>3. CASE PollReady \/ PollTimesOut
        BY <4>3 DEF PollReady, PollTimesOut, PollReturns
      <4>4. CASE SwapQueues \/ ResumeNext \/ ResumedAll
        BY <4>4 DEF SwapQueues, ResumeNext, ResumedAll
      <4> QED
        BY <3>3, <4>1, <4>2, <4>3, <4>4 DEF Loop
    <3>4. CASE PollInterrupted \/ PollThrows
      BY <3>4 DEF PollInterrupted, PollReturns, PollThrows
    <3>5. CASE Environment \/ UNCHANGED vars
      BY <3>5 DEF Environment, Tick, PeerActs, vars, loop
    <3> QED
      BY <3>1, <3>2, <3>3, <3>4, <3>5 DEF Next
  <2> QED
    BY <2>1, <2>2, <2>3, <2>4
<1> QED
  BY <1>1, <1>2, PollTypeCorrect, PollRegistered, PollTimeoutsOrdered,
     PollDeadlinesNear, PTL DEF Spec

=============================================================================
