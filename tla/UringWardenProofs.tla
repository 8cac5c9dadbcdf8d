------------------------- MODULE UringWardenProofs -------------------------
(***************************************************************************)
(* Theorems about UringWarden, for every number of completions and handles *)
(* and every size of the submission ring.                                  *)
(***************************************************************************)
EXTENDS UringWarden, SeqLemmas, FiniteSetTheorems

-----------------------------------------------------------------------------
(* The completion ring.                                                    *)

(* No two entries of s answer the same entry of the submission ring. *)
DistinctAnswers(s) ==
  \A m, n \in DOMAIN s :
    s[m].iop = s[n].iop /\ s[m].op = s[n].op /\ s[m].op # "nop" => m = n

(* The kernel posts an answer at the end of the ring. *)
LEMMA AppendAnswered ==
  ASSUME NEW s \in Seq(Cqe), NEW c \in Cqe
  PROVE  /\ Append(s, c) \in Seq(Cqe)
         /\ \A e : Answered(Append(s, c), e)
                     <=> (Answered(s, e) \/ (c.iop = e.iop /\ c.op = e.op))
         /\ DistinctAnswers(s) /\ ~Answered(s, c) => DistinctAnswers(Append(s, c))
<1> DEFINE r == Append(s, c)
<1>1. /\ r \in Seq(Cqe) /\ Len(r) = Len(s) + 1 /\ r[Len(s) + 1] = c
      /\ \A n \in 1..Len(s) : r[n] = s[n]
  BY AppendProperties
<1>2. /\ Len(s) \in Nat /\ DOMAIN s = 1..Len(s)
      /\ DOMAIN r = 1..(Len(s) + 1)
  BY <1>1, LenProperties
<1> HIDE DEF r
<1>3. ASSUME NEW e
      PROVE  Answered(r, e) <=> (Answered(s, e) \/ (c.iop = e.iop /\ c.op = e.op))
  BY <1>1, <1>2 DEF Answered
<1>4. ASSUME DistinctAnswers(s), ~Answered(s, c)
      PROVE  DistinctAnswers(r)
  BY <1>1, <1>2, <1>4 DEF Answered, DistinctAnswers
<1> QED
  BY <1>1, <1>3, <1>4 DEF r

(* execute takes the first answer. *)
LEMMA TailAnswered ==
  ASSUME NEW s \in Seq(Cqe), s # <<>>
  PROVE  /\ Tail(s) \in Seq(Cqe) /\ Head(s) \in Cqe
         /\ \A e : Answered(s, e)
              <=> (Answered(Tail(s), e) \/ (Head(s).iop = e.iop /\ Head(s).op = e.op))
         /\ DistinctAnswers(s) =>
              /\ DistinctAnswers(Tail(s))
              /\ Head(s).op # "nop" => ~Answered(Tail(s), Head(s))
<1> DEFINE r == Tail(s)
<1>0. Len(s) \in Nat /\ Len(s) > 0 /\ DOMAIN s = 1..Len(s)
  BY LenProperties, EmptySeq
<1>1. /\ r \in Seq(Cqe) /\ Head(s) \in Cqe /\ Head(s) = s[1]
      /\ Len(r) = Len(s) - 1 /\ \A n \in 1..Len(r) : r[n] = s[n + 1]
  BY <1>0, HeadTailProperties
<1>2. DOMAIN r = 1..(Len(s) - 1)
  BY <1>1, LenProperties
<1> HIDE DEF r
<1>3. ASSUME NEW e
      PROVE  Answered(s, e)
               <=> (Answered(r, e) \/ (Head(s).iop = e.iop /\ Head(s).op = e.op))
  <2>1. ASSUME NEW n \in DOMAIN s, s[n].iop = e.iop /\ s[n].op = e.op, n # 1
        PROVE  Answered(r, e)
    <3>1. n - 1 \in DOMAIN r /\ r[n - 1] = s[n]
      BY <1>0, <1>1, <1>2, <2>1
    <3> QED
      BY <2>1, <3>1 DEF Answered
  <2>2. ASSUME NEW n \in DOMAIN r, r[n].iop = e.iop /\ r[n].op = e.op
        PROVE  Answered(s, e)
    <3>1. n + 1 \in DOMAIN s /\ r[n] = s[n + 1]
      BY <1>0, <1>1, <1>2
    <3> QED
      BY <2>2, <3>1 DEF Answered
  <2> QED
    BY <1>0, <1>1, <2>1, <2>2 DEF Answered
<1>4. ASSUME DistinctAnswers(s)
      PROVE  DistinctAnswers(r) /\ (Head(s).op # "nop" => ~Answered(r, Head(s)))
  <2>1. \A n \in DOMAIN r : n + 1 \in DOMAIN s /\ r[n] = s[n + 1] /\ n + 1 # 1
    BY <1>0, <1>1, <1>2
  <2>2. DistinctAnswers(r)
    <3> SUFFICES ASSUME NEW m \in DOMAIN r, NEW n \in DOMAIN r,
                        r[m].iop = r[n].iop /\ r[m].op = r[n].op /\ r[m].op # "nop"
                 PROVE  m = n
      BY DEF DistinctAnswers
    <3>1. m + 1 = n + 1
      BY <1>4, <2>1 DEF DistinctAnswers
    <3> QED
      BY <1>0, <1>2, <3>1
  <2>3. ASSUME Head(s).op # "nop", Answered(r, Head(s)) PROVE FALSE
    <3>1. PICK n \in DOMAIN r : r[n].iop = s[1].iop /\ r[n].op = s[1].op
      BY <1>1, <2>3 DEF Answered
    <3>2. 1 \in DOMAIN s
      BY <1>0
    <3> QED
      BY <1>1, <1>4, <2>1, <2>3, <3>1, <3>2 DEF DistinctAnswers
  <2> QED
    BY <2>2, <2>3
<1> QED
  BY <1>1, <1>3, <1>4 DEF r

(* The answers to wake-up NOPs answer no completion's entry. *)
LEMMA NopsAnswered ==
  ASSUME NEW s \in Seq(Cqe), NEW k \in Nat
  PROVE  LET r == s \o [n \in 1..k |-> NopCqe]
         IN  /\ r \in Seq(Cqe)
             /\ \A e \in Entry : Answered(r, e) <=> Answered(s, e)
             /\ DistinctAnswers(s) => DistinctAnswers(r)
<1> DEFINE t == [n \in 1..k |-> NopCqe]
           r == s \o t
<1>1. t \in Seq(Cqe) /\ Len(t) = k /\ \A n \in 1..k : t[n] = NopCqe
  <2>1. NopCqe \in Cqe
    BY DEF Cqe
  <2>2. t \in Seq(Cqe)
    BY <2>1, IsASeq
  <2> QED
    BY <2>2, LenProperties
<1> HIDE DEF t
<1>2. /\ r \in Seq(Cqe) /\ Len(r) = Len(s) + k
      /\ \A n \in 1..Len(r) : r[n] = IF n <= Len(s) THEN s[n] ELSE t[n - Len(s)]
  BY <1>1, ConcatProperties
<1>3. Len(s) \in Nat /\ DOMAIN s = 1..Len(s) /\ DOMAIN r = 1..(Len(s) + k)
  BY <1>2, LenProperties
<1> HIDE DEF r
<1>4. /\ \A n \in DOMAIN s : n \in DOMAIN r /\ r[n] = s[n]
      /\ \A n \in DOMAIN r : n \in DOMAIN s \/ r[n].op = "nop"
  <2>1. ASSUME NEW n \in DOMAIN r, n \notin DOMAIN s PROVE r[n].op = "nop"
    <3>1. n - Len(s) \in 1..k /\ ~(n <= Len(s))
      BY <1>3, <2>1
    <3>2. r[n] = NopCqe
      BY <1>1, <1>2, <1>3, <3>1
    <3> QED
      BY <3>2 DEF NopCqe
  <2> QED
    BY <1>2, <1>3, <2>1
<1>5. ASSUME NEW e \in Entry PROVE Answered(r, e) <=> Answered(s, e)
  <2>1. e.op # "nop"
    BY DEF Entry, Op
  <2> QED
    BY <1>4, <2>1 DEF Answered
<1>6. DistinctAnswers(s) => DistinctAnswers(r)
  BY <1>4 DEF DistinctAnswers
<1> QED
  BY <1>2, <1>5, <1>6 DEF r, t

(* The NOPs of a ring can be counted. *)
LEMMA NopsCount ==
  ASSUME NEW S, NEW s \in Seq(S)
  PROVE  Nops(s) \in Nat
<1>1. Len(s) \in Nat /\ DOMAIN s = 1..Len(s)
  BY LenProperties
<1>2. IsFiniteSet(1..Len(s))
  BY <1>1, FS_Interval
<1>3. IsFiniteSet({n \in DOMAIN s : s[n] = Nop})
  BY <1>1, <1>2, FS_Subset
<1> QED
  BY <1>3, FS_CardinalityType DEF Nops

-----------------------------------------------------------------------------
(* The inductive invariant.                                                *)

(* An entry is in one place only: the submission ring, the kernel, the      *)
(* completion ring or the execute in progress.                              *)
OnePlace ==
  /\ DistinctAnswers(cq)
  /\ \A e \in Entry :
       /\ e \in Range(sq) => kernel[e] = "none"
       /\ Answered(cq, e) => e \notin Range(sq) /\ kernel[e] = "none"
       /\ current = e => e \notin Range(sq) /\ kernel[e] = "none" /\ ~Answered(cq, e)

(* execute is in progress only while the ring is drained; nothing runs once *)
(* the warden is gone; an IOP that exists has its completion; what is       *)
(* listed has its flag.                                                     *)
Bookkeeping ==
  /\ pc # "drain" => current = Idle
  /\ pc = "ended" => ~user
  /\ \A i \in Iop : comp[i].iop_exists => comp[i].st \in {"idle", "live"}
  /\ \A i \in outstanding : comp[i].is_outstanding

(* The inductive invariant of the lives of the completions. *)
LifeInv ==
  TypeOK /\ OnePlace /\ UserDataLive /\ CountExact /\ OutstandingLive /\ Bookkeeping

(* The entries of a completion are two, and neither is the NOP. *)
LEMMA EntriesApart ==
  /\ Nop \notin Entry /\ Idle \notin Entry
  /\ \A i \in Iop : OpOf(i) \in Entry /\ TimerOf(i) \in Entry /\ OpOf(i) # TimerOf(i)
  /\ \A e \in Entry : e = OpOf(e.iop) \/ e = TimerOf(e.iop)
<1>1. Nop \notin Entry /\ Idle \notin Entry
  BY ConstantsAssumption DEF Nop, Idle, Entry, Op
<1>2. \A i \in Iop : OpOf(i) \in Entry /\ TimerOf(i) \in Entry /\ OpOf(i) # TimerOf(i)
  BY DEF OpOf, TimerOf, Entry, Op
<1>3. \A e \in Entry : e = OpOf(e.iop) \/ e = TimerOf(e.iop)
  BY DEF OpOf, TimerOf, Entry, Op
<1> QED
  BY <1>1, <1>2, <1>3

(* The invariant holds of a warden that was just made. *)
LEMMA LifeInvInit == Init => LifeInv
<1> SUFFICES ASSUME Init PROVE LifeInv
  OBVIOUS
<1> USE DEF Init
<1>1. Unused \in Completion /\ Unused.st = "unused" /\ ~Unused.iop_exists
  BY DEF Unused, Completion
<1>2. TypeOK
  <2>1. sq \in Seq(Entry \cup {Nop}) /\ Len(sq) = 0 /\ cq \in Seq(Cqe)
    BY EmptySeq
  <2> QED
    BY <1>1, <2>1, ConstantsAssumption DEF TypeOK
<1>3. OnePlace /\ InFlight = {}
  BY EntriesApart DEF OnePlace, DistinctAnswers, Answered, InFlight, Range
<1>4. UserDataLive /\ CountExact /\ OutstandingLive /\ Bookkeeping
  BY <1>1, <1>3 DEF UserDataLive, CountExact, OutstandingLive, Bookkeeping
<1> QED
  BY <1>2, <1>3, <1>4 DEF LifeInv

(* io_uring_submit moves entries to the kernel, or leaves them.             *)
LEMMA SubmittedMoves ==
  ASSUME LifeInv, NEW s \in Seq(Entry \cup {Nop}), Len(s) <= Entries,
         Range(s) \ {Nop} = Range(sq) \ {Nop}, current' = current, Submitted(s)
  PROVE  /\ sq' \in Seq(Entry \cup {Nop}) /\ Len(sq') <= Entries
         /\ kernel' \in [Entry -> {"none", "armed", "fired"}]
         /\ cq' \in Seq(Cqe)
         /\ OnePlace'
         /\ InFlight' = InFlight
<1> USE DEF LifeInv
<1>0. \A e \in Entry : e \in Range(s) <=> e \in Range(sq)
  BY EntriesApart
<1>1. CASE /\ sq' = <<>>
           /\ kernel' = [e \in Entry |-> IF e \in Range(s) THEN "armed" ELSE kernel[e]]
           /\ cq' = cq \o [n \in 1..Nops(s) |-> NopCqe]
  <2>1. Nops(s) \in Nat
    BY NopsCount
  <2>2. /\ cq' \in Seq(Cqe)
        /\ \A e \in Entry : Answered(cq', e) <=> Answered(cq, e)
        /\ DistinctAnswers(cq) => DistinctAnswers(cq')
    BY <1>1, <2>1, NopsAnswered DEF TypeOK
  <2>3. sq' \in Seq(Entry \cup {Nop}) /\ Len(sq') <= Entries /\ Range(sq') = {}
    BY <1>1, EmptySeq, ConstantsAssumption DEF Range
  <2>4. kernel' \in [Entry -> {"none", "armed", "fired"}]
    BY <1>1 DEF TypeOK
  <2>5. \A e \in Entry : kernel'[e] # "none" <=> (e \in Range(sq) \/ kernel[e] # "none")
    BY <1>0, <1>1
  <2>6. OnePlace'
    BY <2>2, <2>3, <2>5 DEF OnePlace
  <2>7. InFlight' = InFlight
    BY <2>2, <2>3, <2>5 DEF InFlight
  <2> QED
    BY <2>2, <2>3, <2>4, <2>6, <2>7
<1>2. CASE sq' = s /\ UNCHANGED <<kernel, cq>>
  <2>1. OnePlace'
    BY <1>0, <1>2 DEF OnePlace
  <2>2. InFlight' = InFlight
    BY <1>0, <1>2 DEF InFlight
  <2> QED
    BY <1>2, <2>1, <2>2 DEF TypeOK
<1> QED
  BY <1>1, <1>2 DEF Submitted

(* Completions that keep what the invariant says of them, and nothing in    *)
(* flight that was not.                                                     *)
LEMMA SameFlight ==
  ASSUME LifeInv, InFlight' = InFlight, comp' = comp, outstanding' = outstanding,
         pc = "ended" <=> pc' = "ended"
  PROVE  UserDataLive' /\ CountExact' /\ OutstandingLive'
<1>1. \A i \in Iop : Pending(i)' = Pending(i)
  BY DEF Pending, OpOf, TimerOf
<1> QED
  BY <1>1 DEF LifeInv, UserDataLive, CountExact, OutstandingLive

(* A completion as it is made has its IOP. *)
LEMMA FreshCompletion ==
  ASSUME NEW k \in Kind, NEW d \in BOOLEAN
  PROVE  /\ Fresh(k, d) \in Completion
         /\ Fresh(k, d).st = "idle" /\ Fresh(k, d).iop_exists
  BY DEF Fresh, Completion

(* A completion with n entries submitted has its IOP, and counts them. *)
LEMMA LiveCompletion ==
  ASSUME NEW k \in Kind, NEW d \in BOOLEAN, NEW n \in 0..2, NEW w \in BOOLEAN
  PROVE  /\ Live(k, d, n, w) \in Completion
         /\ Live(k, d, n, w).st = "live" /\ Live(k, d, n, w).iop_exists
         /\ Live(k, d, n, w).iop_count = n
  BY DEF Live, Completion

(* await_suspend of completion i, from what it appended to the ring. *)
LEMMA AwaitStep ==
  ASSUME LifeInv, NEW i \in Iop, NEW k \in Kind, NEW d \in BOOLEAN, Await(i, k, d)
  PROVE  LifeInv'
<1> USE DEF LifeInv
<1>0. /\ comp[i].st = "unused"
      /\ UNCHANGED <<pc, run, user, outstanding, kernel, cq, current, queued, resuming>>
  BY DEF Await, loop, async
<1>1. /\ OpOf(i) \in Entry /\ TimerOf(i) \in Entry /\ OpOf(i) # TimerOf(i)
      /\ OpOf(i).iop = i /\ TimerOf(i).iop = i
      /\ \A e \in Entry : e.iop = i => e = OpOf(i) \/ e = TimerOf(i)
      /\ \A j \in Iop : j # i => OpOf(j).iop # i /\ TimerOf(j).iop # i
      /\ \A j \in Iop : OpOf(j) \in Entry /\ TimerOf(j) \in Entry
  BY EntriesApart DEF OpOf, TimerOf
<1>2. \A e \in Entry : e.iop = i =>
        e \notin Range(sq) /\ kernel[e] = "none" /\ ~Answered(cq, e) /\ current # e
  BY <1>0 DEF UserDataLive, InFlight
<1>3. i \notin outstanding
  BY <1>0 DEF OutstandingLive
<1>5. ASSUME NEW new \in SUBSET Entry, NEW b \in Completion,
             sq' \in Seq(Entry \cup {Nop}), Len(sq') <= Entries,
             Range(sq') = Range(sq) \cup new, \A e \in new : e.iop = i,
             comp' = [comp EXCEPT ![i] = b],
             b.iop_exists, b.st \in {"idle", "live"}, b.st = "idle" => new = {},
             b.st = "live" => b.iop_count = (IF OpOf(i) \in new THEN 1 ELSE 0)
                                              + (IF TimerOf(i) \in new THEN 1 ELSE 0)
      PROVE  LifeInv'
  <2>0. comp \in [Iop -> Completion]
    BY DEF TypeOK
  <2>1. TypeOK'
    BY <1>0, <1>5, <2>0 DEF TypeOK
  <2>2. OnePlace'
    BY <1>0, <1>2, <1>5 DEF OnePlace
  <2>3. InFlight' = InFlight \cup new
    BY <1>0, <1>5 DEF InFlight
  <2>4. UserDataLive'
    <3> SUFFICES ASSUME NEW e \in InFlight \cup new PROVE comp'[e.iop].st = "live"
      BY <2>3 DEF UserDataLive
    <3>1. e.iop \in Iop
      BY <1>5 DEF InFlight, Entry
    <3>2. CASE e \in new
      BY <1>5, <2>0, <3>2
    <3>3. CASE e \in InFlight
      <4>1. comp[e.iop].st = "live" /\ e.iop # i
        BY <1>0, <3>3 DEF UserDataLive
      <4> QED
        BY <1>5, <2>0, <3>1, <4>1
    <3> QED
      BY <3>2, <3>3
  <2>5. CountExact'
    <3> SUFFICES ASSUME pc' # "ended", NEW j \in Iop, comp'[j].st = "live"
                 PROVE  /\ comp'[j].iop_count = Pending(j)'
                        /\ ~comp'[j].iop_exists => comp'[j].iop_count > 0
      BY DEF CountExact
    <3>1. CASE j = i
      <4>1. OpOf(i) \notin InFlight /\ TimerOf(i) \notin InFlight
        BY <1>1, <1>2 DEF InFlight
      <4>2. comp'[j] = b
        BY <1>5, <2>0, <3>1
      <4>3. Pending(j)' = (IF OpOf(i) \in new THEN 1 ELSE 0)
                             + (IF TimerOf(i) \in new THEN 1 ELSE 0)
        BY <2>3, <3>1, <4>1 DEF Pending, OpOf, TimerOf
      <4> QED
        BY <1>5, <4>2, <4>3
    <3>2. CASE j # i
      <4>1. comp'[j] = comp[j]
        BY <1>5, <2>0, <3>2
      <4>2. OpOf(j) \notin new /\ TimerOf(j) \notin new
        BY <1>1, <1>5, <3>2
      <4>3. Pending(j)' = Pending(j)
        BY <2>3, <4>2 DEF Pending, OpOf, TimerOf
      <4> QED
        BY <1>0, <4>1, <4>3 DEF CountExact
    <3> QED
      BY <3>1, <3>2
  <2>6. OutstandingLive' /\ Bookkeeping'
    BY <1>0, <1>3, <1>5, <2>0 DEF OutstandingLive, Bookkeeping, TypeOK
  <2> QED
    BY <2>1, <2>2, <2>4, <2>5, <2>6
<1>6. Len(sq) \in Nat /\ Entries \in Nat
  BY LenProperties, ConstantsAssumption DEF TypeOK
<1>7. /\ Append(sq, OpOf(i)) \in Seq(Entry \cup {Nop})
      /\ Len(Append(sq, OpOf(i))) = Len(sq) + 1
      /\ Range(Append(sq, OpOf(i))) = Range(sq) \cup {OpOf(i)}
  BY <1>1, AppendRange, AppendProperties DEF TypeOK
<1>8. /\ Append(Append(sq, OpOf(i)), TimerOf(i)) \in Seq(Entry \cup {Nop})
      /\ Len(Append(Append(sq, OpOf(i)), TimerOf(i))) = Len(sq) + 1 + 1
      /\ Range(Append(Append(sq, OpOf(i)), TimerOf(i)))
           = Range(sq) \cup {OpOf(i)} \cup {TimerOf(i)}
  <2> DEFINE op == Append(sq, OpOf(i))
  <2>1. op \in Seq(Entry \cup {Nop}) /\ TimerOf(i) \in Entry \cup {Nop}
    BY <1>1, <1>7
  <2>2. Len(op) = Len(sq) + 1 /\ Range(op) = Range(sq) \cup {OpOf(i)}
    BY <1>7
  <2> HIDE DEF op
  <2>3. /\ Append(op, TimerOf(i)) \in Seq(Entry \cup {Nop})
        /\ Range(Append(op, TimerOf(i))) = Range(op) \cup {TimerOf(i)}
    BY <2>1, AppendRange
  <2>4. Len(Append(op, TimerOf(i))) = Len(op) + 1
    BY <2>1, AppendProperties
  <2>5. /\ Append(op, TimerOf(i)) \in Seq(Entry \cup {Nop})
        /\ Len(Append(op, TimerOf(i))) = Len(sq) + 1 + 1
        /\ Range(Append(op, TimerOf(i))) = Range(sq) \cup {OpOf(i)} \cup {TimerOf(i)}
    BY <2>2, <2>3, <2>4
  <2> QED
    BY <2>5 DEF op
<1>9. CASE /\ Room(2) /\ sq' = Append(Append(sq, OpOf(i)), TimerOf(i))
           /\ comp' = [comp EXCEPT ![i] = Live(k, d, 2, TRUE)]
  <2> DEFINE new == {OpOf(i), TimerOf(i)}
             b == Live(k, d, 2, TRUE)
  <2>1. b \in Completion /\ b.iop_exists /\ b.st = "live" /\ b.iop_count = 2
    <3>1. 2 \in 0..2
      OBVIOUS
    <3> QED
      BY <3>1, LiveCompletion
  <2>2. /\ new \in SUBSET Entry /\ (\A e \in new : e.iop = i)
        /\ OpOf(i) \in new /\ TimerOf(i) \in new
    BY <1>1
  <2>3. /\ sq' \in Seq(Entry \cup {Nop}) /\ Len(sq') <= Entries
        /\ Range(sq') = Range(sq) \cup new
    BY <1>6, <1>8, <1>9 DEF Room
  <2>4. comp' = [comp EXCEPT ![i] = b]
    BY <1>9
  <2> HIDE DEF new, b
  <2>5. /\ b.st \in {"idle", "live"} /\ (b.st = "idle" => new = {})
        /\ b.st = "live" => b.iop_count = (IF OpOf(i) \in new THEN 1 ELSE 0)
                                            + (IF TimerOf(i) \in new THEN 1 ELSE 0)
    BY <2>1, <2>2
  <2> QED
    BY <1>5, <2>1, <2>2, <2>3, <2>4, <2>5
<1>10. ASSUME Room(1), sq' = Append(sq, OpOf(i)), NEW w \in BOOLEAN,
              comp' = [comp EXCEPT ![i] = Live(k, d, 1, w)]
       PROVE  LifeInv'
  <2> DEFINE new == {OpOf(i)}
             b == Live(k, d, 1, w)
  <2>1. b \in Completion /\ b.iop_exists /\ b.st = "live" /\ b.iop_count = 1
    <3>1. 1 \in 0..2
      OBVIOUS
    <3> QED
      BY <3>1, LiveCompletion
  <2>2. /\ new \in SUBSET Entry /\ (\A e \in new : e.iop = i)
        /\ OpOf(i) \in new /\ TimerOf(i) \notin new
    BY <1>1
  <2>3. /\ sq' \in Seq(Entry \cup {Nop}) /\ Len(sq') <= Entries
        /\ Range(sq') = Range(sq) \cup new
    BY <1>6, <1>7, <1>10 DEF Room
  <2>4. comp' = [comp EXCEPT ![i] = b]
    BY <1>10
  <2> HIDE DEF new, b
  <2>5. /\ b.st \in {"idle", "live"} /\ (b.st = "idle" => new = {})
        /\ b.st = "live" => b.iop_count = (IF OpOf(i) \in new THEN 1 ELSE 0)
                                            + (IF TimerOf(i) \in new THEN 1 ELSE 0)
    BY <2>1, <2>2
  <2> QED
    BY <1>5, <2>1, <2>2, <2>3, <2>4, <2>5
<1>11. CASE comp' = [comp EXCEPT ![i] = Fresh(k, d)] /\ sq' = sq
  <2> DEFINE new == {}
             b == Fresh(k, d)
  <2>1. b \in Completion /\ b.iop_exists /\ b.st = "idle"
    BY FreshCompletion
  <2>2. new \in SUBSET Entry /\ new = {} /\ \A e \in new : e.iop = i
    OBVIOUS
  <2>3. /\ sq' \in Seq(Entry \cup {Nop}) /\ Len(sq') <= Entries
        /\ Range(sq') = Range(sq) \cup new
    BY <1>11 DEF TypeOK
  <2>4. comp' = [comp EXCEPT ![i] = b]
    BY <1>11
  <2> HIDE DEF new, b
  <2>5. /\ b.st \in {"idle", "live"} /\ (b.st = "idle" => new = {})
        /\ b.st = "live" => b.iop_count = (IF OpOf(i) \in new THEN 1 ELSE 0)
                                            + (IF TimerOf(i) \in new THEN 1 ELSE 0)
    BY <2>1, <2>2
  <2> QED
    BY <1>5, <2>1, <2>2, <2>3, <2>4, <2>5
<1> QED
  BY <1>9, <1>10, <1>11 DEF Await

(* Completion i changes without an entry of it moving. *)
LEMMA CompletionStep ==
  ASSUME LifeInv, NEW i \in Iop, NEW b \in Completion,
         comp' = [comp EXCEPT ![i] = b], InFlight' = InFlight,
         pc' = "ended" <=> pc = "ended",
         (\E e \in InFlight : e.iop = i) => b.st = "live",
         b.st = "live" => /\ comp[i].st = "live" /\ b.iop_count = comp[i].iop_count
                          /\ ~b.iop_exists => b.iop_count > 0
  PROVE  UserDataLive' /\ CountExact'
<1> USE DEF LifeInv
<1>1. comp \in [Iop -> Completion]
  BY DEF TypeOK
<1>2. UserDataLive'
  <2> SUFFICES ASSUME NEW e \in InFlight PROVE comp'[e.iop].st = "live"
    BY DEF UserDataLive
  <2>1. e.iop \in Iop
    BY DEF InFlight, Entry
  <2> QED
    BY <1>1, <2>1 DEF UserDataLive
<1>3. CountExact'
  <2> SUFFICES ASSUME pc' # "ended", NEW j \in Iop, comp'[j].st = "live"
               PROVE  /\ comp'[j].iop_count = Pending(j)'
                      /\ ~comp'[j].iop_exists => comp'[j].iop_count > 0
    BY DEF CountExact
  <2>1. Pending(j)' = Pending(j)
    BY DEF Pending, OpOf, TimerOf
  <2>2. CASE j = i
    <3>1. comp'[j] = b
      BY <1>1, <2>2
    <3> QED
      BY <2>1, <2>2, <3>1 DEF CountExact
  <2>3. CASE j # i
    BY <1>1, <2>1, <2>3 DEF CountExact
  <2> QED
    BY <2>2, <2>3
<1> QED
  BY <1>2, <1>3

(* What is left of a completion that was deleted has no IOP. *)
LEMMA DeletedCompletion ==
  LET b == [Unused EXCEPT !.st = "deleted"]
  IN  b \in Completion /\ b.st = "deleted" /\ ~b.iop_exists
<1>1. Unused \in Completion /\ Unused.iop_exists = FALSE
  BY DEF Unused, Completion
<1> QED
  BY <1>1 DEF Completion

(* ~iop: the completion goes, or joins the list.                            *)
LEMMA IopDestructedStep ==
  ASSUME LifeInv, NEW i \in Iop, NEW c \in Completion,
         \/ c = comp[i] /\ comp[i].iop_exists
         \/ c.st = "idle" /\ comp[i].st = "unused",
         user, IopDestructed(i, c), UNCHANGED <<loop, rings, current, async>>
  PROVE  LifeInv'
<1> USE DEF LifeInv
<1>0. /\ UNCHANGED <<pc, run, user, sq, kernel, cq, current, queued, resuming>>
      /\ comp \in [Iop -> Completion]
  BY DEF loop, rings, async, TypeOK
<1>1. InFlight' = InFlight /\ OnePlace'
  BY <1>0 DEF InFlight, OnePlace
<1>2. i \notin outstanding
  BY DEF OutstandingLive
<1>3. c.st \in {"idle", "live"}
  BY DEF Bookkeeping
<1>4. \A e \in InFlight : e.iop = i => c.st = "live" /\ comp[i].st = "live"
  BY DEF UserDataLive
<1>5. CASE c.iop_count = 0
  <2> DEFINE b == [Unused EXCEPT !.st = "deleted"]
  <2>1. b \in Completion /\ b.st = "deleted" /\ ~b.iop_exists
    BY DeletedCompletion
  <2>2. comp' = [comp EXCEPT ![i] = b] /\ outstanding' = outstanding
    BY <1>5 DEF IopDestructed
  <2> HIDE DEF b
  <2>3. \A e \in InFlight : e.iop # i
    <3> SUFFICES ASSUME NEW e \in InFlight, e.iop = i PROVE FALSE
      OBVIOUS
    <3>1. comp[i].st = "live" /\ c = comp[i]
      BY <1>4
    <3>2. Pending(i) = 0
      BY <1>5, <3>1 DEF CountExact, Bookkeeping
    <3>3. e = OpOf(i) \/ e = TimerOf(i)
      BY EntriesApart DEF InFlight
    <3> QED
      BY <3>2, <3>3 DEF Pending
  <2>4. UserDataLive' /\ CountExact'
    BY <1>0, <1>1, <2>1, <2>2, <2>3, CompletionStep
  <2> QED
    BY <1>0, <1>1, <1>2, <2>1, <2>2, <2>4 DEF TypeOK, OutstandingLive, Bookkeeping
<1>6. CASE c.iop_count # 0
  <2> DEFINE b == [c EXCEPT !.iop_exists = FALSE, !.is_outstanding = TRUE,
                            !.waiting = FALSE]
  <2>1. b \in Completion /\ b.st = c.st /\ ~b.iop_exists /\ b.is_outstanding
        /\ b.iop_count = c.iop_count
    BY DEF Completion
  <2>2. comp' = [comp EXCEPT ![i] = b] /\ outstanding' = outstanding \cup {i}
    BY <1>6 DEF IopDestructed
  <2> HIDE DEF b
  <2>3. c.iop_count \in 0..2 /\ c.iop_count > 0
    BY <1>6 DEF Completion
  <2>4. UserDataLive' /\ CountExact'
    BY <1>0, <1>1, <1>4, <2>1, <2>2, <2>3, CompletionStep
  <2> QED
    BY <1>0, <1>1, <1>2, <1>3, <2>1, <2>2, <2>4 DEF TypeOK, OutstandingLive, Bookkeeping
<1> QED
  BY <1>5, <1>6

(* The steps that move no entry and change no completion. *)
LEMMA QuietStep ==
  ASSUME LifeInv, UNCHANGED <<comp, outstanding, sq, kernel, cq, current>>,
         pc' \in {"main", "submit", "wait", "drain", "resume", "ended", "undefined"},
         run' \in {"none", "until", "finished", "batch"}, user' \in BOOLEAN,
         queued' \in Seq(Handle), resuming' \in Seq(Handle),
         pc' # "drain" => current = Idle,
         pc' = "ended" <=> pc = "ended", pc' = "ended" => ~user'
  PROVE  LifeInv'
<1>1. InFlight' = InFlight /\ OnePlace'
  BY DEF LifeInv, InFlight, OnePlace
<1>2. UserDataLive' /\ CountExact' /\ OutstandingLive'
  BY <1>1, SameFlight
<1> QED
  BY <1>1, <1>2 DEF LifeInv, TypeOK, Bookkeeping

(* async_resume: what is queued are handles. *)
LEMMA AsyncResumeStep ==
  ASSUME LifeInv, NEW h1 \in Handle \cup {Null}, NEW h2 \in Handle \cup {Null},
         AsyncResume(h1, h2)
  PROVE  LifeInv'
<1> USE DEF LifeInv
<1> DEFINE handles == (IF h1 = Null THEN <<>> ELSE <<h1>>)
                         \o (IF h2 = Null THEN <<>> ELSE <<h2>>)
<1>1. handles \in Seq(Handle)
  OBVIOUS
<1>2. UNCHANGED <<pc, run, user, comp, outstanding, current, resuming>>
  BY DEF AsyncResume, loop
<1>3. queued' \in Seq(Handle)
  BY <1>1, ConcatProperties DEF AsyncResume, TypeOK
<1>4. CASE Room(1) /\ Submitted(Append(sq, Nop))
  <2>1. sq \in Seq(Entry \cup {Nop}) /\ Len(sq) \in Nat /\ Entries \in Nat
    BY LenProperties, ConstantsAssumption DEF TypeOK
  <2>2. /\ Append(sq, Nop) \in Seq(Entry \cup {Nop})
        /\ Range(Append(sq, Nop)) = Range(sq) \cup {Nop}
    BY <2>1, AppendRange
  <2>3. Len(Append(sq, Nop)) <= Entries
    BY <1>4, <2>1, AppendProperties DEF Room
  <2>4. Range(Append(sq, Nop)) \ {Nop} = Range(sq) \ {Nop}
    BY <2>2
  <2>5. /\ sq' \in Seq(Entry \cup {Nop}) /\ Len(sq') <= Entries
        /\ kernel' \in [Entry -> {"none", "armed", "fired"}]
        /\ cq' \in Seq(Cqe) /\ OnePlace' /\ InFlight' = InFlight
    BY <1>2, <1>4, <2>2, <2>3, <2>4, SubmittedMoves
  <2>6. UserDataLive' /\ CountExact' /\ OutstandingLive'
    BY <1>2, <2>5, SameFlight
  <2> QED
    BY <1>2, <1>3, <2>5, <2>6 DEF TypeOK, Bookkeeping
<1>5. CASE UNCHANGED rings
  <2>1. UNCHANGED <<sq, kernel, cq>>
    BY <1>5 DEF rings
  <2> QED
    BY <1>2, <1>3, <2>1, QuietStep DEF TypeOK, Bookkeeping
<1> QED
  BY <1>4, <1>5 DEF AsyncResume

(* The top of the loop: what is in the ring is submitted. *)
LEMMA SubmitAllStep ==
  ASSUME LifeInv, SubmitAll
  PROVE  LifeInv'
<1> USE DEF LifeInv
<1>1. /\ UNCHANGED <<run, user, comp, outstanding, current, queued, resuming>>
      /\ pc = "submit" /\ pc' \in {"drain", "wait"} /\ Submitted(sq)
  BY DEF SubmitAll, async
<1>2. /\ sq' \in Seq(Entry \cup {Nop}) /\ Len(sq') <= Entries
      /\ kernel' \in [Entry -> {"none", "armed", "fired"}]
      /\ cq' \in Seq(Cqe) /\ OnePlace' /\ InFlight' = InFlight
  BY <1>1, SubmittedMoves DEF TypeOK
<1>3. UserDataLive' /\ CountExact' /\ OutstandingLive'
  BY <1>1, <1>2, SameFlight
<1> QED
  BY <1>1, <1>2, <1>3 DEF TypeOK, Bookkeeping

(* The timer of an IOP runs out in the kernel: nothing leaves its place. *)
LEMMA ExpireStep ==
  ASSUME LifeInv, NEW i \in Iop, Expire(i)
  PROVE  LifeInv'
<1> USE DEF LifeInv
<1>1. UNCHANGED <<pc, run, user, comp, outstanding, sq, cq, current, queued, resuming>>
  BY DEF Expire, loop, async
<1>2. kernel \in [Entry -> {"none", "armed", "fired"}]
  BY DEF TypeOK
<1>3. kernel' \in [Entry -> {"none", "armed", "fired"}]
  BY <1>2 DEF Expire
<1>4. \A e \in Entry : kernel'[e] = "none" <=> kernel[e] = "none"
  BY <1>2 DEF Expire
<1>5. OnePlace' /\ InFlight' = InFlight
  BY <1>1, <1>4 DEF OnePlace, InFlight
<1>6. UserDataLive' /\ CountExact' /\ OutstandingLive'
  BY <1>1, <1>5, SameFlight
<1> QED
  BY <1>1, <1>3, <1>5, <1>6 DEF TypeOK, Bookkeeping

(* The kernel answers: the entry moves to the completion ring. *)
LEMMA PostStep ==
  ASSUME LifeInv, NEW e \in Entry, NEW r \in Answers(e), Post(e, r)
  PROVE  LifeInv'
<1> USE DEF LifeInv
<1> DEFINE c == [iop |-> e.iop, op |-> e.op, res |-> r]
<1>1. /\ UNCHANGED <<pc, run, user, comp, outstanding, sq, current, queued, resuming>>
      /\ kernel' = [kernel EXCEPT ![e] = "none"] /\ cq' = Append(cq, c)
  BY DEF Post, loop, async
<1>2. kernel \in [Entry -> {"none", "armed", "fired"}] /\ cq \in Seq(Cqe)
  BY DEF TypeOK
<1>3. kernel[e] # "none" /\ r \in {"ok", "error", "canceled", "etime"}
  BY <1>2 DEF Answers
<1>4. c \in Cqe /\ c.iop = e.iop /\ c.op = e.op
  BY <1>3 DEF Cqe, Entry
<1>5. \A f \in Entry : e.iop = f.iop /\ e.op = f.op <=> e = f
  BY DEF Entry
<1>6. ~Answered(cq, e)
  BY <1>3 DEF OnePlace
<1>7. ~Answered(cq, c)
  BY <1>4, <1>6 DEF Answered
<1> HIDE DEF c
<1>8. /\ cq' \in Seq(Cqe) /\ DistinctAnswers(cq')
      /\ \A f : Answered(cq', f)
           <=> (Answered(cq, f) \/ (c.iop = f.iop /\ c.op = f.op))
  BY <1>1, <1>2, <1>4, <1>7, AppendAnswered DEF OnePlace
<1>9. \A f \in Entry : Answered(cq', f) <=> (Answered(cq, f) \/ e = f)
  BY <1>4, <1>5, <1>8
<1>10. /\ kernel' \in [Entry -> {"none", "armed", "fired"}]
       /\ \A f \in Entry : kernel'[f] = IF f = e THEN "none" ELSE kernel[f]
  BY <1>1, <1>2
<1>11. OnePlace'
  BY <1>1, <1>3, <1>8, <1>9, <1>10 DEF OnePlace
<1>12. InFlight' = InFlight
  BY <1>1, <1>3, <1>9, <1>10 DEF InFlight
<1>13. UserDataLive' /\ CountExact' /\ OutstandingLive'
  BY <1>1, <1>12, SameFlight
<1> QED
  BY <1>1, <1>8, <1>10, <1>11, <1>13 DEF TypeOK, Bookkeeping

(* execute takes an answer off the ring; its entry is now the current one.  *)
LEMMA ExecuteStep ==
  ASSUME LifeInv, Execute
  PROVE  LifeInv'
<1> USE DEF LifeInv
<1> DEFINE e == Head(cq)
           f == [iop |-> e.iop, op |-> e.op]
           c == comp[e.iop]
<1>1. /\ UNCHANGED <<run, outstanding, sq, kernel, queued, resuming>>
      /\ pc = "drain" /\ ~user /\ current = Idle /\ cq # <<>>
  BY DEF Execute, async
<1>2. cq \in Seq(Cqe) /\ comp \in [Iop -> Completion] /\ DistinctAnswers(cq)
  BY DEF TypeOK, OnePlace
<1>3. /\ Tail(cq) \in Seq(Cqe) /\ e \in Cqe
      /\ \A g : Answered(cq, g) <=> (Answered(Tail(cq), g) \/ (e.iop = g.iop /\ e.op = g.op))
      /\ DistinctAnswers(Tail(cq))
      /\ e.op # "nop" => ~Answered(Tail(cq), e)
  BY <1>1, <1>2, TailAnswered
<1>4. CASE e.op = "nop" /\ cq' = Tail(cq) /\ UNCHANGED <<pc, user, comp, current>>
  <2>1. \A g \in Entry : Answered(cq', g) <=> Answered(cq, g)
    <3>1. \A g \in Entry : g.op # "nop"
      BY DEF Entry, Op
    <3> QED
      BY <1>3, <1>4, <3>1
  <2>2. OnePlace' /\ InFlight' = InFlight
    BY <1>1, <1>3, <1>4, <2>1 DEF OnePlace, InFlight
  <2>3. UserDataLive' /\ CountExact' /\ OutstandingLive'
    BY <1>1, <1>4, <2>2, SameFlight
  <2> QED
    BY <1>1, <1>3, <1>4, <2>2, <2>3 DEF TypeOK, Bookkeeping
<1>5. ASSUME e.op # "nop", c.st = "live", cq' = Tail(cq), current' = f, pc' = pc,
             user' \in BOOLEAN, NEW b \in Completion, comp' = [comp EXCEPT ![e.iop] = b],
             b.st = "live", b.iop_count = c.iop_count, b.iop_exists = c.iop_exists,
             b.is_outstanding = c.is_outstanding
      PROVE  LifeInv'
  <2>1. e.iop \in Iop /\ f \in Entry /\ f.iop = e.iop /\ f.op = e.op
    BY <1>3, <1>5 DEF Cqe, NopCqe, Entry
  <2>2. \A g \in Entry : e.iop = g.iop /\ e.op = g.op <=> f = g
    BY <2>1 DEF Entry
  <2>3. \A g \in Entry : Answered(cq, g) <=> (Answered(cq', g) \/ f = g)
    BY <1>3, <1>5, <2>2
  <2>4. ~Answered(cq', f)
    BY <1>3, <1>5, <2>1 DEF Answered
  <2> HIDE DEF f
  <2>5. OnePlace'
    BY <1>1, <1>3, <1>5, <2>1, <2>3, <2>4 DEF OnePlace
  <2>6. InFlight' = InFlight
    BY <1>1, <1>5, <2>1, <2>3, EntriesApart DEF InFlight
  <2> DEFINE i == e.iop
  <2>7. i \in Iop /\ comp' = [comp EXCEPT ![i] = b] /\ comp[i] = c
    BY <1>5, <2>1
  <2>8. ~c.iop_exists => b.iop_count > 0
    BY <1>1, <1>5, <2>7 DEF CountExact
  <2> HIDE DEF i, e, c
  <2>9. UserDataLive' /\ CountExact'
    <3>1. /\ b.st = "live" /\ comp[i].st = "live" /\ b.iop_count = comp[i].iop_count
          /\ ~b.iop_exists => b.iop_count > 0
      BY <1>5, <2>7, <2>8
    <3>2. pc' = "ended" <=> pc = "ended"
      BY <1>5
    <3> QED
      BY <2>6, <2>7, <3>1, <3>2, CompletionStep
  <2>10. OutstandingLive'
    BY <1>1, <1>2, <1>5, <2>7 DEF OutstandingLive
  <2>11. Bookkeeping'
    BY <1>1, <1>2, <1>5, <2>7 DEF Bookkeeping, TypeOK
  <2>12. TypeOK'
    BY <1>1, <1>2, <1>3, <1>5, <2>1, <2>7 DEF TypeOK
  <2> QED
    BY <2>5, <2>9, <2>10, <2>11, <2>12
<1>6. CASE /\ e.op # "nop" /\ c.st = "live"
           /\ comp' = [comp EXCEPT ![e.iop] = [c EXCEPT !.waiting = FALSE,
                                                  !.result = Outcome(c, e.res)]]
           /\ user' = TRUE /\ cq' = Tail(cq) /\ current' = f /\ pc' = pc
  <2> DEFINE o == Outcome(c, e.res)
             b == [c EXCEPT !.waiting = FALSE, !.result = o]
  <2>1. e.iop \in Iop
    BY <1>3, <1>6 DEF Cqe, NopCqe
  <2>2. c \in Completion
    BY <1>2, <2>1
  <2>3. o \in {"none", "value", "error", "timeout"}
    BY DEF Outcome
  <2> HIDE DEF c, o
  <2>4. /\ b \in Completion /\ b.st = c.st /\ b.iop_count = c.iop_count
        /\ b.iop_exists = c.iop_exists /\ b.is_outstanding = c.is_outstanding
    BY <2>2, <2>3 DEF Completion
  <2>5. comp' = [comp EXCEPT ![e.iop] = b]
    BY <1>6 DEF o, c
  <2> HIDE DEF b, e
  <2> QED
    BY <1>5, <1>6, <2>4, <2>5
<1>7. CASE /\ e.op # "nop" /\ c.st = "live"
           /\ cq' = Tail(cq) /\ current' = f /\ UNCHANGED <<pc, user, comp>>
  <2>1. e.iop \in Iop
    BY <1>3, <1>7 DEF Cqe, NopCqe
  <2>2. c \in Completion /\ comp' = [comp EXCEPT ![e.iop] = c] /\ user' \in BOOLEAN
    BY <1>2, <1>7, <2>1 DEF TypeOK
  <2> HIDE DEF e, c
  <2> QED
    BY <1>5, <1>7, <2>2
<1>8. CASE pc' = "undefined" /\ UNCHANGED <<user, comp, cq, current>>
  BY <1>1, <1>8, QuietStep DEF TypeOK
<1> QED
  BY <1>4, <1>6, <1>7, <1>8 DEF Execute

(* The second half of execute: the current entry is gone for good, and the  *)
(* completion goes with its last entry unless its IOP still has it.         *)
LEMMA ExecutedStep ==
  ASSUME LifeInv, Executed, NEW i \in Iop, i = current.iop
  PROVE  LifeInv'
<1> USE DEF LifeInv
<1> DEFINE c == comp[i]
           b == IF c.iop_count = 1 /\ ~c.iop_exists THEN [Unused EXCEPT !.st = "deleted"]
                ELSE [c EXCEPT !.iop_count = @ - 1]
<1>1. /\ UNCHANGED <<pc, run, user, sq, kernel, cq, queued, resuming>>
      /\ pc = "drain" /\ current # Idle /\ current' = Idle
      /\ comp' = [comp EXCEPT ![i] = b] /\ outstanding' = Erased(i, c)
  BY DEF Executed, loop, rings, async
<1>2. comp \in [Iop -> Completion] /\ current \in Entry
  BY <1>1 DEF TypeOK
<1>3. c \in Completion /\ current \in InFlight
  BY <1>2 DEF InFlight
<1>4. OnePlace' /\ InFlight' = InFlight \ {current}
  BY <1>1, <1>2, EntriesApart DEF OnePlace, InFlight
<1>5. c.st = "live"
  BY <1>3 DEF UserDataLive
<1>6. c.iop_count = Pending(i) /\ (~c.iop_exists => c.iop_count > 0)
  BY <1>1, <1>5 DEF CountExact
<1>7. /\ OpOf(i) \in Entry /\ TimerOf(i) \in Entry /\ OpOf(i) # TimerOf(i)
      /\ current = OpOf(i) \/ current = TimerOf(i)
      /\ \A e \in Entry : e.iop = i => e = OpOf(i) \/ e = TimerOf(i)
      /\ \A j \in Iop : j # i => OpOf(j) # current /\ TimerOf(j) # current
  BY <1>2, EntriesApart DEF OpOf, TimerOf
<1>8. /\ Pending(i) \in {1, 2} /\ Pending(i)' = Pending(i) - 1
      /\ Pending(i) = 1 => \A e \in InFlight' : e.iop # i
  <2>1. Pending(i)' = (IF OpOf(i) \in InFlight' THEN 1 ELSE 0)
                         + (IF TimerOf(i) \in InFlight' THEN 1 ELSE 0)
    BY DEF Pending, OpOf, TimerOf
  <2>2. InFlight \subseteq Entry
    BY DEF InFlight
  <2> QED
    BY <1>3, <1>4, <1>7, <2>1, <2>2 DEF Pending
<1>9. \A j \in Iop : j # i => Pending(j)' = Pending(j)
  BY <1>4, <1>7 DEF Pending, OpOf, TimerOf
<1>10. /\ b \in Completion
       /\ c.iop_count = 1 /\ ~c.iop_exists => b.st = "deleted" /\ ~b.iop_exists
       /\ ~(c.iop_count = 1 /\ ~c.iop_exists) =>
            /\ b.st = "live" /\ b.iop_count = c.iop_count - 1
            /\ b.iop_exists = c.iop_exists /\ b.is_outstanding = c.is_outstanding
  <2>1. CASE c.iop_count = 1 /\ ~c.iop_exists
    BY <2>1, DeletedCompletion
  <2>2. CASE ~(c.iop_count = 1 /\ ~c.iop_exists)
    <3> DEFINE n == c.iop_count - 1
               a == [c EXCEPT !.iop_count = n]
    <3>1. n \in 0..2 /\ b = a
      BY <1>6, <1>8, <2>2
    <3> HIDE DEF n, c
    <3>2. /\ a \in Completion /\ a.st = c.st /\ a.iop_count = n
          /\ a.iop_exists = c.iop_exists /\ a.is_outstanding = c.is_outstanding
      BY <1>3, <3>1 DEF Completion
    <3> HIDE DEF a, b
    <3> QED
      BY <1>5, <2>2, <3>1, <3>2 DEF n
  <2> QED
    BY <2>1, <2>2
<1> HIDE DEF b
<1>11. comp' \in [Iop -> Completion] /\ comp'[i] = b
       /\ \A j \in Iop : j # i => comp'[j] = comp[j]
  BY <1>1, <1>2, <1>10
<1>12. UserDataLive'
  <2> SUFFICES ASSUME NEW e \in InFlight' PROVE comp'[e.iop].st = "live"
    BY DEF UserDataLive
  <2>1. e \in InFlight /\ e.iop \in Iop
    BY <1>4 DEF InFlight, Entry
  <2>2. CASE e.iop = i
    BY <1>6, <1>8, <1>10, <1>11, <2>2
  <2>3. CASE e.iop # i
    BY <1>11, <2>1, <2>3 DEF UserDataLive
  <2> QED
    BY <2>2, <2>3
<1>13. CountExact'
  <2> SUFFICES ASSUME NEW j \in Iop, comp'[j].st = "live"
               PROVE  /\ comp'[j].iop_count = Pending(j)'
                      /\ ~comp'[j].iop_exists => comp'[j].iop_count > 0
    BY DEF CountExact
  <2>1. CASE j = i
    BY <1>6, <1>8, <1>10, <1>11, <2>1
  <2>2. CASE j # i
    BY <1>1, <1>9, <1>11, <2>2 DEF CountExact
  <2> QED
    BY <2>1, <2>2
<1>14. OutstandingLive' /\ Bookkeeping' /\ outstanding' \subseteq Iop
  <2>1. \A j \in outstanding' : j \in outstanding /\ j # i
    BY <1>1 DEF Erased, Bookkeeping
  <2>2. \A j \in Iop : comp'[j].iop_exists => comp'[j].st \in {"idle", "live"}
    BY <1>10, <1>11 DEF Bookkeeping
  <2> QED
    BY <1>1, <1>11, <2>1, <2>2 DEF OutstandingLive, Bookkeeping, TypeOK
<1> QED
  BY <1>1, <1>4, <1>11, <1>12, <1>13, <1>14 DEF TypeOK

(* ~uring_warden: nothing is in flight any more. *)
LEMMA ShutdownStep ==
  ASSUME LifeInv, Shutdown
  PROVE  LifeInv'
<1> USE DEF LifeInv
<1> DEFINE gone == [Unused EXCEPT !.st = "deleted"]
<1>1. /\ pc = "main" /\ pc' = "ended" /\ user' = FALSE /\ run' = run
      /\ current' = current /\ outstanding' = {}
      /\ sq' = <<>> /\ cq' = <<>> /\ kernel' = [e \in Entry |-> "none"]
      /\ queued' = <<>> /\ resuming' = <<>>
      /\ \A i \in Iop : ~comp[i].iop_exists
      /\ comp' = [i \in Iop |-> IF i \in outstanding THEN gone ELSE comp[i]]
  BY DEF Shutdown
<1>2. comp \in [Iop -> Completion] /\ current = Idle
  BY <1>1 DEF TypeOK, Bookkeeping
<1>3. gone \in Completion /\ ~gone.iop_exists
  BY DeletedCompletion
<1> HIDE DEF gone
<1>4. comp' \in [Iop -> Completion] /\ \A i \in Iop : ~comp'[i].iop_exists
  BY <1>1, <1>2, <1>3
<1>5. /\ sq' \in Seq(Entry \cup {Nop}) /\ Len(sq') = 0 /\ cq' \in Seq(Cqe)
      /\ queued' \in Seq(Handle) /\ resuming' \in Seq(Handle)
  BY <1>1, EmptySeq
<1>6. TypeOK'
  <2>1. Len(sq') <= Entries
    BY <1>5, ConstantsAssumption
  <2>2. kernel' \in [Entry -> {"none", "armed", "fired"}]
    BY <1>1
  <2>3. /\ pc' = "ended" /\ run' \in {"none", "until", "finished", "batch"}
        /\ user' \in BOOLEAN /\ outstanding' \subseteq Iop
        /\ current' \in Entry \cup {Idle}
    BY <1>1 DEF TypeOK
  <2> QED
    BY <1>4, <1>5, <2>1, <2>2, <2>3 DEF TypeOK
<1>7. OnePlace' /\ InFlight' = {}
  BY <1>1, <1>2, EntriesApart DEF OnePlace, DistinctAnswers, Answered, InFlight, Range
<1>8. UserDataLive' /\ CountExact' /\ OutstandingLive' /\ Bookkeeping'
  BY <1>1, <1>2, <1>4, <1>7 DEF UserDataLive, CountExact, OutstandingLive, Bookkeeping
<1> QED
  BY <1>6, <1>7, <1>8

-----------------------------------------------------------------------------
(* The theorems.                                                           *)

(* Every step of the coroutines, the loop and the kernel keeps the invariant. *)
LEMMA LifeInvStep == LifeInv /\ [Next]_vars => LifeInv'
<1> SUFFICES ASSUME LifeInv, [Next]_vars PROVE LifeInv'
  OBVIOUS
<1>0. /\ TypeOK /\ Bookkeeping /\ queued \in Seq(Handle) /\ resuming \in Seq(Handle)
      /\ user \in BOOLEAN /\ run \in {"none", "until", "finished", "batch"}
  BY DEF LifeInv, TypeOK
<1>1. ASSUME NEW i \in Iop, NEW k \in Kind, NEW d \in Deadlines(k), Await(i, k, d)
      PROVE  LifeInv'
  <2>1. d \in BOOLEAN
    BY ConstantsAssumption DEF Deadlines
  <2> QED
    BY <1>1, <2>1, AwaitStep
<1>2. ASSUME NEW i \in Iop, NEW k \in Kind, NEW d \in Deadlines(k), Discard(i, k, d)
      PROVE  LifeInv'
  <2>1. d \in BOOLEAN
    BY ConstantsAssumption DEF Deadlines
  <2>2. Fresh(k, d) \in Completion /\ Fresh(k, d).st = "idle"
    BY <2>1, FreshCompletion
  <2>3. /\ user /\ comp[i].st = "unused" /\ IopDestructed(i, Fresh(k, d))
        /\ UNCHANGED <<loop, rings, current, async>>
    BY <1>2 DEF Discard
  <2> QED
    BY <2>2, <2>3, IopDestructedStep
<1>3. ASSUME NEW i \in Iop, Destruct(i) PROVE LifeInv'
  <2>1. comp[i] \in Completion
    BY <1>0 DEF TypeOK
  <2>2. /\ user /\ comp[i].iop_exists /\ IopDestructed(i, comp[i])
        /\ UNCHANGED <<loop, rings, current, async>>
    BY <1>3 DEF Destruct
  <2> QED
    BY <2>1, <2>2, IopDestructedStep
<1>4. ASSUME NEW h1 \in Handle \cup {Null}, NEW h2 \in Handle \cup {Null},
             AsyncResume(h1, h2)
      PROVE  LifeInv'
  BY <1>4, AsyncResumeStep
<1>5. CASE FinishPrimary
  BY <1>0, <1>5, QuietStep DEF FinishPrimary, rings, async, Bookkeeping, TypeOK
<1>6. CASE UserReturn
  BY <1>0, <1>6, QuietStep DEF UserReturn, rings, async, Bookkeeping, TypeOK
<1>7. CASE RunUntil
  BY <1>0, <1>7, QuietStep DEF RunUntil, rings, async, Bookkeeping, TypeOK
<1>8. CASE RunBatch
  BY <1>0, <1>8, QuietStep DEF RunBatch, rings, async, Bookkeeping, TypeOK
<1>9. CASE RunEnds
  BY <1>0, <1>9, QuietStep DEF RunEnds, rings, async, Bookkeeping, TypeOK
<1>10. CASE SubmitAll
  BY <1>10, SubmitAllStep
<1>11. CASE WaitReturns
  BY <1>0, <1>11, QuietStep DEF WaitReturns, rings, async, Bookkeeping, TypeOK
<1>12. CASE WaitInterrupted
  BY <1>0, <1>12, QuietStep DEF WaitInterrupted, rings, async, Bookkeeping, TypeOK
<1>13. CASE WaitThrows
  BY <1>0, <1>13, QuietStep DEF WaitThrows, rings, async, Bookkeeping, TypeOK
<1>14. CASE Execute
  BY <1>14, ExecuteStep
<1>15. CASE Executed
  <2>1. current \in Entry
    BY <1>0, <1>15 DEF Executed, TypeOK
  <2>2. current.iop \in Iop
    BY <2>1 DEF Entry
  <2> QED
    BY <1>15, <2>2, ExecutedStep
<1>16. CASE Drained
  <2>1. queued' \in Seq(Handle) /\ resuming' \in Seq(Handle)
    BY <1>0, <1>16, EmptySeq DEF Drained
  <2> QED
    BY <1>0, <1>16, <2>1, QuietStep DEF Drained, rings
<1>17. CASE ResumeNext
  <2>1. resuming' \in Seq(Handle)
    BY <1>0, <1>17, HeadTailProperties DEF ResumeNext
  <2> QED
    BY <1>0, <1>17, <2>1, QuietStep DEF ResumeNext, rings, Bookkeeping
<1>18. CASE ResumedAll
  <2>1. /\ UNCHANGED <<comp, outstanding, sq, kernel, cq, current, queued, resuming>>
        /\ pc = "resume" /\ pc' \in {"main", "submit"}
        /\ run' \in {"none", "until", "finished", "batch"} /\ user' \in BOOLEAN
    BY <1>0, <1>18 DEF ResumedAll, rings, async
  <2>2. current = Idle /\ queued' \in Seq(Handle) /\ resuming' \in Seq(Handle)
    BY <1>0, <2>1 DEF Bookkeeping
  <2> QED
    BY <2>1, <2>2, QuietStep
<1>19. CASE Shutdown
  BY <1>19, ShutdownStep
<1>20. ASSUME NEW i \in Iop, Expire(i) PROVE LifeInv'
  BY <1>20, ExpireStep
<1>21. ASSUME NEW e \in Entry, NEW r \in Answers(e), Post(e, r) PROVE LifeInv'
  BY <1>21, PostStep
<1>22. CASE UNCHANGED vars
  BY <1>0, <1>22, QuietStep DEF vars, loop, rings, async, Bookkeeping, TypeOK
<1> QED
  BY <1>1, <1>2, <1>3, <1>4, <1>5, <1>6, <1>7, <1>8, <1>9, <1>10, <1>11, <1>12, <1>13,
     <1>14, <1>15, <1>16, <1>17, <1>18, <1>19, <1>20, <1>21, <1>22
     DEF Next, User, Loop, Kernel

(* The invariant holds in every state the warden reaches. *)
THEOREM LifeInvariant == Spec => []LifeInv
<1>1. Init => LifeInv
  BY LifeInvInit
<1>2. LifeInv /\ [Next]_vars => LifeInv'
  BY LifeInvStep
<1> QED
  BY <1>1, <1>2, PTL DEF Spec

(* The state keeps its types, and await_suspend and wake_event_loop never   *)
(* put more in the submission ring than it holds.                           *)
THEOREM UringTypeCorrect == Spec => []TypeOK
<1>1. LifeInv => TypeOK
  BY DEF LifeInv
<1> QED
  BY <1>1, LifeInvariant, PTL

(* The life of a completion: whatever order the kernel answers in and       *)
(* whenever the IOP is destructed, delete_due_to_iop_destructed and execute *)
(* delete a completion neither while an entry of it can come back, nor      *)
(* twice, and iop_count is exact.                                           *)
THEOREM UringLifetimeSafe == Spec => [](UserDataLive /\ CountExact /\ OutstandingLive)
<1>1. LifeInv => UserDataLive /\ CountExact /\ OutstandingLive
  BY DEF LifeInv
<1> QED
  BY <1>1, LifeInvariant, PTL

(* While the warden has the thread every IOP has a coroutine suspended on it. *)
Suspended == ~user => \A i \in Iop : comp[i].iop_exists => comp[i].waiting

(* If no coroutine suspends while it holds an IOP that is done, execute     *)
(* never touches a deleted completion and never resumes a coroutine that    *)
(* waits for something else.                                                *)
THEOREM UringNoUndefined ==
  ASSUME HoldsIop = FALSE
  PROVE  Spec => []NoUndefined
<1> DEFINE Inv == Suspended /\ NoUndefined
<1>1. Init => Inv
  BY DEF Init, Suspended, NoUndefined
<1>2. ASSUME LifeInv, Inv, [Next]_vars PROVE Inv'
  <2>0. comp \in [Iop -> Completion] /\ cq \in Seq(Cqe) /\ user \in BOOLEAN
    BY <1>2 DEF LifeInv, TypeOK
  <2>1. CASE User
    <3>1. user /\ user' = user /\ pc' = pc
      BY <2>1 DEF User, Await, Discard, Destruct, AsyncResume, FinishPrimary, loop
    <3> QED
      BY <1>2, <3>1 DEF Suspended, NoUndefined
  <2>2. CASE UserReturn
    BY <1>2, <2>2 DEF UserReturn, Suspended, NoUndefined
  <2>3. CASE RunUntil \/ RunBatch
    BY <1>2, <2>3 DEF RunUntil, RunBatch, Suspended, NoUndefined
  <2>4. CASE RunEnds \/ SubmitAll \/ WaitReturns \/ WaitInterrupted \/ WaitThrows
    BY <1>2, <2>4 DEF RunEnds, SubmitAll, WaitReturns, WaitInterrupted, WaitThrows,
                      Suspended, NoUndefined
  <2>5. CASE Drained \/ ResumeNext \/ ResumedAll
    BY <1>2, <2>5 DEF Drained, ResumeNext, ResumedAll, Suspended, NoUndefined
  <2>6. CASE Execute
    <3> DEFINE e == Head(cq)
    <3>1. /\ cq # <<>> /\ ~user /\ pc = "drain"
      BY <2>6 DEF Execute
    <3>2. /\ e \in Cqe
          /\ \A g : Answered(cq, g)
               <=> (Answered(Tail(cq), g) \/ (e.iop = g.iop /\ e.op = g.op))
      BY <2>0, <3>1, TailAnswered
    <3>3. ASSUME e.op # "nop"
          PROVE  /\ comp[e.iop].st = "live"
                 /\ comp[e.iop].iop_exists => comp[e.iop].waiting
      <4> DEFINE f == [iop |-> e.iop, op |-> e.op]
      <4>1. e.iop \in Iop /\ f \in Entry /\ f.iop = e.iop /\ f.op = e.op
        BY <3>2, <3>3 DEF Cqe, NopCqe, Entry
      <4> HIDE DEF f
      <4>2. f \in InFlight
        BY <3>2, <4>1 DEF InFlight
      <4> QED
        BY <1>2, <3>1, <4>1, <4>2 DEF LifeInv, UserDataLive, Suspended
    <3>4. pc' = pc /\ (user' \/ comp' = comp)
      BY <2>6, <3>3 DEF Execute
    <3> QED
      BY <1>2, <2>0, <3>1, <3>4 DEF Suspended, NoUndefined
  <2>7. CASE Executed
    <3> DEFINE i == current.iop
               c == comp[i]
               b == IF c.iop_count = 1 /\ ~c.iop_exists
                    THEN [Unused EXCEPT !.st = "deleted"]
                    ELSE [c EXCEPT !.iop_count = @ - 1]
    <3>1. /\ current \in Entry /\ ~user /\ user' = user /\ pc' = pc
          /\ comp' = [comp EXCEPT ![i] = b]
      BY <1>2, <2>7 DEF Executed, LifeInv, TypeOK, loop
    <3>2. i \in Iop /\ c \in Completion
      BY <2>0, <3>1 DEF Entry
    <3>3. b.iop_exists => c.iop_exists /\ b.waiting = c.waiting
      <4>1. CASE c.iop_count = 1 /\ ~c.iop_exists
        BY <4>1, DeletedCompletion
      <4>2. CASE ~(c.iop_count = 1 /\ ~c.iop_exists)
        <5> DEFINE n == c.iop_count - 1
                   a == [c EXCEPT !.iop_count = n]
        <5>1. b = a
          BY <4>2
        <5> HIDE DEF n, c
        <5>2. a.iop_exists = c.iop_exists /\ a.waiting = c.waiting
          BY <3>2 DEF Completion
        <5> HIDE DEF a, b
        <5> QED
          BY <5>1, <5>2
      <4> QED
        BY <4>1, <4>2
    <3> HIDE DEF b
    <3> QED
      BY <1>2, <2>0, <3>1, <3>2, <3>3 DEF Suspended, NoUndefined
  <2>8. CASE Shutdown
    <3> DEFINE gone == [Unused EXCEPT !.st = "deleted"]
    <3>1. ~gone.iop_exists
      BY DeletedCompletion
    <3>2. /\ pc' = "ended" /\ \A i \in Iop : ~comp[i].iop_exists
          /\ comp' = [i \in Iop |-> IF i \in outstanding THEN gone ELSE comp[i]]
      BY <2>8 DEF Shutdown
    <3> HIDE DEF gone
    <3> QED
      BY <3>1, <3>2 DEF Suspended, NoUndefined
  <2>9. CASE Kernel
    BY <1>2, <2>9 DEF Kernel, Expire, Post, loop, Suspended, NoUndefined
  <2>10. CASE UNCHANGED vars
    BY <1>2, <2>10 DEF vars, loop, Suspended, NoUndefined
  <2> QED
    BY <1>2, <2>1, <2>2, <2>3, <2>4, <2>5, <2>6, <2>7, <2>8, <2>9, <2>10 DEF Next, Loop
<1>3. Inv => NoUndefined
  OBVIOUS
<1> HIDE DEF Inv
<1> QED
  BY <1>1, <1>2, <1>3, LifeInvariant, PTL DEF Spec

-----------------------------------------------------------------------------
(* The coroutine that waits.                                               *)

(* Ring s holds an answer to completion i that deliver does not ignore; d:  *)
(* does the completion have a deadline?                                     *)
Heard(s, i, d) == \E n \in DOMAIN s : s[n].iop = i /\ ~(d /\ s[n].res = "canceled")

(* What resumes the coroutine that waits for i: its operation, which the    *)
(* kernel has not cancelled, or its timer once that has run out.            *)
Coming(i) ==
  \/ OpOf(i) \in Range(sq)
  \/ kernel[OpOf(i)] = "armed"
  \/ kernel[TimerOf(i)] = "fired"
  \/ Heard(cq, i, comp[i].deadline)

(* WillResume is not inductive alone: the answer, the timer or the          *)
(* operation that will resume the coroutine has to be named.                *)
WaitInv ==
  \A i \in Iop : comp[i].waiting => comp[i].iop_exists /\ Coming(i)

(* The kernel posts an answer. *)
LEMMA AppendHeard ==
  ASSUME NEW s \in Seq(Cqe), NEW c \in Cqe, NEW i, NEW d
  PROVE  /\ Heard(s, i, d) => Heard(Append(s, c), i, d)
         /\ c.iop = i /\ ~(d /\ c.res = "canceled") => Heard(Append(s, c), i, d)
<1> DEFINE r == Append(s, c)
<1>1. /\ r \in Seq(Cqe) /\ Len(r) = Len(s) + 1 /\ r[Len(s) + 1] = c
      /\ \A n \in 1..Len(s) : r[n] = s[n]
  BY AppendProperties
<1>2. /\ Len(s) \in Nat /\ DOMAIN s = 1..Len(s) /\ DOMAIN r = 1..(Len(s) + 1)
  BY <1>1, LenProperties
<1> HIDE DEF r
<1>3. /\ \A n \in DOMAIN s : n \in DOMAIN r /\ r[n] = s[n]
      /\ Len(s) + 1 \in DOMAIN r
  BY <1>1, <1>2
<1>4. /\ Heard(s, i, d) => Heard(r, i, d)
      /\ c.iop = i /\ ~(d /\ c.res = "canceled") => Heard(r, i, d)
  BY <1>1, <1>3 DEF Heard
<1> QED
  BY <1>4 DEF r

(* execute takes an answer: what was heard was this one, or is still there. *)
LEMMA TailHeard ==
  ASSUME NEW s \in Seq(Cqe), s # <<>>, NEW i, NEW d, Heard(s, i, d)
  PROVE  \/ Heard(Tail(s), i, d)
         \/ Head(s).iop = i /\ ~(d /\ Head(s).res = "canceled")
<1> DEFINE r == Tail(s)
<1>0. Len(s) \in Nat /\ Len(s) > 0 /\ DOMAIN s = 1..Len(s)
  BY LenProperties, EmptySeq
<1>1. /\ r \in Seq(Cqe) /\ Head(s) = s[1]
      /\ Len(r) = Len(s) - 1 /\ \A n \in 1..Len(r) : r[n] = s[n + 1]
  BY <1>0, HeadTailProperties
<1>2. DOMAIN r = 1..(Len(s) - 1)
  BY <1>1, LenProperties
<1> HIDE DEF r
<1>3. PICK n \in DOMAIN s : s[n].iop = i /\ ~(d /\ s[n].res = "canceled")
  BY DEF Heard
<1>4. CASE n = 1
  BY <1>1, <1>3, <1>4
<1>5. CASE n # 1
  <2>1. n - 1 \in DOMAIN r /\ r[n - 1] = s[n]
    BY <1>0, <1>1, <1>2, <1>5
  <2>2. Heard(r, i, d)
    BY <1>3, <2>1 DEF Heard
  <2> QED
    BY <2>2 DEF r
<1> QED
  BY <1>4, <1>5

(* The answers to wake-up NOPs come after what is there. *)
LEMMA NopsHeard ==
  ASSUME NEW s \in Seq(Cqe), NEW k \in Nat, NEW i, NEW d, Heard(s, i, d)
  PROVE  Heard(s \o [n \in 1..k |-> NopCqe], i, d)
<1> DEFINE t == [n \in 1..k |-> NopCqe]
           r == s \o t
<1>1. t \in Seq(Cqe) /\ Len(t) = k
  <2>1. NopCqe \in Cqe
    BY DEF Cqe
  <2>2. t \in Seq(Cqe)
    BY <2>1, IsASeq
  <2> QED
    BY <2>2, LenProperties
<1> HIDE DEF t
<1>2. /\ r \in Seq(Cqe) /\ Len(r) = Len(s) + k
      /\ \A n \in 1..Len(r) : r[n] = IF n <= Len(s) THEN s[n] ELSE t[n - Len(s)]
  BY <1>1, ConcatProperties
<1>3. Len(s) \in Nat /\ DOMAIN s = 1..Len(s) /\ DOMAIN r = 1..(Len(s) + k)
  BY <1>2, LenProperties
<1> HIDE DEF r
<1>4. \A n \in DOMAIN s : n \in DOMAIN r /\ r[n] = s[n]
  BY <1>2, <1>3
<1>5. Heard(r, i, d)
  BY <1>4 DEF Heard
<1> QED
  BY <1>5 DEF r, t

(* A completion that is deleted has no coroutine. *)
LEMMA DeletedWaiting == [Unused EXCEPT !.st = "deleted"].waiting = FALSE
<1>1. Unused \in Completion /\ Unused.waiting = FALSE
  BY DEF Unused, Completion
<1> QED
  BY <1>1 DEF Completion

(* Completions of which none waits that did not, with the ring as it was or *)
(* longer.                                                                  *)
LEMMA WaitKept ==
  ASSUME LifeInv, WaitInv,
         \A i \in Iop : comp'[i].waiting =>
           /\ comp[i].waiting /\ comp'[i].iop_exists = comp[i].iop_exists
           /\ comp'[i].deadline = comp[i].deadline,
         Range(sq) \subseteq Range(sq'), kernel' = kernel, cq' = cq
  PROVE  WaitInv'
<1> SUFFICES ASSUME NEW i \in Iop, comp'[i].waiting
             PROVE  comp'[i].iop_exists /\ Coming(i)'
  BY DEF WaitInv
<1>1. comp[i].iop_exists /\ Coming(i)
  BY DEF WaitInv
<1> QED
  BY <1>1 DEF Coming, OpOf, TimerOf

(* await_suspend suspends a coroutine only once its operation is in the ring. *)
LEMMA WaitAwait ==
  ASSUME LifeInv, WaitInv, NEW i \in Iop, NEW k \in Kind, NEW d \in BOOLEAN,
         Await(i, k, d)
  PROVE  WaitInv'
<1>0. /\ kernel' = kernel /\ cq' = cq
      /\ comp \in [Iop -> Completion] /\ sq \in Seq(Entry \cup {Nop})
  BY DEF Await, LifeInv, TypeOK
<1>1. OpOf(i) \in Entry /\ TimerOf(i) \in Entry
  BY EntriesApart
<1>2. /\ Append(sq, OpOf(i)) \in Seq(Entry \cup {Nop})
      /\ Range(Append(sq, OpOf(i))) = Range(sq) \cup {OpOf(i)}
  BY <1>0, <1>1, AppendRange
<1>3. Range(Append(Append(sq, OpOf(i)), TimerOf(i)))
        = Range(sq) \cup {OpOf(i)} \cup {TimerOf(i)}
  <2> DEFINE op == Append(sq, OpOf(i))
  <2>1. op \in Seq(Entry \cup {Nop}) /\ TimerOf(i) \in Entry \cup {Nop}
    BY <1>1, <1>2
  <2> HIDE DEF op
  <2>2. Range(Append(op, TimerOf(i))) = Range(op) \cup {TimerOf(i)}
    BY <2>1, AppendRange
  <2> QED
    BY <1>2, <2>2 DEF op
<1>4. PICK b \in Completion :
        /\ comp' = [comp EXCEPT ![i] = b] /\ b.iop_exists
        /\ b.waiting => OpOf(i) \in Range(sq')
        /\ Range(sq) \subseteq Range(sq')
  <2>1. \A n \in 0..2, w \in BOOLEAN :
          /\ Live(k, d, n, w) \in Completion
          /\ Live(k, d, n, w).iop_exists
    BY LiveCompletion
  <2>2. Live(k, d, 1, FALSE).waiting = FALSE
    BY DEF Live
  <2>3. Fresh(k, d) \in Completion /\ Fresh(k, d).iop_exists
    BY FreshCompletion
  <2>4. Fresh(k, d).waiting = FALSE
    BY DEF Fresh
  <2>5. 1 \in 0..2 /\ 2 \in 0..2 /\ TRUE \in BOOLEAN /\ FALSE \in BOOLEAN
    OBVIOUS
  <2>6. CASE sq' = Append(sq, OpOf(i)) /\ comp' = [comp EXCEPT ![i] = Live(k, d, 1, TRUE)]
    BY <1>2, <2>1, <2>5, <2>6
  <2>7. CASE /\ sq' = Append(Append(sq, OpOf(i)), TimerOf(i))
             /\ comp' = [comp EXCEPT ![i] = Live(k, d, 2, TRUE)]
    BY <1>3, <2>1, <2>5, <2>7
  <2>8. CASE sq' = Append(sq, OpOf(i)) /\ comp' = [comp EXCEPT ![i] = Live(k, d, 1, FALSE)]
    BY <1>2, <2>1, <2>2, <2>5, <2>8
  <2>9. CASE sq' = sq /\ comp' = [comp EXCEPT ![i] = Fresh(k, d)]
    BY <2>3, <2>4, <2>9
  <2> QED
    BY <2>6, <2>7, <2>8, <2>9 DEF Await
<1> SUFFICES ASSUME NEW j \in Iop, comp'[j].waiting
             PROVE  comp'[j].iop_exists /\ Coming(j)'
  BY DEF WaitInv
<1>5. CASE j = i
  BY <1>0, <1>4, <1>5 DEF Coming, OpOf
<1>6. CASE j # i
  <2>1. comp'[j] = comp[j]
    BY <1>0, <1>4, <1>6
  <2>2. comp[j].iop_exists /\ Coming(j)
    BY <2>1 DEF WaitInv
  <2> QED
    BY <1>0, <1>4, <2>1, <2>2 DEF Coming, OpOf, TimerOf
<1> QED
  BY <1>5, <1>6

(* ~iop: its coroutine no longer waits. *)
LEMMA WaitDestructed ==
  ASSUME LifeInv, WaitInv, NEW i \in Iop, NEW c \in Completion,
         IopDestructed(i, c), UNCHANGED rings
  PROVE  WaitInv'
<1>0. comp \in [Iop -> Completion]
  BY DEF LifeInv, TypeOK
<1>1. [c EXCEPT !.iop_exists = FALSE, !.is_outstanding = TRUE,
                !.waiting = FALSE].waiting = FALSE
  BY DEF Completion
<1>2. PICK b : b.waiting = FALSE /\ comp' = [comp EXCEPT ![i] = b]
  BY <1>1, DeletedWaiting DEF IopDestructed
<1>3. \A j \in Iop : comp'[j].waiting => comp'[j] = comp[j]
  BY <1>0, <1>2
<1> QED
  BY <1>3, WaitKept DEF rings

(* io_uring_submit hands the operation to the kernel; a timer that has run  *)
(* out is not in the ring.                                                  *)
LEMMA WaitSubmitted ==
  ASSUME LifeInv, WaitInv, NEW s \in Seq(Entry \cup {Nop}),
         Range(sq) \subseteq Range(s), Range(s) \ {Nop} = Range(sq) \ {Nop},
         comp' = comp, Submitted(s)
  PROVE  WaitInv'
<1>1. CASE sq' = s /\ UNCHANGED <<kernel, cq>>
  BY <1>1, WaitKept
<1>2. CASE /\ kernel' = [e \in Entry |-> IF e \in Range(s) THEN "armed" ELSE kernel[e]]
           /\ cq' = cq \o [n \in 1..Nops(s) |-> NopCqe]
  <2> SUFFICES ASSUME NEW i \in Iop, comp[i].waiting
               PROVE  comp[i].iop_exists /\ Coming(i)'
    BY DEF WaitInv
  <2>1. comp[i].iop_exists /\ Coming(i)
    BY DEF WaitInv
  <2>2. OpOf(i) \in Entry /\ TimerOf(i) \in Entry /\ Nop \notin Entry
    BY EntriesApart
  <2>3. kernel[TimerOf(i)] = "fired" => TimerOf(i) \notin Range(s)
    BY <2>2 DEF LifeInv, OnePlace
  <2>4. /\ OpOf(i) \in Range(sq) => kernel'[OpOf(i)] = "armed"
        /\ kernel[OpOf(i)] = "armed" => kernel'[OpOf(i)] = "armed"
        /\ kernel[TimerOf(i)] = "fired" => kernel'[TimerOf(i)] = "fired"
    BY <1>2, <2>2, <2>3
  <2>5. Heard(cq, i, comp[i].deadline) => Heard(cq', i, comp[i].deadline)
    BY <1>2, NopsCount, NopsHeard DEF LifeInv, TypeOK
  <2> QED
    BY <2>1, <2>4, <2>5 DEF Coming, OpOf, TimerOf
<1> QED
  BY <1>1, <1>2 DEF Submitted

(* The timer that runs out answers for the operation it cancels. *)
LEMMA WaitExpire ==
  ASSUME LifeInv, WaitInv, NEW i \in Iop, Expire(i)
  PROVE  WaitInv'
<1>1. /\ comp' = comp /\ sq' = sq /\ cq' = cq
      /\ kernel \in [Entry -> {"none", "armed", "fired"}]
      /\ kernel' = [kernel EXCEPT ![OpOf(i)] = "fired", ![TimerOf(i)] = "fired"]
  BY DEF Expire, LifeInv, TypeOK
<1> SUFFICES ASSUME NEW j \in Iop, comp[j].waiting
             PROVE  comp[j].iop_exists /\ Coming(j)'
  BY <1>1 DEF WaitInv
<1>2. comp[j].iop_exists /\ Coming(j)
  BY DEF WaitInv
<1>3. /\ OpOf(j) \in Entry /\ TimerOf(j) \in Entry
      /\ OpOf(i) \in Entry /\ TimerOf(i) \in Entry
  BY EntriesApart
<1>4. CASE j = i
  <2>1. kernel'[TimerOf(i)] = "fired"
    BY <1>1, <1>3
  <2> QED
    BY <1>2, <1>4, <2>1 DEF Coming, TimerOf
<1>5. CASE j # i
  <2>1. /\ OpOf(j) # OpOf(i) /\ OpOf(j) # TimerOf(i)
        /\ TimerOf(j) # OpOf(i) /\ TimerOf(j) # TimerOf(i)
    BY <1>5 DEF OpOf, TimerOf
  <2>2. kernel'[OpOf(j)] = kernel[OpOf(j)] /\ kernel'[TimerOf(j)] = kernel[TimerOf(j)]
    BY <1>1, <1>3, <2>1
  <2> QED
    BY <1>1, <1>2, <2>2 DEF Coming, OpOf, TimerOf
<1> QED
  BY <1>4, <1>5

(* The answer of an operation that was not cancelled, and of a timer that   *)
(* ran out, is one that deliver does not ignore.                            *)
LEMMA WaitPost ==
  ASSUME LifeInv, WaitInv, NEW e \in Entry, NEW r \in Answers(e), Post(e, r)
  PROVE  WaitInv'
<1> DEFINE c == [iop |-> e.iop, op |-> e.op, res |-> r]
<1>1. /\ comp' = comp /\ sq' = sq /\ cq' = Append(cq, c) /\ cq \in Seq(Cqe)
      /\ kernel \in [Entry -> {"none", "armed", "fired"}]
      /\ kernel' = [kernel EXCEPT ![e] = "none"]
  BY DEF Post, LifeInv, TypeOK
<1>2. r \in {"ok", "error", "canceled", "etime"}
  BY <1>1 DEF Answers
<1>3. c \in Cqe /\ c.iop = e.iop /\ c.res = r
  BY <1>2 DEF Cqe, Entry
<1> SUFFICES ASSUME NEW j \in Iop, comp[j].waiting
             PROVE  comp[j].iop_exists /\ Coming(j)'
  BY <1>1 DEF WaitInv
<1>4. comp[j].iop_exists /\ Coming(j)
  BY DEF WaitInv
<1> DEFINE d == comp[j].deadline
<1> HIDE DEF c, d
<1>5. /\ Heard(cq, j, d) => Heard(cq', j, d)
      /\ e.iop = j /\ ~(d /\ r = "canceled") => Heard(cq', j, d)
  BY <1>1, <1>3, AppendHeard
<1>6. OpOf(j) \in Entry /\ TimerOf(j) \in Entry
      /\ OpOf(j).op = "io" /\ TimerOf(j).op = "timer"
      /\ OpOf(j).iop = j /\ TimerOf(j).iop = j
  BY EntriesApart DEF OpOf, TimerOf
<1>7. CASE e = OpOf(j) /\ kernel[e] = "armed"
  <2>1. r # "canceled"
    BY <1>6, <1>7 DEF Answers
  <2>2. Heard(cq', j, d)
    BY <1>5, <1>6, <1>7, <2>1
  <2> QED
    BY <1>1, <1>4, <2>2 DEF Coming, d
<1>8. CASE e = TimerOf(j) /\ kernel[e] = "fired"
  <2>1. r # "canceled"
    BY <1>6, <1>8 DEF Answers
  <2>2. Heard(cq', j, d)
    BY <1>5, <1>6, <1>8, <2>1
  <2> QED
    BY <1>1, <1>4, <2>2 DEF Coming, d
<1>9. CASE ~(e = OpOf(j) /\ kernel[e] = "armed") /\ ~(e = TimerOf(j) /\ kernel[e] = "fired")
  <2>1. /\ kernel[OpOf(j)] = "armed" => kernel'[OpOf(j)] = "armed"
        /\ kernel[TimerOf(j)] = "fired" => kernel'[TimerOf(j)] = "fired"
    BY <1>1, <1>6, <1>9
  <2> QED
    BY <1>1, <1>4, <1>5, <2>1 DEF Coming, d, OpOf, TimerOf
<1> QED
  BY <1>7, <1>8, <1>9

(* execute: the answer that was to come resumes the coroutine, and one that *)
(* is ignored was not the one.                                              *)
LEMMA WaitExecute ==
  ASSUME LifeInv, WaitInv, Execute
  PROVE  WaitInv'
<1> DEFINE e == Head(cq)
           c == comp[e.iop]
<1>1. /\ sq' = sq /\ kernel' = kernel /\ cq # <<>> /\ cq \in Seq(Cqe)
      /\ comp \in [Iop -> Completion]
  BY DEF Execute, LifeInv, TypeOK
<1>2. e \in Cqe
  BY <1>1, TailAnswered
<1>3. e.op # "nop" => e.iop \in Iop
  BY <1>2 DEF Cqe, NopCqe
<1>4. e.op = "nop" => e.iop \notin Iop
  BY <1>2, ConstantsAssumption DEF Cqe, NopCqe, Op
<1>5. CASE UNCHANGED <<comp, cq>>
  BY <1>1, <1>5, WaitKept
<1>6. ASSUME cq' = Tail(cq), NEW j \in Iop, comp[j].waiting, comp'[j] = comp[j],
             e.iop = j => Ignored(comp[j], e.res)
      PROVE  comp'[j].iop_exists /\ Coming(j)'
  <2>1. comp[j].iop_exists /\ Coming(j)
    BY <1>6 DEF WaitInv
  <2>2. ~(e.iop = j /\ ~(comp[j].deadline /\ e.res = "canceled"))
    BY <1>6 DEF Ignored
  <2>3. Heard(cq, j, comp[j].deadline) => Heard(cq', j, comp[j].deadline)
    BY <1>1, <1>6, <2>2, TailHeard
  <2> QED
    BY <1>1, <1>6, <2>1, <2>3 DEF Coming, OpOf, TimerOf
<1>7. CASE e.op = "nop" /\ cq' = Tail(cq) /\ UNCHANGED comp
  BY <1>4, <1>6, <1>7 DEF WaitInv
<1>8. CASE /\ e.op # "nop" /\ cq' = Tail(cq)
           /\ comp' = [comp EXCEPT ![e.iop] = [c EXCEPT !.waiting = FALSE,
                                                  !.result = Outcome(c, e.res)]]
  <2> DEFINE b == [c EXCEPT !.waiting = FALSE, !.result = Outcome(c, e.res)]
  <2>1. b.waiting = FALSE
    BY <1>1, <1>3, <1>8 DEF Completion
  <2>2. comp' = [comp EXCEPT ![e.iop] = b]
    BY <1>8
  <2> HIDE DEF b
  <2>3. \A j \in Iop : comp'[j].waiting => j # e.iop /\ comp'[j] = comp[j]
    BY <1>1, <1>3, <1>8, <2>1, <2>2
  <2> QED
    BY <1>6, <1>8, <2>3 DEF WaitInv
<1>9. CASE /\ cq' = Tail(cq) /\ UNCHANGED comp
           /\ ~(c.iop_exists /\ ~Ignored(c, e.res))
  <2>1. \A j \in Iop : comp[j].waiting /\ e.iop = j => Ignored(comp[j], e.res)
    BY <1>9 DEF WaitInv
  <2> QED
    BY <1>6, <1>9, <2>1 DEF WaitInv
<1> QED
  BY <1>5, <1>7, <1>8, <1>9 DEF Execute

(* The end of execute leaves the coroutine where it is. *)
LEMMA WaitExecuted ==
  ASSUME LifeInv, WaitInv, Executed
  PROVE  WaitInv'
<1> DEFINE i == current.iop
           c == comp[i]
           n == c.iop_count - 1
           a == [c EXCEPT !.iop_count = n]
           gone == [Unused EXCEPT !.st = "deleted"]
           b == IF c.iop_count = 1 /\ ~c.iop_exists THEN gone ELSE a
<1>1. /\ current \in Entry /\ comp \in [Iop -> Completion] /\ UNCHANGED rings
      /\ comp' = [comp EXCEPT ![i] = b]
  BY DEF Executed, LifeInv, TypeOK
<1>2. i \in Iop
  BY <1>1 DEF Entry
<1>3. c \in Completion
  BY <1>1, <1>2
<1> HIDE DEF c, n
<1>4. a.waiting = c.waiting /\ a.iop_exists = c.iop_exists /\ a.deadline = c.deadline
  BY <1>3 DEF Completion
<1>5. gone.waiting = FALSE
  BY DeletedWaiting
<1> HIDE DEF a, gone
<1>6. b.waiting => /\ c.waiting /\ b.iop_exists = c.iop_exists
                   /\ b.deadline = c.deadline
  BY <1>4, <1>5
<1> HIDE DEF b, i
<1>7. \A j \in Iop : comp'[j].waiting =>
        /\ comp[j].waiting /\ comp'[j].iop_exists = comp[j].iop_exists
        /\ comp'[j].deadline = comp[j].deadline
  BY <1>1, <1>2, <1>6 DEF c
<1> QED
  BY <1>1, <1>7, WaitKept DEF rings

(* Every step keeps what a waiting coroutine is resumed by. *)
LEMMA WaitInvStep == LifeInv /\ WaitInv /\ [Next]_vars => WaitInv'
<1> SUFFICES ASSUME LifeInv, WaitInv, [Next]_vars PROVE WaitInv'
  OBVIOUS
<1>0. /\ \A k : \A d \in Deadlines(k) : d \in BOOLEAN
      /\ comp \in [Iop -> Completion] /\ sq \in Seq(Entry \cup {Nop})
  BY ConstantsAssumption DEF Deadlines, LifeInv, TypeOK
<1>1. ASSUME NEW i \in Iop, NEW k \in Kind, NEW d \in Deadlines(k), Await(i, k, d)
      PROVE  WaitInv'
  BY <1>0, <1>1, WaitAwait
<1>2. ASSUME NEW i \in Iop, NEW k \in Kind, NEW d \in Deadlines(k), Discard(i, k, d)
      PROVE  WaitInv'
  <2>1. Fresh(k, d) \in Completion
    BY <1>0, FreshCompletion
  <2> QED
    BY <1>2, <2>1, WaitDestructed DEF Discard
<1>3. ASSUME NEW i \in Iop, Destruct(i) PROVE WaitInv'
  BY <1>0, <1>3, WaitDestructed DEF Destruct
<1>4. ASSUME NEW h1 \in Handle \cup {Null}, NEW h2 \in Handle \cup {Null},
             AsyncResume(h1, h2)
      PROVE  WaitInv'
  <2>1. comp' = comp
    BY <1>4 DEF AsyncResume
  <2>2. CASE Submitted(Append(sq, Nop))
    <3>1. /\ Append(sq, Nop) \in Seq(Entry \cup {Nop})
          /\ Range(Append(sq, Nop)) = Range(sq) \cup {Nop}
      BY <1>0, AppendRange
    <3> QED
      BY <2>1, <2>2, <3>1, WaitSubmitted
  <2>3. CASE UNCHANGED rings
    BY <2>1, <2>3, WaitKept DEF rings
  <2> QED
    BY <1>4, <2>2, <2>3 DEF AsyncResume
<1>5. CASE FinishPrimary \/ UserReturn \/ RunUntil \/ RunBatch \/ RunEnds \/ WaitReturns
             \/ WaitInterrupted \/ WaitThrows \/ Drained \/ ResumeNext \/ ResumedAll
             \/ UNCHANGED vars
  <2>1. UNCHANGED <<comp, sq, kernel, cq>>
    BY <1>5 DEF FinishPrimary, UserReturn, RunUntil, RunBatch, RunEnds, WaitReturns,
         WaitInterrupted, WaitThrows, Drained, ResumeNext, ResumedAll, vars, rings
  <2> QED
    BY <2>1, WaitKept
<1>6. CASE SubmitAll
  BY <1>0, <1>6, WaitSubmitted DEF SubmitAll
<1>7. CASE Execute
  BY <1>7, WaitExecute
<1>8. CASE Executed
  BY <1>8, WaitExecuted
<1>9. CASE Shutdown
  <2> DEFINE gone == [Unused EXCEPT !.st = "deleted"]
  <2>1. gone.waiting = FALSE
    BY DeletedWaiting
  <2>2. /\ \A i \in Iop : ~comp[i].iop_exists
        /\ comp' = [i \in Iop |-> IF i \in outstanding THEN gone ELSE comp[i]]
    BY <1>9 DEF Shutdown
  <2> HIDE DEF gone
  <2>3. \A i \in Iop : ~comp'[i].waiting
    BY <2>1, <2>2 DEF WaitInv
  <2> QED
    BY <2>3 DEF WaitInv
<1>10. ASSUME NEW i \in Iop, Expire(i) PROVE WaitInv'
  BY <1>10, WaitExpire
<1>11. ASSUME NEW e \in Entry, NEW r \in Answers(e), Post(e, r) PROVE WaitInv'
  BY <1>11, WaitPost
<1> QED
  BY <1>1, <1>2, <1>3, <1>4, <1>5, <1>6, <1>7, <1>8, <1>9, <1>10, <1>11
     DEF Next, User, Loop, Kernel

(* However the kernel orders its answers, and whenever it refuses to take a *)
(* submission, a coroutine that await_suspend suspended is never left with  *)
(* only an answer that deliver ignores.                                     *)
THEOREM UringWillResume == Spec => []WillResume
<1>1. Init => WaitInv
  BY DEF Init, WaitInv, Unused
<1>2. LifeInv /\ WaitInv /\ [Next]_vars => WaitInv'
  BY WaitInvStep
<1>3. LifeInv /\ WaitInv => WillResume
  <2> SUFFICES ASSUME LifeInv, WaitInv, NEW i \in Iop, comp[i].waiting
               PROVE  \E e \in {OpOf(i), TimerOf(i)} :
                        \/ e \in Range(sq) \/ kernel[e] # "none"
                        \/ \E n \in DOMAIN cq : /\ cq[n].iop = i /\ cq[n].op = e.op
                                                /\ ~Ignored(comp[i], cq[n].res)
    BY DEF WillResume
  <2>1. Coming(i)
    BY DEF WaitInv
  <2>2. CASE Heard(cq, i, comp[i].deadline)
    <3>1. PICK n \in DOMAIN cq :
            cq[n].iop = i /\ ~(comp[i].deadline /\ cq[n].res = "canceled")
      BY <2>2 DEF Heard
    <3>2. cq[n] \in Cqe
      BY ElementOfSeq, LenProperties DEF LifeInv, TypeOK
    <3>3. cq[n].op \in {"io", "timer"}
      BY <3>1, <3>2, ConstantsAssumption DEF Cqe, NopCqe, Op
    <3>4. OpOf(i).op = "io" /\ TimerOf(i).op = "timer"
      BY DEF OpOf, TimerOf
    <3> QED
      BY <3>1, <3>3, <3>4 DEF Ignored
  <2> QED
    BY <2>1, <2>2 DEF Coming
<1> QED
  BY <1>1, <1>2, <1>3, LifeInvariant, PTL DEF Spec

-----------------------------------------------------------------------------
(* What ~impl finds.                                                       *)

(* What completion record c of address i says while the list is `listed`:   *)
(* it counts two entries only with a deadline; and once its IOP is gone it  *)
(* is in the list, or was erased from it at the first of two answers.       *)
Kept(i, c, listed) ==
  /\ c.iop_count = 2 => c.deadline
  /\ c.is_outstanding => ~c.iop_exists
  /\ c.st \in {"idle", "live"} /\ ~c.iop_exists =>
       c.is_outstanding /\ (i \in listed \/ (c.deadline /\ c.iop_count = 1))

(* NothingLeaked speaks of the end only; until then every completion is     *)
(* where ~impl will look for it.                                            *)
LeakInv ==
  /\ NothingLeaked
  /\ pc # "ended" => \A i \in Iop : Kept(i, comp[i], outstanding)

(* A completion that is deleted is not in the way. *)
LEMMA DeletedKept ==
  ASSUME NEW i, NEW listed
  PROVE  Kept(i, [Unused EXCEPT !.st = "deleted"], listed)
<1> DEFINE b == [Unused EXCEPT !.st = "deleted"]
<1>1. Unused \in Completion /\ Unused.is_outstanding = FALSE /\ Unused.iop_count = 0
  BY DEF Unused, Completion
<1>2. b.st = "deleted" /\ b.is_outstanding = FALSE /\ b.iop_count = 0
  BY <1>1 DEF Completion
<1> HIDE DEF b
<1>3. Kept(i, b, listed)
  BY <1>2 DEF Kept
<1> QED
  BY <1>3 DEF b

(* Completion i changes, and no other leaves the list. *)
LEMMA LeakStep ==
  ASSUME LifeInv, LeakInv, pc # "ended", pc' # "ended", NEW i \in Iop, NEW b,
         comp' = [comp EXCEPT ![i] = b], outstanding \subseteq outstanding' \cup {i},
         Kept(i, b, outstanding')
  PROVE  LeakInv'
<1>1. comp \in [Iop -> Completion]
  BY DEF LifeInv, TypeOK
<1>2. ASSUME NEW j \in Iop PROVE Kept(j, comp'[j], outstanding')
  <2>1. CASE j = i
    BY <1>1, <2>1
  <2>2. CASE j # i
    <3>1. comp'[j] = comp[j] /\ Kept(j, comp[j], outstanding)
      BY <1>1, <2>2 DEF LeakInv
    <3>2. j \in outstanding => j \in outstanding'
      BY <2>2
    <3> QED
      BY <3>1, <3>2 DEF Kept
  <2> QED
    BY <2>1, <2>2
<1> QED
  BY <1>2 DEF LeakInv, NothingLeaked

(* await_suspend counts two entries for a deadline only. *)
LEMMA LeakAwait ==
  ASSUME LifeInv, LeakInv, NEW i \in Iop, NEW k \in Kind, NEW d \in BOOLEAN,
         Await(i, k, d)
  PROVE  LeakInv'
<1>1. pc # "ended" /\ pc' = pc /\ outstanding' = outstanding
  BY DEF Await, LifeInv, Bookkeeping, loop
<1>2. \A w \in BOOLEAN :
        /\ Kept(i, Live(k, d, 1, w), outstanding)
        /\ d => Kept(i, Live(k, d, 2, w), outstanding)
  BY DEF Kept, Live
<1>3. Kept(i, Fresh(k, d), outstanding)
  BY DEF Kept, Fresh
<1>4. PICK b : comp' = [comp EXCEPT ![i] = b] /\ Kept(i, b, outstanding)
  <2>1. CASE \E w \in BOOLEAN : comp' = [comp EXCEPT ![i] = Live(k, d, 1, w)]
    BY <1>2, <2>1
  <2>2. CASE d /\ comp' = [comp EXCEPT ![i] = Live(k, d, 2, TRUE)]
    BY <1>2, <2>2
  <2>3. CASE comp' = [comp EXCEPT ![i] = Fresh(k, d)]
    BY <1>3, <2>3
  <2> QED
    BY <2>1, <2>2, <2>3 DEF Await
<1> QED
  BY <1>1, <1>4, LeakStep

(* ~iop: the completion goes, or the list knows of it. *)
LEMMA LeakDestructed ==
  ASSUME LifeInv, LeakInv, user, UNCHANGED loop, NEW i \in Iop, NEW c \in Completion,
         c.iop_count = 2 => c.deadline, IopDestructed(i, c)
  PROVE  LeakInv'
<1>1. pc # "ended" /\ pc' = pc
  BY DEF LifeInv, Bookkeeping, loop
<1>2. CASE c.iop_count = 0
  <2>1. Kept(i, [Unused EXCEPT !.st = "deleted"], outstanding)
    BY DeletedKept
  <2> QED
    BY <1>1, <1>2, <2>1, LeakStep DEF IopDestructed
<1>3. CASE c.iop_count # 0
  <2> DEFINE b == [c EXCEPT !.iop_exists = FALSE, !.is_outstanding = TRUE,
                            !.waiting = FALSE]
  <2>1. /\ b.iop_count = c.iop_count /\ b.deadline = c.deadline
        /\ b.is_outstanding = TRUE /\ b.iop_exists = FALSE
    BY DEF Completion
  <2>2. comp' = [comp EXCEPT ![i] = b] /\ outstanding' = outstanding \cup {i}
    BY <1>3 DEF IopDestructed
  <2> HIDE DEF b
  <2>3. Kept(i, b, outstanding')
    BY <2>1, <2>2 DEF Kept
  <2> QED
    BY <1>1, <2>2, <2>3, LeakStep
<1> QED
  BY <1>2, <1>3

(* Resuming the coroutine changes nothing of that. *)
LEMMA LeakExecute ==
  ASSUME LifeInv, LeakInv, Execute
  PROVE  LeakInv'
<1> DEFINE e == Head(cq)
           i == e.iop
           c == comp[i]
           o == Outcome(c, e.res)
           b == [c EXCEPT !.waiting = FALSE, !.result = o]
<1>1. /\ pc # "ended" /\ pc' # "ended" /\ outstanding' = outstanding
      /\ comp \in [Iop -> Completion] /\ cq \in Seq(Cqe) /\ cq # <<>>
  BY DEF Execute, LifeInv, TypeOK
<1>2. e \in Cqe
  BY <1>1, TailAnswered
<1>3. CASE comp' = comp
  BY <1>1, <1>3 DEF LeakInv, NothingLeaked
<1>4. CASE e.op # "nop" /\ comp' = [comp EXCEPT ![i] = b]
  <2>1. i \in Iop
    BY <1>2, <1>4 DEF Cqe, NopCqe
  <2>2. c \in Completion /\ Kept(i, c, outstanding)
    BY <1>1, <2>1 DEF LeakInv
  <2> HIDE DEF c, o, i
  <2>3. /\ b.iop_count = c.iop_count /\ b.deadline = c.deadline /\ b.st = c.st
        /\ b.is_outstanding = c.is_outstanding /\ b.iop_exists = c.iop_exists
    BY <2>2 DEF Completion
  <2> HIDE DEF b
  <2>4. Kept(i, b, outstanding')
    BY <1>1, <2>2, <2>3 DEF Kept
  <2> QED
    BY <1>1, <1>4, <2>1, <2>4, LeakStep
<1> QED
  BY <1>3, <1>4 DEF Execute

(* execute erases a completion at its first answer, and deletes it at its   *)
(* last one.                                                                *)
LEMMA LeakExecuted ==
  ASSUME LifeInv, LeakInv, Executed
  PROVE  LeakInv'
<1> DEFINE i == current.iop
           c == comp[i]
           n == c.iop_count - 1
           a == [c EXCEPT !.iop_count = n]
           gone == [Unused EXCEPT !.st = "deleted"]
           b == IF c.iop_count = 1 /\ ~c.iop_exists THEN gone ELSE a
<1>1. /\ current \in Entry /\ comp \in [Iop -> Completion]
      /\ pc # "ended" /\ pc' # "ended"
      /\ comp' = [comp EXCEPT ![i] = b] /\ outstanding' = Erased(i, c)
  BY DEF Executed, LifeInv, TypeOK, loop
<1>2. i \in Iop /\ current \in InFlight
  BY <1>1 DEF Entry, InFlight
<1>3. c \in Completion /\ Kept(i, c, outstanding) /\ c.st = "live"
  BY <1>1, <1>2 DEF LeakInv, LifeInv, UserDataLive
<1>4. c.iop_count \in 0..2 /\ (~c.iop_exists => c.iop_count > 0)
  BY <1>1, <1>2, <1>3 DEF LifeInv, CountExact, Completion
<1>5. outstanding \subseteq outstanding' \cup {i}
  BY <1>1 DEF Erased
<1> HIDE DEF c
<1>6. /\ a.iop_count = n /\ a.deadline = c.deadline /\ a.st = c.st
      /\ a.is_outstanding = c.is_outstanding /\ a.iop_exists = c.iop_exists
  <2> HIDE DEF n
  <2> QED
    BY <1>3 DEF Completion
<1> HIDE DEF a
<1>7. Kept(i, b, outstanding')
  <2>1. CASE c.iop_count = 1 /\ ~c.iop_exists
    BY <2>1, DeletedKept
  <2>2. CASE ~(c.iop_count = 1 /\ ~c.iop_exists)
    <3>1. b = a
      BY <2>2
    <3>2. n # 2 /\ (~c.iop_exists => c.iop_count = 2 /\ n = 1)
      BY <1>4, <2>2
    <3>3. ~c.iop_exists => c.deadline /\ c.is_outstanding
      BY <1>3, <3>2 DEF Kept
    <3>4. c.is_outstanding => ~c.iop_exists
      BY <1>3 DEF Kept
    <3>5. Kept(i, a, outstanding')
      BY <1>6, <3>2, <3>3, <3>4 DEF Kept
    <3> QED
      BY <3>1, <3>5
  <2> QED
    BY <2>1, <2>2
<1> HIDE DEF b, i
<1> QED
  BY <1>1, <1>2, <1>5, <1>7, LeakStep

(* Every step keeps what ~impl relies on. *)
LEMMA LeakInvStep == LifeInv /\ LeakInv /\ [Next]_vars => LeakInv'
<1> SUFFICES ASSUME LifeInv, LeakInv, [Next]_vars PROVE LeakInv'
  OBVIOUS
<1>0. /\ \A k : \A d \in Deadlines(k) : d \in BOOLEAN
      /\ comp \in [Iop -> Completion] /\ (pc = "ended" => ~user)
  BY ConstantsAssumption DEF Deadlines, LifeInv, TypeOK, Bookkeeping
<1>1. ASSUME NEW i \in Iop, NEW k \in Kind, NEW d \in Deadlines(k), Await(i, k, d)
      PROVE  LeakInv'
  BY <1>0, <1>1, LeakAwait
<1>2. ASSUME NEW i \in Iop, NEW k \in Kind, NEW d \in Deadlines(k), Discard(i, k, d)
      PROVE  LeakInv'
  <2>1. Fresh(k, d) \in Completion
    BY <1>0, FreshCompletion
  <2>2. Fresh(k, d).iop_count = 1
    BY DEF Fresh
  <2> QED
    BY <1>2, <2>1, <2>2, LeakDestructed DEF Discard
<1>3. ASSUME NEW i \in Iop, Destruct(i) PROVE LeakInv'
  <2>1. pc # "ended"
    BY <1>0, <1>3 DEF Destruct
  <2>2. comp[i] \in Completion /\ (comp[i].iop_count = 2 => comp[i].deadline)
    BY <1>0, <2>1 DEF LeakInv, Kept
  <2> QED
    BY <1>3, <2>2, LeakDestructed DEF Destruct
<1>4. ASSUME comp' = comp, outstanding' = outstanding, pc' = "ended" <=> pc = "ended"
      PROVE  LeakInv'
  BY <1>4 DEF LeakInv, NothingLeaked
<1>5. ASSUME NEW h1 \in Handle \cup {Null}, NEW h2 \in Handle \cup {Null},
             AsyncResume(h1, h2)
      PROVE  LeakInv'
  BY <1>4, <1>5 DEF AsyncResume, loop
<1>6. CASE FinishPrimary \/ UserReturn \/ RunUntil \/ RunBatch \/ RunEnds \/ WaitReturns
             \/ WaitInterrupted \/ WaitThrows \/ Drained \/ ResumeNext \/ ResumedAll
             \/ SubmitAll \/ UNCHANGED vars
  <2>1. UNCHANGED <<comp, outstanding>> /\ (pc' = "ended" <=> pc = "ended")
    BY <1>0, <1>6 DEF FinishPrimary, UserReturn, RunUntil, RunBatch, RunEnds, WaitReturns,
         WaitInterrupted, WaitThrows, Drained, ResumeNext, ResumedAll, SubmitAll, vars, loop
  <2> QED
    BY <1>4, <2>1
<1>7. CASE Execute
  BY <1>7, LeakExecute
<1>8. CASE Executed
  BY <1>8, LeakExecuted
<1>9. CASE Shutdown
  <2> DEFINE gone == [Unused EXCEPT !.st = "deleted"]
  <2>1. gone.st = "deleted"
    BY DeletedCompletion
  <2>2. /\ pc # "ended" /\ pc' = "ended" /\ \A i \in Iop : ~comp[i].iop_exists
        /\ comp' = [i \in Iop |-> IF i \in outstanding THEN gone ELSE comp[i]]
    BY <1>9 DEF Shutdown
  <2> HIDE DEF gone
  <2>3. ASSUME NEW i \in Iop
        PROVE  \/ comp'[i].st \in {"unused", "deleted"}
               \/ comp'[i].deadline /\ comp'[i].is_outstanding /\ comp'[i].iop_count = 1
    <3>1. CASE i \in outstanding
      BY <2>1, <2>2, <3>1
    <3>2. CASE i \notin outstanding
      <4>1. comp'[i] = comp[i] /\ Kept(i, comp[i], outstanding)
        BY <2>2, <3>2 DEF LeakInv
      <4>2. comp[i].st \in {"unused", "idle", "live", "deleted"} /\ ~comp[i].iop_exists
        BY <1>0, <2>2 DEF Completion
      <4> QED
        BY <3>2, <4>1, <4>2 DEF Kept
    <3> QED
      BY <3>1, <3>2
  <2> QED
    BY <2>2, <2>3 DEF LeakInv, NothingLeaked
<1>10. ASSUME NEW i \in Iop, Expire(i) PROVE LeakInv'
  BY <1>4, <1>10 DEF Expire, loop
<1>11. ASSUME NEW e \in Entry, NEW r \in Answers(e), Post(e, r) PROVE LeakInv'
  BY <1>4, <1>11 DEF Post, loop
<1> QED
  BY <1>1, <1>2, <1>3, <1>5, <1>6, <1>7, <1>8, <1>9, <1>10, <1>11
     DEF Next, User, Loop, Kernel

(* ~impl deletes every completion that is still there, but for one that     *)
(* execute erased from the list at the first of its two answers: no other   *)
(* way to leak one exists.                                                  *)
THEOREM UringNothingLeaked == Spec => []NothingLeaked
<1>1. Init => LeakInv
  BY DEF Init, LeakInv, NothingLeaked, Kept, Unused
<1>2. LifeInv /\ LeakInv /\ [Next]_vars => LeakInv'
  BY LeakInvStep
<1>3. LeakInv => NothingLeaked
  BY DEF LeakInv
<1> QED
  BY <1>1, <1>2, <1>3, LifeInvariant, PTL DEF Spec

=============================================================================
