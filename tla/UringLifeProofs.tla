-------------------------- MODULE UringLifeProofs --------------------------
(***************************************************************************)
(* The io_uring warden implements IopLife, for every number of completions *)
(* and handles and every size of the submission ring.                      *)
(***************************************************************************)
EXTENDS UringWardenProofs

-----------------------------------------------------------------------------
(* What the refinement needs beyond LifeInv.                               *)

(* A completion before its use, its deadline, and its result up to the time *)
(* that deliver sets it.                                                    *)
Shape(c) ==
  /\ c.st = "unused" => c = Unused
  /\ c.deadline => c.kind \notin {"sleep", "close"}
  /\ c.waiting => c.iop_exists /\ c.result = "none"

Shapes == \A i \in Iop : Shape(comp[i])

(* A timer is in flight only for an IOP with a deadline, and an operation   *)
(* other than a sleep does not answer that a time is over.  Together they   *)
(* say that a time out is never made up.                                    *)
TimerDue == \A i \in Iop : TimerOf(i) \in InFlight => comp[i].deadline

EtimeSleeps ==
  \A n \in DOMAIN cq :
    cq[n].op = "io" /\ cq[n].res = "etime" => comp[cq[n].iop].kind = "sleep"

Timed == TimerDue /\ EtimeSleeps

-----------------------------------------------------------------------------
(* The refinement mapping.                                                 *)

(* LifeOf a completion, as long as nothing undefined has happened. *)
View(c) ==
  LET seen == c.iop_exists \/ c.st = "unused"
  IN  [st |-> IF ~seen THEN "released" ELSE IF c.st = "unused" THEN "unused"
              ELSE IF c.waiting THEN "pending" ELSE "done",
       kind |-> IF seen THEN c.kind ELSE "close",
       deadline |-> seen /\ c.deadline,
       outcome |-> IF ~seen THEN "none"
                   ELSE IF c.iop_exists /\ ~c.waiting /\ c.kind \in ValueKinds
                           /\ c.result = "none" THEN "error"
                   ELSE c.result]

(* What a coroutine sees of one completion takes a step of IopLife, or none, *)
(* as completion c becomes b.                                               *)
Evolves(c, b) ==
  \/ View(b) = View(c)
  \/ /\ View(c).st = "unused"
     /\ \E k \in Kind, d \in BOOLEAN :
          \/ View(b) = Life!Point("pending", k, d, "none")
          \/ \E o \in Life!OutcomesOf(k, FALSE) : View(b) = Life!Point("done", k, d, o)
  \/ /\ View(c).st = "pending"
     /\ \E o \in Life!OutcomesOf(View(c).kind, View(c).deadline) :
          View(b) = [View(c) EXCEPT !.st = "done", !.outcome = o]
  \/ View(c).st # "released" /\ View(b) = Life!Blank("released")

(* A completion that was not made yet. *)
LEMMA ViewUnused ==
  View(Unused) = Life!Blank("unused") /\ View(Unused).st = "unused"
  BY DEF View, Unused, Life!Blank, Life!Point

(* One whose IOP was destructed. *)
LEMMA ViewReleased ==
  ASSUME NEW c \in Completion, c.st # "unused", ~c.iop_exists, ~c.waiting
  PROVE  View(c) = Life!Blank("released")
<1>1. (c.iop_exists \/ c.st = "unused") = FALSE
  BY Zenon
<1> QED
  BY <1>1 DEF View, Life!Blank, Life!Point

(* One whose coroutine is suspended. *)
LEMMA ViewPending ==
  ASSUME NEW c \in Completion, c.st # "unused", c.iop_exists, c.waiting,
         c.result = "none"
  PROVE  View(c) = Life!Point("pending", c.kind, c.deadline, "none")
  BY DEF View, Life!Point, Completion

(* One whose coroutine goes on. *)
LEMMA ViewDone ==
  ASSUME NEW c \in Completion, c.st # "unused", c.iop_exists, ~c.waiting
  PROVE  View(c) = Life!Point("done", c.kind, c.deadline,
                     IF c.kind \in ValueKinds /\ c.result = "none" THEN "error"
                     ELSE c.result)
  BY DEF View, Life!Point, Completion

(* The state functions of the two specifications agree. *)
LEMMA ViewNow ==
  ASSUME pc # "undefined", NEW i \in Iop
  PROVE  LifeOf(comp[i]) = View(comp[i])
  BY DEF LifeOf, View

LEMMA ViewNext ==
  ASSUME pc' # "undefined", NEW i \in Iop
  PROVE  LifeOf(comp[i])' = View(comp'[i])
  BY DEF LifeOf, View

(* A step of one completion is a step of the abstract specification. *)
LEMMA EvolvesStep ==
  ASSUME pc # "undefined", pc' # "undefined", NEW i \in Iop, NEW b,
         comp \in [Iop -> Completion], comp' = [comp EXCEPT ![i] = b],
         Evolves(comp[i], b)
  PROVE  [Life!Next]_[j \in Iop |-> LifeOf(comp[j])]
<1> DEFINE life == [j \in Iop |-> LifeOf(comp[j])]
           nxt == [j \in Iop |-> View(comp'[j])]
           now == [j \in Iop |-> View(comp[j])]
<1>1. life = now
  BY ViewNow
<1>2. life' = nxt
  BY ViewNext
<1>3. nxt = [now EXCEPT ![i] = View(b)] /\ now[i] = View(comp[i])
  OBVIOUS
<1> HIDE DEF now, nxt
<1>8. life' = [life EXCEPT ![i] = View(b)] /\ life[i] = View(comp[i])
  BY <1>1, <1>2, <1>3, Zenon
<1>4. CASE View(b) = View(comp[i])
  BY <1>1, <1>2, <1>3, <1>4 DEF now
<1>5. CASE /\ View(comp[i]).st = "unused"
           /\ \E k \in Kind, d \in BOOLEAN :
                \/ View(b) = Life!Point("pending", k, d, "none")
                \/ \E o \in Life!OutcomesOf(k, FALSE) :
                     View(b) = Life!Point("done", k, d, o)
  <2>1. PICK k \in Kind, d \in BOOLEAN :
               \/ View(b) = Life!Point("pending", k, d, "none")
               \/ \E o \in Life!OutcomesOf(k, FALSE) : View(b) = Life!Point("done", k, d, o)
    BY <1>5, Zenon
  <2>2. \/ life' = [life EXCEPT ![i] = Life!Point("pending", k, d, "none")]
        \/ \E o \in Life!OutcomesOf(k, FALSE) :
             life' = [life EXCEPT ![i] = Life!Point("done", k, d, o)]
    BY <1>8, <2>1, Zenon
  <2>3. life[i].st = "unused"
    BY <1>5, <1>8, Zenon
  <2>4. Life!Await(i)
    BY <2>2, <2>3, Zenon DEF Life!Await
  <2> QED
    BY <2>4 DEF Life!Next
<1>6. CASE /\ View(comp[i]).st = "pending"
           /\ \E o \in Life!OutcomesOf(View(comp[i]).kind, View(comp[i]).deadline) :
                View(b) = [View(comp[i]) EXCEPT !.st = "done", !.outcome = o]
  <2>1. PICK o \in Life!OutcomesOf(life[i].kind, life[i].deadline) :
               View(b) = [life[i] EXCEPT !.st = "done", !.outcome = o]
    BY <1>6, <1>8, Zenon
  <2>2. life' = [life EXCEPT ![i] = [life[i] EXCEPT !.st = "done", !.outcome = o]]
    BY <1>8, <2>1, Zenon
  <2>3. Life!Resume(i)
    BY <1>6, <1>8, <2>1, <2>2, Zenon DEF Life!Resume
  <2> QED
    BY <2>3 DEF Life!Next
<1>7. CASE View(comp[i]).st # "released" /\ View(b) = Life!Blank("released")
  <2>1. Life!Release(i)
    BY <1>1, <1>2, <1>3, <1>7 DEF Life!Release
  <2> QED
    BY <2>1 DEF Life!Next
<1> QED
  BY <1>4, <1>5, <1>6, <1>7 DEF Evolves

-----------------------------------------------------------------------------
(* The steps of one completion.                                            *)

(* co_await: the coroutine is suspended, or thrown out of await_suspend. *)
LEMMA AwaitedEvolves ==
  ASSUME NEW k \in Kind, NEW d \in Deadlines(k), NEW b,
         \/ \E n \in {1, 2}, w \in BOOLEAN : b = Live(k, d, n, w)
         \/ b = Fresh(k, d)
  PROVE  Shape(b) /\ Evolves(Unused, b)
<1>1. d \in BOOLEAN /\ (d => k \notin {"sleep", "close"})
  BY ConstantsAssumption DEF Deadlines
<1>2. /\ b \in Completion /\ b.kind = k /\ b.deadline = d /\ b.iop_exists
      /\ b.result = "none" /\ b.st # "unused"
  <2>1. ASSUME NEW n \in {1, 2}, NEW w \in BOOLEAN, b = Live(k, d, n, w)
        PROVE  /\ b \in Completion /\ b.kind = k /\ b.deadline = d /\ b.iop_exists
               /\ b.result = "none" /\ b.st # "unused"
    BY <1>1, <2>1 DEF Live, Completion
  <2>2. CASE b = Fresh(k, d)
    BY <1>1, <2>2 DEF Fresh, Completion
  <2> QED
    BY <2>1, <2>2
<1>3. Shape(b)
  BY <1>1, <1>2 DEF Shape
<1>4. CASE b.waiting
  <2>1. View(b) = Life!Point("pending", k, d, "none")
    BY <1>2, <1>4, ViewPending
  <2> QED
    BY <1>1, <1>3, <2>1, ViewUnused DEF Evolves
<1>5. CASE ~b.waiting
  <2> DEFINE o == IF k \in ValueKinds THEN "error" ELSE "none"
  <2>1. View(b) = Life!Point("done", k, d, o)
    <3>1. View(b) = Life!Point("done", b.kind, b.deadline,
                      IF b.kind \in ValueKinds /\ b.result = "none" THEN "error"
                      ELSE b.result)
      BY <1>2, <1>5, ViewDone
    <3> QED
      BY <1>2, <3>1
  <2>2. o \in Life!OutcomesOf(k, FALSE)
    BY DEF Life!OutcomesOf, Life!ValueKinds, ValueKinds
  <2> HIDE DEF o
  <2> QED
    BY <1>1, <1>3, <2>1, <2>2, ViewUnused DEF Evolves
<1> QED
  BY <1>4, <1>5

(* ~iop. *)
LEMMA DestructedEvolves ==
  ASSUME NEW c \in Completion, Shape(c), c = Unused \/ (c.iop_exists /\ c.st # "unused"),
         NEW b \in Completion, b.st # "unused", ~b.iop_exists, ~b.waiting,
         b.deadline => b.kind \notin {"sleep", "close"}
  PROVE  Shape(b) /\ Evolves(c, b)
<1>1. View(b) = Life!Blank("released")
  BY ViewReleased
<1>2. View(c).st # "released"
  <2>1. CASE c = Unused
    BY <2>1, ViewUnused
  <2>2. CASE c.iop_exists /\ c.st # "unused" /\ c.waiting
    BY <2>2, ViewPending DEF Shape, Life!Point
  <2>3. CASE c.iop_exists /\ c.st # "unused" /\ ~c.waiting
    BY <2>3, ViewDone DEF Life!Point
  <2> QED
    BY <2>1, <2>2, <2>3
<1> QED
  BY <1>1, <1>2 DEF Shape, Evolves

(* deliver: the outcome is one of the IOP's kind. *)
LEMMA DeliveredEvolves ==
  ASSUME NEW c \in Completion, Shape(c), c.st = "live", c.waiting, NEW r,
         r = "etime" => c.deadline \/ c.kind = "sleep",
         NEW b, b = [c EXCEPT !.waiting = FALSE, !.result = Outcome(c, r)]
  PROVE  Shape(b) /\ Evolves(c, b)
<1> DEFINE o == Outcome(c, r)
<1>1. o \in {"none", "value", "error", "timeout"}
  BY DEF Outcome
<1>2. o \in Life!OutcomesOf(c.kind, c.deadline)
  BY DEF Outcome, Life!OutcomesOf, Life!ValueKinds, ValueKinds, Shape
<1>3. c.kind \in ValueKinds => o # "none"
  BY DEF Outcome, ValueKinds
<1> HIDE DEF o
<1>4. /\ b \in Completion /\ b.st = "live" /\ b.kind = c.kind /\ b.deadline = c.deadline
      /\ b.iop_exists = c.iop_exists /\ ~b.waiting /\ b.result = o
  BY <1>1 DEF Completion, o
<1>5. c.iop_exists /\ c.result = "none"
  BY DEF Shape
<1>6. View(c) = Life!Point("pending", c.kind, c.deadline, "none")
  BY <1>5, ViewPending
<1>7. View(b) = Life!Point("done", c.kind, c.deadline, o)
  <2>1. View(b) = Life!Point("done", b.kind, b.deadline,
                    IF b.kind \in ValueKinds /\ b.result = "none" THEN "error"
                    ELSE b.result)
    BY <1>4, <1>5, ViewDone
  <2> QED
    BY <1>3, <1>4, <2>1
<1>8. /\ View(c).st = "pending" /\ View(c).kind = c.kind
      /\ View(c).deadline = c.deadline
      /\ View(b) = [View(c) EXCEPT !.st = "done", !.outcome = o]
  <2> DEFINE p == View(c)
             k == c.kind
             d == c.deadline
  <2>1. p = [st |-> "pending", kind |-> k, deadline |-> d, outcome |-> "none"]
    BY <1>6, Zenon DEF Life!Point
  <2>2. View(b) = [st |-> "done", kind |-> k, deadline |-> d, outcome |-> o]
    BY <1>7, Zenon DEF Life!Point
  <2> HIDE DEF p, k, d
  <2>3. p.st = "pending" /\ p.kind = k /\ p.deadline = d
    BY ONLY <2>1
  <2>4. [p EXCEPT !.st = "done", !.outcome = o]
             = [st |-> "done", kind |-> k, deadline |-> d, outcome |-> o]
    <3> DEFINE q == [p EXCEPT !.st = "done", !.outcome = o]
    <3>1. q \in [st : {"done"}, kind : {k}, deadline : {d}, outcome : {o}]
      BY ONLY <2>1
    <3> HIDE DEF q
    <3>2. q = [st |-> "done", kind |-> k, deadline |-> d, outcome |-> o]
      BY ONLY <3>1
    <3> QED
      BY <3>2 DEF q
  <2> QED
    BY <2>2, <2>3, <2>4, Zenon DEF p, k, d
<1>9. Shape(b)
  BY <1>4 DEF Shape
<1> QED
  BY <1>2, <1>8, <1>9 DEF Evolves

(* The count of entries is nothing a coroutine sees. *)
LEMMA CountedEvolves ==
  ASSUME NEW c \in Completion, Shape(c), c.st = "live", NEW n,
         NEW b, b = [c EXCEPT !.iop_count = n]
  PROVE  Shape(b) /\ View(b) = View(c)
<1>1. /\ b.st = c.st /\ b.kind = c.kind /\ b.deadline = c.deadline
      /\ b.iop_exists = c.iop_exists /\ b.waiting = c.waiting /\ b.result = c.result
  BY DEF Completion
<1> QED
  BY <1>1 DEF Shape, View

-----------------------------------------------------------------------------
(* Time outs.                                                              *)

(* Nothing new is in flight, and no IOP in flight becomes another one. *)
LEMMA TimedKept ==
  ASSUME LifeInv, LifeInv', Timed, InFlight' \subseteq InFlight,
         \A n \in DOMAIN cq' : cq'[n].op = "nop" \/ \E m \in DOMAIN cq : cq[m] = cq'[n],
         \A i \in Iop : comp[i].st = "live" /\ comp'[i].st = "live" =>
           comp'[i].kind = comp[i].kind /\ comp'[i].deadline = comp[i].deadline
  PROVE  Timed'
<1>1. TimerDue'
  <2> SUFFICES ASSUME NEW i \in Iop, TimerOf(i)' \in InFlight' PROVE comp'[i].deadline
    BY DEF TimerDue
  <2>1. TimerOf(i)' = TimerOf(i) /\ TimerOf(i).iop = i
    BY DEF TimerOf
  <2>2. comp[i].st = "live" /\ comp'[i].st = "live"
    BY <2>1 DEF LifeInv, UserDataLive
  <2> QED
    BY <2>1, <2>2 DEF Timed, TimerDue
<1>2. EtimeSleeps'
  <2> SUFFICES ASSUME NEW n \in DOMAIN cq', cq'[n].op = "io", cq'[n].res = "etime"
               PROVE  comp'[cq'[n].iop].kind = "sleep"
    BY DEF EtimeSleeps
  <2>1. PICK m \in DOMAIN cq : cq[m] = cq'[n]
    OBVIOUS
  <2> DEFINE i == cq'[n].iop
  <2>2. i \in Iop
    <3>1. cq'[n] \in Cqe
      BY DEF LifeInv, TypeOK
    <3> QED
      BY <3>1 DEF Cqe, NopCqe
  <2>3. OpOf(i) \in Entry /\ OpOf(i).iop = i /\ OpOf(i).op = "io"
    BY <2>2 DEF OpOf, Entry, Op
  <2>4. Answered(cq, OpOf(i)) /\ Answered(cq', OpOf(i))
    BY <2>1, <2>3 DEF Answered
  <2>5. OpOf(i) \in InFlight /\ OpOf(i) \in InFlight'
    BY <2>3, <2>4 DEF InFlight
  <2>6. comp[i].st = "live" /\ comp'[i].st = "live"
    BY <2>3, <2>5 DEF LifeInv, UserDataLive
  <2>7. comp[i].kind = "sleep"
    BY <2>1 DEF Timed, EtimeSleeps
  <2> QED
    BY <2>2, <2>6, <2>7
<1> QED
  BY <1>1, <1>2 DEF Timed

(* The completion that await_suspend leaves behind. *)
LEMMA AwaitMakes ==
  ASSUME NEW i, NEW k, NEW d, Await(i, k, d)
  PROVE  \E b : /\ comp' = [comp EXCEPT ![i] = b]
               /\ \/ \E n \in {1, 2}, w \in BOOLEAN : b = Live(k, d, n, w)
                  \/ b = Fresh(k, d)
<1>1. \/ comp' = [comp EXCEPT ![i] = Live(k, d, 1, TRUE)]
      \/ comp' = [comp EXCEPT ![i] = Live(k, d, 2, TRUE)]
      \/ comp' = [comp EXCEPT ![i] = Live(k, d, 1, FALSE)]
      \/ comp' = [comp EXCEPT ![i] = Fresh(k, d)]
  BY Zenon DEF Await
<1>2. 1 \in {1, 2} /\ 2 \in {1, 2} /\ TRUE \in BOOLEAN /\ FALSE \in BOOLEAN
  OBVIOUS
<1> QED
  BY <1>1, <1>2, Zenon

(* await_suspend puts a timer in the ring only for a deadline. *)
LEMMA TimedAwait ==
  ASSUME LifeInv, Timed, NEW i \in Iop, NEW k, NEW d \in BOOLEAN, Await(i, k, d)
  PROVE  Timed'
<1>1. /\ comp[i].st = "unused" /\ UNCHANGED <<kernel, cq, current>>
      /\ comp \in [Iop -> Completion] /\ sq \in Seq(Entry \cup {Nop})
  BY DEF Await, LifeInv, TypeOK
<1>2. \E b : comp' = [comp EXCEPT ![i] = b] /\ b.deadline = d
  <2>1. \A n, w : Live(k, d, n, w).deadline = d
    BY DEF Live
  <2>2. Fresh(k, d).deadline = d
    BY DEF Fresh
  <2> QED
    BY <2>1, <2>2, AwaitMakes
<1>3. comp'[i].deadline = d /\ \A j \in Iop : j # i => comp'[j] = comp[j]
  BY <1>1, <1>2
<1>4. \A j \in Iop : TimerOf(j) \in Range(sq') => TimerOf(j) \in Range(sq) \/ (j = i /\ d)
  <2>1. OpOf(i) \in Entry \cup {Nop} /\ TimerOf(i) \in Entry \cup {Nop}
    BY EntriesApart
  <2> DEFINE s == Append(sq, OpOf(i))
  <2>2. s \in Seq(Entry \cup {Nop}) /\ Range(s) = Range(sq) \cup {OpOf(i)}
    BY <1>1, <2>1, AppendRange
  <2> HIDE DEF s
  <2>3. Range(Append(s, TimerOf(i))) = Range(s) \cup {TimerOf(i)}
    BY <2>1, <2>2, AppendRange
  <2>4. \A j \in Iop : TimerOf(j) # OpOf(i) /\ (TimerOf(j) = TimerOf(i) => j = i)
    BY DEF OpOf, TimerOf
  <2>5. CASE sq' = sq
    BY <2>5
  <2>6. CASE sq' = s
    BY <2>2, <2>4, <2>6
  <2>7. CASE d /\ sq' = Append(s, TimerOf(i))
    BY <2>2, <2>3, <2>4, <2>7
  <2> QED
    BY <2>5, <2>6, <2>7 DEF Await, s
<1>5. TimerDue'
  <2> SUFFICES ASSUME NEW j \in Iop, TimerOf(j)' \in InFlight' PROVE comp'[j].deadline
    BY DEF TimerDue
  <2>1. TimerOf(j)' = TimerOf(j) /\ TimerOf(j).iop = j /\ TimerOf(j) \in Entry
    BY EntriesApart DEF TimerOf
  <2>2. TimerOf(j) \in InFlight \/ (j = i /\ d)
    BY <1>1, <1>4, <2>1 DEF InFlight
  <2>3. TimerOf(j) \in InFlight => j # i
    BY <1>1, <2>1 DEF LifeInv, UserDataLive
  <2> QED
    BY <1>3, <2>2, <2>3 DEF Timed, TimerDue
<1>6. EtimeSleeps'
  <2> SUFFICES ASSUME NEW n \in DOMAIN cq, cq[n].op = "io", cq[n].res = "etime"
               PROVE  comp'[cq[n].iop].kind = "sleep"
    BY <1>1 DEF EtimeSleeps
  <2>1. cq[n].iop \in Iop
    <3>1. cq[n] \in Cqe
      BY DEF LifeInv, TypeOK
    <3> QED
      BY <3>1 DEF Cqe, NopCqe
  <2>2. OpOf(cq[n].iop) \in InFlight /\ OpOf(cq[n].iop).iop = cq[n].iop
    BY <2>1 DEF InFlight, Answered, OpOf, Entry, Op
  <2>3. cq[n].iop # i
    BY <1>1, <2>2 DEF LifeInv, UserDataLive
  <2> QED
    BY <1>3, <2>1, <2>3 DEF Timed, EtimeSleeps
<1> QED
  BY <1>5, <1>6 DEF Timed

(* The kernel answers an operation that time is over only if it is a sleep. *)
LEMMA TimedPost ==
  ASSUME LifeInv, Timed, NEW e \in Entry, NEW r, Post(e, r)
  PROVE  Timed'
<1> DEFINE c == [iop |-> e.iop, op |-> e.op, res |-> r]
<1>1. /\ r \in Answers(e) /\ cq' = Append(cq, c) /\ comp' = comp
      /\ UNCHANGED <<sq, current>> /\ kernel' = [kernel EXCEPT ![e] = "none"]
      /\ kernel \in [Entry -> {"none", "armed", "fired"}] /\ cq \in Seq(Cqe)
  BY DEF Post, LifeInv, TypeOK
<1>2. kernel[e] # "none" /\ r \in {"ok", "error", "canceled", "etime"}
  BY <1>1 DEF Answers
<1>3. e.op = "io" /\ r = "etime" => comp[e.iop].kind = "sleep"
  BY <1>1 DEF Answers
<1>4. c \in Cqe /\ c.iop = e.iop /\ c.op = e.op /\ c.res = r
  BY <1>2 DEF Cqe, Entry
<1>5. e \in InFlight
  BY <1>2 DEF InFlight
<1> HIDE DEF c
<1>6. \A f : Answered(cq', f) <=> (Answered(cq, f) \/ (c.iop = f.iop /\ c.op = f.op))
  BY <1>1, <1>4, AppendAnswered
<1>7. InFlight' \subseteq InFlight
  <2>0. \A f \in Entry : e.iop = f.iop /\ e.op = f.op => f = e
    BY DEF Entry
  <2>1. \A f \in Entry : c.iop = f.iop /\ c.op = f.op => f = e
    BY <1>4, <2>0
  <2> QED
    BY <1>1, <1>5, <1>6, <2>1 DEF InFlight
<1>8. TimerDue'
  BY <1>1, <1>7 DEF Timed, TimerDue, TimerOf
<1>9. EtimeSleeps'
  <2>1. /\ Len(cq) \in Nat /\ DOMAIN cq = 1 .. Len(cq) /\ DOMAIN cq' = 1 .. (Len(cq) + 1)
        /\ cq'[Len(cq) + 1] = c /\ \A n \in 1 .. Len(cq) : cq'[n] = cq[n]
    BY <1>1, <1>4, AppendProperties, LenProperties
  <2>2. ASSUME NEW n \in DOMAIN cq', cq'[n].op = "io", cq'[n].res = "etime"
        PROVE  comp'[cq'[n].iop].kind = "sleep"
    <3>1. CASE n = Len(cq) + 1
      BY <1>1, <1>3, <1>4, <2>1, <2>2, <3>1
    <3>2. CASE n # Len(cq) + 1
      <4>1. n \in DOMAIN cq /\ cq'[n] = cq[n]
        BY <2>1, <3>2
      <4> QED
        BY <1>1, <2>2, <4>1 DEF Timed, EtimeSleeps
    <3> QED
      BY <3>1, <3>2
  <2> QED
    BY <2>2 DEF EtimeSleeps
<1> QED
  BY <1>8, <1>9 DEF Timed

-----------------------------------------------------------------------------
(* The theorems.                                                           *)

(* The state of IopLife that the completions stand for. *)
LifeView == [i \in Iop |-> LifeOf(comp[i])]

(* KeepsIopLife where a coroutine may suspend while it holds an IOP that is *)
(* done, so that the late half of it resumes the wrong suspension: up to    *)
(* that point every step keeps the promise.                                 *)
KeepsIopLifeSoFar == [][NoUndefined' => [Life!Next]_LifeView]_vars

(* What a step adds to LifeInv, and what the coroutines see of it. *)
Refines == Shapes' /\ Timed' /\ [Life!Next]_LifeView

(* One completion changes, and its kind and deadline are those it was made  *)
(* with.                                                                    *)
LEMMA OneRefines ==
  ASSUME LifeInv, Shapes, NoUndefined, NoUndefined', NEW i \in Iop, NEW b,
         comp' = [comp EXCEPT ![i] = b], Shape(b), Evolves(comp[i], b)
  PROVE  Shapes' /\ [Life!Next]_LifeView
<1>1. comp \in [Iop -> Completion]
  BY DEF LifeInv, TypeOK
<1>2. Shapes'
  BY <1>1 DEF Shapes
<1>3. [Life!Next]_LifeView
  BY <1>1, EvolvesStep DEF NoUndefined, LifeView
<1> QED
  BY <1>2, <1>3

(* The completions, and what is in flight, stay as they are. *)
LEMMA QuietRefines ==
  ASSUME LifeInv, LifeInv', Shapes, Timed, NoUndefined, NoUndefined', comp' = comp,
         InFlight' \subseteq InFlight,
         \A n \in DOMAIN cq' : cq'[n].op = "nop" \/ \E m \in DOMAIN cq : cq[m] = cq'[n]
  PROVE  Refines
<1>1. Shapes'
  BY DEF Shapes
<1>2. Timed'
  BY TimedKept
<1>3. LifeView' = LifeView
  <2>1. \A i \in Iop : LifeOf(comp[i]) = View(comp[i]) /\ LifeOf(comp[i])' = View(comp'[i])
    BY ViewNow, ViewNext DEF NoUndefined
  <2> QED
    BY <2>1 DEF LifeView
<1> QED
  BY <1>1, <1>2, <1>3 DEF Refines

(* ~iop, of an IOP that was awaited or not. *)
LEMMA DestructedRefines ==
  ASSUME LifeInv, LifeInv', Shapes, Timed, NoUndefined, NoUndefined', NEW i \in Iop,
         NEW c \in Completion, Shape(c), c.st # "unused",
         \/ c = comp[i] /\ c.iop_exists
         \/ comp[i].st = "unused",
         IopDestructed(i, c), UNCHANGED <<loop, rings, current, async>>
  PROVE  Refines
<1> DEFINE gone == [Unused EXCEPT !.st = "deleted"]
           kept == [c EXCEPT !.iop_exists = FALSE, !.is_outstanding = TRUE,
                             !.waiting = FALSE]
<1>1. comp \in [Iop -> Completion] /\ UNCHANGED <<sq, kernel, cq, current>>
  BY DEF LifeInv, TypeOK, rings
<1>2. /\ gone \in Completion /\ gone.st = "deleted" /\ ~gone.iop_exists /\ ~gone.waiting
      /\ ~gone.deadline
  <2>1. Unused \in Completion /\ ~Unused.waiting /\ ~Unused.deadline /\ ~Unused.iop_exists
    BY DEF Unused, Completion
  <2> QED
    BY <2>1 DEF Completion
<1>3. /\ kept \in Completion /\ kept.st = c.st /\ ~kept.iop_exists /\ ~kept.waiting
      /\ kept.kind = c.kind /\ kept.deadline = c.deadline
  BY DEF Completion
<1>4. PICK b \in {gone, kept} : comp' = [comp EXCEPT ![i] = b]
  BY DEF IopDestructed
<1> HIDE DEF gone, kept
<1>5. /\ b \in Completion /\ b.st # "unused" /\ ~b.iop_exists /\ ~b.waiting
      /\ b.deadline => b.kind \notin {"sleep", "close"}
      /\ b.st = "live" => b.kind = c.kind /\ b.deadline = c.deadline /\ c.st = "live"
  BY <1>2, <1>3 DEF Shape
<1>6. /\ comp[i] \in Completion /\ Shape(comp[i])
      /\ comp[i] = Unused \/ (comp[i].iop_exists /\ comp[i].st # "unused")
  BY <1>1 DEF Shapes, Shape
<1>7. Shape(b) /\ Evolves(comp[i], b)
  BY <1>5, <1>6, DestructedEvolves
<1>8. Shapes' /\ [Life!Next]_LifeView
  BY <1>4, <1>7, OneRefines
<1>9. Timed'
  <2>1. InFlight' = InFlight
    BY <1>1 DEF InFlight
  <2>2. \A j \in Iop : comp[j].st = "live" /\ comp'[j].st = "live" =>
          comp'[j].kind = comp[j].kind /\ comp'[j].deadline = comp[j].deadline
    BY <1>1, <1>4, <1>5
  <2> QED
    BY <1>1, <2>1, <2>2, TimedKept
<1> QED
  BY <1>8, <1>9 DEF Refines

(* io_uring_submit adds nothing but the answers to NOPs. *)
LEMMA SubmittedRefines ==
  ASSUME LifeInv, LifeInv', Shapes, Timed, NoUndefined, NoUndefined', comp' = comp,
         NEW s \in Seq(Entry \cup {Nop}), Len(s) <= Entries,
         Range(s) \ {Nop} = Range(sq) \ {Nop}, current' = current, Submitted(s)
  PROVE  Refines
<1>1. InFlight' = InFlight
  BY SubmittedMoves
<1>2. cq \in Seq(Cqe) /\ Nops(s) \in Nat
  BY NopsCount DEF LifeInv, TypeOK
<1>3. CASE cq' = cq \o [n \in 1..Nops(s) |-> NopCqe]
  <2> DEFINE t == [n \in 1..Nops(s) |-> NopCqe]
  <2>1. t \in Seq(Cqe) /\ Len(t) = Nops(s) /\ \A n \in 1..Nops(s) : t[n] = NopCqe
    <3>1. NopCqe \in Cqe
      BY DEF Cqe
    <3>2. t \in Seq(Cqe)
      BY <1>2, <3>1, IsASeq
    <3> QED
      BY <1>2, <3>2, LenProperties
  <2> HIDE DEF t
  <2>2. /\ Len(cq') = Len(cq) + Nops(s) /\ cq' \in Seq(Cqe)
        /\ \A n \in 1..Len(cq') : cq'[n] = IF n <= Len(cq) THEN cq[n] ELSE t[n - Len(cq)]
    <3>1. cq' = cq \o t
      BY <1>3 DEF t
    <3> QED
      BY <1>2, <2>1, <3>1, ConcatProperties
  <2>3. Len(cq) \in Nat /\ DOMAIN cq = 1..Len(cq) /\ DOMAIN cq' = 1..(Len(cq) + Nops(s))
    BY <1>2, <2>2, LenProperties
  <2>4. ASSUME NEW n \in DOMAIN cq'
        PROVE  cq'[n].op = "nop" \/ \E m \in DOMAIN cq : cq[m] = cq'[n]
    <3>1. CASE n <= Len(cq)
      BY <2>2, <2>3, <2>4, <3>1
    <3>2. CASE ~(n <= Len(cq))
      <4>1. n - Len(cq) \in 1..Nops(s)
        BY <1>2, <2>3, <2>4, <3>2
      <4>2. cq'[n] = NopCqe
        BY <2>1, <2>2, <2>3, <2>4, <3>2, <4>1
      <4> QED
        BY <4>2 DEF NopCqe
    <3> QED
      BY <3>1, <3>2
  <2> QED
    BY <1>1, <2>4, QuietRefines
<1>4. CASE cq' = cq
  BY <1>1, <1>4, QuietRefines
<1> QED
  BY <1>3, <1>4 DEF Submitted

(* The first half of execute. *)
LEMMA ExecuteRefines ==
  ASSUME LifeInv, LifeInv', Shapes, Timed, NoUndefined, NoUndefined', Execute
  PROVE  Refines
<1> DEFINE e == Head(cq)
           c == comp[e.iop]
           b == [c EXCEPT !.waiting = FALSE, !.result = Outcome(c, e.res)]
<1>1. /\ UNCHANGED <<sq, kernel>> /\ current = Idle /\ cq # <<>> /\ cq \in Seq(Cqe)
      /\ comp \in [Iop -> Completion]
  BY DEF Execute, LifeInv, TypeOK
<1>2. /\ e \in Cqe
      /\ \A g : Answered(cq, g) <=> (Answered(Tail(cq), g) \/ (e.iop = g.iop /\ e.op = g.op))
  BY <1>1, TailAnswered
<1>3. /\ Len(cq) \in Nat /\ DOMAIN cq = 1..Len(cq) /\ 1 \in DOMAIN cq /\ e = cq[1]
      /\ \A n \in DOMAIN Tail(cq) : n + 1 \in DOMAIN cq /\ Tail(cq)[n] = cq[n + 1]
  <2>1. Len(cq) \in Nat /\ Len(cq) > 0 /\ DOMAIN cq = 1..Len(cq)
    BY <1>1, LenProperties, EmptySeq
  <2>2. /\ Tail(cq) \in Seq(Cqe) /\ e = cq[1]
        /\ Len(Tail(cq)) = Len(cq) - 1
        /\ \A n \in 1..Len(Tail(cq)) : Tail(cq)[n] = cq[n + 1]
    BY <1>1, <2>1, HeadTailProperties
  <2>3. DOMAIN Tail(cq) = 1..(Len(cq) - 1)
    BY <2>2, LenProperties
  <2> HIDE DEF e
  <2> QED
    BY <2>1, <2>2, <2>3
<1>4. /\ cq' = Tail(cq) /\ current' \in {current, [iop |-> e.iop, op |-> e.op]}
      /\ \/ comp' = comp
         \/ e.op # "nop" /\ c.st = "live" /\ c.waiting /\ comp' = [comp EXCEPT ![e.iop] = b]
  BY DEF Execute, NoUndefined
<1>5. InFlight' \subseteq InFlight
  <2>1. ASSUME NEW g \in Entry, g = [iop |-> e.iop, op |-> e.op] PROVE Answered(cq, g)
    BY <1>2, <2>1
  <2> HIDE DEF e
  <2>2. \A g \in Entry : Answered(cq', g) => Answered(cq, g)
    BY <1>2, <1>4
  <2>3. \A g \in Entry : current' = g => current = g \/ Answered(cq, g)
    BY <1>4, <2>1
  <2> QED
    BY <1>1, <2>2, <2>3 DEF InFlight
<1>6. \A n \in DOMAIN cq' : \E m \in DOMAIN cq : cq[m] = cq'[n]
  BY <1>3, <1>4
<1>7. CASE comp' = comp
  BY <1>5, <1>6, <1>7, QuietRefines
<1>8. CASE /\ e.op # "nop" /\ c.st = "live" /\ c.waiting
           /\ comp' = [comp EXCEPT ![e.iop] = b]
  <2>1. e.iop \in Iop /\ e.op \in Op
    BY <1>2, <1>8 DEF Cqe, NopCqe
  <2>2. c \in Completion /\ Shape(c)
    BY <1>1, <2>1 DEF Shapes
  <2>3. e.res = "etime" => c.deadline \/ c.kind = "sleep"
    <3>1. CASE e.op = "io"
      BY <1>3, <3>1 DEF Timed, EtimeSleeps
    <3>2. CASE e.op = "timer"
      <4>1. TimerOf(e.iop) \in Entry /\ TimerOf(e.iop).iop = e.iop
            /\ TimerOf(e.iop).op = e.op
        BY <2>1, <3>2 DEF TimerOf, Entry, Op
      <4>2. TimerOf(e.iop) \in InFlight
        BY <1>2, <4>1 DEF InFlight
      <4> QED
        BY <2>1, <4>2 DEF Timed, TimerDue
    <3> QED
      BY <2>1, <3>1, <3>2 DEF Op
  <2> DEFINE i == e.iop
             r == e.res
  <2>4. i \in Iop /\ c = comp[i] /\ comp' = [comp EXCEPT ![i] = b]
    BY <1>8, <2>1
  <2>5. b = [c EXCEPT !.waiting = FALSE, !.result = Outcome(c, r)]
    OBVIOUS
  <2>6. r = "etime" => c.deadline \/ c.kind = "sleep"
    BY <2>3
  <2> HIDE DEF i, r, b, c, e
  <2>7. Shape(b) /\ Evolves(c, b)
    BY <1>8, <2>2, <2>5, <2>6, DeliveredEvolves
  <2>8. Shapes' /\ [Life!Next]_LifeView
    BY <2>4, <2>7, OneRefines
  <2>9. b.kind = c.kind /\ b.deadline = c.deadline
    BY <2>2, <2>5 DEF Completion
  <2>10. Timed'
    <3>1. \A j \in Iop : comp'[j].kind = comp[j].kind /\ comp'[j].deadline = comp[j].deadline
      BY <1>1, <2>4, <2>9
    <3> QED
      BY <1>5, <1>6, <3>1, TimedKept
  <2> QED
    BY <2>8, <2>10 DEF Refines
<1> QED
  BY <1>4, <1>7, <1>8

(* The second half: only the count of the completion changes, or nobody     *)
(* sees it any more.                                                        *)
LEMMA ExecutedRefines ==
  ASSUME LifeInv, LifeInv', Shapes, Timed, NoUndefined, NoUndefined', Executed
  PROVE  Refines
<1> DEFINE i == current.iop
           c == comp[i]
           gone == [Unused EXCEPT !.st = "deleted"]
           less == [c EXCEPT !.iop_count = c.iop_count - 1]
<1>1. /\ UNCHANGED <<sq, kernel, cq>> /\ current' = Idle /\ current \in Entry
      /\ comp \in [Iop -> Completion]
      /\ \/ ~c.iop_exists /\ comp' = [comp EXCEPT ![i] = gone]
         \/ comp' = [comp EXCEPT ![i] = less]
  BY DEF Executed, LifeInv, TypeOK, rings
<1>2. i \in Iop /\ c \in Completion /\ Shape(c) /\ comp[i] = c
  BY <1>1 DEF Entry, Shapes
<1>3. c.st = "live"
  <2>1. current \in InFlight
    BY <1>1 DEF InFlight
  <2> QED
    BY <2>1 DEF LifeInv, UserDataLive
<1>4. InFlight' \subseteq InFlight
  BY <1>1, EntriesApart DEF InFlight
<1>5. /\ gone \in Completion /\ gone.st = "deleted" /\ ~gone.iop_exists /\ ~gone.waiting
      /\ ~gone.deadline
  <2>1. Unused \in Completion /\ ~Unused.waiting /\ ~Unused.deadline /\ ~Unused.iop_exists
    BY DEF Unused, Completion
  <2> QED
    BY <2>1 DEF Completion
<1> HIDE DEF i, gone
<1>6. CASE ~c.iop_exists /\ comp' = [comp EXCEPT ![i] = gone]
  <2> HIDE DEF c
  <2>1. View(gone) = Life!Blank("released") /\ View(c) = Life!Blank("released")
    BY <1>2, <1>3, <1>5, <1>6, ViewReleased DEF Shape
  <2>2. Shape(gone)
    BY <1>5 DEF Shape
  <2>3. Evolves(c, gone)
    BY <2>1, Zenon DEF Evolves
  <2>4. Shapes' /\ [Life!Next]_LifeView
    BY <1>2, <1>6, <2>2, <2>3, OneRefines
  <2>5. \A j \in Iop : comp[j].st = "live" /\ comp'[j].st = "live" => comp'[j] = comp[j]
    BY <1>1, <1>2, <1>5, <1>6
  <2>6. Timed'
    BY <1>1, <1>4, <2>5, TimedKept
  <2> QED
    BY <2>4, <2>6 DEF Refines
<1>7. CASE comp' = [comp EXCEPT ![i] = less]
  <2> DEFINE n == c.iop_count - 1
  <2>1. less = [c EXCEPT !.iop_count = n]
    OBVIOUS
  <2> HIDE DEF n, c, less
  <2>2. Shape(less) /\ View(less) = View(c)
    BY <1>2, <1>3, <2>1, CountedEvolves
  <2>3. Evolves(c, less)
    BY <2>2, Zenon DEF Evolves
  <2>4. Shapes' /\ [Life!Next]_LifeView
    BY <1>2, <1>7, <2>2, <2>3, OneRefines
  <2>5. less.kind = c.kind /\ less.deadline = c.deadline
    BY <1>2, <2>1 DEF Completion
  <2>6. \A j \in Iop : comp'[j].kind = comp[j].kind /\ comp'[j].deadline = comp[j].deadline
    BY <1>1, <1>2, <1>7, <2>5
  <2>7. Timed'
    BY <1>1, <1>4, <2>6, TimedKept
  <2> QED
    BY <2>4, <2>7 DEF Refines
<1> QED
  BY <1>1, <1>6, <1>7

(* ~uring_warden: what it deletes has no IOP any more. *)
LEMMA ShutdownRefines ==
  ASSUME LifeInv, LifeInv', Shapes, Timed, NoUndefined, NoUndefined', Shutdown
  PROVE  Refines
<1> DEFINE gone == [Unused EXCEPT !.st = "deleted"]
<1>1. /\ cq' = <<>> /\ sq' = <<>> /\ kernel' = [e \in Entry |-> "none"] /\ current' = current
      /\ comp' = [i \in Iop |-> IF i \in outstanding THEN gone ELSE comp[i]]
      /\ comp \in [Iop -> Completion] /\ \A i \in Iop : ~comp[i].iop_exists
  BY DEF Shutdown, LifeInv, TypeOK
<1>2. /\ gone \in Completion /\ gone.st = "deleted" /\ ~gone.iop_exists /\ ~gone.waiting
      /\ ~gone.deadline
  <2>1. Unused \in Completion /\ ~Unused.waiting /\ ~Unused.deadline /\ ~Unused.iop_exists
    BY DEF Unused, Completion
  <2> QED
    BY <2>1 DEF Completion
<1> HIDE DEF gone
<1>3. Shapes'
  BY <1>1, <1>2 DEF Shapes, Shape
<1>4. Timed'
  <2>1. InFlight' \subseteq InFlight
    BY <1>1 DEF InFlight, Answered, Range
  <2>2. \A i \in Iop : comp'[i].st = "live" => comp'[i] = comp[i]
    BY <1>1, <1>2
  <2>3. DOMAIN cq' = {}
    BY <1>1
  <2> QED
    BY <2>1, <2>2, <2>3, TimedKept
<1>5. LifeView' = LifeView
  <2>1. ASSUME NEW i \in Iop PROVE View(comp'[i]) = View(comp[i])
    <3>1. CASE i \in outstanding
      <4>1. comp[i] \in Completion /\ comp[i].st # "unused" /\ ~comp[i].waiting
        BY <1>1, <3>1 DEF LifeInv, OutstandingLive, Shapes, Shape
      <4>2. View(comp[i]) = Life!Blank("released")
        BY <1>1, <4>1, ViewReleased
      <4>3. View(gone) = Life!Blank("released")
        BY <1>2, ViewReleased
      <4>4. comp'[i] = gone
        BY <1>1, <3>1
      <4> QED
        BY <4>2, <4>3, <4>4
    <3>2. CASE i \notin outstanding
      BY <1>1, <3>2
    <3> QED
      BY <3>1, <3>2
  <2>2. \A i \in Iop : LifeOf(comp[i]) = View(comp[i]) /\ LifeOf(comp[i])' = View(comp'[i])
    BY ViewNow, ViewNext DEF NoUndefined
  <2> QED
    BY <2>1, <2>2 DEF LifeView
<1> QED
  BY <1>3, <1>4, <1>5 DEF Refines

(* Every step of the warden. *)
LEMMA StepRefines ==
  ASSUME LifeInv, LifeInv', Shapes, Timed, NoUndefined, NoUndefined', [Next]_vars
  PROVE  Refines
<1>1. CASE UNCHANGED <<comp, sq, kernel, cq, current>>
  <2>1. InFlight' = InFlight
    BY <1>1 DEF InFlight
  <2> QED
    BY <1>1, <2>1, QuietRefines
<1>2. ASSUME NEW i \in Iop, NEW k \in Kind, NEW d \in Deadlines(k), Await(i, k, d)
      PROVE  Refines
  <2>1. d \in BOOLEAN
    BY ConstantsAssumption DEF Deadlines
  <2>2. comp[i] = Unused
    BY <1>2 DEF Await, Shapes, Shape
  <2>3. PICK b : /\ comp' = [comp EXCEPT ![i] = b]
                 /\ \/ \E n \in {1, 2}, w \in BOOLEAN : b = Live(k, d, n, w)
                    \/ b = Fresh(k, d)
    BY <1>2, AwaitMakes
  <2>4. Shape(b) /\ Evolves(comp[i], b)
    BY <2>2, <2>3, AwaitedEvolves
  <2>5. Shapes' /\ [Life!Next]_LifeView
    BY <2>3, <2>4, OneRefines
  <2>6. Timed'
    BY <1>2, <2>1, TimedAwait
  <2> QED
    BY <2>5, <2>6 DEF Refines
<1>3. ASSUME NEW i \in Iop, NEW k \in Kind, NEW d \in Deadlines(k), Discard(i, k, d)
      PROVE  Refines
  <2>1. d \in BOOLEAN
    BY ConstantsAssumption DEF Deadlines
  <2>2. Fresh(k, d) \in Completion /\ Fresh(k, d).st # "unused"
    BY <2>1, FreshCompletion
  <2>3. Shape(Fresh(k, d))
    BY AwaitedEvolves
  <2>4. /\ comp[i].st = "unused" /\ IopDestructed(i, Fresh(k, d))
        /\ UNCHANGED <<loop, rings, current, async>>
    BY <1>3 DEF Discard
  <2> QED
    BY <2>2, <2>3, <2>4, DestructedRefines
<1>4. ASSUME NEW i \in Iop, Destruct(i) PROVE Refines
  <2>1. comp[i] \in Completion /\ Shape(comp[i])
    BY DEF LifeInv, TypeOK, Shapes
  <2>2. /\ comp[i].iop_exists /\ IopDestructed(i, comp[i])
        /\ UNCHANGED <<loop, rings, current, async>>
    BY <1>4 DEF Destruct
  <2>3. comp[i].st # "unused"
    BY <2>2 DEF LifeInv, Bookkeeping
  <2> QED
    BY <2>1, <2>2, <2>3, DestructedRefines
<1>5. ASSUME NEW h1, NEW h2, AsyncResume(h1, h2) PROVE Refines
  <2>1. comp' = comp /\ current' = current
    BY <1>5 DEF AsyncResume
  <2>2. CASE Room(1) /\ Submitted(Append(sq, Nop))
    <3>1. sq \in Seq(Entry \cup {Nop}) /\ Len(sq) \in Nat /\ Entries \in Nat
      BY LenProperties, ConstantsAssumption DEF LifeInv, TypeOK
    <3>2. /\ Append(sq, Nop) \in Seq(Entry \cup {Nop})
          /\ Range(Append(sq, Nop)) = Range(sq) \cup {Nop}
      BY <3>1, AppendRange
    <3>3. Len(Append(sq, Nop)) <= Entries
      BY <2>2, <3>1, AppendProperties DEF Room
    <3>4. Range(Append(sq, Nop)) \ {Nop} = Range(sq) \ {Nop}
      BY <3>2
    <3> QED
      BY <2>1, <2>2, <3>2, <3>3, <3>4, SubmittedRefines
  <2>3. CASE UNCHANGED rings
    BY <1>1, <2>1, <2>3 DEF rings
  <2> QED
    BY <1>5, <2>2, <2>3 DEF AsyncResume
<1>6. CASE SubmitAll
  <2>1. sq \in Seq(Entry \cup {Nop}) /\ Len(sq) <= Entries
    BY DEF LifeInv, TypeOK
  <2>2. comp' = comp /\ current' = current /\ Submitted(sq)
    BY <1>6 DEF SubmitAll
  <2> QED
    BY <2>1, <2>2, SubmittedRefines
<1>7. CASE Execute
  BY <1>7, ExecuteRefines
<1>8. CASE Executed
  BY <1>8, ExecutedRefines
<1>9. CASE Shutdown
  BY <1>9, ShutdownRefines
<1>10. ASSUME NEW i \in Iop, Expire(i) PROVE Refines
  <2>1. \A e \in Entry : kernel'[e] = "none" <=> kernel[e] = "none"
    BY <1>10 DEF Expire, LifeInv, TypeOK
  <2>2. UNCHANGED <<comp, sq, cq, current>>
    BY <1>10 DEF Expire
  <2>3. InFlight' = InFlight
    BY <2>1, <2>2 DEF InFlight
  <2> QED
    BY <2>2, <2>3, QuietRefines
<1>11. ASSUME NEW e \in Entry, NEW r \in Answers(e), Post(e, r) PROVE Refines
  <2>1. comp' = comp
    BY <1>11 DEF Post
  <2>2. Timed'
    BY <1>11, TimedPost
  <2>3. \A i \in Iop : LifeOf(comp[i]) = View(comp[i]) /\ LifeOf(comp[i])' = View(comp'[i])
    BY ViewNow, ViewNext DEF NoUndefined
  <2> QED
    BY <2>1, <2>2, <2>3 DEF Refines, LifeView, Shapes
<1>12. CASE FinishPrimary \/ UserReturn \/ RunUntil \/ RunBatch
  BY <1>1, <1>12 DEF FinishPrimary, UserReturn, RunUntil, RunBatch, rings
<1>13. CASE RunEnds \/ WaitReturns \/ WaitInterrupted \/ WaitThrows
  BY <1>1, <1>13 DEF RunEnds, WaitReturns, WaitInterrupted, WaitThrows, rings
<1>14. CASE Drained \/ ResumeNext \/ ResumedAll
  BY <1>1, <1>14 DEF Drained, ResumeNext, ResumedAll, rings
<1>15. CASE UNCHANGED vars
  BY <1>1, <1>15 DEF vars, rings
<1> QED
  BY <1>2, <1>3, <1>4, <1>5, <1>6, <1>7, <1>8, <1>9, <1>10, <1>11, <1>12, <1>13, <1>14,
     <1>15 DEF Next, User, Loop, Kernel

(* Where an entry was delivered to nobody the warden has stopped. *)
LEMMA StaysUndefined ==
  ASSUME [Next]_vars, NoUndefined'
  PROVE  NoUndefined
<1> SUFFICES ASSUME pc = "undefined" PROVE FALSE
  BY DEF NoUndefined
<1>0. pc' # pc
  BY DEF NoUndefined
<1>1. ~\E i, k, d : Await(i, k, d) \/ Discard(i, k, d)
  BY <1>0 DEF Await, Discard, loop
<1>2. ~\E i : Destruct(i) \/ Expire(i)
  BY <1>0 DEF Destruct, Expire, loop
<1>3. ~\E h1, h2 : AsyncResume(h1, h2)
  BY <1>0 DEF AsyncResume, loop
<1>4. ~(FinishPrimary \/ UserReturn)
  BY <1>0 DEF FinishPrimary, UserReturn
<1>5. ~(RunUntil \/ RunBatch \/ RunEnds \/ SubmitAll \/ Shutdown)
  BY DEF RunUntil, RunBatch, RunEnds, SubmitAll, Shutdown
<1>6. ~(WaitReturns \/ WaitInterrupted \/ WaitThrows)
  BY DEF WaitReturns, WaitInterrupted, WaitThrows
<1>7. ~(Execute \/ Executed \/ Drained \/ ResumeNext \/ ResumedAll)
  BY DEF Execute, Executed, Drained, ResumeNext, ResumedAll
<1>8. ~\E e, r : Post(e, r)
  BY <1>0 DEF Post, loop
<1>9. ~UNCHANGED vars
  BY <1>0 DEF vars, loop
<1> QED
  BY <1>1, <1>2, <1>3, <1>4, <1>5, <1>6, <1>7, <1>8, <1>9 DEF Next, User, Loop, Kernel

(* Whatever the coroutines hold while they suspend: until the late half of  *)
(* an IOP resumes a coroutine that does not wait for it, of the two answers *)
(* of an IOP with a deadline one resumes the coroutine, once and not after  *)
(* ~iop, with an outcome of its kind, and a time out is reported to an IOP  *)
(* with a deadline only.                                                    *)
THEOREM UringKeepsIopLifeSoFar == Spec => KeepsIopLifeSoFar
<1>1. Init => Shapes /\ Timed
  <2> SUFFICES ASSUME Init PROVE Shapes /\ Timed
    OBVIOUS
  <2>1. ~Unused.deadline /\ ~Unused.waiting
    BY DEF Unused
  <2>2. Shapes
    BY <2>1 DEF Init, Shapes, Shape
  <2>3. InFlight = {} /\ DOMAIN cq = {}
    BY EntriesApart DEF Init, InFlight, Answered, Range
  <2> QED
    BY <2>2, <2>3 DEF Timed, TimerDue, EtimeSleeps
<1>2. /\ LifeInv /\ LifeInv' /\ (NoUndefined => Shapes /\ Timed) /\ [Next]_vars
      => /\ (NoUndefined => Shapes /\ Timed)'
         /\ NoUndefined' => [Life!Next]_LifeView
  <2> SUFFICES ASSUME LifeInv, LifeInv', NoUndefined => Shapes /\ Timed, [Next]_vars,
                      NoUndefined'
               PROVE  Refines
    BY DEF Refines
  <2>1. NoUndefined
    BY StaysUndefined
  <2> QED
    BY <2>1, StepRefines
<1> QED
  BY <1>1, <1>2, LifeInvariant, PTL DEF Spec, KeepsIopLifeSoFar

(* If no coroutine suspends while it holds an IOP that is done, the         *)
(* io_uring warden implements IopLife: of the two answers of an IOP with a  *)
(* deadline one resumes the coroutine, once and not after ~iop, with an     *)
(* outcome of its kind, and a time out is reported to an IOP with a         *)
(* deadline only.                                                           *)
THEOREM UringKeepsIopLife ==
  ASSUME HoldsIop = FALSE
  PROVE  Spec => KeepsIopLife
<1>1. Init => Life!Init
  <2> SUFFICES ASSUME Init PROVE Life!Init
    OBVIOUS
  <2>1. \A i \in Iop : LifeOf(comp[i]) = Life!Blank("unused")
    BY ViewNow, ViewUnused DEF Init
  <2> QED
    BY <2>1 DEF Life!Init
<1>2. Spec => []NoUndefined
  BY UringNoUndefined
<1>3. UNCHANGED vars => UNCHANGED LifeView
  BY DEF vars, LifeView, LifeOf, loop
<1> QED
  BY <1>1, <1>2, <1>3, UringKeepsIopLifeSoFar, PTL
     DEF Spec, KeepsIopLife, KeepsIopLifeSoFar, Life!Spec, LifeView

=============================================================================
