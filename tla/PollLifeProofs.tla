--------------------------- MODULE PollLifeProofs ---------------------------
(***************************************************************************)
(* The poll warden implements IopLife, for every number of completions,    *)
(* descriptors and handles and any deadlines.                              *)
(***************************************************************************)
EXTENDS PollWardenProofs

(* What the refinement needs beyond the warden's pointers: a completion     *)
(* before its use, and one that is suspended, has no result; close does not *)
(* suspend.                                                                 *)
Shape(c) ==
  /\ c.st = "unused" => c = Unused
  /\ c.st = "suspended" => c.result = "none" /\ c.kind # "close"

Shapes == \A i \in Iop : Shape(comp[i])

(* What the steps are taken from: nothing undefined has happened, and the   *)
(* entries of the timeouts are those of the IOPs.                           *)
LifeSound == TypeOK /\ EntriesTrue /\ Shapes /\ NoUndefined

-----------------------------------------------------------------------------
(* The refinement mapping.                                                 *)

(* LifeOf a completion, as long as nothing undefined has happened. *)
View(c) ==
  [st |-> CASE c.st = "suspended" -> "pending" [] c.st = "resumed" -> "done"
            [] c.st = "deleted" -> "released" [] OTHER -> "unused",
   kind |-> c.kind, deadline |-> c.deadline # NoDeadline,
   outcome |-> IF c.result = "badfd" THEN "value" ELSE c.result]

(* What a coroutine sees of one completion takes a step of IopLife, or none, *)
(* as completion c becomes b.                                               *)
Evolves(c, b) ==
  \/ View(b) = View(c)
  \/ /\ View(c).st = "unused"
     /\ \E k \in Kind, d \in BOOLEAN :
          \/ View(b) = Life!Point("pending", k, d, "none")
          \/ \E o \in Life!OutcomesOf(k, FALSE) : View(b) = Life!Point("done", k, d, o)
  \/ /\ View(c).st = "pending"
     /\ \E o \in Life!OutcomesOf(View(c).kind, View(c).deadline) :
          View(b) = [View(c) EXCEPT !.st = "done", !.outcome = o]
  \/ View(c).st # "released" /\ View(b) = Life!Blank("released")

(* A completion that was not made yet. *)
LEMMA ViewUnused ==
  View(Unused) = Life!Blank("unused") /\ View(Unused).st = "unused"
<1>1. (Unused.deadline # NoDeadline) = FALSE
  BY DEF Unused
<1> QED
  BY <1>1 DEF View, Unused, Life!Blank, Life!Point

(* A completion that was deleted. *)
LEMMA ViewReleased ==
  LET gone == [Unused EXCEPT !.st = "deleted"]
  IN  View(gone) = Life!Blank("released") /\ gone.st = "deleted"
<1> DEFINE gone == [Unused EXCEPT !.st = "deleted"]
<1>1. /\ gone.st = "deleted" /\ gone.kind = "close" /\ gone.deadline = NoDeadline
      /\ gone.result = "none"
  BY DEF Unused
<1> HIDE DEF gone
<1>2. (gone.deadline # NoDeadline) = FALSE
  BY <1>1
<1>3. View(gone) = Life!Blank("released")
  BY <1>1, <1>2 DEF View, Life!Blank, Life!Point
<1> QED
  BY <1>1, <1>3 DEF gone

(* One whose coroutine is suspended. *)
LEMMA ViewPending ==
  ASSUME NEW c, c.st = "suspended", c.result = "none"
  PROVE  View(c) = Life!Point("pending", c.kind, c.deadline # NoDeadline, "none")
  BY DEF View, Life!Point

(* One whose coroutine goes on. *)
LEMMA ViewDone ==
  ASSUME NEW c, c.st = "resumed"
  PROVE  View(c) = Life!Point("done", c.kind, c.deadline # NoDeadline,
                     IF c.result = "badfd" THEN "value" ELSE c.result)
  BY DEF View, Life!Point

(* The state functions of the two specifications agree. *)
LEMMA ViewNow ==
  ASSUME pc # "undefined", NEW i \in Iop
  PROVE  LifeOf(comp[i]) = View(comp[i])
  BY DEF LifeOf, View

LEMMA ViewNext ==
  ASSUME pc' # "undefined", NEW i \in Iop
  PROVE  LifeOf(comp[i])' = View(comp'[i])
  BY DEF LifeOf, View

(* What a step adds to the pointers' invariant, and what the coroutines see *)
(* of it.                                                                   *)
Refines == Shapes' /\ [Life!Next]_LifeView

(* A step of one completion is a step of the abstract specification. *)
LEMMA OneRefines ==
  ASSUME LifeSound, NoUndefined', NEW i \in Iop, NEW b,
         comp' = [comp EXCEPT ![i] = b], Shape(b), Evolves(comp[i], b)
  PROVE  Refines
<1> DEFINE life == [j \in Iop |-> LifeOf(comp[j])]
           post == [j \in Iop |-> View(comp'[j])]
           pre == [j \in Iop |-> View(comp[j])]
<1>0. comp \in [Iop -> Completion] /\ pc # "undefined" /\ pc' # "undefined"
  BY DEF LifeSound, TypeOK, NoUndefined
<1>9. Shapes'
  BY <1>0 DEF LifeSound, Shapes
<1> SUFFICES [Life!Next]_LifeView
  BY <1>9 DEF Refines
<1>1. life = pre
  BY <1>0, ViewNow
<1>2. life' = post
  BY <1>0, ViewNext
<1>3. post = [pre EXCEPT ![i] = View(b)] /\ pre[i] = View(comp[i])
  BY <1>0
<1> HIDE DEF pre, post
<1>4. life' = [life EXCEPT ![i] = View(b)] /\ life[i] = View(comp[i])
  BY <1>1, <1>2, <1>3, Zenon
<1>5. CASE View(b) = View(comp[i])
  BY <1>1, <1>2, <1>3, <1>5 DEF pre, LifeView
<1>6. CASE /\ View(comp[i]).st = "unused"
           /\ \E k \in Kind, d \in BOOLEAN :
                \/ View(b) = Life!Point("pending", k, d, "none")
                \/ \E o \in Life!OutcomesOf(k, FALSE) :
                     View(b) = Life!Point("done", k, d, o)
  <2>1. PICK k \in Kind, d \in BOOLEAN :
               \/ View(b) = Life!Point("pending", k, d, "none")
               \/ \E o \in Life!OutcomesOf(k, FALSE) : View(b) = Life!Point("done", k, d, o)
    BY <1>6, Zenon
  <2>2. \/ life' = [life EXCEPT ![i] = Life!Point("pending", k, d, "none")]
        \/ \E o \in Life!OutcomesOf(k, FALSE) :
             life' = [life EXCEPT ![i] = Life!Point("done", k, d, o)]
    BY <1>4, <2>1, Zenon
  <2>3. life[i].st = "unused"
    BY <1>4, <1>6, Zenon
  <2>4. Life!Await(i)
    BY <2>2, <2>3, Zenon DEF Life!Await
  <2> QED
    BY <2>4 DEF Life!Next
<1>7. CASE /\ View(comp[i]).st = "pending"
           /\ \E o \in Life!OutcomesOf(View(comp[i]).kind, View(comp[i]).deadline) :
                View(b) = [View(comp[i]) EXCEPT !.st = "done", !.outcome = o]
  <2>1. PICK o \in Life!OutcomesOf(life[i].kind, life[i].deadline) :
               View(b) = [life[i] EXCEPT !.st = "done", !.outcome = o]
    BY <1>4, <1>7, Zenon
  <2>2. life' = [life EXCEPT ![i] = [life[i] EXCEPT !.st = "done", !.outcome = o]]
    BY <1>4, <2>1, Zenon
  <2>3. Life!Resume(i)
    BY <1>4, <1>7, <2>1, <2>2, Zenon DEF Life!Resume
  <2> QED
    BY <2>3 DEF Life!Next
<1>8. CASE View(comp[i]).st # "released" /\ View(b) = Life!Blank("released")
  <2>1. Life!Release(i)
    BY <1>1, <1>2, <1>3, <1>8 DEF Life!Release
  <2> QED
    BY <2>1 DEF Life!Next
<1> QED
  BY <1>5, <1>6, <1>7, <1>8 DEF Evolves

(* The completions stay as they are. *)
LEMMA QuietRefines ==
  ASSUME LifeSound, NoUndefined', comp' = comp
  PROVE  Refines
<1>1. \A i \in Iop : LifeOf(comp[i]) = View(comp[i]) /\ LifeOf(comp[i])' = View(comp'[i])
  BY ViewNow, ViewNext DEF LifeSound, NoUndefined
<1> QED
  BY <1>1 DEF LifeSound, Refines, LifeView, Shapes

-----------------------------------------------------------------------------
(* The steps of one completion.                                            *)

(* A coroutine is resumed, with an outcome of the IOP's kind. *)
LEMMA ResumedEvolves ==
  ASSUME NEW c \in Completion, c.st = "suspended", Shape(c), NEW r,
         r \in {"none", "value", "error", "badfd", "timeout"},
         (IF r = "badfd" THEN "value" ELSE r)
            \in Life!OutcomesOf(c.kind, c.deadline # NoDeadline),
         NEW b, b = [c EXCEPT !.st = "resumed", !.result = r]
  PROVE  Shape(b) /\ Evolves(c, b)
<1> DEFINE o == IF r = "badfd" THEN "value" ELSE r
           p == View(c)
           k == c.kind
           d == c.deadline # NoDeadline
<1>1. /\ b.st = "resumed" /\ b.kind = c.kind /\ b.deadline = c.deadline /\ b.result = r
  BY DEF Completion
<1>2. p = [st |-> "pending", kind |-> k, deadline |-> d, outcome |-> "none"]
  <2>1. p = Life!Point("pending", k, d, "none")
    BY ViewPending DEF Shape
  <2> QED
    BY <2>1, Zenon DEF Life!Point
<1>3. View(b) = [st |-> "done", kind |-> k, deadline |-> d, outcome |-> o]
  <2>1. View(b) = Life!Point("done", b.kind, b.deadline # NoDeadline,
                    IF b.result = "badfd" THEN "value" ELSE b.result)
    BY <1>1, ViewDone
  <2>2. View(b) = Life!Point("done", k, d, o)
    BY <1>1, <2>1
  <2> QED
    BY <2>2, Zenon DEF Life!Point
<1>4. o \in Life!OutcomesOf(k, d)
  OBVIOUS
<1> HIDE DEF o, p, k, d
<1>5. p.st = "pending" /\ p.kind = k /\ p.deadline = d
  BY ONLY <1>2
<1>6. [p EXCEPT !.st = "done", !.outcome = o]
        = [st |-> "done", kind |-> k, deadline |-> d, outcome |-> o]
  <2> DEFINE q == [p EXCEPT !.st = "done", !.outcome = o]
  <2>1. q \in [st : {"done"}, kind : {k}, deadline : {d}, outcome : {o}]
    BY ONLY <1>2
  <2> HIDE DEF q
  <2>2. q = [st |-> "done", kind |-> k, deadline |-> d, outcome |-> o]
    BY ONLY <2>1
  <2> QED
    BY <2>2 DEF q
<1>7. Evolves(c, b)
  BY <1>3, <1>4, <1>5, <1>6, Zenon DEF Evolves, p
<1>8. Shape(b)
  BY <1>1 DEF Shape
<1> QED
  BY <1>7, <1>8

(* try_or_resume of a read, a write, an accept or a readiness IOP.          *)
LEMMA TriedOutcome ==
  ASSUME NEW q, NEW k \in IoKinds, NEW d
  PROVE  /\ IoResult(q, k) \in {"none", "value", "error", "badfd", "timeout"}
         /\ (IF IoResult(q, k) = "badfd" THEN "value" ELSE IoResult(q, k))
               \in Life!OutcomesOf(k, d)
<1>1. IoResult(q, k) \in {"value", "error", "badfd"}
  BY DEF IoResult
<1>2. "value" \in Life!OutcomesOf(k, d) /\ "error" \in Life!OutcomesOf(k, d)
  BY DEF Life!OutcomesOf, Life!ValueKinds, IoKinds
<1> QED
  BY <1>1, <1>2

(* Completion i is resumed, by the warden or in await_suspend. *)
LEMMA ResumedRefines ==
  ASSUME LifeSound, NoUndefined', NEW i \in Iop, Suspended(i), NEW r,
         r \in {"none", "value", "error", "badfd", "timeout"},
         (IF r = "badfd" THEN "value" ELSE r)
            \in Life!OutcomesOf(comp[i].kind, comp[i].deadline # NoDeadline),
         comp' = [comp EXCEPT ![i] = [comp[i] EXCEPT !.st = "resumed", !.result = r]]
  PROVE  Refines
<1> DEFINE c == comp[i]
           b == [c EXCEPT !.st = "resumed", !.result = r]
<1>1. c \in Completion /\ Shape(c) /\ c.st = "suspended"
  BY DEF LifeSound, TypeOK, Shapes, Suspended
<1>2. comp' = [comp EXCEPT ![i] = b] /\ c = comp[i]
  OBVIOUS
<1>3. (IF r = "badfd" THEN "value" ELSE r)
         \in Life!OutcomesOf(c.kind, c.deadline # NoDeadline)
  OBVIOUS
<1> HIDE DEF c
<1>4. Shape(b) /\ Evolves(c, b)
  BY <1>1, <1>3, ResumedEvolves
<1> HIDE DEF b
<1> QED
  BY <1>2, <1>4, OneRefines

(* try_or_resume, called for a continuation. *)
LEMMA DispatchRefines ==
  ASSUME LifeSound, NoUndefined', NEW q \in Queue, Dispatch(q)
  PROVE  Refines
<1> DEFINE i == Head(continuations[q])
           c == comp[i]
<1>1. i \in Iop
  <2>1. continuations[q] \in Seq(Iop) /\ continuations[q] # <<>>
    BY DEF LifeSound, TypeOK, Dispatch, FirstWoken
  <2> QED
    BY <2>1, HeadTailProperties, EmptySeq
<1>2. Suspended(i) /\ TryOrResume(i, c)
  BY DEF Dispatch, NoUndefined
<1>3. c \in Completion /\ c.kind \in Kind
  BY <1>1, <1>2 DEF LifeSound, TypeOK, Suspended
<1>4. \/ comp' = [comp EXCEPT ![i] = c]
      \/ c.kind \in IoKinds /\
           comp' = [comp EXCEPT ![i] = [c EXCEPT !.st = "resumed",
                                           !.result = IoResult(QueueOf(c), c.kind)]]
      \/ c.kind \in ReadyKinds \cup {"connect"} /\ \E r \in {"none", "error"} :
           comp' = [comp EXCEPT ![i] = [c EXCEPT !.st = "resumed", !.result = r]]
  <2> HIDE DEF c, i
  <2>1. CASE TryIo(i, c, timeouts)
    BY <2>1, Zenon DEF TryIo, Park, ResumeWith
  <2>2. CASE TryConnect(i, c)
    BY <2>2, Zenon DEF TryConnect, Park, ResumeWith
  <2>3. CASE TryReady(i, c)
    BY <2>3, Zenon DEF TryReady, ResumeWith
  <2> QED
    BY <1>2, <2>1, <2>2, <2>3 DEF TryOrResume
<1>5. CASE comp' = [comp EXCEPT ![i] = c]
  <2>1. comp' = comp
    BY <1>1, <1>5 DEF LifeSound, TypeOK
  <2> QED
    BY <2>1, QuietRefines DEF LifeSound
<1>6. CASE c.kind \in IoKinds /\
           comp' = [comp EXCEPT ![i] = [c EXCEPT !.st = "resumed",
                                           !.result = IoResult(QueueOf(c), c.kind)]]
  <2> DEFINE r == IoResult(QueueOf(c), c.kind)
             d == c.deadline # NoDeadline
  <2>1. /\ r \in {"none", "value", "error", "badfd", "timeout"}
        /\ (IF r = "badfd" THEN "value" ELSE r) \in Life!OutcomesOf(c.kind, d)
    BY <1>6, TriedOutcome
  <2>2. comp' = [comp EXCEPT ![i] = [comp[i] EXCEPT !.st = "resumed", !.result = r]]
    BY <1>6
  <2> HIDE DEF r, i
  <2> QED
    BY <1>1, <1>2, <2>1, <2>2, ResumedRefines
<1>7. CASE c.kind \in ReadyKinds \cup {"connect"} /\ \E r \in {"none", "error"} :
           comp' = [comp EXCEPT ![i] = [c EXCEPT !.st = "resumed", !.result = r]]
  <2>1. PICK r \in {"none", "error"} :
          comp' = [comp EXCEPT ![i] = [c EXCEPT !.st = "resumed", !.result = r]]
    BY <1>7
  <2>2. r \in Life!OutcomesOf(c.kind, c.deadline # NoDeadline)
    BY <1>7 DEF Life!OutcomesOf, Life!ValueKinds, ReadyKinds
  <2>3. (IF r = "badfd" THEN "value" ELSE r) = r
    OBVIOUS
  <2> HIDE DEF i
  <2> QED
    BY <1>1, <1>2, <2>1, <2>2, <2>3, ResumedRefines
<1> QED
  BY <1>4, <1>5, <1>6, <1>7

(* iop_timedout: only an IOP with a deadline is among the timeouts. *)
LEMMA TimeoutRefines ==
  ASSUME LifeSound, NoUndefined', ClearTimeout
  PROVE  Refines
<1> DEFINE i == Head(timeouts).iop
           r == IF comp[i].kind = "sleep" THEN "none" ELSE "timeout"
<1>1. timeouts \in Seq(Entry) /\ timeouts # <<>> /\ TimedOut(i)
  BY DEF LifeSound, TypeOK, Entry, ClearTimeout, EarliestDue
<1>2. Head(timeouts) \in Entry /\ Head(timeouts) \in Range(timeouts)
  <2>1. /\ Head(timeouts) \in Entry
        /\ Range(timeouts) = Range(Tail(timeouts)) \cup {Head(timeouts)}
    BY <1>1, HeadTailProperties, TailRange
  <2> QED
    BY <2>1
<1>3. /\ i \in Iop /\ Suspended(i) /\ comp[i].deadline = Head(timeouts).at
      /\ Head(timeouts).at \in Int
  <2>1. i \in Iop /\ Suspended(i) /\ Head(timeouts).at \in Int
    BY <1>1, <1>2 DEF Entry, TimedOut, NoUndefined
  <2> QED
    BY <1>2, <2>1 DEF LifeSound, EntriesTrue, Suspended
<1>4. comp[i].deadline # NoDeadline
  BY <1>3, ConstantsAssumption
<1>5. comp' = [comp EXCEPT ![i] = [comp[i] EXCEPT !.st = "resumed", !.result = r]]
  BY <1>1, <1>3 DEF TimedOut
<1>6. comp[i].kind # "close"
  BY <1>3 DEF LifeSound, Shapes, Shape, Suspended
<1>7. /\ r \in {"none", "value", "error", "badfd", "timeout"} /\ r # "badfd"
      /\ r \in Life!OutcomesOf(comp[i].kind, comp[i].deadline # NoDeadline)
  BY <1>4, <1>6 DEF Life!OutcomesOf, Life!ValueKinds
<1>8. (IF r = "badfd" THEN "value" ELSE r) = r
  BY <1>7
<1> HIDE DEF i, r
<1> QED
  BY <1>3, <1>5, <1>7, <1>8, ResumedRefines

(* co_await: the coroutine is suspended, or goes on at once. *)
LEMMA AwaitRefines ==
  ASSUME LifeSound, NoUndefined', NEW i \in Iop, NEW k \in Kind, NEW f \in Fd,
         NEW d, Await(i, k, f, d)
  PROVE  Refines
<1> DEFINE c == [st |-> "suspended", kind |-> k, fd |-> f, deadline |-> d,
                 result |-> "none"]
           D == d # NoDeadline
           R == IoResult(QueueOf(c), k)
<1>1. comp[i] = Unused /\ AwaitSuspend(i, c)
  BY DEF Await, LifeSound, Shapes, Shape
<1>2. D \in BOOLEAN
  OBVIOUS
<1>3. /\ c.st = "suspended" /\ c.kind = k /\ c.deadline = d /\ c.result = "none"
      /\ \A r : LET b == [c EXCEPT !.st = "resumed", !.result = r]
                IN  b.st = "resumed" /\ b.kind = k /\ b.deadline = d /\ b.result = r
  OBVIOUS
<1> HIDE DEF c
<1>4. \/ comp' = [comp EXCEPT ![i] = c] /\ k # "close"
      \/ k \in IoKinds /\ comp' = [comp EXCEPT ![i] =
                                     [c EXCEPT !.st = "resumed", !.result = R]]
      \/ k \in {"close", "connect"} /\ \E r \in {"none", "error"} :
           comp' = [comp EXCEPT ![i] = [c EXCEPT !.st = "resumed", !.result = r]]
  <2>1. /\ "close" \notin IoKinds /\ "close" \notin ReadyKinds /\ "close" # "sleep"
        /\ "close" # "connect"
    BY DEF IoKinds, ReadyKinds
  <2>2. CASE AwaitConnect(i, c)
    BY <1>3, <2>1, <2>2, Zenon DEF AwaitConnect, Park, ResumeWith
  <2>3. CASE ~AwaitConnect(i, c)
    BY <1>1, <1>3, <2>1, <2>3, Zenon DEF AwaitSuspend, TryIo, AwaitClose, AwaitSleep,
       AwaitReady, Park, ResumeWith
  <2> QED
    BY <2>2, <2>3
<1>5. ASSUME NEW r, NEW o \in Life!OutcomesOf(k, FALSE),
             o = (IF r = "badfd" THEN "value" ELSE r),
             comp' = [comp EXCEPT ![i] = [c EXCEPT !.st = "resumed", !.result = r]]
      PROVE  Refines
  <2> DEFINE b == [c EXCEPT !.st = "resumed", !.result = r]
  <2>1. b.st = "resumed" /\ b.kind = k /\ b.deadline = d /\ b.result = r
    BY <1>3
  <2>2. comp' = [comp EXCEPT ![i] = b]
    BY <1>5
  <2> HIDE DEF b
  <2>3. View(b) = Life!Point("done", b.kind, b.deadline # NoDeadline,
                    IF b.result = "badfd" THEN "value" ELSE b.result)
    BY <2>1, ViewDone
  <2>4. View(b) = Life!Point("done", k, D, o)
    BY <1>5, <2>1, <2>3
  <2>5. Shape(b)
    BY <2>1 DEF Shape
  <2> HIDE DEF D
  <2>6. Evolves(comp[i], b)
    BY <1>1, <1>2, <2>4, ViewUnused DEF Evolves
  <2> QED
    BY <2>2, <2>5, <2>6, OneRefines
<1>6. CASE comp' = [comp EXCEPT ![i] = c] /\ k # "close"
  <2>1. View(c) = Life!Point("pending", c.kind, c.deadline # NoDeadline, "none")
    BY <1>3, ViewPending
  <2>2. View(c) = Life!Point("pending", k, D, "none")
    BY <1>3, <2>1
  <2>3. Shape(c)
    BY <1>3, <1>6 DEF Shape
  <2> HIDE DEF D
  <2>4. Evolves(comp[i], c)
    BY <1>1, <1>2, <2>2, ViewUnused DEF Evolves
  <2> QED
    BY <1>6, <2>3, <2>4, OneRefines
<1>7. CASE k \in IoKinds /\ comp' = [comp EXCEPT ![i] =
                                       [c EXCEPT !.st = "resumed", !.result = R]]
  <2>1. /\ R \in {"none", "value", "error", "badfd", "timeout"}
        /\ (IF R = "badfd" THEN "value" ELSE R) \in Life!OutcomesOf(k, FALSE)
    BY <1>7, TriedOutcome
  <2> HIDE DEF R
  <2> QED
    BY <1>5, <1>7, <2>1
<1>8. CASE k \in {"close", "connect"} /\ \E r \in {"none", "error"} :
           comp' = [comp EXCEPT ![i] = [c EXCEPT !.st = "resumed", !.result = r]]
  <2>1. PICK r \in {"none", "error"} :
          comp' = [comp EXCEPT ![i] = [c EXCEPT !.st = "resumed", !.result = r]]
    BY <1>8
  <2>2. r \in Life!OutcomesOf(k, FALSE)
    BY <1>8 DEF Life!OutcomesOf, Life!ValueKinds
  <2>3. r = (IF r = "badfd" THEN "value" ELSE r)
    OBVIOUS
  <2> QED
    BY <1>5, <2>1, <2>2, <2>3
<1> QED
  BY <1>4, <1>6, <1>7, <1>8

(* ~iop. *)
LEMMA DestructRefines ==
  ASSUME LifeSound, NoUndefined', NEW i \in Iop, Destruct(i)
  PROVE  Refines
<1> DEFINE gone == [Unused EXCEPT !.st = "deleted"]
<1>1. comp[i].st \in {"suspended", "resumed"} /\ comp' = [comp EXCEPT ![i] = gone]
  BY DEF Destruct
<1>2. View(gone) = Life!Blank("released") /\ gone.st = "deleted"
  BY ViewReleased
<1> HIDE DEF gone
<1>3. View(comp[i]).st # "released"
  BY <1>1 DEF View
<1>4. Shape(gone) /\ Evolves(comp[i], gone)
  BY <1>2, <1>3 DEF Shape, Evolves
<1> QED
  BY <1>1, <1>4, OneRefines

-----------------------------------------------------------------------------
(* The theorems.                                                           *)

(* Where the warden has followed a dead pointer, it stays. *)
LEMMA StaysUndefined ==
  ASSUME [Next]_vars, NoUndefined'
  PROVE  NoUndefined
<1> SUFFICES ASSUME pc = "undefined" PROVE FALSE
  BY DEF NoUndefined
<1>0. pc' # pc
  BY DEF NoUndefined
<1>1. ~\E i, k, f, d : Await(i, k, f, d)
  BY <1>0 DEF Await, loop
<1>2. ~\E i \in Iop : Destruct(i)
  BY <1>0 DEF Destruct, loop
<1>3. ~\E f \in Fd : Discard(f) \/ CloseFd(f) \/ \E s \in NewSock : OpenFd(f, s)
  BY <1>0 DEF Discard, CloseFd, OpenFd, loop
<1>4. ~\E h1, h2 : AsyncResume(h1, h2)
  BY <1>0 DEF AsyncResume, loop
<1>5. ~(FinishPrimary \/ UserReturn)
  BY <1>0 DEF FinishPrimary, UserReturn
<1>6. ~(RunUntil \/ RunBatch \/ TimeoutsCleared \/ ClearTimeout)
  BY DEF RunUntil, RunBatch, TimeoutsCleared, ClearTimeout
<1>7. ~(PollReady \/ PollTimesOut \/ PollInterrupted \/ PollThrows)
  BY DEF PollReady, PollTimesOut, PollInterrupted, PollReturns, PollThrows
<1>8. ~\E q \in Queue : Dispatch(q)
  BY DEF Dispatch
<1>9. ~(SwapQueues \/ ResumeNext \/ ResumedAll)
  BY DEF SwapQueues, ResumeNext, ResumedAll
<1>10. ~(Tick \/ \E q \in Queue : PeerActs(q))
  BY <1>0 DEF Tick, PeerActs, loop
<1>11. ~UNCHANGED vars
  BY <1>0 DEF vars, loop
<1> QED
  BY <1>1, <1>2, <1>3, <1>4, <1>5, <1>6, <1>7, <1>8, <1>9, <1>10, <1>11
     DEF Next, User, Loop, Environment

(* Every step up to the first dead pointer is one of IopLife, or none. *)
LEMMA StepRefines ==
  ASSUME LifeSound, NoUndefined', [Next]_vars
  PROVE  Refines
<1>1. CASE comp' = comp
  BY <1>1, QuietRefines
<1>2. ASSUME NEW i \in Iop, NEW k \in Kind, NEW f \in Fd, NEW d, Await(i, k, f, d)
      PROVE  Refines
  BY <1>2, AwaitRefines
<1>3. ASSUME NEW i \in Iop, Destruct(i) PROVE Refines
  BY <1>3, DestructRefines
<1>4. CASE ClearTimeout
  BY <1>4, TimeoutRefines
<1>5. ASSUME NEW q \in Queue, Dispatch(q) PROVE Refines
  BY <1>5, DispatchRefines
<1>6. ASSUME NEW f, Discard(f) \/ CloseFd(f) \/ \E s \in NewSock : OpenFd(f, s)
      PROVE  Refines
  BY <1>1, <1>6 DEF Discard, CloseFd, OpenFd
<1>7. ASSUME NEW h1, NEW h2, AsyncResume(h1, h2) PROVE Refines
  BY <1>1, <1>7 DEF AsyncResume
<1>8. CASE FinishPrimary \/ UserReturn \/ RunUntil \/ RunBatch \/ TimeoutsCleared
  BY <1>1, <1>8 DEF FinishPrimary, UserReturn, RunUntil, RunBatch, TimeoutsCleared
<1>9. CASE PollReady \/ PollTimesOut \/ PollInterrupted \/ PollThrows
  BY <1>1, <1>9 DEF PollReady, PollTimesOut, PollInterrupted, PollReturns, PollThrows
<1>10. CASE SwapQueues \/ ResumeNext \/ ResumedAll
  BY <1>1, <1>10 DEF SwapQueues, ResumeNext, ResumedAll
<1>11. CASE Tick \/ \E q \in Queue : PeerActs(q)
  BY <1>1, <1>11 DEF Tick, PeerActs
<1>12. CASE UNCHANGED vars
  BY <1>1, <1>12 DEF vars
<1> QED
  BY <1>2, <1>3, <1>4, <1>5, <1>6, <1>7, <1>8, <1>9, <1>10, <1>11, <1>12
  DEF Next, User, Loop, Environment

(* Whatever is awaited, connect too, and whatever the coroutines destroy:   *)
(* until a dead pointer is followed a coroutine is resumed once and not     *)
(* after ~iop, with an outcome of its kind, and a time out is reported to   *)
(* an IOP with a deadline only.                                             *)
THEOREM PollKeepsIopLifeSoFar == Spec => KeepsIopLifeSoFar
<1>1. Init => Shapes
  <2>1. Unused.st = "unused"
    BY DEF Unused
  <2> QED
    BY <2>1 DEF Init, Shapes, Shape
<1>2. /\ TypeOK /\ OutcomesInv /\ (NoUndefined => Shapes) /\ [Next]_vars
      => /\ (NoUndefined => Shapes)'
         /\ NoUndefined' => [Life!Next]_LifeView
  <2> SUFFICES ASSUME TypeOK, OutcomesInv, NoUndefined => Shapes, [Next]_vars, NoUndefined'
               PROVE  Refines
    BY DEF Refines
  <2>1. NoUndefined
    BY StaysUndefined
  <2>2. LifeSound
    BY <2>1 DEF LifeSound, OutcomesInv
  <2> QED
    BY <2>2, StepRefines
<1> QED
  BY <1>1, <1>2, PollTypeCorrect, OutcomesInvariant, PTL DEF Spec, KeepsIopLifeSoFar

(* If no coroutine destroys an IOP that has just been polled ready, and     *)
(* there is no connect, the poll warden implements IopLife: a coroutine is  *)
(* resumed once and not after ~iop, whatever becomes of the descriptor, the *)
(* deadline and the other IOPs meanwhile, with an outcome of its kind, and  *)
(* a time out is reported to an IOP with a deadline only.                   *)
THEOREM PollKeepsIopLife ==
  ASSUME "connect" \notin Kind, CancelsWoken = FALSE
  PROVE  Spec => KeepsIopLife
<1>1. Init => Life!Init
  <2> SUFFICES ASSUME Init PROVE Life!Init
    OBVIOUS
  <2>1. \A i \in Iop : LifeOf(comp[i]) = Life!Blank("unused")
    BY ViewNow, ViewUnused DEF Init
  <2> QED
    BY <2>1 DEF Life!Init
<1>2. Spec => [](NoUndefined /\ PointersLive)
  BY PollPointersSafe
<1>3. UNCHANGED vars => UNCHANGED LifeView
  BY DEF vars, LifeView, LifeOf, loop
<1> QED
  BY <1>1, <1>2, <1>3, PollKeepsIopLifeSoFar, PTL
     DEF Spec, KeepsIopLife, KeepsIopLifeSoFar, Life!Spec, LifeView

=============================================================================
