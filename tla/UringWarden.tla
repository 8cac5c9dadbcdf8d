---------------------------- MODULE UringWarden ----------------------------
(***************************************************************************)
(* The io_uring based warden: the loop and the execution of completion     *)
(* queue entries of uring.warden.cpp, the life of a completion of          *)
(* uring.hpp, and the IOPs of uring.iops.cpp.                              *)
(*                                                                         *)
(* One thread runs the loop and the application's coroutines: `user` is    *)
(* TRUE while the coroutines have it.  The kernel works next to it.  An    *)
(* IOP with a deadline puts two linked entries in the submission ring, the *)
(* operation and a timer, and both answer in the completion ring, in       *)
(* either order.  The completion's address is the user data of both, so it *)
(* may be deleted only when neither can come back any more.                *)
(*                                                                         *)
(* A completion is named by its address, which is used once in a           *)
(* behaviour: following one that is deleted, or resuming a coroutine that  *)
(* is not suspended on it, makes `pc` "undefined".                         *)
(***************************************************************************)
EXTENDS Integers, Sequences, SequencesExt, FiniteSets

CONSTANTS
  Iop,          \* addresses of completions
  Handle,       \* coroutine handles passed to async_resume
  Null,         \* the null handle, and the user data of the wake-up NOP
  Kind,         \* the kinds of IOP the application issues
  Deadlined,    \* may an IOP have a deadline, may it have none
  Entries,      \* the size of the submission ring
  SubmitFails,  \* may the kernel refuse to take a submission?
  HoldsIop      \* may a coroutine suspend again while it holds an IOP that is done?

ASSUME ConstantsAssumption ==
  /\ Null \notin Handle /\ Null \notin Iop
  /\ Deadlined \subseteq BOOLEAN
  /\ Entries \in Nat \ {0}
  /\ SubmitFails \in BOOLEAN /\ HoldsIop \in BOOLEAN

ValueKinds == {"read_some", "write_some", "accept"}
VoidKinds  == {"close", "connect", "read_ready", "write_ready"}

ASSUME KindAssumption == Kind \subseteq ValueKinds \cup VoidKinds \cup {"sleep"}

(* What a completion submits: its operation and, linked to it, a timer. *)
Op    == {"io", "timer"}
Entry == [iop : Iop, op : Op]
Nop   == [iop |-> Null, op |-> "nop"]
Idle  == [iop |-> Null, op |-> "none"]

VARIABLES
  pc,           \* "main", "submit", "wait", "drain", "resume", "ended", "undefined"
  run,          \* "until" in run_until, "finished" once its coroutine is done,
                \* "batch" in run_batch, "none" outside
  user,         \* the application's code has the thread
  comp,         \* the completions
  outstanding,  \* impl::outstanding
  sq,           \* the submission ring, not yet seen by the kernel
  kernel,       \* the kernel's side of each entry it took
  cq,           \* the completion ring
  current,      \* the entry whose execute() is in progress, or Idle
  queued,       \* async_resumption::queued
  resuming      \* what is left of async_resumption::resuming

loop  == <<pc, run, user>>
rings == <<sq, kernel, cq>>
async == <<queued, resuming>>
vars  == <<loop, comp, outstanding, rings, current, async>>

Unused == [st |-> "unused", kind |-> "close", deadline |-> FALSE,
           iop_exists |-> FALSE, is_outstanding |-> FALSE, iop_count |-> 0,
           waiting |-> FALSE, result |-> "none"]

(* A completion as it is made.  It is "idle" while it has submitted nothing. *)
Fresh(k, d) == [st |-> "idle", kind |-> k, deadline |-> d,
                iop_exists |-> TRUE, is_outstanding |-> FALSE, iop_count |-> 1,
                waiting |-> FALSE, result |-> "none"]

(* Mutant of Live: the timer is not counted. *)
LiveUncounted(k, d, n, w) == [Fresh(k, d) EXCEPT !.st = "live", !.waiting = w]

(* ... and with n entries submitted; w: is the coroutine suspended on it? *)
Live(k, d, n, w) == [st |-> "live", kind |-> k, deadline |-> d,
                     iop_exists |-> TRUE, is_outstanding |-> FALSE, iop_count |-> n,
                     waiting |-> w, result |-> "none"]

-----------------------------------------------------------------------------
(* The rings.                                                              *)

(* Mutant of Room: next_sqe does not look at what io_uring_get_sqe returned. *)
RoomAssumed(n) == TRUE

(* next_sqe throws when fewer than n entries of the ring are free. *)
Room(n) == Len(sq) + n <= Entries

NopCqe  == [iop |-> Null, op |-> "nop", res |-> "ok"]
Nops(s) == Cardinality({n \in DOMAIN s : s[n] = Nop})

(* io_uring_submit, whose answer is ignored: the kernel takes all of the    *)
(* ring s, and answers the NOPs at once, or takes nothing.  That it takes a *)
(* part, and a later submit the rest, is left out.                          *)
Submitted(s) ==
  \/ /\ sq' = <<>>
     /\ kernel' = [e \in Entry |-> IF e \in Range(s) THEN "armed" ELSE kernel[e]]
     /\ cq' = cq \o [n \in 1..Nops(s) |-> NopCqe]
  \/ /\ SubmitFails
     /\ sq' = s
     /\ UNCHANGED <<kernel, cq>>

OpOf(i)    == [iop |-> i, op |-> "io"]
TimerOf(i) == [iop |-> i, op |-> "timer"]

(* The linked timer runs out and cancels the operation. *)
Expire(i) ==
  /\ kernel[OpOf(i)] = "armed" /\ kernel[TimerOf(i)] = "armed"
  /\ kernel' = [kernel EXCEPT ![OpOf(i)] = "fired", ![TimerOf(i)] = "fired"]
  /\ UNCHANGED <<loop, comp, outstanding, sq, cq, current, async>>

(* What the kernel may answer to an entry.  The timer is cancelled once its *)
(* operation is done, and finds in an unlucky moment (ENOENT, EALREADY)     *)
(* that there is nothing it can cancel.  A cancelled operation reports      *)
(* ECANCELED, or EINTR if it was running.                                   *)
Answers(e) ==
  CASE e.op = "timer" /\ kernel[e] = "fired" -> {"etime"}
    [] e.op = "timer" /\ kernel[e] = "armed" ->
         IF kernel[OpOf(e.iop)] = "none" THEN {"canceled", "error"} ELSE {"error"}
    [] e.op = "io" /\ kernel[e] = "fired" -> {"canceled", "error"}
    [] e.op = "io" /\ kernel[e] = "armed" ->
         {"error", IF comp[e.iop].kind = "sleep" THEN "etime" ELSE "ok"}
    [] OTHER -> {}

Post(e, r) ==
  /\ r \in Answers(e)
  /\ kernel' = [kernel EXCEPT ![e] = "none"]
  /\ cq' = Append(cq, [iop |-> e.iop, op |-> e.op, res |-> r])
  /\ UNCHANGED <<loop, comp, outstanding, sq, current, async>>

-----------------------------------------------------------------------------
(* The application.                                                        *)

(* Every IOP takes a deadline or none, but close and sleep, whose            *)
(* completions have none.                                                   *)
Deadlines(k) == IF k \in {"close", "sleep"} THEN {FALSE} ELSE Deadlined

(* co_await of a fresh IOP: await_suspend takes one entry or two.  When the *)
(* ring has too few it throws, so the coroutine goes on without suspending; *)
(* an operation whose timer found no room stays in the ring, as its last    *)
(* entry, where the kernel finds nothing to link it with.                   *)
Await(i, k, d) ==
  /\ user
  /\ comp[i].st = "unused"
  /\ LET op == Append(sq, OpOf(i))
     IN  \/ /\ ~d /\ Room(1)
            /\ sq' = op /\ comp' = [comp EXCEPT ![i] = Live(k, d, 1, TRUE)]
         \/ /\ d /\ Room(2)
            /\ sq' = Append(op, TimerOf(i))
            /\ comp' = [comp EXCEPT ![i] = Live(k, d, 2, TRUE)]
         \/ /\ d /\ Room(1) /\ ~Room(2)
            /\ sq' = op /\ comp' = [comp EXCEPT ![i] = Live(k, d, 1, FALSE)]
         \/ /\ ~Room(1)
            /\ comp' = [comp EXCEPT ![i] = Fresh(k, d)]
            /\ UNCHANGED sq
  /\ UNCHANGED <<loop, outstanding, kernel, cq, current, async>>

(* Mutants of IopDestructed: the completion is deleted with its IOP; it is  *)
(* kept, but the list does not know of it.                                  *)
IopDestructedAtOnce(i, c) ==
  /\ comp' = [comp EXCEPT ![i] = [Unused EXCEPT !.st = "deleted"]]
  /\ UNCHANGED outstanding

IopDestructedUnlisted(i, c) ==
  /\ comp' = [comp EXCEPT ![i] =
       IF c.iop_count = 0 THEN [Unused EXCEPT !.st = "deleted"]
       ELSE [c EXCEPT !.iop_exists = FALSE, !.waiting = FALSE]]
  /\ UNCHANGED outstanding

(* delete_due_to_iop_destructed, on completion record c of address i. *)
IopDestructed(i, c) ==
  IF c.iop_count = 0
  THEN /\ comp' = [comp EXCEPT ![i] = [Unused EXCEPT !.st = "deleted"]]
       /\ UNCHANGED outstanding
  ELSE /\ comp' = [comp EXCEPT ![i] = [c EXCEPT !.iop_exists = FALSE,
                                          !.is_outstanding = TRUE, !.waiting = FALSE]]
       /\ outstanding' = outstanding \cup {i}

(* ~iop, as its coroutine goes on or is destroyed. *)
Destruct(i) ==
  /\ user
  /\ comp[i].iop_exists
  /\ IopDestructed(i, comp[i])
  /\ UNCHANGED <<loop, rings, current, async>>

(* An IOP that is made and destructed without being awaited. *)
Discard(i, k, d) ==
  /\ user
  /\ comp[i].st = "unused"
  /\ IopDestructed(i, Fresh(k, d))
  /\ UNCHANGED <<loop, rings, current, async>>

(* Mutant of Wakes: the queue is looked at after the handles were added. *)
WakesAfterAdding(handles) == queued \o handles = <<>>

(* Only a queue that was empty makes do_async_resume wake the loop. *)
Wakes(handles) == queued = <<>> /\ handles # <<>>

(* do_async_resume: the handles are queued first; then, if the queue was    *)
(* empty, wake_event_loop submits a NOP, or throws if the ring is full.     *)
AsyncResume(h1, h2) ==
  /\ user
  /\ \A h \in {h1, h2} \ {Null} : ~Contains(queued, h) /\ ~Contains(resuming, h)
  /\ h1 = h2 => h1 = Null
  /\ LET handles == (IF h1 = Null THEN <<>> ELSE <<h1>>)
                       \o (IF h2 = Null THEN <<>> ELSE <<h2>>)
     IN  /\ queued' = queued \o handles
         /\ \/ Wakes(handles) /\ Room(1) /\ Submitted(Append(sq, Nop))
            \/ ~(Wakes(handles) /\ Room(1)) /\ UNCHANGED rings
  /\ UNCHANGED <<loop, comp, outstanding, current, resuming>>

(* The primary coroutine runs to its end. *)
FinishPrimary ==
  /\ user /\ run = "until"
  /\ run' = "finished"
  /\ UNCHANGED <<pc, user, comp, outstanding, rings, current, async>>

(* Every coroutine is suspended: resume() returns to the warden. *)
UserReturn ==
  /\ user /\ pc # "main"
  /\ HoldsIop \/ \A i \in Iop : comp[i].iop_exists => comp[i].waiting
  /\ user' = FALSE
  /\ UNCHANGED <<pc, run, comp, outstanding, rings, current, async>>

-----------------------------------------------------------------------------
(* The warden's loop.                                                      *)

RunUntil ==
  /\ pc = "main"
  /\ pc' = "submit" /\ run' = "until" /\ user' = TRUE
  /\ UNCHANGED <<comp, outstanding, rings, current, async>>

RunBatch ==
  /\ pc = "main"
  /\ HoldsIop \/ \A i \in Iop : comp[i].iop_exists => comp[i].waiting
  /\ pc' = "submit" /\ run' = "batch" /\ user' = FALSE
  /\ UNCHANGED <<comp, outstanding, rings, current, async>>

(* The condition of run_until's loop fails. *)
RunEnds ==
  /\ pc = "submit" /\ ~user
  /\ run = "finished"
  /\ pc' = "main" /\ run' = "none" /\ user' = TRUE
  /\ UNCHANGED <<comp, outstanding, rings, current, async>>

SubmitAll ==
  /\ pc = "submit" /\ ~user
  /\ run # "finished"
  /\ pc' = IF run = "batch" THEN "drain" ELSE "wait"
  /\ Submitted(sq)
  /\ UNCHANGED <<run, user, comp, outstanding, current, async>>

(* io_uring_wait_cqe: an entry is there, a signal came, or it failed. *)
WaitReturns ==
  /\ pc = "wait"
  /\ cq # <<>>
  /\ pc' = "drain"
  /\ UNCHANGED <<run, user, comp, outstanding, rings, current, async>>

WaitInterrupted ==
  /\ pc = "wait"
  /\ cq = <<>>
  /\ pc' = "submit"
  /\ UNCHANGED <<run, user, comp, outstanding, rings, current, async>>

WaitThrows ==
  /\ pc = "wait"
  /\ cq = <<>>
  /\ pc' = "main" /\ run' = "none" /\ user' = TRUE
  /\ UNCHANGED <<comp, outstanding, rings, current, async>>

(* Mutant of Ignored: the answer of the timer is ignored too. *)
IgnoredTimer(c, r) == c.deadline /\ r \in {"canceled", "etime"}

(* deliver: the cancelled half of an IOP with a deadline is ignored.        *)
Ignored(c, r) == c.deadline /\ r = "canceled"

(* Mutant of Outcome: the end of a sleep is a time out. *)
OutcomeTimer(c, r) ==
  CASE r = "ok" -> IF c.kind \in ValueKinds THEN "value" ELSE "none"
    [] r = "etime" -> "timeout"
    [] OTHER -> "error"

(* The result that deliver sets. *)
Outcome(c, r) ==
  CASE r = "ok" -> IF c.kind \in ValueKinds THEN "value" ELSE "none"
    [] r = "etime" -> IF c.kind = "sleep" THEN "none" ELSE "timeout"
    [] OTHER -> "error"

(* The first half of execute: the entry is taken and delivered to its IOP.  *)
Execute ==
  /\ pc = "drain" /\ ~user /\ current = Idle
  /\ cq # <<>>
  /\ LET e == Head(cq)
         c == comp[e.iop]
         resumes == c.iop_exists /\ ~Ignored(c, e.res)
     IN  \/ e.op = "nop" /\ cq' = Tail(cq) /\ UNCHANGED <<pc, user, comp, current>>
         \/ /\ e.op # "nop" /\ c.st = "live" /\ resumes /\ c.waiting
            /\ comp' = [comp EXCEPT ![e.iop] = [c EXCEPT !.waiting = FALSE,
                                                   !.result = Outcome(c, e.res)]]
            /\ user' = TRUE
            /\ cq' = Tail(cq) /\ current' = [iop |-> e.iop, op |-> e.op]
            /\ UNCHANGED pc
         \/ /\ e.op # "nop" /\ c.st = "live" /\ ~resumes
            /\ cq' = Tail(cq) /\ current' = [iop |-> e.iop, op |-> e.op]
            /\ UNCHANGED <<pc, user, comp>>
         \/ /\ e.op # "nop"
            /\ c.st = "live" => (resumes /\ ~c.waiting)
            /\ pc' = "undefined"
            /\ UNCHANGED <<user, comp, cq, current>>
  /\ UNCHANGED <<run, outstanding, sq, kernel, async>>

(* Mutant of Erased: the list keeps the completion. *)
ErasedNever(i, c) == outstanding

(* What is left of the list once execute is done with completion i. *)
Erased(i, c) == IF c.is_outstanding THEN outstanding \ {i} ELSE outstanding

(* The second half, once the coroutine that was resumed is suspended again. *)
Executed ==
  /\ pc = "drain" /\ ~user /\ current # Idle
  /\ LET i == current.iop
         c == comp[i]
     IN  /\ outstanding' = Erased(i, c)
         /\ comp' = [comp EXCEPT ![i] =
                       IF c.iop_count = 1 /\ ~c.iop_exists
                       THEN [Unused EXCEPT !.st = "deleted"]
                       ELSE [c EXCEPT !.iop_count = @ - 1]]
  /\ current' = Idle
  /\ UNCHANGED <<loop, rings, async>>

(* The ring is empty: resume_all swaps the queues.                          *)
Drained ==
  /\ pc = "drain" /\ ~user /\ current = Idle
  /\ cq = <<>>
  /\ resuming' = queued /\ queued' = <<>>
  /\ pc' = "resume"
  /\ UNCHANGED <<run, user, comp, outstanding, rings, current>>

ResumeNext ==
  /\ pc = "resume" /\ ~user
  /\ resuming # <<>>
  /\ resuming' = Tail(resuming)
  /\ user' = TRUE
  /\ UNCHANGED <<pc, run, comp, outstanding, rings, current, queued>>

ResumedAll ==
  /\ pc = "resume" /\ ~user
  /\ resuming = <<>>
  /\ IF run = "batch" THEN pc' = "main" /\ run' = "none" /\ user' = TRUE
     ELSE pc' = "submit" /\ UNCHANGED <<run, user>>
  /\ UNCHANGED <<comp, outstanding, rings, current, async>>

(* ~uring_warden, once no IOP is left: the ring is closed, ~impl deletes    *)
(* the completions that are outstanding, and the resumer goes.              *)
Shutdown ==
  /\ pc = "main"
  /\ \A i \in Iop : ~comp[i].iop_exists
  /\ pc' = "ended" /\ user' = FALSE
  /\ comp' = [i \in Iop |-> IF i \in outstanding THEN [Unused EXCEPT !.st = "deleted"]
                            ELSE comp[i]]
  /\ outstanding' = {}
  /\ sq' = <<>> /\ cq' = <<>> /\ kernel' = [e \in Entry |-> "none"]
  /\ queued' = <<>> /\ resuming' = <<>>
  /\ UNCHANGED <<run, current>>

-----------------------------------------------------------------------------
Init ==
  /\ pc = "main" /\ run = "none" /\ user = TRUE
  /\ comp = [i \in Iop |-> Unused]
  /\ outstanding = {}
  /\ sq = <<>> /\ cq = <<>> /\ kernel = [e \in Entry |-> "none"]
  /\ current = Idle
  /\ queued = <<>> /\ resuming = <<>>

User ==
  \/ \E i \in Iop, k \in Kind : \E d \in Deadlines(k) :
       Await(i, k, d) \/ Discard(i, k, d)
  \/ \E i \in Iop : Destruct(i)
  \/ \E h1, h2 \in Handle \cup {Null} : AsyncResume(h1, h2)
  \/ FinishPrimary

Loop ==
  \/ RunEnds \/ SubmitAll \/ WaitReturns
  \/ Execute \/ Executed \/ Drained
  \/ ResumeNext \/ ResumedAll

Kernel ==
  \/ \E i \in Iop : Expire(i)
  \/ \E e \in Entry : \E r \in Answers(e) : Post(e, r)

Next ==
  \/ User \/ UserReturn \/ RunUntil \/ RunBatch \/ Loop
  \/ WaitInterrupted \/ WaitThrows \/ Shutdown \/ Kernel

Spec == Init /\ [][Next]_vars

(* The loop never stops by itself; a coroutine that goes on releases its   *)
(* IOP and suspends in the end; a timer runs out, and what the kernel has  *)
(* cancelled it answers.  No other operation need ever complete, and       *)
(* nothing makes the application start a run.                              *)
Release(i) == ~comp[i].waiting /\ Destruct(i)

TimerRuns(e) ==
  /\ e.op = "timer" \/ kernel[e] = "fired" \/ comp[e.iop].kind = "sleep"
  /\ \/ e.op = "timer" /\ Expire(e.iop)
     \/ \E r \in Answers(e) : Post(e, r)

Fairness ==
  /\ WF_vars(Loop) /\ WF_vars(UserReturn)
  /\ \A i \in Iop : WF_vars(Release(i))
  /\ \A e \in Entry : WF_vars(TimerRuns(e))

FairSpec == Spec /\ Fairness

-----------------------------------------------------------------------------
(* Properties.                                                             *)

Completion == [st : {"unused", "idle", "live", "deleted"}, kind : Kind \cup {"close"},
               deadline : BOOLEAN, iop_exists : BOOLEAN, is_outstanding : BOOLEAN,
               iop_count : 0..2, waiting : BOOLEAN,
               result : {"none", "value", "error", "timeout"}]

Cqe == [iop : Iop, op : Op, res : {"ok", "error", "canceled", "etime"}]
         \cup {NopCqe}

(* The state has the types of delivery's and impl's members, and the ring   *)
(* is never asked to hold more than its entries.                            *)
TypeOK ==
  /\ pc \in {"main", "submit", "wait", "drain", "resume", "ended", "undefined"}
  /\ run \in {"none", "until", "finished", "batch"}
  /\ user \in BOOLEAN
  /\ comp \in [Iop -> Completion]
  /\ outstanding \subseteq Iop
  /\ sq \in Seq(Entry \cup {Nop}) /\ Len(sq) <= Entries
  /\ kernel \in [Entry -> {"none", "armed", "fired"}]
  /\ cq \in Seq(Cqe)
  /\ current \in Entry \cup {Idle}
  /\ queued \in Seq(Handle) /\ resuming \in Seq(Handle)

(* The entries that are somewhere between await_suspend and the end of      *)
(* execute.                                                                 *)
Answered(s, e) == \E n \in DOMAIN s : s[n].iop = e.iop /\ s[n].op = e.op

InFlight ==
  {e \in Entry : e \in Range(sq) \/ kernel[e] # "none" \/ Answered(cq, e) \/ current = e}

Pending(i) == (IF OpOf(i) \in InFlight THEN 1 ELSE 0)
                + (IF TimerOf(i) \in InFlight THEN 1 ELSE 0)

(* The user data of every entry the rings and the kernel hold is the        *)
(* address of a completion that exists, so reading its time out at          *)
(* submission and delivering to it are safe, whenever its IOP was destroyed. *)
UserDataLive == \A e \in InFlight : comp[e.iop].st = "live"

(* iop_count is the number of entries that still come back, so a completion *)
(* is deleted with the last of them: neither before it nor never.           *)
CountExact ==
  pc # "ended" => \A i \in Iop : comp[i].st = "live" =>
    /\ comp[i].iop_count = Pending(i)
    /\ ~comp[i].iop_exists => comp[i].iop_count > 0

(* What ~impl would delete has not been deleted, and has no IOP that would  *)
(* delete it as well.                                                       *)
OutstandingLive ==
  \A i \in outstanding : comp[i].st \in {"idle", "live"} /\ ~comp[i].iop_exists

(* No completion queue entry is delivered to a completion that is gone, or  *)
(* resumes a coroutine that is not suspended on the IOP: the late half of   *)
(* an IOP with a deadline finds the IOP destructed.                         *)
NoUndefined == pc # "undefined"

(* A coroutine suspended on an IOP will be resumed by the kernel: an entry  *)
(* of the IOP is in flight whose answer is not one that deliver ignores.    *)
WillResume ==
  \A i \in Iop : comp[i].waiting =>
    \E e \in {OpOf(i), TimerOf(i)} :
      \/ e \in Range(sq) \/ kernel[e] # "none"
      \/ \E n \in DOMAIN cq : /\ cq[n].iop = i /\ cq[n].op = e.op
                              /\ ~Ignored(comp[i], cq[n].res)

(* A prior wake covers the rest: while handles are queued, a NOP is on its  *)
(* way or the loop is about to look at the queue.                           *)
WakePending ==
  queued # <<>> => Nop \in Range(sq) \/ NopCqe \in Range(cq) \/ pc = "drain"

(* Once the warden is destroyed no completion is left behind, but for one   *)
(* that execute erased from the list at the first of its two answers.       *)
NothingLeaked ==
  pc = "ended" => \A i \in Iop :
    \/ comp[i].st \in {"unused", "deleted"}
    \/ comp[i].deadline /\ comp[i].is_outstanding /\ comp[i].iop_count = 1

(* What the coroutines see of the completions.  A coroutine that goes on    *)
(* without a result was thrown out of await_suspend by a full ring.         *)
LifeOf(c) ==
  LET seen == c.iop_exists \/ c.st = "unused"
  IN  [st |-> IF pc = "undefined" THEN "undefined"
              ELSE IF ~seen THEN "released"
              ELSE IF c.st = "unused" THEN "unused"
              ELSE IF c.waiting THEN "pending" ELSE "done",
       kind |-> IF seen THEN c.kind ELSE "close",
       deadline |-> seen /\ c.deadline,
       outcome |-> IF ~seen THEN "none"
                   ELSE IF c.iop_exists /\ ~c.waiting /\ c.kind \in ValueKinds
                           /\ c.result = "none" THEN "error"
                   ELSE c.result]

Life == INSTANCE IopLife WITH life <- [i \in Iop |-> LifeOf(comp[i])]

(* The io_uring warden keeps the promise of an IOP: of the two answers of   *)
(* an IOP with a deadline one resumes the coroutine, with an outcome of the *)
(* IOP's kind, and none after the IOP is destructed.                        *)
KeepsIopLife == Life!Spec

(* A run in progress resumes an IOP that has a deadline, and a sleep. *)
DeadlineMet ==
  \A i \in Iop :
    (comp[i].waiting /\ (comp[i].deadline \/ comp[i].kind = "sleep"))
      ~> (~comp[i].waiting \/ pc = "main")

(* A run in progress resumes every handle given to async_resume. *)
HandleResumed ==
  \A h \in Handle :
    Contains(queued, h) ~>
      ((~Contains(queued, h) /\ ~Contains(resuming, h)) \/ pc = "main")

=============================================================================
