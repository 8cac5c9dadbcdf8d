----------------------------- MODULE PollWarden -----------------------------
(***************************************************************************)
(* The `poll` based warden: the loop of poll.warden.cpp, the completions   *)
(* of poll.hpp and poll.iops.cpp, and the deferred resumption queue of     *)
(* async_resumption.hpp.                                                   *)
(*                                                                         *)
(* Everything runs on one thread.  `pc` says where the warden's own code   *)
(* is; `user` is TRUE while that code is suspended inside a `resume()`     *)
(* call and the application's coroutines have the thread.  While they have *)
(* it they may await, destroy and cancel IOPs in any order; the clock, the *)
(* kernel and the peers move at any time.                                  *)
(*                                                                         *)
(* A completion is named by its address.  An address is used once in a     *)
(* behaviour, so touching one whose completion is deleted is visible: the  *)
(* program's behaviour is then undefined and `pc` becomes "undefined".     *)
(***************************************************************************)
EXTENDS Integers, Sequences, SequencesExt

CONSTANTS
  Iop,           \* addresses of completions
  Fd,            \* file descriptors, in the order of std::map's keys
  Handle,        \* coroutine handles passed to async_resume
  Null,          \* the null coroutine handle
  Kind,          \* the kinds of IOP the application issues
  NoDeadline,    \* the empty optional<deadline>
  Timeout,       \* the time outs the application passes, in clock ticks
  NewSock,       \* what may take over the number of a closed descriptor
  Ms,            \* clock ticks in one millisecond
  IntMax,        \* the largest value of the C++ type `int`
  MaxTime,       \* bound on the clock
  PipeCap,       \* bytes the self-pipe holds before a write fails
  HupWritable,   \* does poll report POLLOUT with POLLHUP, as it does on Linux?
  CancelsWoken   \* may a coroutine destroy an IOP whose fd was just polled ready?

ASSUME ConstantsAssumption ==
  /\ Fd \subseteq Nat
  /\ Null \notin Handle
  /\ NoDeadline \notin Int
  /\ Timeout \subseteq Int
  /\ NewSock \subseteq {"open", "idle"}
  /\ Ms \in Nat \ {0}
  /\ IntMax \in Nat
  /\ MaxTime \in Nat
  /\ PipeCap \in Nat \ {0}
  /\ HupWritable \in BOOLEAN
  /\ CancelsWoken \in BOOLEAN

(* The two queues of a `request`, and all queues of the `requests` map. *)
Side  == {"reads", "writes"}
Queue == Fd \X Side

(* The IOPs of the warden API, by the queue they wait in. *)
ReadKinds  == {"read_some", "accept", "read_ready"}
WriteKinds == {"write_some", "connect", "write_ready"}
IoKinds    == {"read_some", "write_some", "accept"}
ReadyKinds == {"read_ready", "write_ready"}

ASSUME KindAssumption ==
  Kind \subseteq ReadKinds \cup WriteKinds \cup {"close", "sleep"}

VARIABLES
  pc,            \* "main", "timeouts", "poll", "dispatch", "resume", "undefined"
  run,           \* "until" in run_until, "finished" once its coroutine is done,
                 \* "batch" in run_batch, "none" outside
  user,          \* the application's code has the thread
  comp,          \* the completions
  requests,      \* poll_warden::requests, one queue per descriptor and side
  mapped,        \* the keys of poll_warden::requests
  timeouts,      \* poll_warden::timeouts: deadlines and completions, in order
  continuations, \* loop_data::continuations, grouped by the queue moved from
  until,         \* when the poll in progress times out, negative for never
  pipe,          \* bytes in the self-pipe
  queued,        \* async_resumption::queued
  resuming,      \* what is left of async_resumption::resuming
  now,           \* the steady clock
  errno,         \* "EINPROGRESS", or the code of another failed call
  sock,          \* the kernel's state of each descriptor
  ready          \* the queues whose descriptor is readable or writable

loop   == <<pc, run, user, until>>
async  == <<pipe, queued, resuming>>
kernel == <<sock, ready>>
vars   == <<loop, comp, requests, mapped, timeouts, continuations, async, now,
            errno, kernel>>

Unused == [st |-> "unused", kind |-> "close", fd |-> 0,
           deadline |-> NoDeadline, result |-> "none"]

QueueOf(c) == <<c.fd, IF c.kind \in ReadKinds THEN "reads" ELSE "writes">>

Suspended(i) == comp[i].st = "suspended"
Expired(d)   == d - now < Ms

-----------------------------------------------------------------------------
(* Deadlines: poll_warden::timeouts.                                       *)

(* Mutants of InsertTimeout: for an IOP without a deadline too, with an     *)
(* empty deadline or due at once.                                           *)
InsertTimeoutEmpty(i, c) == Append(timeouts, [at |-> c.deadline, iop |-> i])

InsertTimeoutNow(i, c) ==
  Append(timeouts, [at |-> IF c.deadline = NoDeadline THEN now ELSE c.deadline, iop |-> i])

(* insert_timeout: multimap::insert puts a key after the equal ones. *)
InsertTimeout(i, c) ==
  IF c.deadline = NoDeadline THEN timeouts
  ELSE LET e == [at |-> c.deadline, iop |-> i]
           p == SelectInSeq(timeouts, LAMBDA t : t.at > c.deadline)
       IN  IF p = 0 THEN Append(timeouts, e) ELSE InsertAt(timeouts, p, e)

(* Mutant of CancelTimeout: the entry stays. *)
CancelTimeoutNever(ts, i) == ts

(* cancel_timeout erases the first entry of the completion. *)
CancelTimeout(ts, i) == RemoveFirstMatch(ts, LAMBDA t : t.iop = i)

(* Mutants of CancelIop: the queue keeps the pointer; the first pointer of  *)
(* the queue goes, whichever it is.                                         *)
CancelIopNever(i) == UNCHANGED <<requests, mapped>>

CancelIopFirst(i) ==
  IF comp[i].kind \in {"close", "sleep"} THEN UNCHANGED <<requests, mapped>>
  ELSE /\ requests' = [requests EXCEPT ![QueueOf(comp[i])] =
                          IF @ = <<>> THEN @ ELSE Tail(@)]
       /\ mapped' = mapped \cup {comp[i].fd}

(* cancel_iop erases the completion from its queue, where it is at most    *)
(* once.  Looking the queue up maps the descriptor if it was not.          *)
CancelIop(i) ==
  IF comp[i].kind \in {"close", "sleep"} THEN UNCHANGED <<requests, mapped>>
  ELSE /\ requests' = [requests EXCEPT ![QueueOf(comp[i])] = RemoveFirst(@, i)]
       /\ mapped' = mapped \cup {comp[i].fd}

(* clear_timeouts returns a count of milliseconds through an `int`. *)
ToInt(n) == ((n + IntMax + 1) % (2 * (IntMax + 1))) - (IntMax + 1)

-----------------------------------------------------------------------------
(* System calls, by what they do to a descriptor.  A socket is "idle" until *)
(* it is connected, "failed" while SO_ERROR holds an error and "hup" once   *)
(* the peer is gone.                                                        *)

WouldBlock(q) ==
  \/ sock[q[1]] = "connecting"
  \/ sock[q[1]] = "open" /\ q \notin ready

(* What read, write or accept return when they do not block. *)
IoResult(q, k) ==
  CASE sock[q[1]] = "closed" -> IF k = "accept" THEN "badfd" ELSE "error"
    [] sock[q[1]] = "hup"    -> IF q[2] = "reads" THEN "value" ELSE "error"
    [] sock[q[1]] = "open"   -> "value"
    [] OTHER -> "error"

(* A successful call may use up what made the descriptor ready; a failed    *)
(* one reports and clears the pending error.                                *)
IoEffect(q) ==
  /\ ready' \in IF sock[q[1]] = "open" THEN {ready, ready \ {q}} ELSE {ready}
  /\ sock' = [sock EXCEPT ![q[1]] = IF @ = "failed" THEN "hup" ELSE @]

(* A connected socket has room to write. *)
Established(f) ==
  /\ sock' = [sock EXCEPT ![f] = "open"]
  /\ ready' = ready \cup {<<f, "writes">>}

(* close forgets what was pending on the descriptor. *)
Closed(f) ==
  /\ sock' = [sock EXCEPT ![f] = "closed"]
  /\ ready' = ready \ {<<f, s>> : s \in Side}

(* Mutant of Event: the writers are woken by POLLOUT only. *)
EventPollOut(q) ==
  \/ q \in ready /\ sock[q[1]] = "open" /\ requests[q] # <<>>
  \/ /\ sock[q[1]] \in {"closed", "failed", "idle", "hup"}
     /\ q[2] = "reads"

(* The events poll reports for one side of a descriptor: POLLIN and POLLOUT *)
(* only if they were asked for; POLLNVAL, POLLERR and POLLHUP always.  The  *)
(* first two wake both sides, POLLHUP alone the readers: a writer needs     *)
(* POLLOUT with it.                                                         *)
Event(q) ==
  \/ q \in ready /\ sock[q[1]] = "open" /\ requests[q] # <<>>
  \/ sock[q[1]] \in {"closed", "failed"}
  \/ /\ sock[q[1]] \in {"idle", "hup"}
     /\ q[2] = "reads" \/ HupWritable

Events == {q \in Queue : q[1] \in mapped /\ Event(q)}

-----------------------------------------------------------------------------
(* Completions.  c is the record of completion i, ts the deadlines it finds. *)

(* The completion is left suspended, waiting in its queue. *)
Park(i, c, ts) ==
  /\ comp' = [comp EXCEPT ![i] = c]
  /\ requests' = [requests EXCEPT ![QueueOf(c)] = Append(@, i)]
  /\ mapped' = mapped \cup {c.fd}
  /\ timeouts' = ts

(* cancel_timeout_then_resume, with the outcome r. *)
ResumeWith(i, c, ts, r) ==
  /\ comp' = [comp EXCEPT ![i] = [c EXCEPT !.st = "resumed", !.result = r]]
  /\ timeouts' = CancelTimeout(ts, i)
  /\ UNCHANGED <<requests, mapped>>

TryIo(i, c, ts) ==
  /\ c.kind \in IoKinds
  /\ \/ /\ WouldBlock(QueueOf(c))
        /\ Park(i, c, ts)
        /\ errno' = "other"
        /\ UNCHANGED kernel
     \/ /\ ~WouldBlock(QueueOf(c))
        /\ LET r == IoResult(QueueOf(c), c.kind)
           IN  /\ ResumeWith(i, c, ts, r)
               /\ errno' = IF r = "value" THEN errno ELSE "other"
        /\ IoEffect(QueueOf(c))

(* connect_completion::try_or_resume.  getsockopt succeeds without touching *)
(* errno, so the second test reads what an earlier call left there.         *)
TryConnect(i, c) ==
  /\ c.kind = "connect"
  /\ \/ /\ sock[c.fd] = "failed"
        /\ IF errno = "EINPROGRESS"
           THEN Park(i, c, InsertTimeout(i, c))
           ELSE ResumeWith(i, c, timeouts, "error")
        /\ sock' = [sock EXCEPT ![c.fd] = "idle"]
        /\ UNCHANGED <<errno, ready>>
     \/ /\ sock[c.fd] = "closed"
        /\ ResumeWith(i, c, timeouts, "error")
        /\ errno' = "other"
        /\ UNCHANGED kernel
     \/ /\ sock[c.fd] \notin {"failed", "closed"}
        /\ ResumeWith(i, c, timeouts, "none")
        /\ UNCHANGED <<errno, kernel>>

TryReady(i, c) ==
  /\ c.kind \in ReadyKinds
  /\ ResumeWith(i, c, timeouts, "none")
  /\ UNCHANGED <<errno, kernel>>

TryOrResume(i, c) ==
  TryIo(i, c, timeouts) \/ TryConnect(i, c) \/ TryReady(i, c)

(* await_suspend of each kind of completion.                               *)
AwaitClose(i, c) ==
  /\ c.kind = "close"
  /\ ResumeWith(i, c, timeouts, "none")
  /\ Closed(c.fd)
  /\ errno' = IF sock[c.fd] = "closed" THEN "other" ELSE errno

AwaitSleep(i, c) ==
  /\ c.kind = "sleep"
  /\ comp' = [comp EXCEPT ![i] = c]
  /\ timeouts' = InsertTimeout(i, c)
  /\ UNCHANGED <<requests, mapped, errno, kernel>>

AwaitConnect(i, c) ==
  /\ c.kind = "connect"
  /\ \/ /\ sock[c.fd] = "idle"                \* connected at once
        /\ ResumeWith(i, c, timeouts, "none")
        /\ Established(c.fd)
        /\ UNCHANGED errno
     \/ /\ sock[c.fd] = "idle"
        /\ Park(i, c, InsertTimeout(i, c))
        /\ sock' = [sock EXCEPT ![c.fd] = "connecting"]
        /\ errno' = "EINPROGRESS"
        /\ UNCHANGED ready
     \/ /\ ResumeWith(i, c, timeouts, "error")  \* refused at once, or misused
        /\ errno' = "other"
        /\ UNCHANGED kernel

AwaitReady(i, c) ==
  /\ c.kind \in ReadyKinds
  /\ Park(i, c, InsertTimeout(i, c))
  /\ UNCHANGED <<errno, kernel>>

AwaitSuspend(i, c) ==
  \/ TryIo(i, c, InsertTimeout(i, c))
  \/ AwaitClose(i, c) \/ AwaitSleep(i, c)
  \/ AwaitConnect(i, c) \/ AwaitReady(i, c)

-----------------------------------------------------------------------------
(* The application: what its coroutines do while they have the thread.     *)

(* A co_await of a fresh IOP, whose time out became a deadline as the IOP   *)
(* was made.  sleep always has one, close never.                            *)
Deadlines(k) ==
  LET due == {now + t : t \in {u \in Timeout : now + u <= MaxTime}}
  IN  CASE k = "close" -> {NoDeadline}
        [] k = "sleep" -> due
        [] OTHER       -> due \cup {NoDeadline}

Await(i, k, f, d) ==
  /\ user
  /\ comp[i].st = "unused"
  /\ AwaitSuspend(i, [st |-> "suspended", kind |-> k, fd |-> f,
                      deadline |-> d, result |-> "none"])
  /\ UNCHANGED <<loop, continuations, async, now>>

(* ~iop: delete_due_to_iop_destructed, then delete.                         *)
Destruct(i) ==
  /\ user
  /\ comp[i].st \in {"suspended", "resumed"}
  /\ CancelsWoken \/ \A q \in Queue : ~Contains(continuations[q], i)
  /\ timeouts' = CancelTimeout(timeouts, i)
  /\ CancelIop(i)
  /\ comp' = [comp EXCEPT ![i] = [Unused EXCEPT !.st = "deleted"]]
  /\ UNCHANGED <<loop, continuations, async, now, errno, kernel>>

(* ~iop of an IOP that was never awaited: cancel_iop maps its descriptor.   *)
Discard(f) ==
  /\ user
  /\ mapped' = mapped \cup {f}
  /\ UNCHANGED <<loop, comp, requests, timeouts, continuations, async, now,
                 errno, kernel>>

(* Mutant of Wake: the queue is looked at after the handles were added. *)
WakeAfterAdding(handles) ==
  IF queued \o handles = <<>> /\ pipe < PipeCap THEN pipe + 1 ELSE pipe

(* wake_event_loop, called only when the queue was empty and something was  *)
(* added.  A full pipe has a byte to wake the loop already.                 *)
Wake(handles) ==
  IF queued = <<>> /\ handles # <<>> /\ pipe < PipeCap THEN pipe + 1 ELSE pipe

(* The write to a full pipe fails, which nobody looks at but sets errno.    *)
WakeErrno(handles) ==
  IF queued = <<>> /\ handles # <<>> /\ pipe = PipeCap THEN "other" ELSE errno

(* do_async_resume: the null handles are dropped, the others queued. *)
AsyncResume(h1, h2) ==
  /\ user
  /\ \A h \in {h1, h2} \ {Null} : ~Contains(queued, h) /\ ~Contains(resuming, h)
  /\ h1 = h2 => h1 = Null
  /\ LET handles == (IF h1 = Null THEN <<>> ELSE <<h1>>)
                       \o (IF h2 = Null THEN <<>> ELSE <<h2>>)
     IN  /\ queued' = queued \o handles
         /\ pipe' = Wake(handles)
         /\ errno' = WakeErrno(handles)
  /\ UNCHANGED <<loop, comp, requests, mapped, timeouts, continuations, resuming,
                 now, kernel>>

(* posix::fd::close and a new descriptor that takes the number over.        *)
CloseFd(f) ==
  /\ user
  /\ sock[f] # "closed"
  /\ Closed(f)
  /\ UNCHANGED <<loop, comp, requests, mapped, timeouts, continuations, async, now,
                 errno>>

OpenFd(f, s) ==
  /\ user
  /\ sock[f] = "closed"
  /\ sock' = [sock EXCEPT ![f] = s]
  /\ UNCHANGED <<loop, comp, requests, mapped, timeouts, continuations, async, now,
                 errno, ready>>

(* The primary coroutine runs to its end. *)
FinishPrimary ==
  /\ user /\ run = "until"
  /\ run' = "finished"
  /\ UNCHANGED <<pc, user, until, comp, requests, mapped, timeouts,
                 continuations, async, now, errno, kernel>>

(* Every coroutine is suspended: resume() returns to the warden. *)
UserReturn ==
  /\ user /\ pc # "main"
  /\ user' = FALSE
  /\ UNCHANGED <<pc, run, until, comp, requests, mapped, timeouts,
                 continuations, async, now, errno, kernel>>

-----------------------------------------------------------------------------
(* The warden's loop.                                                      *)

(* run_until resumes the primary coroutine first. *)
RunUntil ==
  /\ pc = "main"
  /\ pc' = "timeouts" /\ run' = "until" /\ user' = TRUE
  /\ UNCHANGED <<until, comp, requests, mapped, timeouts, continuations, async,
                 now, errno, kernel>>

RunBatch ==
  /\ pc = "main"
  /\ pc' = "timeouts" /\ run' = "batch" /\ user' = FALSE
  /\ UNCHANGED <<until, comp, requests, mapped, timeouts, continuations, async,
                 now, errno, kernel>>

(* Mutant of EarliestDue: the first deadline is not compared with the clock. *)
EarliestAny == timeouts # <<>>

(* The test of clear_timeouts: the earliest deadline is less than 1ms away. *)
EarliestDue == timeouts # <<>> /\ Expired(Head(timeouts).at)

(* One turn of clear_timeouts.                                              *)
(* iop_timedout resumes the completion, which must still be there.          *)
TimedOut(i) ==
  /\ timeouts' = Tail(timeouts)
  /\ \/ /\ Suspended(i)
        /\ LET r == IF comp[i].kind = "sleep" THEN "none" ELSE "timeout"
           IN  comp' = [comp EXCEPT ![i] = [@ EXCEPT !.st = "resumed", !.result = r]]
        /\ CancelIop(i)
        /\ user' = TRUE
        /\ UNCHANGED pc
     \/ /\ ~Suspended(i)
        /\ pc' = "undefined"
        /\ UNCHANGED <<user, comp, requests, mapped>>
  /\ UNCHANGED <<run, until, continuations, async, now, errno, kernel>>

ClearTimeout ==
  /\ pc = "timeouts" /\ ~user
  /\ EarliestDue
  /\ TimedOut(Head(timeouts).iop)

(* Mutants of PollWait: poll waits for events only; milliseconds rounded up. *)
PollWaitForever == -1

PollWaitCeil ==
  IF timeouts = <<>> THEN -1
  ELSE ToInt((Head(timeouts).at - now + Ms - 1) \div Ms)

(* The argument of poll: whole milliseconds to the earliest deadline, or -1. *)
PollWait ==
  IF timeouts = <<>> THEN -1
  ELSE ToInt((Head(timeouts).at - now) \div Ms)

(* ... and when no deadline is due, run_until stops if it may; else poll.    *)
TimeoutsCleared ==
  /\ pc = "timeouts" /\ ~user
  /\ ~EarliestDue
  /\ \/ /\ run = "finished"
        /\ pc' = "main" /\ run' = "none" /\ user' = TRUE
        /\ UNCHANGED until
     \/ /\ run # "finished"
        /\ pc' = "poll"
        /\ until' = IF run = "batch" THEN now
                    ELSE IF PollWait < 0 THEN -1 ELSE now + PollWait * Ms
        /\ UNCHANGED <<run, user>>
  /\ UNCHANGED <<comp, requests, mapped, timeouts, continuations, async,
                 now, errno, kernel>>

(* poll returns events: drain_wakeup, and every queue with an event moves   *)
(* to the continuations.                                                    *)
PollReady ==
  /\ pc = "poll"
  /\ Events # {} \/ pipe > 0
  /\ continuations' = [q \in Queue |-> IF q \in Events THEN requests[q] ELSE <<>>]
  /\ requests' = [q \in Queue |-> IF q \in Events THEN <<>> ELSE requests[q]]
  /\ pipe' = 0
  /\ errno' = IF pipe > 0 THEN "other" ELSE errno
  /\ pc' = "dispatch" /\ until' = -1
  /\ UNCHANGED <<run, user, comp, mapped, timeouts, queued, resuming,
                 now, kernel>>

(* poll returns 0, or a signal makes it fail with EINTR: nothing is woken.  *)
PollReturns ==
  /\ pc = "poll"
  /\ Events = {} /\ pipe = 0
  /\ pc' = "dispatch" /\ until' = -1
  /\ UNCHANGED <<run, user, comp, requests, mapped, timeouts, continuations, async,
                 now, kernel>>

PollTimesOut == PollReturns /\ until >= 0 /\ now >= until /\ UNCHANGED errno

PollInterrupted == PollReturns /\ errno' = "other"

(* poll fails with another error, which is thrown out of the run.           *)
PollThrows ==
  /\ pc = "poll"
  /\ errno' = "other"
  /\ pc' = "main" /\ run' = "none" /\ user' = TRUE /\ until' = -1
  /\ UNCHANGED <<comp, requests, mapped, timeouts, continuations,
                 async, now, kernel>>

(* The continuations are in the order of the descriptors, reads first.      *)
FirstWoken(q) ==
  /\ continuations[q] # <<>>
  /\ \A r \in Queue : continuations[r] # <<>> =>
       \/ q[1] < r[1]
       \/ q[1] = r[1] /\ (q[2] = "reads" \/ r[2] = "writes")

(* One turn of the loop that calls try_or_resume().resume(). *)
Dispatch(q) ==
  /\ pc = "dispatch" /\ ~user
  /\ FirstWoken(q)
  /\ continuations' = [continuations EXCEPT ![q] = Tail(@)]
  /\ LET i == Head(continuations[q])
     IN  \/ /\ Suspended(i)
            /\ TryOrResume(i, comp[i])
            /\ user' = (comp'[i].st = "resumed")
            /\ UNCHANGED pc
         \/ /\ ~Suspended(i)
            /\ pc' = "undefined"
            /\ UNCHANGED <<user, comp, requests, mapped, timeouts, errno, kernel>>
  /\ UNCHANGED <<run, until, async, now>>

(* resume_all swaps the queues, so what is queued from here on waits.       *)
SwapQueues ==
  /\ pc = "dispatch" /\ ~user
  /\ \A q \in Queue : continuations[q] = <<>>
  /\ resuming' = queued /\ queued' = <<>>
  /\ pc' = "resume"
  /\ UNCHANGED <<run, user, until, comp, requests, mapped, timeouts,
                 continuations, pipe, now, errno, kernel>>

(* One turn of the loop of resume_all. *)
ResumeNext ==
  /\ pc = "resume" /\ ~user
  /\ resuming # <<>>
  /\ resuming' = Tail(resuming)
  /\ user' = TRUE
  /\ UNCHANGED <<pc, run, until, comp, requests, mapped, timeouts,
                 continuations, pipe, queued, now, errno, kernel>>

(* Mutant of ResumedAll: what was queued meanwhile joins the current turn. *)
ResumedAllUnswapped ==
  /\ pc = "resume" /\ ~user
  /\ resuming = <<>>
  /\ resuming' = queued /\ queued' = <<>>
  /\ IF queued # <<>> THEN UNCHANGED <<pc, run, user>>
     ELSE IF run = "batch" THEN pc' = "main" /\ run' = "none" /\ user' = TRUE
     ELSE pc' = "timeouts" /\ UNCHANGED <<run, user>>
  /\ UNCHANGED <<until, comp, requests, mapped, timeouts, continuations,
                 pipe, now, errno, kernel>>

(* ... and its end. *)
ResumedAll ==
  /\ pc = "resume" /\ ~user
  /\ resuming = <<>>
  /\ IF run = "batch" THEN pc' = "main" /\ run' = "none" /\ user' = TRUE
     ELSE pc' = "timeouts" /\ UNCHANGED <<run, user>>
  /\ UNCHANGED <<until, comp, requests, mapped, timeouts, continuations,
                 async, now, errno, kernel>>

-----------------------------------------------------------------------------
(* The clock, and the peers of the descriptors.                            *)

Tick ==
  /\ now < MaxTime
  /\ now' = now + 1
  /\ UNCHANGED <<loop, comp, requests, mapped, timeouts, continuations, async, errno,
                 kernel>>

PeerActs(q) ==
  /\ \/ sock[q[1]] = "open" /\ ready' = ready \cup {q} /\ UNCHANGED sock
     \/ /\ sock[q[1]] = "open"
        /\ sock' = [sock EXCEPT ![q[1]] = "hup"] /\ UNCHANGED ready
     \/ /\ sock[q[1]] \in {"open", "connecting"}
        /\ sock' = [sock EXCEPT ![q[1]] = "failed"] /\ UNCHANGED ready
     \/ sock[q[1]] = "connecting" /\ Established(q[1])
  /\ UNCHANGED <<loop, comp, requests, mapped, timeouts, continuations, async, now,
                 errno>>

-----------------------------------------------------------------------------
Init ==
  /\ pc = "main" /\ run = "none" /\ user = TRUE /\ until = -1
  /\ comp = [i \in Iop |-> Unused]
  /\ requests = [q \in Queue |-> <<>>] /\ mapped = {}
  /\ continuations = [q \in Queue |-> <<>>]
  /\ timeouts = <<>>
  /\ pipe = 0 /\ queued = <<>> /\ resuming = <<>>
  /\ now = 0 /\ errno = "other"
  /\ sock \in [Fd -> {"open", "idle"}] /\ ready = {}

User ==
  \/ \E i \in Iop, k \in Kind, f \in Fd : \E d \in Deadlines(k) : Await(i, k, f, d)
  \/ \E i \in Iop : Destruct(i)
  \/ \E f \in Fd : Discard(f) \/ CloseFd(f) \/ \E s \in NewSock : OpenFd(f, s)
  \/ \E h1, h2 \in Handle \cup {Null} : AsyncResume(h1, h2)
  \/ FinishPrimary

Loop ==
  \/ ClearTimeout \/ TimeoutsCleared
  \/ PollReady \/ PollTimesOut
  \/ (\E q \in Queue : Dispatch(q)) \/ SwapQueues
  \/ ResumeNext \/ ResumedAll

Environment == Tick \/ \E q \in Queue : PeerActs(q)

Next ==
  \/ User \/ UserReturn \/ RunUntil \/ RunBatch \/ Loop
  \/ PollInterrupted \/ PollThrows \/ Environment

Spec == Init /\ [][Next]_vars

(* The loop never stops by itself, every resumed coroutine suspends in the *)
(* end, and the steady clock advances.  Nothing is assumed of the peers,   *)
(* nor of when the application starts a run.                               *)
Fairness == WF_vars(Loop) /\ WF_vars(UserReturn) /\ WF_vars(Tick)

FairSpec == Spec /\ Fairness

-----------------------------------------------------------------------------
(* Properties.                                                             *)

Completion == [st : {"unused", "suspended", "resumed", "deleted"},
               kind : Kind \cup {"close"}, fd : Fd \cup {0},
               deadline : Int \cup {NoDeadline},
               result : {"none", "value", "error", "badfd", "timeout"}]

(* The warden's state has the types of poll_warden's members: vectors of    *)
(* completions by descriptor, a multimap of deadlines, vectors of handles.  *)
TypeOK ==
  /\ pc \in {"main", "timeouts", "poll", "dispatch", "resume", "undefined"}
  /\ run \in {"none", "until", "finished", "batch"}
  /\ user \in BOOLEAN
  /\ until \in Int
  /\ comp \in [Iop -> Completion]
  /\ \A i \in Iop : comp[i].st \in {"suspended", "resumed"} =>
       comp[i].kind \in Kind /\ comp[i].fd \in Fd
  /\ requests \in [Queue -> Seq(Iop)] /\ mapped \subseteq Fd
  /\ continuations \in [Queue -> Seq(Iop)]
  /\ timeouts \in Seq([at : Int, iop : Iop])
  /\ pipe \in 0..PipeCap
  /\ queued \in Seq(Handle) /\ resuming \in Seq(Handle)
  /\ now \in 0..MaxTime
  /\ errno \in {"EINPROGRESS", "other"}
  /\ sock \in [Fd -> {"open", "idle", "connecting", "failed", "hup", "closed"}]
  /\ ready \subseteq Queue

(* The raw pointers of `requests`, `timeouts` and `continuations` are never *)
(* followed to a completion that was deleted or already resumed, whatever   *)
(* the coroutines that the loop resumes on the way await or destroy.        *)
NoUndefined == pc # "undefined"

(* Completion i is one that waits in queue q. *)
Waiting(i, q) ==
  Suspended(i) /\ comp[i].kind \notin {"sleep", "close"} /\ QueueOf(comp[i]) = q

(* Every raw pointer the warden keeps is to a suspended completion, and     *)
(* none is kept twice: in a queue or among the continuations only the IOPs  *)
(* of that descriptor and side, in the timeouts one entry per deadline.     *)
PointersLive ==
  /\ \A q \in Queue :
       /\ IsInjective(requests[q]) /\ IsInjective(continuations[q])
       /\ Range(requests[q]) \cap Range(continuations[q]) = {}
       /\ \A i \in Range(requests[q]) \cup Range(continuations[q]) : Waiting(i, q)
  /\ \A m, n \in DOMAIN timeouts : timeouts[m].iop = timeouts[n].iop => m = n
  /\ \A t \in Range(timeouts) : Suspended(t.iop) /\ comp[t.iop].deadline = t.at

(* A suspended coroutine can still be woken: its completion is in the queue *)
(* of its descriptor or among the continuations, or is a sleep; and a       *)
(* deadline it has is among the timeouts.                                   *)
Registered ==
  \A i \in Iop : Suspended(i) =>
    /\ comp[i].kind # "sleep" =>
         LET q == QueueOf(comp[i])
         IN  i \in Range(requests[q]) \cup Range(continuations[q])
    /\ comp[i].deadline # NoDeadline =>
         [at |-> comp[i].deadline, iop |-> i] \in Range(timeouts)

(* While poll sleeps, it will wake by the deadline of every suspended IOP,  *)
(* of whichever kind and descriptor and in whatever order they came, but    *)
(* not a whole millisecond before the earliest: clear_timeouts looks at one *)
(* entry of `timeouts` only, cuts the distance to milliseconds and narrows  *)
(* it to an int.                                                            *)
WakesInTime ==
  pc = "poll" =>
    /\ \A i \in Iop :
         Suspended(i) /\ comp[i].deadline # NoDeadline => until \in 0..comp[i].deadline
    /\ until >= 0 /\ run # "batch" =>
         \E t \in Range(timeouts) : t.at - until < Ms

(* A coroutine finds an outcome when it is resumed from a read, a write or  *)
(* an accept (completion.hpp throws logic_error for an empty one), a sleep  *)
(* ends without an error, and an IOP times out less than a millisecond      *)
(* before its deadline or later.                                            *)
Outcomes ==
  \A i \in Iop : comp[i].st = "resumed" =>
    /\ comp[i].kind \in IoKinds => comp[i].result # "none"
    /\ comp[i].kind = "sleep" => comp[i].result = "none" /\ Expired(comp[i].deadline)
    /\ comp[i].result = "timeout" => Expired(comp[i].deadline)

(* What the coroutines see of the completions.  Following a dead pointer    *)
(* puts every promise of the warden off.                                    *)
LifeOf(c) ==
  [st |-> IF pc = "undefined" THEN "undefined"
          ELSE CASE c.st = "suspended" -> "pending"
                 [] c.st = "resumed"   -> "done"
                 [] c.st = "deleted"   -> "released"
                 [] OTHER              -> "unused",
   kind |-> c.kind, deadline |-> c.deadline # NoDeadline,
   outcome |-> IF c.result = "badfd" THEN "value" ELSE c.result]

Life == INSTANCE IopLife WITH life <- [i \in Iop |-> LifeOf(comp[i])]

(* The poll warden keeps the promise of an IOP: a coroutine is resumed once *)
(* from it, whatever becomes of the descriptor, the deadline and the other  *)
(* IOPs meanwhile, with an outcome of its kind.                             *)
KeepsIopLife == Life!Spec

(* The state of IopLife that the completions stand for. *)
LifeView == [i \in Iop |-> LifeOf(comp[i])]

(* The same where a dead pointer may be followed, as a connect that is armed *)
(* again leaves one and so does a coroutine that destroys an IOP which was  *)
(* polled ready: up to that point every step keeps the promise.             *)
KeepsIopLifeSoFar == [][NoUndefined' => [Life!Next]_LifeView]_vars

(* A prior wake covers the rest: a handle that async_resume queued is never *)
(* left waiting for a poll that nothing will interrupt.                     *)
WakePending == queued # <<>> => pipe > 0 \/ pc = "dispatch"

(* A connect is reported to have worked only if the socket was connected:   *)
(* connect.hpp returns "the first one that works".                          *)
ConnectReported ==
  [][\A i \in Iop :
       comp[i].kind = "connect" /\ Suspended(i)
         /\ comp'[i].st = "resumed" /\ comp'[i].result = "none"
           => sock[comp[i].fd] # "idle"]_vars

(* A run in progress resumes an IOP by its deadline at the latest. *)
DeadlineMet ==
  \A i \in Iop :
    (Suspended(i) /\ comp[i].deadline # NoDeadline)
      ~> (~Suspended(i) \/ pc = "main")

(* A run in progress resumes every handle given to async_resume. *)
HandleResumed ==
  \A h \in Handle :
    Contains(queued, h) ~>
      ((~Contains(queued, h) /\ ~Contains(resuming, h)) \/ pc = "main")

(* A coroutine that queues itself again and again does not keep the loop    *)
(* in resume_all.                                                           *)
ResumeAllEnds == pc = "resume" ~> pc # "resume"

(* A run in progress does not leave an IOP waiting for a descriptor that    *)
(* stays ready for it, closed, failed or, where a socket that hung up is    *)
(* polled writable (HupWritable), hung up.                                  *)
ReadyServed ==
  \A i \in Iop : []<>~
    /\ Suspended(i)
    /\ comp[i].kind \in IoKinds \cup ReadyKinds
    /\ ~WouldBlock(QueueOf(comp[i]))
    /\ pc # "main"

=============================================================================
