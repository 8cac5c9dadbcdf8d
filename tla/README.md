# A TLA+ model of felspar-io

felspar-io runs C++ coroutines on a single thread. A *warden* is the event loop: a
coroutine awaits an IO operation (*IOP*), the warden suspends it, waits for the
operating system, and resumes it with an outcome. There are two wardens, one built on
`poll` and one on `io_uring`. What is hard about them is not arithmetic but lifetime
and order: raw pointers to completions sit in queues, in a multimap of deadlines and in
the kernel, while coroutines that the loop resumes on the way destroy IOPs, add others
and queue handles.

## Inventory

| Component | State it keeps | Operations | What makes it correct |
|---|---|---|---|
| `poll_warden` (`src/src/poll.warden.cpp`, `poll.hpp`, `poll.iops.cpp`) | `requests` (two queues of retriers per descriptor), `timeouts` (multimap), `continuations`, the wake-up pipe | `run_until`, `run_batch`, `do_poll`, `clear_timeouts`, `await_suspend`/`try_or_resume`/`iop_timedout`/`delete_due_to_iop_destructed` of eight completions | no pointer to a dead completion is followed; no suspended coroutine is forgotten; deadlines fire, and not early |
| `uring_warden` (`uring.warden.cpp`, `uring.hpp`, `uring.iops.cpp`) | the two rings, `outstanding`, per completion `iop_exists`, `is_outstanding`, `iop_count` | `run_until`, `run_batch`, `next_sqe`, `execute`, `deliver`, `setup_submission`/`setup_timeout`, `delete_due_to_iop_destructed`, destruction of the warden | a completion lives until its last answer and no longer; the right half of an IOP with a deadline is delivered; nothing leaks |
| `async_resumption` (in both wardens) | `queued`, `resuming` | `queue`, `resume_all`, `has_requests` | every handle is resumed; a queued handle always has a wake-up under way; `resume_all` ends |
| warden API (`warden.hpp`, `warden.cpp`) | none | `run`, `run_batch`, `async_resume`, the IOPs, `create_socket`, `create_pipe` | time outs become one deadline |
| read and write helpers (`read.hpp`, `write.hpp`) | `read_buffer` | `read_exactly`, `read_until_lf_strip_cr`, `write_all` | exact counts and lines, bytes in order, no call waits for ever |
| connect and accept (`connect.hpp`, `accept.hpp`, `convenience.cpp`) | the address under trial | `connect` by host name, `accept` stream | addresses are tried in order until an attempt returns, or the last exception is thrown; no socket is left open |
| TLS (`tls.cpp`, `tls.hpp`) | the OpenSSL BIO pair, one buffer, the socket | `connect`, `read_some`, `write_some` | what OpenSSL has written is sent, in order, before the peer is awaited; a returned connection is secure |
| posix wrappers, allocator, exceptions | a descriptor; nothing; nothing | RAII, forwarding | a descriptor is closed once |

Interaction: the application calls the API from coroutines; the wardens call back into
coroutines with `resume()`, from inside `do_poll`, `clear_timeouts`, `execute` and
`resume_all`. Every one of those calls may re-enter the warden (await, destroy,
`async_resume`, close a descriptor). This re-entrancy on one thread, the kernel that works
next to it, deadlines that race with events, a ring that is full and a warden that is
destroyed early are the behaviours the models are about; `PROJECT.json` lists them line by
line under `hazards`.

## Modules

* **`PollWarden`**: the poll warden. `pc` is the place in the loop (`timeouts`, `poll`,
  `dispatch`, `resume`; `main` outside a run), `user` says that a coroutine the warden
  resumed has the thread. `requests`, `timeouts` (a sequence in key order),
  `continuations`, `queued` and `resuming` are the C++ members of the same names; `mapped`
  are the keys of the `requests` map, which `operator[]` creates and nothing erases.
  `continuations` is grouped by the queue it was filled from and dispatched in the order
  of `std::map`'s keys, reads first, which is the order of the code's flat vector.
  Descriptors (`sock`, `ready`), the clock (`now`) and `errno` are the environment.
  `do_poll` does not look for POLLHUP on the write side: whether a writer is woken on a
  descriptor that hung up depends on the system reporting POLLOUT with it, which Linux does
  (`HupWritable`).
  Actions: `Await` (every `await_suspend`), `Destruct` and `Discard` (`~iop`),
  `AsyncResume`, `CloseFd`/`OpenFd`, `FinishPrimary`, `UserReturn` for the application;
  `RunUntil`, `RunBatch`, `ClearTimeout`, `TimeoutsCleared`, `PollReady`, `PollTimesOut`,
  `PollInterrupted`, `PollThrows`, `Dispatch`, `SwapQueues`, `ResumeNext`, `ResumedAll`
  for the loop; `Tick` and `PeerActs` for the rest of the world.
* **`UringWarden`**: the io_uring warden. `sq`, `kernel` and `cq` hold the entries of an
  IOP (its operation and, with a deadline, the linked timer) on their way; `execute` is
  two actions, `Execute` up to the `resume()` and `Executed` after it, because the
  coroutine runs in between. `comp` has the fields of `delivery`. The kernel acts by
  `Expire` (the timer cancels the operation) and `Post` (an answer from `Answers`, in any
  order); `io_uring_submit`, whose result the code ignores, takes all or nothing: that the
  kernel takes a part of the ring, and a later turn of the loop submits the rest, is left
  out.
* **`IopLife`**: the abstract specification that both wardens implement. An IOP is unused,
  pending, done or released; its coroutine is resumed once, never after `~iop`, with an
  outcome that its kind can have, and with a time out only if it had a deadline. `LifeOf`
  in each warden is the refinement mapping; an undefined state maps to no state of the
  abstract specification, so the refinement (`KeepsIopLife`) also says that there is none.
  `KeepsIopLifeSoFar` says the same of every step up to an undefined state, and is what is
  claimed where one can be reached.
* **`Stream`**: `write_all` at one end of a stream, `read_exactly` and
  `read_until_lf_strip_cr` with its `read_buffer` at the other. Each end is suspended in
  one `read_some` or `write_some` of a warden, which moves some bytes, moves none, or
  throws. A span is an object, an offset and a length, so that `MoveBuffer` (the move
  constructor and assignment) can be followed. `sent`, `at` and `since` are history: the
  reference definition of the lines and counts of the stream is stated on them. The
  storage is an array: the members are set up for nothing else, as a default constructed
  vector has no room. `read_exactly` does not know of a `read_buffer`; the model calls it
  only when the buffer holds nothing, as a program that mixes the two has to.
* **`Connect`**: `connect` by host name (`call`, `sock`, `tried`) and the `accept` stream
  (`listener`, `backlog`, `stream`). `call.eptr` is the address whose exception is kept. A
  socket is `open`, or `refused` when the poll warden reported a refused connect as made (the
  finding below), so `connect` may return it or start a handshake on it.
* **`Tls`** extends `Connect`: a secured call goes on from `connecting` to a handshake.
  `op` is the `service_operation` in progress: `turn` is the call into OpenSSL with
  everything up to the next suspension, `flush` the `write_all` in `bio_read`, `fill` the
  `read_some` in `bio_write`. `nbOut` and `nbIn` are the two directions of the BIO pair.
  What OpenSSL makes is numbered, so the wire can be compared with it. OpenSSL itself
  (`Handshake`, `SslRead`, `SslWrite`) is external: a hello, a server flight of `HsLen`
  units, a finished; records of `RecLen` units; `WANT_READ` only when it has taken
  everything from the BIO, `WANT_WRITE` only when the BIO is full; `ZERO_RETURN` after a
  close_notify, which the server may send before the handshake is done. A flush may be cut
  short by an exception (`Throws`) or by a write of no bytes, whose count `bio_read` ignores
  (`FlushedNothing`); `torn` records it.
* **`MCPollWarden`, `MCUringWarden`, `MCStream`, `MCTls`**: the instances for TLC. The
  first two add the symmetry of completion addresses, the others the spans to write and
  the lists of addresses.
* **`SeqLemmas`**: facts about sequences (append, insert, remove, tail, range,
  injectivity) that the proofs share.
* **`PollWardenProofs`, `UringWardenProofs`, `StreamProofs`, `ConnectProofs`**: the
  inductive invariants and theorems; **`TlsProofs`** extends `ConnectProofs`, as `Tls`
  extends `Connect`; **`PollLifeProofs`, `UringLifeProofs`**: the proofs that the wardens
  implement `IopLife`.

An address of a completion is used once in a behaviour. Touching a completion after its
deletion, or resuming a coroutine that is not suspended on it, sets `pc` to
`"undefined"`, where the warden stops: what C++ does from there on is not modelled.
Contents of buffers, messages of errors and source locations are left out; an outcome is
`none`, `value`, `error`, `badfd` (the -1 of `accept`) or `timeout`.

## Runs

| Run | Checks | Bounds, and why they suffice |
|---|---|---|
| `poll_transfer` | the raw pointers of queues, deadlines and continuations, `poll` sleeps up to the earliest deadline, outcomes; the poll warden implements `IopLife` | two IOPs on one descriptor, four kinds, time outs of 1 and 3 ticks with 2 ticks to the millisecond: equal and different deadlines, under and over a millisecond, two waiters on one queue and waiters on both queues all occur |
| `poll_connect` | no waiter is lost, also not by `connect`; every step keeps `IopLife` until a dead pointer is followed | a connect next to `accept` and `write_ready` on one descriptor, coroutines may destroy what was polled ready (`CancelsWoken = TRUE`); deadlock is not checked, as this code reaches an undefined state (see below) |
| `poll_liveness` | a queued handle has a wake-up; deadlines, handles, end of `resume_all`, ready descriptors | two IOPs that read or write, one handle that is queued again and again, null handles, one tick; no symmetry |
| `uring_lifetime` | lifetime and counting of completions, a suspended coroutine has an answer coming, destroying the warden leaks nothing but the one case below | two IOPs in a ring of three entries: full between an operation and its timer; submissions may fail; coroutines may hold finished IOPs |
| `uring_liveness` | deadlines and handles; no wrong resumption; the io_uring warden implements `IopLife` | one IOP of a kind with a result, of one without, or a sleep, with or without a deadline, two handles, a ring of five entries so that `next_sqe` does not throw; no symmetry |
| `stream` | the lines, counts and bytes the application is given; reads return | spans without bytes, with a CR and LF and without a CR, a storage of three bytes that a line can fill, two bytes under way at most, so that every line is split in every way; two objects to move between; time outs of one tick; four bytes in all |
| `secure` | sockets, order of attempts and exceptions of `connect`, next to the `accept` stream; the order of the bytes of TLS, flush before await, the BIO never overflows, operations with a deadline end | one or two addresses; a BIO of two units, less than a record next to the finished message, so both `WANT_READ` and `WANT_WRITE` happen with a BIO that holds something; connects that are refused and reported as made; four units from the server: its flight, a record and a close_notify, or a close_notify or a message that is no TLS at any place, and the end of the stream at every place. The program either is a plain one with the accept stream or uses TLS: the two do not meet |

The io_uring runs do not check deadlock: a destroyed warden really stops. So do `stream`
and `secure`, where the application may stop calling and the clock has a bound.

Five runs show where the code disagrees with its own comments or documentation
(`findings` in `PROJECT.json` quotes the lines):

* `poll_stale_continuation`: `do_poll` calls a retrier that an earlier one's coroutine
  destroyed. `poll_transfer` and `poll_liveness` assume `CancelsWoken = FALSE`;
  `poll_connect` does not.
* `poll_connect_errno`: a refused `connect` is armed again and then reported as a success,
  since `errno` is tested where `SO_ERROR`'s value is meant. It also enters its deadline
  twice, which is why `NoUndefined` and `PointersLive` are not claimed with `connect`.
* `uring_lost_wake`: a full ring loses the wake-up of all later `async_resume` calls.
* `tls_handshake_eof`: a server that closes the socket or sends a close_notify during the
  handshake makes `tls::connect` return a connection that is not secured, as the 0 of
  `service_operation` is not looked at.
* `tls_unsent`: `tls::write_some` returns with its record in the memory BIO; unless a later
  operation on the connection has to wait, it is never sent. `FlushedBeforeAwait` shows the
  other side: whoever waits for the server has sent everything.

Seen in the models, without a run of their own:

* A deadline beyond 2^31 ms (`IntMax` in `PollWarden`) becomes a negative time out for
  `poll` and never fires; `DeadlineMet` and `WakesInTime` are checked with an `IntMax` no
  deadline reaches.
* `execute` takes an abandoned IOP off the `outstanding` list at its first answer and leaves
  `is_outstanding` set. A warden destroyed between the two answers of an abandoned IOP with
  a deadline leaks its completion; `NothingLeaked` excepts this case.
* The comment of `read_until_lf_strip_cr` says that an empty span notifies that the
  descriptor is closed. A blank line is an empty span too, and so is what the caller gets
  when the storage is full, of which the front is used again only when every byte is
  consumed.
* The accept stream ends on `-EBADF`, which no warden yields: the poll warden yields -1 for
  a closed listener, on which the stream throws, and io_uring reports an error.
* A time out in `bio_read`, or a write of no bytes, loses what it took out of the BIO:
  `WireExact` holds up to the first such event, after which the connection can only be
  dropped. The write of no bytes is not even reported to the caller.
* A time out of a composed call bounds its waiting, not the call: `await_suspend` of the poll
  warden tries the operation first, so a `read_some` whose data is there succeeds past its
  deadline. The clocks of `Stream` and `Tls` run freely, and no bound on the length of a call
  is claimed.

Two comments of `uring.hpp` are not what the code does, and the model follows the code:
`iop_count` starts at 1 though nothing is submitted yet (so the completion of an IOP that
is never awaited stays until the warden is destroyed), and "Cancel IOP" cancels nothing.

### Fairness

The loop is weakly fair (`WF_vars(Loop)`): it runs on its own thread and nothing blocks
it but `poll` and `io_uring_wait_cqe`, whose actions are enabled only when they would
return. `UserReturn` is weakly fair: a coroutine that keeps the thread for ever stops the
program, which the README of the library leaves to the application. The clock advances
up to its bound. In `UringWarden` the timers of the kernel run out and cancelled
operations are answered; no other operation need complete, and no peer need act. Nothing
makes the application start a run, so liveness properties end in "or `pc` is `main`".

In `Stream` and `Tls` fairness is what the wardens give a coroutine that waits: a read
with bytes, an end or no room completes, an IOP past its deadline times out, a socket takes
bytes of a flush, the loops of the helpers go on, and the clock advances up to its bound.
Writers, servers and peers need not act.

## Proofs

Proved for every set of IOPs, descriptors, handles and addresses, any deadlines, and any
size of the ring, the storage, the BIOs and the messages. Every property that a passing run
checks is proved, but for the liveness properties.

The poll warden (`PollWardenProofs`):

* `PollTypeCorrect`: `Spec => []TypeOK`.
* `PollPointersSafe`: with `"connect" \notin Kind` and `CancelsWoken = FALSE`,
  `NoUndefined` and `PointersLive` are invariant. The two assumptions exclude exactly the two
  findings above. The inductive invariant `PollInv` adds `TypeOK`, `Registered` and
  `Dispatched` (nothing is left of the continuations when `do_poll` ends): none is inductive
  alone. That `Dispatch` and
  `TimedOut` find a suspended completion needs `PointersLive`; that `PollReady` may replace
  the continuations without losing a coroutine needs `Dispatched`; that `cancel_timeout`
  leaves no second entry needs the injectivity in `PointersLive`. Each completion operation
  (`Park`, `ResumeWith`, `CancelIop`) is a lemma on what it does to the registry of
  pointers; the actions combine them.

The others hold without the two assumptions, with `connect` and with coroutines that
destroy IOPs which were polled ready, where `PointersLive` is false:

* `PollRegistered`: `Registered`, which `poll_connect` checks. A deadline may be in the
  multimap twice and a continuation may be dead, so the invariant is `RegisteredInv`, weaker on pointers than
  `PollInv`: `QueuesOK` lets a continuation be a deleted completion, and says that a
  suspended one is once in its queue or among its continuations and in no other.
* `PollWakesInTime`: `WakesInTime`, if every time out is at most `IntMax` milliseconds. It
  needs three facts of every state: the deadline of a suspended IOP is in the multimap
  (`Registered`), the first entry is the earliest (`TimeoutsOrdered`, a lemma: the order of
  `std::multimap`), and no entry, stale ones included, is further away than a time out
  (`DeadlinesNear`), so that narrowing the distance to an `int` changes nothing.
* `PollOutcomes`: `Outcomes`. `OutcomesInv` adds `EntriesTrue`: an entry of the multimap,
  which may belong to a resumed or deleted completion, has the deadline its completion was
  awaited with. Without it `clear_timeouts` could report a time out early.
* `PollWakePending`: `NoUndefined => WakePending`, and `PollWakeKept`: `WakePending` under
  the assumptions of `PollPointersSafe`. A dead continuation stops `do_poll` between the
  read of the pipe and `resume_all`, which is why the first needs its hypothesis.

The io_uring warden (`UringWardenProofs`):

* `UringTypeCorrect`: types, and that the ring is never overfilled.
* `UringLifetimeSafe`: `UserDataLive`, `CountExact`, `OutstandingLive`. `CountExact`
  alone is not inductive: an answer must be known to be the only copy of its entry, or
  taking it would not lower the number in flight by one. `LifeInv` adds `OnePlace` (an
  entry is in the submission ring, the kernel, the completion ring or the execute in
  progress, and only once) and `Bookkeeping`.
* `UringNoUndefined`: with `HoldsIop = FALSE`, `NoUndefined`. The extra invariant
  `Suspended` says that while the warden has the thread every IOP has its coroutine
  suspended on it.
* `UringWillResume`: `WillResume`. It only says that some entry is in flight, which a step
  could answer with the half that `deliver` ignores; `WaitInv` names what will resume the
  coroutine: the operation not yet submitted or at work, the timer that has fired, or an
  answer in the ring that is not ignored.
* `UringNothingLeaked`: `NothingLeaked`, which speaks of the end only. `LeakInv` says of
  every moment before it that a completion without an IOP is on the list, or is between
  the two answers of an IOP with a deadline, the exception `NothingLeaked` names.

The abstract life of an IOP (`PollLifeProofs`, `UringLifeProofs`):

* `PollKeepsIopLifeSoFar`, `UringKeepsIopLifeSoFar`: every step up to an undefined state is
  a step of `IopLife`, without assumptions: `connect`, `CancelsWoken` and `HoldsIop` are
  whatever they are. `Evolves` says of one completion that what a coroutine sees of it
  takes a step of `IopLife` or none; each operation is a lemma that it evolves so, and the
  actions combine them with the invariants above. Beyond those the proofs need `Shapes` (a
  completion has no result before it is resumed), for poll `EntriesTrue`, and for io_uring
  `Timed`: a timer is in flight only for an IOP with a deadline, and an operation other than
  a sleep does not answer `ETIME`. So no time out is made up.
* `PollKeepsIopLife` (no `connect`, `CancelsWoken = FALSE`) and `UringKeepsIopLife`
  (`HoldsIop = FALSE`): the wardens implement `IopLife`. They follow from the two above
  and from `NoUndefined`. With `connect` the full refinement does not hold, since an
  undefined state can be reached.

The helpers (`StreamProofs`): `StreamInv` is one inductive invariant for

* `StreamTypeCorrect`, `StreamAdjacent`, `StreamBufferExact`, `StreamLineExact`
  (invariants) and `StreamReadCountExact`, `StreamWriteCountExact` (action
  properties). Its parts are what the history variables mean: `PipeInv` (the pipe is the end
  of what was sent), `WriterInv` (how much of its span a writer has put there), `ReaderInv`
  (what a `read_exactly` in progress has taken), `BufferInv` (the filled part of the storage is the bytes between what the
  application has and what came off the stream) and `LineInv` (the line last returned is
  still in the storage, in whichever object that is now).

connect and accept (`ConnectProofs`):

* `ConnectSocketsClosed` and `ConnectAttemptsInOrder`, from `ConnectInv`. They say nothing
  of whether the connection that is returned works, which `poll_connect_errno` and
  `tls_handshake_eof` show it need not. Both need the place of the loop in the list:
  `InOrder` (the addresses before the current one failed, those after it were not tried),
  `Attempt` and `Between` (what is open, and whose exception is kept, during and between attempts). The
  addresses of a host are different ones; nothing is assumed of their number.

TLS (`TlsProofs`):

* `TlsWireSafe`: `WireExact` and `FlushedBeforeAwait`. `WireExact` alone is not inductive.
  That a turn does not throw away what a flush still has to write needs `OpOK`: the buffer
  of `bio_read` holds something only in a flush, and the BIO nothing from a flush to the
  next call of OpenSSL. That OpenSSL appends to what it made before needs `UnitsOK`. Each
  step of OpenSSL (`Push`, `Make`, `Greet`, `Hear`, `SslRead`, `SslWrite`) is a lemma on
  `Good`, the same statement of the state inside `Turn`.
* `TlsTypeCorrect`: `TypeOK`, with the capacity of both BIOs, and `TlsBioFits`: `BioFits`.
  `BioInv` holds next to `ConnectInv` and `WireInv`: `Sized` (OpenSSL keeps less than a
  complete message, and a handshake has made its own units and no others), `Waits` (whoever
  awaits the socket has an empty BIO and, in a handshake, nothing left to push),
  `HandshakeDone` and `OfConnection` (a read or write belongs to a connection that was
  returned).
* `TlsSecureUnlessEnded`: `~eof /\ ~ssl.closed => ConnectedSecure`. `tls_handshake_eof`
  violates `ConnectedSecure`; this shows that the end of the stream and a close_notify, the
  two results of 0 of `service_operation`, are the only ways to do so.

Assumptions on the constants are named in the modules (`ConstantsAssumption`,
`KindAssumption`, `TlsAssumption`) and evaluated by the runs. They are that sizes are
positive numbers, that markers such as `NoDeadline` are not times, and for the bounds that
a read buffer exists and a handshake fits (`MaxMade > 1`: the hello and the finished).

Only model-checked are the liveness properties `DeadlineMet`, `HandleResumed`,
`ResumeAllEnds`, `ReadyServed`, `ReadReturns` and `OperationsEnd`: the prover has no support
for fairness and `ENABLED`.

## Not modelled

Windows branches; `run_batch` called by a coroutine of the same warden; the bytes that
the wardens read and write (those of `Stream` and `Tls` are modelled); two operations at
once on one TLS connection, which share its buffer and for which nothing in the repository
states a rule; the allocator, which forwards to another warden; single system calls that
throw on error and keep no state: the wrappers of `posix.cpp`, the synchronous
`write_some`, `create_socket` and `create_pipe`; the examples.

The helpers are not composed with the two wardens step by step: `Stream` and `Tls` use of
a warden what `IopLife` promises, one resumption per IOP with one of its outcomes, which
both wardens are shown to implement.

## Plan

The properties of the runs are proved as far as the prover reaches. What could be added:
two operations at once on one TLS connection, if the repository comes to state a rule for
it; `run_batch` from inside a coroutine; and an `io_uring_submit` that takes a part of the
ring.
