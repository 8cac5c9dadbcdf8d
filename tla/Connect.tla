------------------------------ MODULE Connect ------------------------------
(***************************************************************************)
(* The loops of convenience.cpp that are built on the IOPs of a warden:    *)
(* `connect` by host name, which tries the addresses of `addrinfo` one     *)
(* after the other under one deadline, and the stream of connections that  *)
(* `accept` makes of a listening socket.                                   *)
(*                                                                         *)
(* A call that is to be secured by TLS goes on with a handshake where a    *)
(* plain one returns; Tls adds those steps.                                *)
(***************************************************************************)
EXTENDS Integers, Sequences, SequencesExt

CONSTANTS
  Addr,        \* the addresses a host name may have
  Listening,   \* the one of them that the accept stream listens on
  Hosts,       \* what addrinfo may yield: sequences of addresses
  Secured,     \* may the program be a plain one (FALSE), one that uses TLS (TRUE)?
  Backend,     \* "poll" or "io_uring"
  Timeout,     \* the time out the application passes, if it passes one
  NoDeadline,  \* the empty optional<deadline>
  None,        \* no address
  MaxTime,     \* bound on the clock
  MaxBacklog   \* bound on the connections that wait to be accepted

EBADF == 9

ASSUME ConstantsAssumption ==
  /\ Listening \in Addr /\ None \notin Addr
  /\ Hosts \subseteq Seq(Addr)
  /\ \A hs \in Hosts : IsInjective(hs)
  /\ Secured \subseteq BOOLEAN
  /\ Backend \in {"poll", "io_uring"}
  /\ Timeout \in Nat \ {0} /\ NoDeadline \notin Nat
  /\ MaxTime \in Nat /\ MaxBacklog \in Nat \ {0}

VARIABLES
  now,       \* the steady clock
  call,      \* the connect in progress, or the last one
  sock,      \* the socket made for each address: open, refused (open too, but
             \* the poll warden took a refusal for a connection) or closed
  tried,     \* what came of the attempt at each address (history)
  listener,  \* the listening socket is open
  backlog,   \* connections that wait to be accepted
  stream     \* the accept stream, and the last value of its accept

dial   == <<call, sock, tried>>
server == <<listener, backlog, stream>>

Past(due) == due # NoDeadline /\ now >= due

(* A time out becomes a deadline once, as the call is entered.              *)
Due == {NoDeadline} \cup {t \in {now + Timeout} : t <= MaxTime}

-----------------------------------------------------------------------------
(* connect by host name.                                                   *)

Trying == {"next", "connecting", "handshake"}
Failed == {"error", "timeout"}

Cur == call.hosts[call.n]

(* getaddrinfo yields the addresses hs, ... *)
Lookup(hs, due) ==
  /\ call.op \in {"idle", "threw"}
  /\ call' = [op |-> "next", secure |-> call.secure, due |-> due,
              hosts |-> hs, n |-> 0, eptr |-> None]
  /\ sock' = [a \in Addr |-> "none"] /\ tried' = [a \in Addr |-> "no"]
  /\ UNCHANGED <<now, server>>

(* ... or fails, which throws out of the loop.                              *)
LookupFails ==
  /\ call.op = "idle"
  /\ call' = [call EXCEPT !.op = "threw", !.hosts = <<>>, !.n = 0, !.eptr = None]
  /\ sock' = [a \in Addr |-> "none"] /\ tried' = [a \in Addr |-> "no"]
  /\ UNCHANGED <<now, server>>

(* create_socket for the next address, and the connect that suspends.       *)
NextHost ==
  /\ call.op = "next" /\ call.n < Len(call.hosts)
  /\ call' = [call EXCEPT !.op = "connecting", !.n = @ + 1]
  /\ sock' = [sock EXCEPT ![call.hosts[call.n + 1]] = "open"]
  /\ UNCHANGED <<now, tried, server>>

(* create_socket throws: the exception is kept, the loop goes on.           *)
NoSocket ==
  /\ call.op = "next" /\ call.n < Len(call.hosts)
  /\ call' = [call EXCEPT !.n = @ + 1, !.eptr = call.hosts[call.n + 1]]
  /\ tried' = [tried EXCEPT ![call.hosts[call.n + 1]] = "error"]
  /\ UNCHANGED <<now, sock, server>>

(* The warden's connect does not throw: a plain call returns, a secure one  *)
(* goes on with its handshake.  The poll warden's may have been refused     *)
(* (ConnectReported in PollWarden).  A connection to the address of the     *)
(* accept stream needs its listener.                                        *)
Connected(s) ==
  LET served == s = "open" /\ Cur = Listening /\ ~call.secure
  IN /\ call.op = "connecting"
     /\ s = "refused" => Backend = "poll"
     /\ served => listener /\ backlog < MaxBacklog
     /\ call' = [call EXCEPT !.op = IF call.secure THEN "handshake" ELSE "returned"]
     /\ sock' = [sock EXCEPT ![Cur] = s]
     /\ tried' = IF call.secure THEN tried ELSE [tried EXCEPT ![Cur] = "returned"]
     /\ backlog' = IF served THEN backlog + 1 ELSE backlog
     /\ UNCHANGED <<now, listener, stream>>

(* Mutants of Caught: the first exception stays; the socket stays open.     *)
CaughtFirst(why) ==
  /\ call' = [call EXCEPT !.op = "next", !.eptr = IF @ = None THEN Cur ELSE @]
  /\ sock' = [sock EXCEPT ![Cur] = "closed"]
  /\ tried' = [tried EXCEPT ![Cur] = why]

CaughtOpen(why) ==
  /\ call' = [call EXCEPT !.op = "next", !.eptr = Cur]
  /\ tried' = [tried EXCEPT ![Cur] = why]
  /\ UNCHANGED sock

(* The catch of the loop: the exception is kept for the end, and the socket *)
(* is closed by the destructor of posix::fd.                                *)
Caught(why) ==
  /\ call' = [call EXCEPT !.op = "next", !.eptr = Cur]
  /\ sock' = [sock EXCEPT ![Cur] = "closed"]
  /\ tried' = [tried EXCEPT ![Cur] = why]

ConnectFails ==
  /\ call.op = "connecting"
  /\ Caught("error")
  /\ UNCHANGED <<now, server>>

ConnectTimesOut ==
  /\ call.op = "connecting" /\ Past(call.due)
  /\ Caught("timeout")
  /\ UNCHANGED <<now, server>>

(* No address is left: the last exception, or "No host found".              *)
Exhausted ==
  /\ call.op = "next" /\ call.n = Len(call.hosts)
  /\ call' = [call EXCEPT !.op = "threw"]
  /\ UNCHANGED <<now, sock, tried, server>>

(* The application drops the connection: posix::fd closes its descriptor.   *)
Drop ==
  /\ call.op = "returned"
  /\ call' = [call EXCEPT !.op = "idle"]
  /\ sock' = [sock EXCEPT ![Cur] = "closed"]
  /\ UNCHANGED <<now, tried, server>>

-----------------------------------------------------------------------------
(* The accept stream.  A co_await of its next value runs it to the accept.  *)

AcceptNext ==
  /\ stream.at \in {"idle", "yielded"}
  /\ stream' = [stream EXCEPT !.at = "accepting"]
  /\ UNCHANGED <<now, dial, listener, backlog>>

(* What the stream does with the value s of an accept. *)
Yield(s) == [at |-> CASE s >= 0  -> "yielded"
                      [] s < 0 /\ s # -EBADF -> "threw"
                      [] OTHER -> "ended",
             s  |-> s]

Accepted ==
  /\ stream.at = "accepting"
  /\ backlog > 0
  /\ backlog' = backlog - 1
  /\ stream' = Yield(1)
  /\ UNCHANGED <<now, dial, listener>>

(* accept fails: the exception leaves the stream.  A closed descriptor is   *)
(* an error of io_uring's accept, but the poll warden's makes it the value  *)
(* -1 of the system call.                                                   *)
AcceptFails ==
  /\ stream.at = "accepting"
  /\ stream' = IF ~listener /\ Backend = "poll" THEN Yield(-1)
               ELSE [stream EXCEPT !.at = "threw"]
  /\ UNCHANGED <<now, dial, listener, backlog>>

(* The listening socket is closed; what is in its backlog goes with it, but *)
(* an accept that io_uring has under way keeps the socket.                  *)
CloseListener ==
  /\ listener
  /\ listener' = FALSE
  /\ backlog' = IF Backend = "io_uring" /\ stream.at = "accepting" THEN backlog ELSE 0
  /\ UNCHANGED <<now, dial, stream>>

-----------------------------------------------------------------------------
(* Time passes, whatever is due: no warden holds the clock. *)
Tick ==
  /\ now < MaxTime
  /\ now' = now + 1
  /\ UNCHANGED <<dial, server>>

(* The program is a plain one, which also has the accept stream, or it is a *)
(* client that secures its connections.                                     *)
ConnectInit ==
  \E secure \in Secured :
    /\ now = 0
    /\ call = [op |-> "idle", secure |-> secure, due |-> NoDeadline,
               hosts |-> <<>>, n |-> 0, eptr |-> None]
    /\ sock = [a \in Addr |-> "none"] /\ tried = [a \in Addr |-> "no"]
    /\ listener = ~secure /\ backlog = 0
    /\ stream = [at |-> IF secure THEN "none" ELSE "idle", s |-> 0]

-----------------------------------------------------------------------------
(* Properties.                                                             *)

(* A descriptor that is not closed. *)
Held == {"open", "refused"}

(* Of the sockets that the attempts open, only that of the attempt in       *)
(* progress or of the connection returned is open: every exception on the   *)
(* way, also one out of the handshake, closes its own.                      *)
SocketsClosed ==
  \A a \in Addr : sock[a] \in Held =>
    /\ call.op \in {"connecting", "handshake", "returned"}
    /\ a = Cur

(* The order of the attempts, in the loops of connect and of tls::connect:  *)
(* a connection is returned from the first attempt that does not throw, its *)
(* handshake included, so that every address before it threw, none after it *)
(* was tried, and its socket is still held; if all throw, the exception is  *)
(* that of the last one.  That an attempt which does not throw also works   *)
(* is another matter, which ConnectReported and ConnectedSecure are about.  *)
AttemptsInOrder ==
  LET Result(k) == tried[call.hosts[k]]
  IN /\ call.op = "returned" =>
          /\ sock[Cur] \in Held /\ Result(call.n) = "returned"
          /\ \A k \in 1 .. call.n - 1 : Result(k) \in Failed
          /\ \A k \in call.n + 1 .. Len(call.hosts) : Result(k) = "no"
     /\ call.op = "threw" /\ call.hosts # <<>> =>
          /\ \A k \in 1 .. Len(call.hosts) : Result(k) \in Failed
          /\ call.eptr = Last(call.hosts)
=============================================================================
