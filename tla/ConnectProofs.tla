--------------------------- MODULE ConnectProofs ----------------------------
(***************************************************************************)
(* Proofs about connect and the accept stream, in a program that secures   *)
(* its connections by TLS or does not, for any lists of addresses and any  *)
(* handshake: the sockets of attempts that failed are closed, and the      *)
(* connection returned is that of the first attempt that does not throw.   *)
(***************************************************************************)
EXTENDS Tls, SeqLemmas

-----------------------------------------------------------------------------
(* The inductive invariant of the loop over the addresses.                 *)

(* What is kept of a call of connect. *)
ConnectCall == [op : {"idle", "threw", "returned"} \cup Trying, secure : BOOLEAN,
                due : Nat \cup {NoDeadline}, hosts : Hosts \cup {<<>>}, n : Nat,
                eptr : Addr \cup {None}]

(* The loop over the addresses has its types. *)
DialTypes ==
  /\ call \in ConnectCall
  /\ sock \in [Addr -> {"none", "closed"} \cup Held]
  /\ tried \in [Addr -> {"no", "returned"} \cup Failed]

(* Every address before that of the attempt in progress failed, and none    *)
(* after it was tried.                                                      *)
InOrder ==
  /\ call.n <= Len(call.hosts)
  /\ \A k \in 1 .. Len(call.hosts) :
       /\ k < call.n => tried[call.hosts[k]] \in Failed
       /\ k > call.n => tried[call.hosts[k]] = "no"

(* The attempt in progress holds its socket; ... *)
Attempt ==
  call.op \in {"connecting", "handshake", "returned"} =>
    /\ call.n > 0 /\ sock[Cur] \in Held
    /\ call.op = "returned" => tried[Cur] = "returned"

(* ... when there is none, the last one failed and its exception is kept.   *)
Between ==
  call.op \in {"next", "threw"} =>
    /\ call.n > 0 => tried[Cur] \in Failed /\ call.eptr = Cur
    /\ call.op = "threw" => call.n = Len(call.hosts)

(* A handshake is that of the attempt in progress. *)
HandshakeOfCall == op.what = "connect" => call.op = "handshake"

(* SocketsClosed and AttemptsInOrder are not inductive alone: that a failed  *)
(* attempt leaves nothing open, and that the next one was not tried before, *)
(* need the place of the loop in the list of addresses.                     *)
DialInv ==
  DialTypes /\ InOrder /\ Attempt /\ Between /\ SocketsClosed /\ HandshakeOfCall

(* The addresses of a host name are different ones. *)
LEMMA Addresses ==
  ASSUME DialTypes
  PROVE  /\ call.n \in Nat /\ call.hosts \in Seq(Addr) /\ Len(call.hosts) \in Nat
         /\ \A k \in 1 .. Len(call.hosts) : call.hosts[k] \in Addr
         /\ \A k, l \in 1 .. Len(call.hosts) : call.hosts[k] = call.hosts[l] => k = l
<1>1. call.n \in Nat /\ call.hosts \in Hosts \cup {<<>>}
  BY DEF DialTypes, ConnectCall
<1>2. call.hosts \in Seq(Addr) /\ IsInjective(call.hosts)
  <2>1. CASE call.hosts \in Hosts
    BY <2>1, ConstantsAssumption
  <2>2. CASE call.hosts = <<>>
    <3>1. <<>> \in Seq(Addr) /\ IsInjective(<<>>)
      BY EmptySeq DEF IsInjective
    <3> QED
      BY <2>2, <3>1
  <2> QED
    BY <1>1, <2>1, <2>2
<1>3. /\ Len(call.hosts) \in Nat /\ DOMAIN call.hosts = 1 .. Len(call.hosts)
      /\ \A k \in 1 .. Len(call.hosts) : call.hosts[k] \in Addr
  BY <1>2, LenProperties, ElementOfSeq
<1> QED
  BY <1>1, <1>2, <1>3 DEF IsInjective

(* The loop is where it was. *)
LEMMA DialKept ==
  ASSUME DialInv, UNCHANGED dial, op'.what = "connect" => op.what = "connect"
  PROVE  DialInv'
<1>1. call' = call /\ sock' = sock /\ tried' = tried
  BY DEF dial
<1> QED
  BY <1>1 DEF DialInv, DialTypes, InOrder, Attempt, Between, SocketsClosed,
              HandshakeOfCall, Cur

(* A time out is a deadline, or there is none. *)
LEMMA DueTypes ==
  ASSUME now \in Nat, NEW due \in Due
  PROVE  due \in Nat \cup {NoDeadline}
  BY ConstantsAssumption DEF Due

(* Before the first address nothing is open and nothing was tried. *)
LEMMA DialStarts ==
  ASSUME call' \in ConnectCall, call'.op \in {"idle", "next", "threw"}, call'.n = 0,
         call'.op = "threw" => call'.hosts = <<>>,
         sock' = [a \in Addr |-> "none"], tried' = [a \in Addr |-> "no"],
         op'.what # "connect"
  PROVE  DialInv'
<1>1. DialTypes'
  BY DEF DialTypes, Failed
<1>2. /\ Len(call'.hosts) \in Nat
      /\ \A k \in 1 .. Len(call'.hosts) : call'.hosts[k] \in Addr
  <2>1. call'.hosts \in Hosts \cup {<<>>}
    BY DEF ConnectCall
  <2>2. call'.hosts \in Seq(Addr)
    BY <2>1, ConstantsAssumption, EmptySeq
  <2> QED
    BY <2>2, LenProperties, ElementOfSeq
<1>3. InOrder'
  BY <1>2 DEF InOrder
<1>4. Attempt' /\ SocketsClosed' /\ HandshakeOfCall'
  BY DEF Attempt, SocketsClosed, HandshakeOfCall, Held
<1>5. Between'
  <2>1. call'.op = "threw" => Len(call'.hosts) = 0
    BY EmptySeq
  <2> QED
    BY <2>1 DEF Between
<1> QED
  BY <1>1, <1>3, <1>4, <1>5 DEF DialInv

(* The next address, with a socket or without one. *)
LEMMA NextHostStep ==
  ASSUME DialInv, NextHost, op' = op
  PROVE  DialInv'
<1> DEFINE m == call.n + 1
           a == call.hosts[m]
<1>1. /\ call.n \in Nat /\ Len(call.hosts) \in Nat
      /\ \A k \in 1 .. Len(call.hosts) : call.hosts[k] \in Addr
      /\ \A k, l \in 1 .. Len(call.hosts) : call.hosts[k] = call.hosts[l] => k = l
  BY Addresses DEF DialInv
<1>2. /\ call.op = "next" /\ call.n < Len(call.hosts) /\ tried' = tried
      /\ call' = [call EXCEPT !.op = "connecting", !.n = m]
      /\ sock' = [sock EXCEPT ![a] = "open"]
  BY DEF NextHost
<1>3. m \in 1 .. Len(call.hosts) /\ m \in Nat /\ m > 0
  BY <1>1, <1>2
<1>4. a \in Addr
  BY <1>1, <1>3
<1> HIDE DEF m
<1>5. /\ call' \in ConnectCall /\ call'.op = "connecting" /\ call'.n = m
      /\ call'.hosts = call.hosts
  BY <1>2, <1>3 DEF DialInv, DialTypes, ConnectCall, Trying
<1>6. DialTypes'
  BY <1>2, <1>4, <1>5 DEF DialInv, DialTypes, Held
<1>7. InOrder'
  <2>1. m <= Len(call.hosts)
    BY <1>1, <1>3
  <2>2. ASSUME NEW k \in 1 .. Len(call.hosts), k < m PROVE tried[call.hosts[k]] \in Failed
    <3>1. k < call.n \/ (k = call.n /\ call.n > 0)
      BY <1>1, <2>2 DEF m
    <3> QED
      BY <1>2, <3>1 DEF DialInv, InOrder, Between, Cur
  <2>3. ASSUME NEW k \in 1 .. Len(call.hosts), k > m PROVE tried[call.hosts[k]] = "no"
    <3>1. k > call.n
      BY <1>1, <2>3 DEF m
    <3> QED
      BY <3>1 DEF DialInv, InOrder
  <2> QED
    BY <1>2, <1>5, <2>1, <2>2, <2>3 DEF InOrder
<1>8. /\ sock'[a] = "open" /\ sock'[a] \in Held
      /\ \A b \in Addr \ {a} : sock'[b] = sock[b]
  BY <1>2, <1>4 DEF DialInv, DialTypes, Held
<1>9. Cur' = a
  BY <1>5 DEF Cur
<1>10. Attempt' /\ Between'
  BY <1>3, <1>5, <1>8, <1>9 DEF Attempt, Between
<1>11. SocketsClosed'
  BY <1>2, <1>5, <1>8, <1>9 DEF DialInv, SocketsClosed
<1>12. HandshakeOfCall'
  BY <1>2 DEF DialInv, HandshakeOfCall
<1> QED
  BY <1>6, <1>7, <1>10, <1>11, <1>12 DEF DialInv

(* An address whose socket cannot be made counts as one that failed. *)
LEMMA NoSocketStep ==
  ASSUME DialInv, NoSocket, op' = op
  PROVE  DialInv'
<1> DEFINE m == call.n + 1
           a == call.hosts[m]
<1>1. /\ call.n \in Nat /\ Len(call.hosts) \in Nat
      /\ \A k \in 1 .. Len(call.hosts) : call.hosts[k] \in Addr
      /\ \A k, l \in 1 .. Len(call.hosts) : call.hosts[k] = call.hosts[l] => k = l
  BY Addresses DEF DialInv
<1>2. /\ call.op = "next" /\ call.n < Len(call.hosts) /\ sock' = sock
      /\ call' = [call EXCEPT !.n = m, !.eptr = a]
      /\ tried' = [tried EXCEPT ![a] = "error"]
  BY DEF NoSocket
<1>3. m \in 1 .. Len(call.hosts) /\ m \in Nat /\ m > 0
  BY <1>1, <1>2
<1>4. a \in Addr
  BY <1>1, <1>3
<1>5. \A k \in 1 .. Len(call.hosts) : k # m => call.hosts[k] # a
  BY <1>1, <1>3
<1> HIDE DEF m, a
<1>6. /\ call' \in ConnectCall /\ call'.op = "next" /\ call'.n = m
      /\ call'.hosts = call.hosts /\ call'.eptr = a
  BY <1>2, <1>3, <1>4 DEF DialInv, DialTypes, ConnectCall
<1>7. /\ tried' \in [Addr -> {"no", "returned"} \cup Failed] /\ tried'[a] = "error"
      /\ \A b \in Addr : b # a => tried'[b] = tried[b]
  BY <1>2, <1>4 DEF DialInv, DialTypes, Failed
<1>8. DialTypes'
  BY <1>2, <1>6, <1>7 DEF DialInv, DialTypes
<1>9. InOrder'
  <2>1. m <= Len(call.hosts)
    BY <1>1, <1>3
  <2>2. ASSUME NEW k \in 1 .. Len(call.hosts), k < m PROVE tried'[call.hosts[k]] \in Failed
    <3>1. (k < call.n \/ (k = call.n /\ call.n > 0)) /\ k # m
      BY <1>1, <2>2 DEF m
    <3>2. tried[call.hosts[k]] \in Failed
      BY <1>2, <3>1 DEF DialInv, InOrder, Between, Cur
    <3> QED
      BY <1>1, <1>5, <1>7, <3>1, <3>2
  <2>3. ASSUME NEW k \in 1 .. Len(call.hosts), k > m PROVE tried'[call.hosts[k]] = "no"
    <3>1. k > call.n /\ k # m
      BY <1>1, <2>3 DEF m
    <3>2. tried[call.hosts[k]] = "no"
      BY <3>1 DEF DialInv, InOrder
    <3> QED
      BY <1>1, <1>5, <1>7, <3>1, <3>2
  <2> QED
    BY <1>6, <2>1, <2>2, <2>3 DEF InOrder
<1>10. Cur' = a
  BY <1>6 DEF Cur, a
<1>11. Attempt' /\ Between'
  BY <1>6, <1>7, <1>10 DEF Attempt, Between, Failed
<1>12. SocketsClosed'
  BY <1>2 DEF DialInv, SocketsClosed
<1>13. HandshakeOfCall'
  BY <1>2 DEF DialInv, HandshakeOfCall
<1> QED
  BY <1>8, <1>9, <1>11, <1>12, <1>13 DEF DialInv

(* The address of the attempt in progress, which the others differ from. *)
LEMMA Current ==
  ASSUME DialInv, call.op \in {"connecting", "handshake", "returned"}
  PROVE  /\ call.n \in 1 .. Len(call.hosts) /\ Cur \in Addr
         /\ \A k \in 1 .. Len(call.hosts) :
              call.hosts[k] \in Addr /\ (k # call.n => call.hosts[k] # Cur)
<1>1. /\ call.n \in Nat /\ Len(call.hosts) \in Nat
      /\ \A k \in 1 .. Len(call.hosts) : call.hosts[k] \in Addr
      /\ \A k, l \in 1 .. Len(call.hosts) : call.hosts[k] = call.hosts[l] => k = l
  BY Addresses DEF DialInv
<1>2. call.n > 0 /\ call.n <= Len(call.hosts)
  BY DEF DialInv, Attempt, InOrder
<1>3. call.n \in 1 .. Len(call.hosts)
  BY <1>1, <1>2
<1> QED
  BY <1>1, <1>3 DEF Cur

(* An attempt fails: its socket is closed and its exception is kept. *)
LEMMA CaughtStep ==
  ASSUME DialInv, call.op \in {"connecting", "handshake"}, NEW why \in Failed,
         Caught(why), op'.what # "connect"
  PROVE  DialInv'
<1>1. /\ call.n \in 1 .. Len(call.hosts) /\ Cur \in Addr
      /\ \A k \in 1 .. Len(call.hosts) :
           call.hosts[k] \in Addr /\ (k # call.n => call.hosts[k] # Cur)
  BY Current
<1>2. /\ call' = [call EXCEPT !.op = "next", !.eptr = Cur]
      /\ sock' = [sock EXCEPT ![Cur] = "closed"]
      /\ tried' = [tried EXCEPT ![Cur] = why]
  BY DEF Caught
<1>3. /\ call' \in ConnectCall /\ call'.op = "next" /\ call'.n = call.n
      /\ call'.hosts = call.hosts /\ call'.eptr = Cur
  BY <1>1, <1>2 DEF DialInv, DialTypes, ConnectCall, Trying
<1>4. Cur' = Cur
  BY <1>3 DEF Cur
<1>5. /\ tried' \in [Addr -> {"no", "returned"} \cup Failed] /\ tried'[Cur] = why
      /\ \A b \in Addr : b # Cur => tried'[b] = tried[b]
  BY <1>1, <1>2 DEF DialInv, DialTypes
<1>6. /\ sock' \in [Addr -> {"none", "closed"} \cup Held] /\ sock'[Cur] = "closed"
      /\ \A b \in Addr : b # Cur => sock'[b] = sock[b]
  BY <1>1, <1>2 DEF DialInv, DialTypes
<1>7. DialTypes'
  BY <1>3, <1>5, <1>6 DEF DialTypes
<1>8. InOrder'
  <2>1. \A k \in 1 .. Len(call.hosts) : k # call.n =>
          tried'[call.hosts[k]] = tried[call.hosts[k]]
    BY <1>1, <1>5
  <2>2. \A k \in 1 .. Len(call.hosts) : (k < call.n \/ k > call.n) => k # call.n
    BY <1>1
  <2> QED
    BY <1>3, <2>1, <2>2 DEF DialInv, InOrder
<1>9. Attempt' /\ Between'
  BY <1>3, <1>4, <1>5 DEF Attempt, Between
<1>10. SocketsClosed'
  BY <1>6 DEF DialInv, SocketsClosed, Held
<1> QED
  BY <1>7, <1>8, <1>9, <1>10 DEF DialInv, HandshakeOfCall

(* The warden's connect does not throw: the call returns, or goes on with a *)
(* handshake.                                                               *)
LEMMA ConnectedStep ==
  ASSUME DialInv, NEW s \in Held, Connected(s), op'.what = "connect" => call.secure
  PROVE  DialInv'
<1>0. call.op = "connecting"
  BY DEF Connected
<1>1. /\ call.n \in 1 .. Len(call.hosts) /\ Cur \in Addr
      /\ \A k \in 1 .. Len(call.hosts) :
           call.hosts[k] \in Addr /\ (k # call.n => call.hosts[k] # Cur)
  BY <1>0, Current
<1>2. /\ call' = [call EXCEPT !.op = IF call.secure THEN "handshake" ELSE "returned"]
      /\ sock' = [sock EXCEPT ![Cur] = s]
      /\ tried' = IF call.secure THEN tried ELSE [tried EXCEPT ![Cur] = "returned"]
  BY DEF Connected
<1>3. /\ call' \in ConnectCall /\ call'.op \in {"handshake", "returned"}
      /\ (call.secure <=> call'.op = "handshake")
      /\ call'.n = call.n /\ call'.hosts = call.hosts
  BY <1>1, <1>2 DEF DialInv, DialTypes, ConnectCall, Trying
<1>4. Cur' = Cur
  BY <1>3 DEF Cur
<1>5. /\ tried' \in [Addr -> {"no", "returned"} \cup Failed]
      /\ ~call.secure => tried'[Cur] = "returned"
      /\ \A b \in Addr : b # Cur => tried'[b] = tried[b]
  BY <1>1, <1>2 DEF DialInv, DialTypes
<1>11. /\ sock' \in [Addr -> {"none", "closed"} \cup Held] /\ sock'[Cur] \in Held
       /\ \A b \in Addr : b # Cur => sock'[b] = sock[b]
  BY <1>1, <1>2 DEF DialInv, DialTypes
<1>6. DialTypes'
  BY <1>3, <1>5, <1>11 DEF DialTypes
<1>7. InOrder'
  <2>1. \A k \in 1 .. Len(call.hosts) : k # call.n =>
          tried'[call.hosts[k]] = tried[call.hosts[k]]
    BY <1>1, <1>5
  <2>2. \A k \in 1 .. Len(call.hosts) : (k < call.n \/ k > call.n) => k # call.n
    BY <1>1
  <2> QED
    BY <1>3, <2>1, <2>2 DEF DialInv, InOrder
<1>8. Attempt' /\ Between'
  BY <1>0, <1>3, <1>4, <1>5, <1>11 DEF DialInv, Attempt, Between
<1>9. SocketsClosed'
  BY <1>0, <1>3, <1>4, <1>11 DEF DialInv, SocketsClosed
<1>10. HandshakeOfCall'
  BY <1>3 DEF HandshakeOfCall
<1> QED
  BY <1>6, <1>7, <1>8, <1>9, <1>10 DEF DialInv

(* A handshake is over, and the call returns. *)
LEMMA ReturnedStep ==
  ASSUME DialInv, call.op = "handshake", call' = [call EXCEPT !.op = "returned"],
         tried' = [tried EXCEPT ![Cur] = "returned"], sock' = sock,
         op'.what # "connect"
  PROVE  DialInv'
<1>0. /\ call.n \in 1 .. Len(call.hosts) /\ Cur \in Addr
      /\ \A k \in 1 .. Len(call.hosts) :
           call.hosts[k] \in Addr /\ (k # call.n => call.hosts[k] # Cur)
  BY Current
<1>1. /\ call' \in ConnectCall /\ call'.op = "returned"
      /\ call'.n = call.n /\ call'.hosts = call.hosts
  BY DEF DialInv, DialTypes, ConnectCall
<1>2. Cur' = Cur
  BY <1>1 DEF Cur
<1>3. /\ tried' \in [Addr -> {"no", "returned"} \cup Failed] /\ tried'[Cur] = "returned"
      /\ \A b \in Addr : b # Cur => tried'[b] = tried[b]
  BY <1>0 DEF DialInv, DialTypes
<1>4. DialTypes'
  BY <1>1, <1>3 DEF DialInv, DialTypes
<1>5. InOrder'
  <2>1. \A k \in 1 .. Len(call.hosts) : k # call.n =>
          tried'[call.hosts[k]] = tried[call.hosts[k]]
    BY <1>0, <1>3
  <2>2. \A k \in 1 .. Len(call.hosts) : (k < call.n \/ k > call.n) => k # call.n
    BY <1>0
  <2> QED
    BY <1>1, <2>1, <2>2 DEF DialInv, InOrder
<1> QED
  BY <1>1, <1>2, <1>3, <1>4, <1>5
     DEF DialInv, Attempt, Between, SocketsClosed, HandshakeOfCall

(* No address is left. *)
LEMMA ExhaustedStep ==
  ASSUME DialInv, Exhausted, op' = op
  PROVE  DialInv'
<1>1. /\ call.op = "next" /\ call.n = Len(call.hosts) /\ sock' = sock /\ tried' = tried
      /\ call' = [call EXCEPT !.op = "threw"]
  BY DEF Exhausted
<1>2. /\ call' \in ConnectCall /\ call'.op = "threw" /\ call'.eptr = call.eptr
      /\ call'.n = call.n /\ call'.hosts = call.hosts
  BY <1>1 DEF DialInv, DialTypes, ConnectCall
<1>3. Cur' = Cur
  BY <1>2 DEF Cur
<1>4. DialTypes' /\ InOrder'
  BY <1>1, <1>2 DEF DialInv, DialTypes, InOrder
<1> QED
  BY <1>1, <1>2, <1>3, <1>4
     DEF DialInv, Attempt, Between, SocketsClosed, HandshakeOfCall

(* The connection is dropped, and its socket with it. *)
LEMMA DropStep ==
  ASSUME DialInv, Drop, op' = op, op.what # "connect"
  PROVE  DialInv'
<1>0. call.op = "returned" /\ tried' = tried
      /\ call' = [call EXCEPT !.op = "idle"] /\ sock' = [sock EXCEPT ![Cur] = "closed"]
  BY DEF Drop
<1>1. Cur \in Addr
  BY <1>0, Current
<1>2. /\ call' \in ConnectCall /\ call'.op = "idle"
      /\ call'.n = call.n /\ call'.hosts = call.hosts
  BY <1>0 DEF DialInv, DialTypes, ConnectCall
<1>3. /\ sock' \in [Addr -> {"none", "closed"} \cup Held] /\ sock'[Cur] = "closed"
      /\ \A b \in Addr : b # Cur => sock'[b] = sock[b]
  BY <1>0, <1>1 DEF DialInv, DialTypes
<1>4. DialTypes' /\ InOrder'
  BY <1>0, <1>2, <1>3 DEF DialInv, DialTypes, InOrder
<1>5. SocketsClosed'
  BY <1>3 DEF DialInv, SocketsClosed, Held
<1> QED
  BY <1>2, <1>4, <1>5 DEF DialInv, Attempt, Between, HandshakeOfCall

(* An operation on the connection ends; only a handshake is of the loop. *)
LEMMA EndsStep ==
  ASSUME DialInv, NEW as, as \in Failed \cup {"ok", "zero"}, Ends(as)
  PROVE  DialInv'
<1>1. op'.what # "connect"
  BY DEF Ends, Idle
<1>2. CASE op.what # "connect"
  BY <1>1, <1>2, DialKept DEF Ends
<1>3. CASE op.what = "connect" /\ as \in Failed
  <2>1. call.op = "handshake" /\ Caught(as)
    BY <1>3 DEF Ends, DialInv, HandshakeOfCall
  <2> QED
    BY <1>1, <1>3, <2>1, CaughtStep
<1>4. CASE op.what = "connect" /\ as \notin Failed
  <2>1. /\ call.op = "handshake" /\ call' = [call EXCEPT !.op = "returned"]
        /\ tried' = [tried EXCEPT ![Cur] = "returned"] /\ sock' = sock
    BY <1>4 DEF Ends, DialInv, HandshakeOfCall
  <2> QED
    BY <1>1, <2>1, ReturnedStep
<1> QED
  BY <1>2, <1>3, <1>4

-----------------------------------------------------------------------------
(* The clock and the accept stream.                                        *)

(* The accept stream has its type ... *)
Stream == [at : {"none", "idle", "accepting", "yielded", "threw", "ended"}, s : Int]

(* ... and the clock and the backlog stay within their bounds. *)
ServerInv ==
  /\ now \in 0 .. MaxTime
  /\ listener \in BOOLEAN /\ backlog \in 0 .. MaxBacklog
  /\ stream \in Stream

(* A step of the client leaves the accept stream alone. *)
LEMMA ServerKept ==
  ASSUME ServerInv, UNCHANGED <<now, server>>
  PROVE  ServerInv'
  BY DEF ServerInv, server

(* A connection waits to be accepted. *)
LEMMA ConnectedServer ==
  ASSUME ServerInv, NEW s, Connected(s)
  PROVE  ServerInv'
<1> DEFINE served == s = "open" /\ Cur = Listening /\ ~call.secure
<1>1. /\ backlog' = IF served THEN backlog + 1 ELSE backlog
      /\ UNCHANGED <<now, listener, stream>>
      /\ served => backlog < MaxBacklog
  BY DEF Connected
<1>2. backlog \in 0 .. MaxBacklog /\ MaxBacklog \in Nat
  BY ConstantsAssumption DEF ServerInv
<1>3. backlog' \in 0 .. MaxBacklog
  <2>1. CASE served
    BY <1>1, <1>2, <2>1
  <2>2. CASE ~served
    BY <1>1, <1>2, <2>2
  <2> QED
    BY <2>1, <2>2
<1> QED
  BY <1>1, <1>3 DEF ServerInv

(* Whatever accept returned, the stream is in one of its states. *)
LEMMA YieldTypes ==
  ASSUME NEW s \in Int
  PROVE  Yield(s) \in Stream
<1>1. CASE s >= 0
  BY <1>1 DEF Yield, Stream
<1>2. CASE ~(s >= 0) /\ s # -EBADF
  <2>1. s < 0
    BY <1>2
  <2> QED
    BY <1>2, <2>1 DEF Yield, Stream
<1>3. CASE ~(s >= 0) /\ s = -EBADF
  BY <1>3 DEF Yield, Stream
<1> QED
  BY <1>1, <1>2, <1>3

(* The steps of the accept stream, which leave connect alone. *)
LEMMA AcceptStep ==
  ASSUME ServerInv, AcceptNext \/ Accepted \/ AcceptFails \/ CloseListener
  PROVE  ServerInv' /\ UNCHANGED dial
<1>0. backlog \in 0 .. MaxBacklog /\ MaxBacklog \in Nat /\ 0 \in 0 .. MaxBacklog
  BY ConstantsAssumption DEF ServerInv
<1>1. CASE AcceptNext
  <2>1. /\ stream' \in Stream /\ stream'.at = "accepting"
        /\ UNCHANGED <<now, dial, listener, backlog>>
    BY <1>1 DEF AcceptNext, ServerInv, Stream
  <2> QED
    BY <2>1 DEF ServerInv
<1>2. CASE Accepted
  <2>1. /\ stream' = Yield(1) /\ 1 \in Int /\ UNCHANGED <<now, dial, listener>>
        /\ backlog > 0 /\ backlog' = backlog - 1
    BY <1>2 DEF Accepted
  <2>2. backlog' \in 0 .. MaxBacklog
    BY <1>0, <2>1
  <2>3. stream' \in Stream
    BY <2>1, YieldTypes
  <2> QED
    BY <2>1, <2>2, <2>3 DEF ServerInv
<1>3. CASE AcceptFails
  <2>1. /\ stream' = Yield(-1) \/ stream' = [stream EXCEPT !.at = "threw"]
        /\ UNCHANGED <<now, dial, listener, backlog>>
    BY <1>3 DEF AcceptFails
  <2>2. CASE stream' = Yield(-1)
    <3>1. -1 \in Int
      OBVIOUS
    <3>2. stream' \in Stream
      BY <2>2, <3>1, YieldTypes
    <3> QED
      BY <2>1, <3>2 DEF ServerInv
  <2>3. CASE stream' = [stream EXCEPT !.at = "threw"]
    <3>1. stream' \in Stream /\ stream'.at = "threw"
      BY <2>3 DEF ServerInv, Stream
    <3> QED
      BY <2>1, <3>1 DEF ServerInv
  <2> QED
    BY <2>1, <2>2, <2>3
<1>4. CASE CloseListener
  <2>1. listener' = FALSE /\ UNCHANGED <<now, dial, stream>> /\ backlog' \in {backlog, 0}
    BY <1>4 DEF CloseListener
  <2>2. backlog' \in 0 .. MaxBacklog
    BY <1>0, <2>1
  <2> QED
    BY <2>1, <2>2 DEF ServerInv
<1> QED
  BY <1>1, <1>2, <1>3, <1>4

-----------------------------------------------------------------------------
(* The inductive invariant of both loops of convenience.cpp. *)
ConnectInv == DialInv /\ ServerInv

(* Nothing was tried and nothing is open at the start. *)
LEMMA ConnectInvInit == Init => ConnectInv
<1> SUFFICES ASSUME Init PROVE ConnectInv
  OBVIOUS
<1>1. PICK secure \in Secured :
        /\ now = 0
        /\ call = [op |-> "idle", secure |-> secure, due |-> NoDeadline,
                   hosts |-> <<>>, n |-> 0, eptr |-> None]
        /\ sock = [a \in Addr |-> "none"] /\ tried = [a \in Addr |-> "no"]
        /\ listener = ~secure /\ backlog = 0
        /\ stream = [at |-> IF secure THEN "none" ELSE "idle", s |-> 0]
  BY DEF Init, ConnectInit
<1>2. secure \in BOOLEAN
  BY ConstantsAssumption
<1>3. call \in ConnectCall /\ call.op = "idle" /\ call.n = 0 /\ call.hosts = <<>>
  BY <1>1, <1>2 DEF ConnectCall
<1>4. DialTypes
  BY <1>1, <1>3 DEF DialTypes
<1>5. InOrder
  <2>1. Len(call.hosts) = 0
    BY <1>3, EmptySeq
  <2> QED
    BY <1>3, <2>1 DEF InOrder
<1>6. Attempt /\ Between /\ SocketsClosed
  BY <1>1, <1>3 DEF Attempt, Between, SocketsClosed, Held
<1>7. HandshakeOfCall
  BY DEF Init, Idle, HandshakeOfCall
<1>8. now \in 0 .. MaxTime /\ backlog \in 0 .. MaxBacklog
  <2>1. 0 \in 0 .. MaxTime /\ 0 \in 0 .. MaxBacklog
    BY ConstantsAssumption
  <2> QED
    BY <1>1, <2>1
<1>9. listener \in BOOLEAN
  BY <1>1, <1>2
<1>10. stream \in Stream /\ stream.at # "yielded"
  BY <1>1 DEF Stream
<1> QED
  BY <1>4, <1>5, <1>6, <1>7, <1>8, <1>9, <1>10
     DEF ConnectInv, DialInv, ServerInv

(* The steps that connect and accept make without TLS. *)
LEMMA PlainStep ==
  ASSUME ConnectInv, Plain, op' = op
  PROVE  ConnectInv'
<1>0. DialInv /\ ServerInv /\ now \in Nat /\ call \in ConnectCall
  BY DEF ConnectInv, ServerInv, DialInv, DialTypes
<1>1. ASSUME NEW hs \in Hosts, NEW due \in Due, Lookup(hs, due) PROVE ConnectInv'
  <2>1. /\ call.op \in {"idle", "threw"}
        /\ call' = [op |-> "next", secure |-> call.secure, due |-> due,
                    hosts |-> hs, n |-> 0, eptr |-> None]
        /\ sock' = [a \in Addr |-> "none"] /\ tried' = [a \in Addr |-> "no"]
        /\ UNCHANGED <<now, server>>
    BY <1>1 DEF Lookup
  <2>2. due \in Nat \cup {NoDeadline} /\ call.secure \in BOOLEAN
    BY <1>0, DueTypes DEF ConnectCall
  <2>3. call' \in ConnectCall /\ call'.op = "next" /\ call'.n = 0
    BY <2>1, <2>2 DEF ConnectCall, Trying
  <2>4. op'.what # "connect"
    BY <1>0, <2>1 DEF DialInv, HandshakeOfCall
  <2>5. DialInv'
    BY <2>1, <2>3, <2>4, DialStarts
  <2> QED
    BY <1>0, <2>1, <2>5, ServerKept DEF ConnectInv
<1>2. CASE LookupFails
  <2>1. /\ call.op = "idle"
        /\ call' = [call EXCEPT !.op = "threw", !.hosts = <<>>, !.n = 0, !.eptr = None]
        /\ sock' = [a \in Addr |-> "none"] /\ tried' = [a \in Addr |-> "no"]
        /\ UNCHANGED <<now, server>>
    BY <1>2 DEF LookupFails
  <2>2. call' \in ConnectCall /\ call'.op = "threw" /\ call'.n = 0 /\ call'.hosts = <<>>
    BY <1>0, <2>1 DEF ConnectCall
  <2>3. op'.what # "connect"
    BY <1>0, <2>1 DEF DialInv, HandshakeOfCall
  <2>4. DialInv'
    BY <2>1, <2>2, <2>3, DialStarts
  <2> QED
    BY <1>0, <2>1, <2>4, ServerKept DEF ConnectInv
<1>3. CASE NextHost
  BY <1>0, <1>3, NextHostStep, ServerKept DEF ConnectInv, NextHost
<1>4. CASE NoSocket
  BY <1>0, <1>4, NoSocketStep, ServerKept DEF ConnectInv, NoSocket
<1>5. CASE ConnectTimesOut \/ ConnectFails
  <2>1. /\ call.op = "connecting" /\ UNCHANGED <<now, server>>
        /\ \E why \in Failed : Caught(why)
    BY <1>5 DEF ConnectTimesOut, ConnectFails, Failed
  <2>2. op'.what # "connect"
    BY <1>0, <2>1 DEF DialInv, HandshakeOfCall
  <2> QED
    BY <1>0, <2>1, <2>2, CaughtStep, ServerKept DEF ConnectInv
<1>6. CASE Exhausted
  BY <1>0, <1>6, ExhaustedStep, ServerKept DEF ConnectInv, Exhausted
<1>7. ASSUME ~call.secure, NEW s \in Held, Connected(s) PROVE ConnectInv'
  <2>1. op'.what # "connect"
    BY <1>0, <1>7 DEF DialInv, HandshakeOfCall, Connected
  <2> QED
    BY <1>0, <1>7, <2>1, ConnectedStep, ConnectedServer DEF ConnectInv
<1>8. CASE AcceptNext \/ Accepted \/ AcceptFails \/ CloseListener
  BY <1>0, <1>8, AcceptStep, DialKept DEF ConnectInv
<1> QED
  BY <1>1, <1>2, <1>3, <1>4, <1>5, <1>6, <1>7, <1>8 DEF Plain

(* Every step, also one of the TLS connection, keeps the invariant. *)
LEMMA ConnectInvStep == ConnectInv /\ [Next]_vars => ConnectInv'
<1> SUFFICES ASSUME ConnectInv, [Next]_vars PROVE ConnectInv'
  OBVIOUS
<1>0. DialInv /\ ServerInv
  BY DEF ConnectInv
<1>1. CASE Plain /\ UNCHANGED <<tls, peer>>
  BY <1>1, PlainStep DEF tls
<1>2. ASSUME UNCHANGED <<now, server>>, UNCHANGED dial,
             op'.what = "connect" => op.what = "connect"
      PROVE  ConnectInv'
  BY <1>0, <1>2, DialKept, ServerKept DEF ConnectInv
<1>3. ASSUME UNCHANGED <<now, server>>, NEW as \in Failed \cup {"ok", "zero"}, Ends(as)
      PROVE  ConnectInv'
  BY <1>0, <1>3, EndsStep, ServerKept DEF ConnectInv
<1>4. CASE Passes
  <2>1. now < MaxTime /\ now' = now + 1 /\ UNCHANGED <<dial, server, op>>
    BY <1>4 DEF Passes, Tick, tls
  <2>2. now \in 0 .. MaxTime /\ MaxTime \in Nat
    BY <1>0, ConstantsAssumption DEF ServerInv
  <2>3. now' \in 0 .. MaxTime
    BY <2>1, <2>2
  <2>4. ServerInv'
    BY <1>0, <2>1, <2>3 DEF ServerInv, server
  <2> QED
    BY <1>0, <2>1, <2>4, DialKept DEF ConnectInv
<1>5. CASE Gone
  <2>1. Drop /\ op' = op /\ op.what # "connect" /\ UNCHANGED <<now, server>>
    BY <1>5 DEF Gone, Drop
  <2> QED
    BY <1>0, <2>1, DropStep, ServerKept DEF ConnectInv
<1>6. CASE Secure
  <2>1. PICK s \in Held : call.secure /\ Connected(s)
    BY <1>6 DEF Secure
  <2> QED
    BY <1>0, <2>1, ConnectedStep, ConnectedServer DEF ConnectInv
<1>7. CASE Turn
  <2>1. UNCHANGED <<now, server>>
    BY <1>7 DEF Turn
  <2>2. \/ \E as \in Failed \cup {"ok", "zero"} : Ends(as)
        \/ op'.what = op.what /\ UNCHANGED dial
    <3>1. PICK a : \/ /\ a.err \in {"NONE", "ZERO_RETURN", "SSL"}
                      /\ Ends(CASE a.err = "NONE" -> "ok" [] a.err = "SSL" -> "error"
                                [] OTHER -> "zero")
                   \/ /\ Goes(a.z.out, a.err = "WANT_READ")
                      /\ UNCHANGED <<last, dial>>
      BY <1>7 DEF Turn
    <3>2. CASE a.err \in {"NONE", "ZERO_RETURN", "SSL"}
               /\ Ends(CASE a.err = "NONE" -> "ok" [] a.err = "SSL" -> "error"
                         [] OTHER -> "zero")
      BY <3>2 DEF Failed
    <3>3. CASE Goes(a.z.out, a.err = "WANT_READ") /\ UNCHANGED dial
      BY <3>3 DEF Goes
    <3> QED
      BY <3>1, <3>2, <3>3
  <2> QED
    BY <1>2, <1>3, <2>1, <2>2
<1>8. CASE FilledNothing
  BY <1>3, <1>8 DEF FilledNothing
<1>9. CASE Shut
  BY <1>2, <1>9 DEF Shut, tls
<1>10. ASSUME NEW n \in 1 .. Cap, Flushed(n) PROVE ConnectInv'
  <2>1. UNCHANGED <<now, server>> /\ UNCHANGED dial
    BY <1>10 DEF Flushed
  <2>2. op'.what = "connect" => op.what = "connect"
    BY <1>10 DEF Flushed
  <2> QED
    BY ONLY <1>2, <2>1, <2>2
<1>16. CASE FlushedNothing
  <2>1. UNCHANGED <<now, server>> /\ UNCHANGED dial
    BY <1>16 DEF FlushedNothing
  <2>2. op'.what = "connect" => op.what = "connect"
    BY <1>16 DEF FlushedNothing
  <2> QED
    BY ONLY <1>2, <2>1, <2>2
<1>11. ASSUME NEW n \in 1 .. Cap, Filled(n) PROVE ConnectInv'
  <2>1. UNCHANGED <<now, server>>
    BY <1>11 DEF Filled
  <2>2. Ends("error") \/ (UNCHANGED dial /\ op' = [op EXCEPT !.at = "turn"])
    BY <1>11 DEF Filled
  <2>3. CASE Ends("error")
    BY <1>3, <2>1, <2>3 DEF Failed
  <2>4. CASE UNCHANGED dial /\ op' = [op EXCEPT !.at = "turn"]
    <3>1. op'.what = "connect" => op.what = "connect"
      BY <2>4
    <3> QED
      BY <1>2, <2>1, <2>4, <3>1
  <2> QED
    BY <2>2, <2>3, <2>4
<1>12. ASSUME NEW as \in Failed, Throws(as) PROVE ConnectInv'
  BY <1>3, <1>12 DEF Throws
<1>13. ASSUME NEW due \in Due, Read(due) \/ Write(due) PROVE ConnectInv'
  BY <1>2, <1>13 DEF Read, Write, Starts, Idle
<1>14. ASSUME NEW r \in Messages, Feed(r) PROVE ConnectInv'
  BY <1>2, <1>14 DEF Feed, tls
<1>15. CASE UNCHANGED vars
  BY <1>2, <1>15 DEF vars, tls
<1> QED
  BY <1>1, <1>4, <1>5, <1>6, <1>7, <1>8, <1>9, <1>10, <1>11, <1>12, <1>13, <1>14, <1>15,
     <1>16 DEF Next

-----------------------------------------------------------------------------
(* The theorems.                                                           *)

(* The inductive invariant of the loop over the addresses, and of accept. *)
THEOREM ConnectInvariant == Spec => []ConnectInv
<1>1. Init => ConnectInv
  BY ConnectInvInit
<1>2. ConnectInv /\ [Next]_vars => ConnectInv'
  BY ConnectInvStep
<1> QED
  BY <1>1, <1>2, PTL DEF Spec

(* Every exception on the way, also one out of the handshake, closes the    *)
(* socket of its attempt: for any list of addresses only the attempt in     *)
(* progress, or the connection that was returned, has one that is open.     *)
THEOREM ConnectSocketsClosed == Spec => []SocketsClosed
<1>1. ConnectInv => SocketsClosed
  BY DEF ConnectInv, DialInv
<1> QED
  BY <1>1, ConnectInvariant, PTL

(* connect and tls::connect return the connection of the first attempt that *)
(* does not throw, its handshake included, and when all of them throw the   *)
(* exception is that of the last address, for any list of them.             *)
THEOREM ConnectAttemptsInOrder == Spec => []AttemptsInOrder
<1>1. ConnectInv => AttemptsInOrder
  <2> SUFFICES ASSUME ConnectInv PROVE AttemptsInOrder
    OBVIOUS
  <2>1. DialInv /\ call.hosts \in Seq(Addr) /\ Len(call.hosts) \in Nat /\ call.n \in Nat
    BY Addresses DEF ConnectInv, DialInv
  <2>2. /\ call.n <= Len(call.hosts)
        /\ \A k \in 1 .. Len(call.hosts) : k < call.n => tried[call.hosts[k]] \in Failed
        /\ \A k \in 1 .. Len(call.hosts) : k > call.n => tried[call.hosts[k]] = "no"
    BY <2>1 DEF DialInv, InOrder
  <2>3. ASSUME call.op = "returned"
        PROVE  /\ sock[Cur] \in Held /\ tried[call.hosts[call.n]] = "returned"
               /\ \A k \in 1 .. call.n - 1 : tried[call.hosts[k]] \in Failed
               /\ \A k \in call.n + 1 .. Len(call.hosts) : tried[call.hosts[k]] = "no"
    <3>1. sock[Cur] \in Held /\ tried[call.hosts[call.n]] = "returned"
      BY <2>1, <2>3 DEF DialInv, Attempt, Cur
    <3>2. \A k \in 1 .. call.n - 1 : k \in 1 .. Len(call.hosts) /\ k < call.n
      BY <2>1, <2>2
    <3>3. \A k \in call.n + 1 .. Len(call.hosts) : k \in 1 .. Len(call.hosts) /\ k > call.n
      BY <2>1
    <3> QED
      BY <2>2, <3>1, <3>2, <3>3
  <2>4. ASSUME call.op = "threw", call.hosts # <<>>
        PROVE  /\ \A k \in 1 .. Len(call.hosts) : tried[call.hosts[k]] \in Failed
               /\ call.eptr = Last(call.hosts)
    <3>1. Len(call.hosts) # 0 /\ call.n = Len(call.hosts) /\ call.n > 0
      <4>1. Len(call.hosts) # 0
        BY <2>1, <2>4, EmptySeq
      <4>2. call.n = Len(call.hosts)
        BY <2>1, <2>4 DEF DialInv, Between
      <4> QED
        BY <2>1, <4>1, <4>2
    <3>2. tried[call.hosts[call.n]] \in Failed /\ call.eptr = call.hosts[call.n]
      BY <2>1, <2>4, <3>1 DEF DialInv, Between, Cur
    <3>3. \A k \in 1 .. Len(call.hosts) : k < call.n \/ k = call.n
      BY <2>1, <3>1
    <3>4. \A k \in 1 .. Len(call.hosts) : tried[call.hosts[k]] \in Failed
      BY <2>2, <3>2, <3>3
    <3>5. call.eptr = Last(call.hosts)
      BY <3>1, <3>2 DEF Last
    <3> QED
      BY <3>4, <3>5
  <2> QED
    BY <2>3, <2>4 DEF AttemptsInOrder
<1> QED
  BY <1>1, ConnectInvariant, PTL

=============================================================================
