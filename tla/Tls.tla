-------------------------------- MODULE Tls --------------------------------
(***************************************************************************)
(* A connection secured by TLS (tls.cpp).  OpenSSL works on a pair of      *)
(* memory BIOs; service_operation calls it again and again, carrying the   *)
(* bytes between the BIO `nb` and the socket whenever it asks for that.    *)
(*                                                                         *)
(* Bytes are units: what OpenSSL makes is numbered 1, 2, ..., so that the  *)
(* wire can be compared with it; what the server sends is tagged with what *)
(* it belongs to.  OpenSSL, the socket and the server are external.        *)
(* One operation is in progress on a connection at a time, as the buffer   *)
(* of the connection is shared.                                            *)
(***************************************************************************)
EXTENDS Connect, FiniteSetsExt

CONSTANTS
  Cap,      \* the capacity of a BIO, and of the buffer of the connection
  HsLen,    \* units of the server's handshake flight
  RecLen,   \* units of a record of data
  MaxMade,  \* bound on the units OpenSSL makes
  MaxFed    \* bound on the units the server sends

(* A handshake makes two units. *)
ASSUME TlsAssumption ==
  {Cap, HsLen, RecLen, MaxMade, MaxFed} \subseteq Nat \ {0} /\ MaxMade > 1

VARIABLES
  ssl,    \* the SSL object: handshake, units of a message so far, unwritten rest
  nbOut,  \* made by OpenSSL, not yet taken out of the BIO pair
  nbIn,   \* put into the BIO pair, not yet taken by OpenSSL
  op,     \* the service_operation in progress
  last,   \* how the last one ended (history)
  wire,   \* what went over the socket (history)
  made,   \* the number of units OpenSSL made
  torn,   \* a flush was cut short (history)
  net,    \* sent by the server, not yet read
  fed,    \* the number of units the server sent
  eof     \* the server closed its side

tls  == <<ssl, nbOut, nbIn, op, last, wire, made, torn>>
peer == <<net, fed, eof>>
vars == <<now, dial, server, tls, peer>>

Idle == [what |-> "none", at |-> "idle", due |-> NoDeadline, out |-> <<>>,
         fill |-> FALSE]

FreshTls ==
  /\ ssl' = [hs |-> "hello", got |-> 0, rec |-> <<>>, closed |-> FALSE]
  /\ nbOut' = <<>> /\ nbIn' = <<>> /\ wire' = <<>> /\ made' = 0 /\ torn' = FALSE
  /\ net' = <<>> /\ fed' = 0 /\ eof' = FALSE
  /\ last' = [what |-> "none", as |-> "ok"]

-----------------------------------------------------------------------------
(* OpenSSL, on a state z of the SSL object and both halves of the BIO pair. *)

(* n units are made; as much of them as fits goes into the BIO. *)
Make(z, n) ==
  [z EXCEPT !.rec = [k \in 1 .. n |-> z.made + k], !.made = @ + n]

Push(z) ==
  LET k == Min({Len(z.rec), Cap - Len(z.out)})
  IN [z EXCEPT !.out = @ \o SubSeq(z.rec, 1, k),
               !.rec = SubSeq(@, k + 1, Len(@))]

(* Units of a message of n of them are taken. *)
Take(z, n) ==
  LET k == Min({Len(z.in), n - z.got})
  IN [z EXCEPT !.in = SubSeq(@, k + 1, Len(@)), !.got = @ + k]

(* The next message is one of a kind.  A close_notify, or one that OpenSSL  *)
(* rejects, ends what comes in, during the handshake too.                   *)
IsNext(z, tag) == z.got = 0 /\ z.in # <<>> /\ Head(z.in) = tag

Halted(z) == z.closed \/ IsNext(z, "close") \/ IsNext(z, "bad")

(* The client's side of the handshake. *)
Greet(z) ==
  IF z.hs # "hello" THEN z ELSE Push(Make([z EXCEPT !.hs = "flight"], 1))

Hear(z) ==
  IF z.hs # "flight" \/ z.rec # <<>> \/ Halted(z) THEN z
  ELSE LET t == Take(z, HsLen)
       IN IF t.got < HsLen THEN t
          ELSE Push(Make([t EXCEPT !.hs = "done", !.got = 0], 1))

(* What SSL_connect, SSL_read and SSL_write do, and the error that          *)
(* SSL_get_error reports of them.                                           *)
Answer(z, err) == [z |-> z, err |-> err]

(* What comes in has ended: by a close_notify, which is taken once, or by a *)
(* message that is rejected.                                                *)
Halt(z) ==
  IF z.closed THEN Answer(z, "ZERO_RETURN")
  ELSE IF IsNext(z, "bad") THEN Answer(z, "SSL")
  ELSE Answer([z EXCEPT !.in = Tail(@), !.closed = TRUE], "ZERO_RETURN")

SslRead(z) ==
  IF Halted(z) THEN Halt(z)
  ELSE LET t == Take(z, RecLen)
       IN IF t.got < RecLen THEN Answer(t, "WANT_READ")
          ELSE Answer([t EXCEPT !.got = 0], "NONE")

SslWrite(z) ==
  LET t == Push(IF z.rec = <<>> THEN Make(z, RecLen) ELSE z)
  IN Answer(t, IF t.rec = <<>> THEN "NONE" ELSE "WANT_WRITE")

(* The handshake goes first, whichever function is called. *)
Handshake ==
  Hear(Greet([hs |-> ssl.hs, got |-> ssl.got, rec |-> ssl.rec, closed |-> ssl.closed,
              in |-> nbIn, out |-> nbOut, made |-> made]))

Call(what, z) ==
  IF z.hs # "done"
  THEN IF z.rec # <<>> THEN Answer(z, "WANT_WRITE")
       ELSE IF Halted(z) THEN Halt(z) ELSE Answer(z, "WANT_READ")
  ELSE CASE what = "connect" -> Answer(z, "NONE")
         [] what = "read"    -> SslRead(z)
         [] what = "write"   -> SslWrite(z)

-----------------------------------------------------------------------------
(* service_operation.                                                      *)

(* The operation ends: it returns ("ok", or "zero" for a result of 0, which *)
(* write_some throws for) or throws.  An exception out of the handshake is  *)
(* caught by the loop over the addresses.                                   *)
Ends(as) ==
  /\ op' = Idle
  /\ last' = [what |-> op.what,
              as |-> IF op.what = "write" /\ as = "zero" THEN "error" ELSE as]
  /\ IF op.what # "connect" THEN UNCHANGED dial
     ELSE IF as \in Failed THEN Caught(as)
     ELSE /\ call' = [call EXCEPT !.op = "returned"]
          /\ tried' = [tried EXCEPT ![Cur] = "returned"]
          /\ UNCHANGED sock

(* Mutants of Goes: the read of the socket comes before the flush; a write  *)
(* that OpenSSL wants done also awaits the socket.                          *)
GoesUnflushed(out, fill) ==
  /\ op' = [op EXCEPT !.at = IF fill THEN "fill" ELSE IF out # <<>> THEN "flush" ELSE "turn",
                      !.out = IF fill THEN <<>> ELSE out, !.fill = FALSE]
  /\ nbOut' = IF fill THEN out ELSE <<>>

GoesFilling(out, fill) ==
  /\ op' = [op EXCEPT !.at = IF out # <<>> THEN "flush" ELSE "fill",
                      !.out = out, !.fill = TRUE]
  /\ nbOut' = <<>>

(* bio_read takes everything out of the BIO, and writes it if there is      *)
(* something; then bio_write, if OpenSSL wants to read, awaits the socket.  *)
Goes(out, fill) ==
  /\ op' = [op EXCEPT !.at = IF out # <<>> THEN "flush" ELSE IF fill THEN "fill" ELSE "turn",
                      !.out = out, !.fill = fill]
  /\ nbOut' = <<>>

(* One turn of the loop, up to the next co_await that suspends. *)
Turn ==
  /\ op.at = "turn"
  /\ \E z \in {Handshake} : \E a \in {Call(op.what, z)} :
       /\ ssl' = [hs |-> a.z.hs, got |-> a.z.got, rec |-> a.z.rec, closed |-> a.z.closed]
       /\ nbIn' = a.z.in /\ made' = a.z.made
       /\ \/ /\ a.err \in {"NONE", "ZERO_RETURN", "SSL"}
             /\ Ends(CASE a.err = "NONE" -> "ok" [] a.err = "SSL" -> "error"
                       [] OTHER -> "zero")
             /\ nbOut' = a.z.out
          \/ /\ a.err \in {"WANT_READ", "WANT_WRITE"}
             /\ Goes(a.z.out, a.err = "WANT_READ")
             /\ UNCHANGED <<last, dial>>
  /\ UNCHANGED <<now, server, wire, torn, peer>>

(* Mutant of Flushed: a short write counts for all. *)
FlushedShort(n) ==
  /\ op.at = "flush" /\ n \in 1 .. Len(op.out) /\ sock[Cur] = "open"
  /\ wire' = wire \o SubSeq(op.out, 1, n)
  /\ op' = [op EXCEPT !.out = <<>>, !.at = IF op.fill THEN "fill" ELSE "turn"]
  /\ UNCHANGED <<now, dial, server, ssl, nbOut, nbIn, last, made, torn, peer>>

(* The socket takes n units of the write_all in bio_read; one that was      *)
(* refused takes nothing.                                                   *)
Flushed(n) ==
  /\ op.at = "flush" /\ n \in 1 .. Len(op.out) /\ sock[Cur] = "open"
  /\ wire' = wire \o SubSeq(op.out, 1, n)
  /\ op' = [op EXCEPT !.out = SubSeq(@, n + 1, Len(@)),
                      !.at = IF n < Len(op.out) THEN "flush"
                             ELSE IF op.fill THEN "fill" ELSE "turn"]
  /\ UNCHANGED <<now, dial, server, ssl, nbOut, nbIn, last, made, torn, peer>>

(* The socket takes nothing, which ends write_all.  bio_read does not look  *)
(* at what it returns: the rest of the buffer is never sent.                *)
FlushedNothing ==
  /\ op.at = "flush" /\ sock[Cur] = "open"
  /\ op' = [op EXCEPT !.out = <<>>, !.at = IF op.fill THEN "fill" ELSE "turn"]
  /\ torn' = TRUE
  /\ UNCHANGED <<now, dial, server, ssl, nbOut, nbIn, last, wire, made, peer>>

(* Mutant of Filled: the bytes are put into the BIO twice. *)
FilledTwice(n) ==
  /\ op.at = "fill" /\ n \in 1 .. Min({Len(net), Cap})
  /\ net' = SubSeq(net, n + 1, Len(net))
  /\ nbIn' = nbIn \o SubSeq(net, 1, n) \o SubSeq(net, 1, n)
  /\ op' = [op EXCEPT !.at = "turn"]
  /\ UNCHANGED <<now, dial, server, ssl, nbOut, last, wire, made, torn, fed, eof>>

(* The read_some in bio_write gets n units, and BIO_write takes those that  *)
(* fit: bio_write throws if they are not all.                               *)
Filled(n) ==
  /\ op.at = "fill" /\ n \in 1 .. Min({Len(net), Cap})
  /\ net' = SubSeq(net, n + 1, Len(net))
  /\ LET k == Min({n, Cap - Len(nbIn)})
     IN /\ nbIn' = nbIn \o SubSeq(net, 1, k)
        /\ IF k < n THEN Ends("error")
           ELSE op' = [op EXCEPT !.at = "turn"] /\ UNCHANGED <<last, dial>>
  /\ UNCHANGED <<now, server, ssl, nbOut, wire, made, torn, fed, eof>>

(* The end of the connection: bio_write yields 0 and the operation 0. *)
FilledNothing ==
  /\ op.at = "fill" /\ net = <<>> /\ eof
  /\ Ends("zero")
  /\ UNCHANGED <<now, server, ssl, nbOut, nbIn, wire, made, torn, peer>>

(* Mutant of Throws: bio_write is not given the deadline. *)
ThrowsInFlush(as) ==
  /\ op.at \in {"flush", "fill"}
  /\ as = "timeout" => op.at = "flush" /\ Past(op.due)
  /\ Ends(as)
  /\ torn' = (torn \/ op.at = "flush")
  /\ UNCHANGED <<now, server, ssl, nbOut, nbIn, wire, made, peer>>

(* A write or a read of the socket throws; what bio_read has taken out of   *)
(* the BIO and not yet written is gone.                                     *)
Throws(as) ==
  /\ op.at \in {"flush", "fill"}
  /\ as = "timeout" => Past(op.due)
  /\ Ends(as)
  /\ torn' = (torn \/ op.at = "flush")
  /\ UNCHANGED <<now, server, ssl, nbOut, nbIn, wire, made, peer>>

-----------------------------------------------------------------------------
(* tls::connect, read_some and write_some.                                 *)

Starts(what, due) == op' = [Idle EXCEPT !.what = what, !.at = "turn", !.due = due]

(* The socket is connected: a fresh impl, and its handshake starts. *)
Secure ==
  /\ call.secure /\ \E s \in Held : Connected(s)
  /\ Starts("connect", call.due) /\ FreshTls

Ready == call.op = "returned" /\ call.secure /\ op.what = "none"

Read(due) ==
  /\ Ready /\ Starts("read", due)
  /\ UNCHANGED <<now, dial, server, ssl, nbOut, nbIn, last, wire, made, torn, peer>>

Write(due) ==
  /\ Ready /\ made + RecLen <= MaxMade /\ Starts("write", due)
  /\ UNCHANGED <<now, dial, server, ssl, nbOut, nbIn, last, wire, made, torn, peer>>

(* The application drops the connection, and with it the SSL object. *)
Gone == op.what = "none" /\ Drop /\ FreshTls /\ UNCHANGED op

(* The server answers the hello, with its flight, a close_notify or rubbish *)
(* first, sends records and may close.                                      *)
Feed(r) ==
  /\ wire # <<>> /\ ~eof /\ fed + Len(r) <= MaxFed
  /\ (r = [k \in 1 .. HsLen |-> "hs"]) <=> (fed = 0 /\ r \notin {<<"close">>, <<"bad">>})
  /\ net' = net \o r /\ fed' = fed + Len(r)
  /\ UNCHANGED <<now, dial, server, tls, eof>>

Shut ==
  /\ call.op \in {"handshake", "returned"} /\ call.secure /\ ~eof
  /\ sock[Cur] = "open"
  /\ eof' = TRUE
  /\ UNCHANGED <<now, dial, server, tls, net, fed>>

Messages == {[k \in 1 .. HsLen |-> "hs"], [k \in 1 .. RecLen |-> "data"],
             <<"close">>, <<"bad">>}

Plain ==
  \/ \E hs \in Hosts, due \in Due : Lookup(hs, due)
  \/ LookupFails \/ NextHost \/ NoSocket \/ ConnectTimesOut \/ Exhausted
  \/ ConnectFails
  \/ ~call.secure /\ \E s \in Held : Connected(s)
  \/ AcceptNext \/ Accepted \/ AcceptFails \/ CloseListener

Passes == Tick /\ UNCHANGED <<tls, peer>>

Init ==
  /\ ConnectInit
  /\ ssl = [hs |-> "hello", got |-> 0, rec |-> <<>>, closed |-> FALSE]
  /\ nbOut = <<>> /\ nbIn = <<>> /\ wire = <<>> /\ made = 0 /\ torn = FALSE
  /\ net = <<>> /\ fed = 0 /\ eof = FALSE
  /\ last = [what |-> "none", as |-> "ok"]
  /\ op = Idle

Next ==
  \/ Plain /\ UNCHANGED <<tls, peer>>
  \/ Passes \/ Gone
  \/ Secure \/ Turn \/ FlushedNothing \/ FilledNothing \/ Shut
  \/ \E n \in 1 .. Cap : Flushed(n) \/ Filled(n)
  \/ \E as \in Failed : Throws(as)
  \/ \E due \in Due : Read(due) \/ Write(due)
  \/ \E r \in Messages : Feed(r)

Spec == Init /\ [][Next]_vars

-----------------------------------------------------------------------------
(* Properties.                                                             *)

Units == Seq(1 .. MaxMade)
Tags == {"hs", "data", "close", "bad"}

(* Every variable has its type; a call has a deadline or has none, and no   *)
(* BIO holds more than its capacity.                                        *)
TypeOK ==
  /\ now \in 0 .. MaxTime
  /\ call \in [op : {"idle", "threw", "returned"} \cup Trying, secure : BOOLEAN,
               due : Nat \cup {NoDeadline}, hosts : Hosts \cup {<<>>}, n : Nat,
               eptr : Addr \cup {None}]
  /\ sock \in [Addr -> {"none", "closed"} \cup Held]
  /\ tried \in [Addr -> {"no", "returned"} \cup Failed]
  /\ listener \in BOOLEAN /\ backlog \in 0 .. MaxBacklog
  /\ stream \in [at : {"none", "idle", "accepting", "yielded", "threw", "ended"}, s : Int]
  /\ ssl \in [hs : {"hello", "flight", "done"}, got : Nat, rec : Units, closed : BOOLEAN]
  /\ nbOut \in Units /\ Len(nbOut) <= Cap
  /\ nbIn \in Seq(Tags) /\ Len(nbIn) <= Cap
  /\ op \in [what : {"none", "connect", "read", "write"},
             at : {"idle", "turn", "flush", "fill"},
             due : Nat \cup {NoDeadline}, out : Units, fill : BOOLEAN]
  /\ last \in [what : {"none", "connect", "read", "write"},
               as : {"ok", "zero"} \cup Failed]
  /\ wire \in Units /\ made \in 0 .. MaxMade /\ torn \in BOOLEAN
  /\ net \in Seq(Tags) /\ fed \in 0 .. MaxFed /\ eof \in BOOLEAN

(* What went over the socket, what bio_read still has to write, what is in  *)
(* the BIO and what OpenSSL could not yet put there are, in this order,     *)
(* everything OpenSSL made: nothing is lost, doubled or swapped on the way, *)
(* unless an exception, or a write of nothing, cut a flush short.           *)
WireExact ==
  ~torn => wire \o op.out \o nbOut \o ssl.rec = [k \in 1 .. made |-> k]

(* Nobody waits for the answer to something that was not sent: while an     *)
(* operation awaits the socket nothing is left in the BIO or in the buffer. *)
FlushedBeforeAwait == op.at = "fill" => nbOut = <<>> /\ op.out = <<>>

(* Everything that a read of the socket may return fits into the BIO: the   *)
(* exception "Not all bytes written to BIO" is never thrown.                *)
BioFits == op.at = "fill" => Min({Len(net), Cap}) <= Cap - Len(nbIn)

(* The loop, OpenSSL and the flush go on; what is due is resumed; time      *)
(* passes.                                                                  *)
FairSpec ==
  /\ Spec
  /\ WF_vars(Turn)
  /\ WF_vars(\E n \in 1 .. Cap : Flushed(n))
  /\ WF_vars(Throws("timeout"))
  /\ WF_vars((NextHost \/ ConnectTimesOut \/ Exhausted) /\ UNCHANGED <<tls, peer>>)
  /\ WF_vars(Passes)

(* A connect, and a read or write of the connection, that has a deadline    *)
(* ends: each of the co_awaits on its way was given the deadline.           *)
OperationsEnd ==
  /\ (call.op \in Trying /\ call.due # NoDeadline) ~> call.op \notin Trying
  /\ (op.what # "none" /\ op.due # NoDeadline) ~> op.what = "none"

(* tls.hpp says that connect returns the first address that works: then the *)
(* handshake of the connection it returns is done.                          *)
ConnectedSecure ==
  call.op = "returned" /\ call.secure => ssl.hs = "done"

(* What a write_some returned for reaches the wire, unless a flush was cut  *)
(* short or the end of the connection is in the way.                        *)
WrittenIsSent ==
  \A n \in 1 .. MaxMade :
    (Ready /\ last = [what |-> "write", as |-> "ok"] /\ made = n)
      ~> (Len(wire) >= n \/ torn \/ call.op # "returned")
=============================================================================
