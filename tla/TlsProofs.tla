----------------------------- MODULE TlsProofs ------------------------------
(***************************************************************************)
(* Proofs about the TLS connection, for every size of the BIO pair and of  *)
(* the messages, and any server: no byte that OpenSSL makes is lost,       *)
(* doubled or swapped, nothing is unsent while an operation awaits the     *)
(* socket, and what a read of the socket returns always fits into the BIO. *)
(***************************************************************************)
EXTENDS ConnectProofs

-----------------------------------------------------------------------------
(* Sequences.                                                              *)

(* A sequence is cut in two, and put together again. *)
LEMMA Cut ==
  ASSUME NEW S, NEW s \in Seq(S), NEW k \in 0 .. Len(s)
  PROVE  /\ SubSeq(s, 1, k) \in Seq(S) /\ Len(SubSeq(s, 1, k)) = k
         /\ SubSeq(s, k + 1, Len(s)) \in Seq(S)
         /\ Len(SubSeq(s, k + 1, Len(s))) = Len(s) - k
         /\ SubSeq(s, 1, k) \o SubSeq(s, k + 1, Len(s)) = s
<1> DEFINE a == SubSeq(s, 1, k)
           b == SubSeq(s, k + 1, Len(s))
<1>1. Len(s) \in Nat /\ \A n \in 1 .. Len(s) : s[n] \in S
  OBVIOUS
<1>2. a \in Seq(S) /\ Len(a) = k /\ \A n \in 1 .. k : a[n] = s[n]
  BY <1>1
<1>3. /\ b \in Seq(S) /\ Len(b) = Len(s) - k
      /\ \A n \in 1 .. (Len(s) - k) : b[n] = s[n + k]
  BY <1>1
<1> HIDE DEF a, b
<1>4. /\ a \o b \in Seq(S) /\ Len(a \o b) = Len(a) + Len(b)
      /\ \A n \in 1 .. Len(a) + Len(b) :
           (a \o b)[n] = IF n <= Len(a) THEN a[n] ELSE b[n - Len(a)]
  BY <1>2, <1>3
<1> DEFINE c == a \o b
<1> HIDE DEF c
<1>5. /\ c \in Seq(S) /\ Len(c) = Len(s)
      /\ \A n \in 1 .. Len(s) : c[n] = s[n]
  <2>1. c \in Seq(S) /\ Len(c) = Len(s)
    BY <1>1, <1>2, <1>3, <1>4 DEF c
  <2>2. ASSUME NEW n \in 1 .. k PROVE c[n] = s[n]
    BY <1>1, <1>2, <1>3, <1>4 DEF c
  <2>3. ASSUME NEW n \in k + 1 .. Len(s) PROVE c[n] = s[n]
    <3>1. n - k \in 1 .. (Len(s) - k)
      BY <1>1
    <3>2. c[n] = b[n - k]
      BY <1>1, <1>2, <1>3, <1>4 DEF c
    <3> QED
      BY <3>1, <3>2, <1>1, <1>3
  <2> QED
    BY <1>1, <2>1, <2>2, <2>3
<1>6. a \o b = s
  BY <1>5, SeqEqual DEF c
<1> QED
  BY <1>2, <1>3, <1>6 DEF a, b

(* The numbers up to m, followed by the next n, are those up to m + n. *)
LEMMA Counting ==
  ASSUME NEW m \in Nat, NEW n \in Nat
  PROVE  /\ [k \in 1 .. n |-> m + k] \in Seq(Nat)
         /\ [k \in 1 .. m |-> k] \o [k \in 1 .. n |-> m + k] = [k \in 1 .. m + n |-> k]
<1> DEFINE a == [k \in 1 .. m |-> k]
           b == [k \in 1 .. n |-> m + k]
           c == [k \in 1 .. m + n |-> k]
<1>1. a \in Seq(Nat) /\ Len(a) = m /\ \A k \in 1 .. m : a[k] = k
  OBVIOUS
<1>2. b \in Seq(Nat) /\ Len(b) = n /\ \A k \in 1 .. n : b[k] = m + k
  OBVIOUS
<1>3. c \in Seq(Nat) /\ Len(c) = m + n /\ \A k \in 1 .. m + n : c[k] = k
  OBVIOUS
<1> HIDE DEF a, b, c
<1>4. /\ a \o b \in Seq(Nat) /\ Len(a \o b) = Len(a) + Len(b)
      /\ \A k \in 1 .. Len(a) + Len(b) :
           (a \o b)[k] = IF k <= Len(a) THEN a[k] ELSE b[k - Len(a)]
  <2>1. a \in Seq(Nat) /\ b \in Seq(Nat)
    BY <1>1, <1>2
  <2> QED
    BY <2>1
<1> DEFINE d == a \o b
<1> HIDE DEF d
<1>5. /\ d \in Seq(Nat) /\ Len(d) = Len(c)
      /\ \A k \in 1 .. Len(c) : d[k] = c[k]
  BY <1>1, <1>2, <1>3, <1>4 DEF d
<1>6. a \o b = c
  BY <1>3, <1>5, SeqEqual DEF d
<1> QED
  BY <1>2, <1>6 DEF a, b, c

(* Sequences of units are put one after the other. *)
LEMMA Concat ==
  ASSUME NEW a \in Seq(Nat), NEW b \in Seq(Nat)
  PROVE  a \o b \in Seq(Nat) /\ Len(a \o b) = Len(a) + Len(b)
OBVIOUS

(* ... in either grouping. *)
LEMMA Associative ==
  ASSUME NEW a \in Seq(Nat), NEW b \in Seq(Nat), NEW c \in Seq(Nat)
  PROVE  (a \o b) \o c = a \o (b \o c)
BY ConcatAssociative

(* One of the places units may be at is empty. *)
LEMMA ConcatGap ==
  ASSUME NEW a \in Seq(Nat), NEW b \in Seq(Nat), NEW c \in Seq(Nat)
  PROVE  /\ a \o <<>> \o b \o c = a \o (b \o c)
         /\ a \o b \o <<>> \o c = a \o (b \o c)
<1>1. a \o <<>> = a /\ (a \o b) \o c = a \o (b \o c)
  BY ConcatEmptySeq, Associative, Zenon
<1>2. a \o b \in Seq(Nat)
  BY Concat, Zenon
<1>3. (a \o b) \o <<>> = a \o b
  BY <1>2, ConcatEmptySeq, Zenon
<1> QED
  BY <1>1, <1>3, Zenon

-----------------------------------------------------------------------------
(* OpenSSL.                                                                *)

(* z is a state of the SSL object and the BIO pair. *)
IsState(z) ==
  z \in [hs : {z.hs}, got : {z.got}, rec : {z.rec}, closed : {z.closed},
         in : {z.in}, out : {z.out}, made : {z.made}]

(* When w went over the wire before, nothing is missing, doubled or swapped *)
(* (if x).                                                                  *)
Good(z, w, x) ==
  /\ IsState(z)
  /\ z.rec \in Seq(Nat) /\ z.out \in Seq(Nat) /\ z.made \in Nat
  /\ Len(z.out) <= Cap
  /\ z.hs = "hello" => z.rec = <<>>
  /\ x => w \o (z.out \o z.rec) = [k \in 1 .. z.made |-> k]

(* Moving units into the BIO keeps their order, and the BIO its capacity. *)
LEMMA GoodPush ==
  ASSUME NEW z, NEW w \in Seq(Nat), NEW x \in BOOLEAN, Good(z, w, x)
  PROVE  /\ Good(Push(z), w, x)
         /\ Push(z).hs = z.hs /\ Push(z).in = z.in /\ Push(z).got = z.got
<1> DEFINE k == Min({Len(z.rec), Cap - Len(z.out)})
           a == SubSeq(z.rec, 1, k)
           b == SubSeq(z.rec, k + 1, Len(z.rec))
           p == Push(z)
<1>1. /\ z.rec \in Seq(Nat) /\ z.out \in Seq(Nat) /\ z.made \in Nat
      /\ Len(z.out) \in Nat /\ Len(z.rec) \in Nat /\ Len(z.out) <= Cap /\ Cap \in Nat
  BY TlsAssumption DEF Good
<1>2. k \in 0 .. Len(z.rec) /\ k <= Cap - Len(z.out)
  <2>1. {Len(z.rec), Cap - Len(z.out)} \subseteq Nat /\ {Len(z.rec), Cap - Len(z.out)} # {}
    BY <1>1
  <2>2. /\ k \in {Len(z.rec), Cap - Len(z.out)}
        /\ \A y \in {Len(z.rec), Cap - Len(z.out)} : k <= y
    BY <2>1, MinLeast, Zenon
  <2> QED
    BY <2>1, <2>2
<1>3. p = [z EXCEPT !.out = z.out \o a, !.rec = b]
  BY Zenon DEF Push
<1> HIDE DEF k
<1>4. /\ a \in Seq(Nat) /\ b \in Seq(Nat) /\ Len(a) = k /\ a \o b = z.rec
      /\ Len(b) = Len(z.rec) - k
  BY <1>1, <1>2, Cut, Zenon
<1> HIDE DEF a, b, p
<1>5. /\ IsState(p) /\ p.out = z.out \o a /\ p.rec = b /\ p.made = z.made
      /\ p.hs = z.hs /\ p.in = z.in /\ p.got = z.got
  BY <1>3 DEF Good, IsState
<1>6. z.out \o a \in Seq(Nat) /\ Len(z.out \o a) = Len(z.out) + Len(a)
  BY <1>1, <1>4, Concat, Zenon
<1>7. p.out \o p.rec = z.out \o z.rec
  <2>1. (z.out \o a) \o b = z.out \o (a \o b)
    BY <1>1, <1>4, Associative, Zenon
  <2>2. z.out \o (a \o b) = z.out \o z.rec
    BY <1>4
  <2> QED
    BY <1>5, <2>1, <2>2, Zenon
<1>8. z.hs = "hello" => b = <<>>
  <2>1. z.hs = "hello" => Len(b) = 0
    BY <1>1, <1>2, <1>4 DEF Good
  <2> QED
    BY <2>1, <1>4, EmptySeq
<1>9. Len(p.out) <= Cap
  BY <1>1, <1>2, <1>4, <1>5, <1>6
<1>10. p.out \in Seq(Nat) /\ p.rec \in Seq(Nat) /\ p.made \in Nat
  BY <1>1, <1>4, <1>5, <1>6
<1>11. x => w \o (p.out \o p.rec) = [n \in 1 .. p.made |-> n]
  BY <1>5, <1>7, Zenon DEF Good
<1>12. Good(p, w, x)
  BY <1>5, <1>8, <1>9, <1>10, <1>11, Zenon DEF Good
<1> QED
  BY <1>5, <1>12 DEF p

(* A new message follows everything made before. *)
LEMMA GoodMake ==
  ASSUME NEW z, NEW w \in Seq(Nat), NEW x \in BOOLEAN, Good(z, w, x),
         NEW n \in Nat, z.rec = <<>>, z.hs # "hello"
  PROVE  Good(Make(z, n), w, x) /\ Make(z, n).hs = z.hs
<1> DEFINE b == [k \in 1 .. n |-> z.made + k]
           p == Make(z, n)
<1>1. z.out \in Seq(Nat) /\ z.made \in Nat /\ Len(z.out) <= Cap
  BY DEF Good
<1>2. p = [z EXCEPT !.rec = b, !.made = z.made + n]
  BY Zenon DEF Make
<1>3. b \in Seq(Nat) /\ [k \in 1 .. z.made |-> k] \o b = [k \in 1 .. z.made + n |-> k]
  BY <1>1, Counting, Zenon
<1> HIDE DEF b, p
<1>4. IsState(p) /\ p.out = z.out /\ p.rec = b /\ p.made = z.made + n /\ p.hs = z.hs
  BY <1>2 DEF Good, IsState
<1>5. ASSUME x PROVE w \o (p.out \o p.rec) = [k \in 1 .. p.made |-> k]
  <2>1. z.out \o z.rec = z.out
    BY <1>1, ConcatEmptySeq, Zenon
  <2>2. w \o z.out = [k \in 1 .. z.made |-> k]
    BY <1>5, <2>1, Zenon DEF Good
  <2>3. (w \o z.out) \o b = w \o (z.out \o b)
    BY <1>1, <1>3, Associative, Zenon
  <2> QED
    BY <1>3, <1>4, <2>2, <2>3, Zenon
<1>6. p.made \in Nat
  BY <1>1, <1>4
<1>7. Good(p, w, x)
  BY <1>1, <1>3, <1>4, <1>5, <1>6, Zenon DEF Good
<1> QED
  BY <1>4, <1>7 DEF p

(* A message that is read leaves what is written alone. *)
LEMMA GoodTake ==
  ASSUME NEW z, NEW w \in Seq(Nat), NEW x \in BOOLEAN, Good(z, w, x), NEW n
  PROVE  Good(Take(z, n), w, x) /\ Take(z, n).hs = z.hs /\ Take(z, n).rec = z.rec
<1> DEFINE k == Min({Len(z.in), n - z.got})
           i == SubSeq(z.in, k + 1, Len(z.in))
           g == z.got + k
           p == Take(z, n)
<1>1. p = [z EXCEPT !.in = i, !.got = g]
  BY Zenon DEF Take
<1> HIDE DEF k, i, g, p
<1>2. /\ IsState(p) /\ p.out = z.out /\ p.rec = z.rec /\ p.made = z.made
      /\ p.hs = z.hs
  BY <1>1 DEF Good, IsState
<1>3. Good(p, w, x)
  BY <1>2, Zenon DEF Good
<1> QED
  BY <1>2, <1>3 DEF p

(* The handshake. *)
LEMMA GoodGreet ==
  ASSUME NEW z, NEW w \in Seq(Nat), NEW x \in BOOLEAN, Good(z, w, x)
  PROVE  Good(Greet(z), w, x) /\ Greet(z).hs # "hello"
<1>1. CASE z.hs # "hello"
  BY <1>1 DEF Greet
<1>2. CASE z.hs = "hello"
  <2> DEFINE y == [z EXCEPT !.hs = "flight"]
  <2>1. Greet(z) = Push(Make(y, 1))
    BY <1>2 DEF Greet
  <2>2. /\ IsState(y) /\ y.out = z.out /\ y.rec = z.rec /\ y.made = z.made
        /\ y.hs = "flight"
    BY DEF Good, IsState
  <2>3. Good(y, w, x) /\ y.rec = <<>>
    BY <1>2, <2>2, Zenon DEF Good
  <2> HIDE DEF y
  <2>4. y.hs # "hello"
    BY <2>2
  <2>5. Good(Make(y, 1), w, x) /\ Make(y, 1).hs = y.hs
    BY <2>3, <2>4, GoodMake, 1 \in Nat
  <2>6. Good(Push(Make(y, 1)), w, x) /\ Push(Make(y, 1)).hs = Make(y, 1).hs
    BY <2>5, GoodPush, Zenon
  <2> QED
    BY <2>1, <2>2, <2>5, <2>6
<1> QED
  BY <1>1, <1>2

(* The server's flight is read, and the last unit of the handshake made. *)
LEMMA GoodHear ==
  ASSUME NEW z, NEW w \in Seq(Nat), NEW x \in BOOLEAN, Good(z, w, x), z.hs # "hello"
  PROVE  Good(Hear(z), w, x) /\ Hear(z).hs # "hello"
<1>1. CASE z.hs # "flight" \/ z.rec # <<>> \/ Halted(z)
  BY <1>1, Zenon DEF Hear
<1>2. CASE ~(z.hs # "flight" \/ z.rec # <<>> \/ Halted(z))
  <2> DEFINE t == Take(z, HsLen)
             y == [t EXCEPT !.hs = "done", !.got = 0]
  <2>1. Hear(z) = IF t.got < HsLen THEN t ELSE Push(Make(y, 1))
    BY <1>2, Zenon DEF Hear
  <2>2. Good(t, w, x) /\ t.hs = z.hs /\ t.rec = z.rec
    BY GoodTake, Zenon
  <2> HIDE DEF t
  <2>3. /\ IsState(y) /\ y.out = t.out /\ y.rec = t.rec /\ y.made = t.made
        /\ y.hs = "done"
    BY <2>2 DEF Good, IsState
  <2>4. Good(y, w, x) /\ y.rec = <<>> /\ y.hs # "hello"
    <3>1. y.hs # "hello"
      BY <2>3
    <3>2. y.rec = <<>>
      BY <1>2, <2>2, <2>3, Zenon
    <3> QED
      BY <2>2, <2>3, <3>1, <3>2, Zenon DEF Good
  <2> HIDE DEF y
  <2>5. Good(Make(y, 1), w, x) /\ Make(y, 1).hs = y.hs
    BY <2>4, GoodMake, 1 \in Nat
  <2>6. Good(Push(Make(y, 1)), w, x) /\ Push(Make(y, 1)).hs = Make(y, 1).hs
    BY <2>5, GoodPush, Zenon
  <2> QED
    BY <2>1, <2>2, <2>4, <2>5, <2>6, Zenon
<1> QED
  BY <1>1, <1>2, Zenon

(* What comes in has ended: what is written is left alone. *)
LEMMA GoodHalt ==
  ASSUME NEW z, NEW w \in Seq(Nat), NEW x \in BOOLEAN, Good(z, w, x)
  PROVE  Good(Halt(z).z, w, x)
<1> DEFINE y == [z EXCEPT !.in = Tail(z.in), !.closed = TRUE]
<1>1. Good(y, w, x)
  <2>1. IsState(y) /\ y.out = z.out /\ y.rec = z.rec /\ y.made = z.made /\ y.hs = z.hs
    BY DEF Good, IsState
  <2> HIDE DEF y
  <2> QED
    BY <2>1, Zenon DEF Good
<1>2. Halt(z).z \in {z, y}
  BY DEF Halt, Answer
<1> QED
  BY <1>1, <1>2, Zenon

(* SSL_read and SSL_write after the handshake. *)
LEMMA GoodSslRead ==
  ASSUME NEW z, NEW w \in Seq(Nat), NEW x \in BOOLEAN, Good(z, w, x), z.hs # "hello"
  PROVE  Good(SslRead(z).z, w, x)
<1> DEFINE t == Take(z, RecLen)
           u == [t EXCEPT !.got = 0]
<1>1. Good(Halt(z).z, w, x)
  BY GoodHalt, Zenon
<1>2. Good(t, w, x) /\ t.hs = z.hs
  BY GoodTake, Zenon
<1>3. Good(u, w, x)
  <2> HIDE DEF t
  <2>1. IsState(u) /\ u.out = t.out /\ u.rec = t.rec /\ u.made = t.made /\ u.hs = t.hs
    BY <1>2 DEF Good, IsState
  <2> HIDE DEF u
  <2> QED
    BY <1>2, <2>1, Zenon DEF Good
<1>4. SslRead(z).z \in {Halt(z).z, t, u}
  BY DEF SslRead, Answer
<1> QED
  BY <1>1, <1>2, <1>3, <1>4, Zenon

(* A record is made once; the calls after that push its rest. *)
LEMMA GoodSslWrite ==
  ASSUME NEW z, NEW w \in Seq(Nat), NEW x \in BOOLEAN, Good(z, w, x), z.hs # "hello"
  PROVE  Good(SslWrite(z).z, w, x)
<1> DEFINE y == IF z.rec = <<>> THEN Make(z, RecLen) ELSE z
<1>1. RecLen \in Nat
  BY TlsAssumption
<1>2. Good(y, w, x)
  BY <1>1, GoodMake, Zenon
<1>3. SslWrite(z).z = Push(y)
  BY DEF SslWrite, Answer
<1> HIDE DEF y
<1> QED
  BY <1>2, <1>3, GoodPush, Zenon

(* Whichever function is called. *)
LEMMA GoodCall ==
  ASSUME NEW z, NEW w \in Seq(Nat), NEW x \in BOOLEAN, Good(z, w, x), z.hs # "hello",
         NEW what \in {"connect", "read", "write"}
  PROVE  Good(Call(what, z).z, w, x)
<1>1. Call(what, z).z \in {z, Halt(z).z, SslRead(z).z, SslWrite(z).z}
  BY Zenon DEF Call, Answer
<1> QED
  BY <1>1, GoodHalt, GoodSslRead, GoodSslWrite, Zenon

-----------------------------------------------------------------------------
(* service_operation.                                                      *)

(* The shape of the operation in progress, and where the units may be: the  *)
(* buffer holds some only in a flush, and the BIO none from the time that   *)
(* bio_read has emptied it to the next call of OpenSSL.                     *)
OpOK ==
  /\ op \in [what : {"none", "connect", "read", "write"},
            at : {"idle", "turn", "flush", "fill"}, due : {op.due},
            out : Seq(Nat), fill : BOOLEAN]
  /\ op.what = "none" <=> op.at = "idle"
  /\ op.at # "flush" => op.out = <<>>
  /\ op.at \in {"flush", "fill"} => nbOut = <<>>

(* The types of the units, and the capacity of the BIO. *)
UnitsOK ==
  /\ wire \in Seq(Nat) /\ nbOut \in Seq(Nat) /\ ssl.rec \in Seq(Nat)
  /\ made \in Nat /\ torn \in BOOLEAN
  /\ Len(nbOut) <= Cap
  /\ ssl.hs = "hello" => ssl.rec = <<>>

(* WireExact alone is not inductive: that Turn does not throw away what a   *)
(* flush still has to write needs OpOK, and that OpenSSL appends to what it *)
(* made before, and does not overwrite it, needs UnitsOK.                   *)
WireInv == OpOK /\ UnitsOK /\ WireExact

(* The state OpenSSL is called in. *)
Before == [hs |-> ssl.hs, got |-> ssl.got, rec |-> ssl.rec, closed |-> ssl.closed,
           in |-> nbIn, out |-> nbOut, made |-> made]

(* OpenSSL is called when the buffer holds nothing. *)
LEMMA GoodBefore ==
  ASSUME WireInv, op.at = "turn"
  PROVE  Good(Before, wire, ~torn)
<1>1. op.out = <<>> /\ wire \in Seq(Nat) /\ nbOut \in Seq(Nat) /\ ssl.rec \in Seq(Nat)
  BY DEF WireInv, OpOK, UnitsOK
<1>2. /\ IsState(Before) /\ Before.out = nbOut /\ Before.rec = ssl.rec
      /\ Before.made = made /\ Before.hs = ssl.hs
  BY DEF Before, IsState
<1>3. wire \o op.out \o nbOut \o ssl.rec = wire \o (nbOut \o ssl.rec)
  <2>1. wire \o <<>> \o nbOut \o ssl.rec = wire \o (nbOut \o ssl.rec)
    BY <1>1, ConcatGap, Zenon
  <2> QED
    BY <1>1, <2>1, Zenon
<1>4. ~torn => wire \o (nbOut \o ssl.rec) = [k \in 1 .. made |-> k]
  BY <1>3, Zenon DEF WireInv, WireExact
<1> QED
  BY <1>2, <1>4, Zenon DEF Good, WireInv, UnitsOK

(* One turn of the loop appends to what OpenSSL made, and loses nothing. *)
LEMMA WireTurn ==
  ASSUME WireInv, Turn
  PROVE  WireInv'
<1>1. op.at = "turn" /\ torn \in BOOLEAN /\ (~torn) \in BOOLEAN /\ wire \in Seq(Nat)
  BY DEF Turn, WireInv, UnitsOK
<1>2. Handshake = Hear(Greet(Before))
  BY DEF Handshake, Before
<1>3. Good(Handshake, wire, ~torn) /\ Handshake.hs # "hello"
  <2>1. Good(Before, wire, ~torn)
    BY <1>1, GoodBefore
  <2>2. Good(Greet(Before), wire, ~torn) /\ Greet(Before).hs # "hello"
    BY <1>1, <2>1, GoodGreet, Zenon
  <2> QED
    BY <1>1, <1>2, <2>2, GoodHear, Zenon
<1>4. op.what \in {"connect", "read", "write"}
  BY <1>1 DEF WireInv, OpOK
<1> DEFINE a == Call(op.what, Handshake)
<1>5. Good(a.z, wire, ~torn)
  BY <1>1, <1>3, <1>4, GoodCall, Zenon
<1>6. /\ ssl' = [hs |-> a.z.hs, got |-> a.z.got, rec |-> a.z.rec, closed |-> a.z.closed]
      /\ made' = a.z.made /\ wire' = wire /\ torn' = torn
      /\ \/ op' = Idle /\ nbOut' = a.z.out
         \/ \E f \in BOOLEAN : Goes(a.z.out, f)
  BY DEF Turn, Ends
<1> HIDE DEF a
<1>7. ssl'.rec = a.z.rec /\ ssl'.hs = a.z.hs
  BY <1>6
<1>8. /\ a.z.out \in Seq(Nat) /\ a.z.rec \in Seq(Nat) /\ a.z.made \in Nat
      /\ Len(a.z.out) <= Cap /\ (a.z.hs = "hello" => a.z.rec = <<>>)
      /\ (~torn => wire \o (a.z.out \o a.z.rec) = [k \in 1 .. a.z.made |-> k])
  BY <1>5, Zenon DEF Good
<1>9. CASE op' = Idle /\ nbOut' = a.z.out
  <2>1. UnitsOK'
    BY <1>1, <1>6, <1>7, <1>8, <1>9, Zenon DEF UnitsOK
  <2>2. OpOK'
    BY <1>9 DEF OpOK, Idle
  <2>3. wire \o <<>> \o a.z.out \o a.z.rec = wire \o (a.z.out \o a.z.rec)
    BY <1>1, <1>8, ConcatGap, Zenon
  <2>4. op'.out = <<>>
    BY <1>9 DEF Idle
  <2>5. WireExact'
    BY <1>6, <1>7, <1>8, <1>9, <2>3, <2>4, Zenon DEF WireExact
  <2> QED
    BY <2>1, <2>2, <2>5 DEF WireInv
<1>10. ASSUME NEW f \in BOOLEAN, Goes(a.z.out, f) PROVE WireInv'
  <2>1. nbOut' = <<>> /\ op'.out = a.z.out
    BY <1>10, <1>8 DEF Goes, WireInv, OpOK
  <2>2. UnitsOK'
    <3>1. <<>> \in Seq(Nat) /\ Len(<<>>) <= Cap
      BY TlsAssumption
    <3> QED
      BY <1>1, <1>6, <1>7, <1>8, <2>1, <3>1, Zenon DEF UnitsOK
  <2>3. OpOK'
    BY <1>4, <1>8, <1>10 DEF OpOK, Goes, WireInv
  <2>4. wire \o a.z.out \o <<>> \o a.z.rec = wire \o (a.z.out \o a.z.rec)
    BY <1>1, <1>8, ConcatGap, Zenon
  <2>5. WireExact'
    BY <1>6, <1>7, <1>8, <2>1, <2>4, Zenon DEF WireExact
  <2> QED
    BY <2>2, <2>3, <2>5 DEF WireInv
<1> QED
  BY <1>6, <1>9, <1>10

(* A part of the buffer goes over the wire. *)
LEMMA WireFlushed ==
  ASSUME WireInv, NEW n, Flushed(n)
  PROVE  WireInv'
<1> DEFINE a == SubSeq(op.out, 1, n)
           b == SubSeq(op.out, n + 1, Len(op.out))
<1>1. /\ op.at = "flush" /\ n \in 1 .. Len(op.out) /\ op.out \in Seq(Nat)
      /\ wire \in Seq(Nat) /\ nbOut = <<>>
  BY DEF Flushed, WireInv, OpOK, UnitsOK
<1>2. n \in 0 .. Len(op.out)
  BY <1>1
<1>3. /\ a \in Seq(Nat) /\ b \in Seq(Nat) /\ a \o b = op.out
      /\ Len(b) = Len(op.out) - n
  BY <1>1, <1>2, Cut, Zenon
<1>4. /\ wire' = wire \o a
      /\ op' = [op EXCEPT !.out = b, !.at = IF n < Len(op.out) THEN "flush"
                                            ELSE IF op.fill THEN "fill" ELSE "turn"]
      /\ UNCHANGED <<ssl, nbOut, made, torn>>
  BY DEF Flushed
<1> HIDE DEF a, b
<1>5. op'.out = b
  BY <1>4 DEF WireInv, OpOK
<1>6. n >= Len(op.out) => b = <<>>
  <2>1. n >= Len(op.out) => Len(b) = 0
    BY <1>1, <1>3
  <2> QED
    BY <2>1, <1>3, EmptySeq
<1>7. OpOK'
  <2>1. op' \in [what : {"none", "connect", "read", "write"},
                 at : {"idle", "turn", "flush", "fill"}, due : {op'.due},
                 out : Seq(Nat), fill : BOOLEAN]
    BY <1>3, <1>4 DEF OpOK, WireInv
  <2>2. op'.what = op.what /\ op.what # "none" /\ op'.at # "idle"
    BY <1>1, <1>4 DEF OpOK, WireInv
  <2>3. op'.at # "flush" => n >= Len(op.out)
    BY <1>1, <1>4 DEF OpOK, WireInv
  <2> QED
    BY <1>1, <1>4, <1>5, <1>6, <2>1, <2>2, <2>3 DEF OpOK
<1>8. wire \o a \in Seq(Nat) /\ (wire \o a) \o b = wire \o op.out
  <2>1. wire \o a \in Seq(Nat)
    BY <1>1, <1>3, Concat, Zenon
  <2>2. (wire \o a) \o b = wire \o (a \o b)
    BY <1>1, <1>3, Associative, Zenon
  <2> QED
    BY <1>3, <2>1, <2>2, Zenon
<1>9. UnitsOK'
  BY <1>4, <1>8 DEF UnitsOK, WireInv
<1>10. WireExact'
  BY <1>4, <1>5, <1>8, Zenon DEF WireInv, WireExact
<1> QED
  BY <1>7, <1>9, <1>10 DEF WireInv

(* What ends an operation outside of OpenSSL leaves an idle one; only a     *)
(* flush that threw has something to lose, and says so.                     *)
LEMMA WireEnds ==
  ASSUME WireInv, op' = Idle, UNCHANGED <<ssl, nbOut, wire, made>>,
         torn' \in BOOLEAN, ~torn' => ~torn /\ op.at # "flush"
  PROVE  WireInv'
<1>1. OpOK' /\ op'.out = <<>>
  BY DEF OpOK, Idle
<1>2. UnitsOK'
  BY DEF UnitsOK, WireInv
<1>3. ~torn' => op.out = <<>>
  BY DEF WireInv, OpOK
<1>4. WireExact'
  BY <1>1, <1>3, Zenon DEF WireInv, WireExact
<1> QED
  BY <1>1, <1>2, <1>4 DEF WireInv

(* A new operation, on a fresh connection or after another one. *)
LEMMA WireFresh ==
  ASSUME FreshTls, OpOK', op'.out = <<>>
  PROVE  WireInv'
<1>1. UnitsOK'
  <2>1. <<>> \in Seq(Nat) /\ Len(<<>>) <= Cap /\ 0 \in Nat
    BY TlsAssumption
  <2> QED
    BY <2>1 DEF FreshTls, UnitsOK
<1>2. WireExact'
  <2>1. <<>> \o <<>> \o <<>> \o <<>> = [k \in 1 .. 0 |-> k]
    OBVIOUS
  <2>2. /\ wire' = <<>> /\ nbOut' = <<>> /\ made' = 0 /\ ssl'.rec = <<>>
    BY DEF FreshTls
  <2> QED
    BY <2>1, <2>2, Zenon DEF WireExact
<1> QED
  BY <1>1, <1>2 DEF WireInv

(* Every step keeps the invariant. *)
LEMMA WireStep ==
  ASSUME WireInv, [Next]_vars
  PROVE  WireInv'
<1>1. CASE UNCHANGED <<ssl, nbOut, op, wire, made, torn>>
  BY <1>1 DEF WireInv, OpOK, UnitsOK, WireExact
<1>2. CASE Plain /\ UNCHANGED <<tls, peer>>
  BY <1>1, <1>2 DEF tls
<1>3. CASE Passes
  BY <1>1, <1>3 DEF Passes, tls
<1>4. CASE Gone
  <2>1. op' = op /\ op.at = "idle" /\ op.out = <<>> /\ FreshTls
    BY <1>4 DEF Gone, WireInv, OpOK
  <2>2. nbOut' = <<>>
    BY <2>1 DEF FreshTls
  <2>3. OpOK' /\ op'.out = <<>>
    BY <2>1, <2>2 DEF WireInv, OpOK
  <2> QED
    BY <2>1, <2>3, WireFresh
<1>5. CASE Secure
  <2>1. op' = [what |-> "connect", at |-> "turn", due |-> call.due,
               out |-> <<>>, fill |-> FALSE]
    BY <1>5 DEF Secure, Starts, Idle
  <2>2. OpOK' /\ op'.out = <<>>
    BY <2>1 DEF OpOK
  <2> QED
    BY <1>5, <2>2, WireFresh DEF Secure
<1>6. CASE Turn
  BY <1>6, WireTurn
<1>7. CASE FilledNothing
  <2>1. op.at # "flush" /\ op' = Idle /\ UNCHANGED <<ssl, nbOut, wire, made, torn>>
    BY <1>7 DEF FilledNothing, Ends
  <2> QED
    BY <2>1, WireEnds DEF WireInv, UnitsOK
<1>8. CASE Shut
  BY <1>1, <1>8 DEF Shut, tls
<1>9. ASSUME NEW n \in 1 .. Cap, Flushed(n) PROVE WireInv'
  BY <1>9, WireFlushed
<1>15. CASE FlushedNothing
  <2>1. /\ op.at = "flush" /\ torn' = TRUE /\ UNCHANGED <<ssl, nbOut, wire, made>>
        /\ op' = [op EXCEPT !.out = <<>>, !.at = IF op.fill THEN "fill" ELSE "turn"]
    BY <1>15 DEF FlushedNothing
  <2>2. OpOK'
    <3>1. <<>> \in Seq(Nat)
      OBVIOUS
    <3> QED
      BY <2>1, <3>1 DEF WireInv, OpOK
  <2>3. UnitsOK' /\ WireExact'
    BY <2>1 DEF WireInv, UnitsOK, WireExact
  <2> QED
    BY <2>2, <2>3 DEF WireInv
<1>10. ASSUME NEW n \in 1 .. Cap, Filled(n) PROVE WireInv'
  <2>1. /\ op.at = "fill" /\ UNCHANGED <<ssl, nbOut, wire, made, torn>>
        /\ op' = Idle \/ op' = [op EXCEPT !.at = "turn"]
    BY <1>10 DEF Filled, Ends
  <2>2. CASE op' = Idle
    BY <2>1, <2>2, WireEnds DEF WireInv, UnitsOK
  <2>3. CASE op' = [op EXCEPT !.at = "turn"]
    <3>1. OpOK' /\ op'.out = op.out
      BY <2>1, <2>3 DEF WireInv, OpOK
    <3>2. UnitsOK' /\ WireExact'
      BY <2>1, <3>1 DEF WireInv, UnitsOK, WireExact
    <3> QED
      BY <3>1, <3>2 DEF WireInv
  <2> QED
    BY <2>1, <2>2, <2>3
<1>11. ASSUME NEW as, Throws(as) PROVE WireInv'
  <2>1. /\ op' = Idle /\ UNCHANGED <<ssl, nbOut, wire, made>>
        /\ torn' = (torn \/ op.at = "flush")
    BY <1>11 DEF Throws, Ends
  <2>2. torn' \in BOOLEAN /\ (~torn' => ~torn /\ op.at # "flush")
    BY <2>1 DEF WireInv, UnitsOK
  <2> QED
    BY <2>1, <2>2, WireEnds
<1>12. ASSUME NEW due, Read(due) \/ Write(due) PROVE WireInv'
  <2>1. /\ op.what = "none" /\ UNCHANGED <<ssl, nbOut, wire, made, torn>>
        /\ \E what \in {"read", "write"} : Starts(what, due)
    BY <1>12 DEF Read, Write, Ready
  <2>2. OpOK' /\ op'.out = <<>> /\ op.out = <<>>
    BY <2>1 DEF Starts, Idle, OpOK, WireInv
  <2>3. UnitsOK' /\ WireExact'
    BY <2>1, <2>2 DEF WireInv, UnitsOK, WireExact
  <2> QED
    BY <2>2, <2>3 DEF WireInv
<1>13. ASSUME NEW r, Feed(r) PROVE WireInv'
  BY <1>1, <1>13 DEF Feed, tls
<1>14. CASE UNCHANGED vars
  BY <1>1, <1>14 DEF vars, tls
<1> QED
  BY <1>2, <1>3, <1>4, <1>5, <1>6, <1>7, <1>8, <1>9, <1>10, <1>11, <1>12, <1>13, <1>14,
     <1>15 DEF Next

(* The inductive invariant of the units on their way out. *)
THEOREM WireInvariant == Spec => []WireInv
<1>1. Init => WireInv
  <2> SUFFICES ASSUME Init PROVE WireInv
    OBVIOUS
  <2>1. OpOK
    BY DEF Init, Idle, OpOK
  <2>2. UnitsOK
    <3>1. <<>> \in Seq(Nat) /\ Len(<<>>) <= Cap /\ 0 \in Nat
      BY TlsAssumption
    <3> QED
      BY <3>1 DEF Init, UnitsOK
  <2>3. WireExact
    <3>1. <<>> \o <<>> \o <<>> \o <<>> = [k \in 1 .. 0 |-> k]
      OBVIOUS
    <3>2. wire = <<>> /\ op.out = <<>> /\ nbOut = <<>> /\ ssl.rec = <<>> /\ made = 0
      BY DEF Init, Idle
    <3> QED
      BY <3>1, <3>2, Zenon DEF WireExact
  <2> QED
    BY <2>1, <2>2, <2>3 DEF WireInv
<1>2. WireInv /\ [Next]_vars => WireInv'
  BY WireStep
<1> QED
  BY <1>1, <1>2, PTL DEF Spec

(* Until a flush is cut short, what went over the socket, what bio_read     *)
(* still has to write, what is in the BIO and what OpenSSL keeps are in     *)
(* this order everything OpenSSL made; and while an operation awaits the    *)
(* socket nothing waits to be sent.  For BIOs and messages of any size.     *)
THEOREM TlsWireSafe == Spec => [](WireExact /\ FlushedBeforeAwait)
<1>1. WireInv => WireExact /\ FlushedBeforeAwait
  BY DEF WireInv, OpOK, FlushedBeforeAwait
<1> QED
  BY <1>1, WireInvariant, PTL

-----------------------------------------------------------------------------
(* What OpenSSL leaves in the BIO pair, and how much it makes.             *)

(* The units of the message that OpenSSL is reading. *)
Limit(hs) == IF hs = "done" THEN RecLen ELSE HsLen

(* z is a state of the SSL object and the BIO pair that the bounds allow:   *)
(* the handshake has made its units, and a message is not complete.         *)
Sized(z) ==
  /\ IsState(z)
  /\ z.hs \in {"hello", "flight", "done"} /\ z.closed \in BOOLEAN
  /\ z.got \in Nat /\ z.got < Limit(z.hs)
  /\ z.rec \in Units /\ z.out \in Units /\ Len(z.out) <= Cap
  /\ z.in \in Seq(Tags) /\ Len(z.in) <= Cap
  /\ z.made \in 0 .. MaxMade
  /\ z.hs = "hello" => z.made = 0
  /\ z.hs = "flight" => z.made = 1

(* The types of the SSL object, of an operation and of its end. *)
SslType ==
  [hs : {"hello", "flight", "done"}, got : Nat, rec : Units, closed : BOOLEAN]

OpType ==
  [what : {"none", "connect", "read", "write"}, at : {"idle", "turn", "flush", "fill"},
   due : Nat \cup {NoDeadline}, out : Units, fill : BOOLEAN]

LastType ==
  [what : {"none", "connect", "read", "write"}, as : {"ok", "zero"} \cup Failed]

(* The rest of the connection. *)
RestTypes ==
  /\ ssl \in SslType /\ op \in OpType /\ last \in LastType
  /\ wire \in Units /\ torn \in BOOLEAN
  /\ net \in Seq(Tags) /\ fed \in 0 .. MaxFed /\ eof \in BOOLEAN

(* The operation is about to await the socket: OpenSSL has taken all there  *)
(* was in the BIO.                                                          *)
Waits ==
  op.at = "fill" \/ (op.at = "flush" /\ op.fill) =>
    nbIn = <<>> /\ (ssl.hs # "done" => ssl.hs = "flight" /\ ssl.rec = <<>>)

(* The stream ended in the handshake, which can never go on. *)
Stuck == ssl.hs = "flight" /\ ssl.rec = <<>> /\ nbIn = <<>> /\ net = <<>> /\ eof

(* tls::connect returns when the handshake is done, when it is stuck, or    *)
(* when the server gave it up with a close_notify.                          *)
HandshakeDone ==
  call.op = "returned" /\ call.secure => ssl.hs = "done" \/ Stuck \/ ssl.closed

(* A read or a write is one of a connection that was returned, and a write  *)
(* that has made nothing yet has room for its record.                       *)
OfConnection ==
  /\ op.what \in {"read", "write"} => call.op = "returned" /\ call.secure
  /\ op.what = "write" /\ ssl.hs = "done" /\ ssl.rec = <<>> => made + RecLen <= MaxMade

(* BioFits is not inductive: that the BIO is empty while the socket is      *)
(* awaited needs to know what OpenSSL leaves there when it wants to read,   *)
(* and that it does not call for a read with a complete message before it.  *)
BioInv == Sized(Before) /\ RestTypes /\ Waits /\ HandshakeDone /\ OfConnection

(* The bounds are numbers. *)
LEMMA TlsLimits ==
  /\ Cap \in Nat \ {0} /\ HsLen \in Nat \ {0} /\ RecLen \in Nat \ {0}
  /\ MaxMade \in Nat /\ MaxMade > 1 /\ MaxFed \in Nat
  BY TlsAssumption

(* The rest of a sequence, from which k elements were taken. *)
LEMMA RestOf ==
  ASSUME NEW S, NEW s \in Seq(S), NEW k \in 0 .. Len(s)
  PROVE  /\ SubSeq(s, k + 1, Len(s)) \in Seq(S)
         /\ Len(SubSeq(s, k + 1, Len(s))) = Len(s) - k
         /\ k = Len(s) => SubSeq(s, k + 1, Len(s)) = <<>>
<1> DEFINE b == SubSeq(s, k + 1, Len(s))
<1>1. Len(s) \in Nat /\ b \in Seq(S) /\ Len(b) = Len(s) - k
  BY Cut, LenProperties
<1> HIDE DEF b
<1>2. k = Len(s) => Len(b) = 0
  BY <1>1
<1> QED
  BY <1>1, <1>2, EmptySeq DEF b

(* The smaller of two numbers. *)
LEMMA MinOfTwo ==
  ASSUME NEW a \in Nat, NEW b \in Nat, NEW m, m = Min({a, b})
  PROVE  m \in Nat /\ m <= a /\ m <= b /\ (m = a \/ m = b)
<1>1. {a, b} \subseteq Nat /\ {a, b} # {}
  OBVIOUS
<1>2. Min({a, b}) \in {a, b} /\ \A y \in {a, b} : Min({a, b}) <= y
  BY <1>1, MinLeast, Zenon
<1> QED
  BY <1>2

(* As much as fits goes into the BIO. *)
LEMMA SizedPush ==
  ASSUME NEW z, Sized(z), NEW p, p = Push(z)
  PROVE  /\ Sized(p) /\ p.hs = z.hs /\ p.in = z.in /\ p.got = z.got
         /\ p.made = z.made /\ p.closed = z.closed
<1> DEFINE r == Len(z.rec)
           c == Cap - Len(z.out)
           k == Min({r, c})
           a == SubSeq(z.rec, 1, k)
           b == SubSeq(z.rec, k + 1, Len(z.rec))
           o == z.out \o a
<1>1. /\ z.rec \in Seq(1 .. MaxMade) /\ z.out \in Seq(1 .. MaxMade)
      /\ Len(z.out) \in Nat /\ Len(z.rec) \in Nat /\ Len(z.out) <= Cap
  BY LenProperties DEF Sized, Units
<1>2. r \in Nat /\ c \in Nat
  BY <1>1, TlsLimits
<1>3. p = [z EXCEPT !.out = o, !.rec = b]
  BY Zenon DEF Push
<1> HIDE DEF c
<1>4. k \in Nat /\ k <= r /\ k <= c
  <2> HIDE DEF r, k
  <2>1. k = Min({r, c})
    BY DEF k
  <2> QED
    BY <1>2, <2>1, MinOfTwo
<1> HIDE DEF k
<1>5. k \in 0 .. Len(z.rec)
  BY <1>1, <1>4
<1>6. /\ a \in Seq(1 .. MaxMade) /\ Len(a) = k /\ b \in Seq(1 .. MaxMade)
  BY <1>1, <1>5, Cut
<1> HIDE DEF a, b
<1>7. o \in Seq(1 .. MaxMade) /\ Len(o) = Len(z.out) + Len(a)
  BY <1>1, <1>6, ConcatProperties
<1>8. Len(o) <= Cap
  BY <1>1, <1>4, <1>6, <1>7, TlsLimits DEF c
<1> HIDE DEF o
<1>9. /\ IsState(p) /\ p.out = o /\ p.rec = b /\ p.made = z.made /\ p.closed = z.closed
      /\ p.hs = z.hs /\ p.in = z.in /\ p.got = z.got
  BY <1>3 DEF Sized, IsState
<1> QED
  BY <1>6, <1>7, <1>8, <1>9, Zenon DEF Sized, Units

(* A message of n units is made, if there is room for it. *)
LEMMA SizedMake ==
  ASSUME NEW z, Sized(z), NEW n \in Nat, NEW h \in {"flight", "done"}, NEW g \in Nat,
         g < Limit(h), z.made + n <= MaxMade, h = "flight" => z.made + n = 1,
         NEW y, IsState(y), y.hs = h, y.got = g, y.closed = z.closed, y.out = z.out,
         y.in \in Seq(Tags), Len(y.in) <= Cap, y.made = z.made,
         NEW p, p = Make(y, n)
  PROVE  /\ Sized(p) /\ p.hs = h /\ p.got = g /\ p.in = y.in /\ p.made = z.made + n
         /\ p.closed = z.closed
<1> DEFINE b == [k \in 1 .. n |-> z.made + k]
           m == z.made + n
<1>1. z.made \in 0 .. MaxMade /\ z.made \in Nat
  BY DEF Sized
<1>2. b \in [1 .. n -> 1 .. MaxMade]
  <2>1. \A k \in 1 .. n : z.made + k \in 1 .. MaxMade
    BY <1>1, TlsLimits
  <2> QED
    BY <2>1
<1>3. b \in Seq(1 .. MaxMade)
  BY <1>2
<1>4. m \in 0 .. MaxMade
  BY <1>1, TlsLimits
<1>5. p = [y EXCEPT !.rec = b, !.made = m]
  BY Zenon DEF Make
<1> HIDE DEF b, m
<1>6. /\ IsState(p) /\ p.out = z.out /\ p.rec = b /\ p.made = m /\ p.closed = z.closed
      /\ p.hs = h /\ p.in = y.in /\ p.got = g
  BY <1>5 DEF IsState
<1>7. h = "flight" => m = 1
  BY DEF m
<1> QED
  BY <1>3, <1>4, <1>6, <1>7 DEF Sized, Units, m

(* Units are taken until the message is complete or the BIO is empty. *)
LEMMA SizedTake ==
  ASSUME NEW z, Sized(z), NEW n, n = Limit(z.hs), NEW t, t = Take(z, n)
  PROVE  /\ IsState(t) /\ t.hs = z.hs /\ t.rec = z.rec /\ t.out = z.out
         /\ t.made = z.made /\ t.closed = z.closed
         /\ t.in \in Seq(Tags) /\ Len(t.in) <= Cap /\ t.got \in Nat /\ t.got <= n
         /\ t.got < n => t.in = <<>> /\ Sized(t)
         /\ z.in = <<>> => t.got = z.got
<1> DEFINE d == n - z.got
           l == Len(z.in)
           k == Min({l, d})
           i == SubSeq(z.in, k + 1, Len(z.in))
           g == z.got + k
<1>1. /\ z.in \in Seq(Tags) /\ Len(z.in) \in Nat /\ Len(z.in) <= Cap /\ z.got \in Nat
      /\ n \in Nat /\ z.got < n
  BY LenProperties, TlsLimits DEF Sized, Limit
<1>2. l \in Nat /\ d \in Nat
  BY <1>1
<1>3. t = [z EXCEPT !.in = i, !.got = g]
  BY Zenon DEF Take
<1>4. k \in Nat /\ k <= l /\ k <= d /\ (k = l \/ k = d)
  <2> HIDE DEF l, d, k
  <2>1. k = Min({l, d})
    BY DEF k
  <2> QED
    BY <1>2, <2>1, MinOfTwo
<1> HIDE DEF k
<1>5. k \in 0 .. Len(z.in)
  BY <1>1, <1>4
<1>6. i \in Seq(Tags) /\ Len(i) = Len(z.in) - k /\ (k = Len(z.in) => i = <<>>)
  BY <1>1, <1>5, RestOf
<1>7. Len(i) <= Cap /\ g \in Nat /\ g <= n /\ (g < n => k = Len(z.in))
  BY <1>1, <1>4, <1>6, TlsLimits
<1>11. z.in = <<>> => g = z.got
  <2>1. z.in = <<>> => l = 0
    BY EmptySeq
  <2>2. l = 0 => k = 0
    BY <1>2, <1>4
  <2> QED
    BY <1>1, <2>1, <2>2
<1> HIDE DEF i, g
<1>8. /\ IsState(t) /\ t.out = z.out /\ t.rec = z.rec /\ t.made = z.made
      /\ t.closed = z.closed /\ t.hs = z.hs /\ t.in = i /\ t.got = g
  BY <1>3 DEF Sized, IsState
<1>9. g < n => Sized(t)
  BY <1>6, <1>7, <1>8 DEF Sized
<1> QED
  BY <1>6, <1>7, <1>11, <1>8, <1>9

(* The client's hello is made, ... *)
LEMMA SizedGreet ==
  ASSUME NEW z, Sized(z)
  PROVE  /\ Sized(Greet(z)) /\ Greet(z).hs # "hello" /\ Greet(z).closed = z.closed
         /\ z.hs # "hello" => Greet(z) = z
         /\ z.hs = "hello" => Greet(z).hs = "flight"
<1>1. CASE z.hs # "hello"
  BY <1>1 DEF Greet
<1>2. CASE z.hs = "hello"
  <2> DEFINE y == [z EXCEPT !.hs = "flight"]
             p == Make(y, 1)
             q == Push(p)
  <2>1. Greet(z) = q
    BY <1>2 DEF Greet
  <2>2. /\ IsState(y) /\ y.hs = "flight" /\ y.got = z.got /\ y.closed = z.closed
        /\ y.out = z.out /\ y.in = z.in /\ y.made = z.made
    BY DEF Sized, IsState
  <2> HIDE DEF y
  <2>3. /\ z.got \in Nat /\ z.got < Limit("flight") /\ z.in \in Seq(Tags)
        /\ Len(z.in) <= Cap /\ z.made = 0
    BY <1>2 DEF Sized, Limit
  <2>4. z.made + 1 <= MaxMade /\ z.made + 1 = 1 /\ 1 \in Nat
    BY <2>3, TlsLimits
  <2>5. Sized(p) /\ p.hs = "flight" /\ p.closed = z.closed
    BY <2>2, <2>3, <2>4, SizedMake
  <2> HIDE DEF p
  <2>6. Sized(q) /\ q.hs = p.hs /\ q.closed = p.closed
    BY <2>5, SizedPush
  <2> HIDE DEF q
  <2> QED
    BY <1>2, <2>1, <2>5, <2>6
<1> QED
  BY <1>1, <1>2

(* ... and the server's flight is read: OpenSSL asks for more only when it  *)
(* has taken all there is.                                                  *)
LEMMA SizedHear ==
  ASSUME NEW z, Sized(z), z.hs # "hello"
  PROVE  LET y == Hear(z)
         IN  /\ Sized(y) /\ y.hs # "hello"
             /\ y.hs # "done" /\ y.rec = <<>> /\ ~Halted(y) => y.in = <<>>
             /\ z.hs = "done" \/ z.closed => y = z
             /\ z.hs = "flight" /\ z.rec = <<>> /\ z.in = <<>> =>
                  y.hs = "flight" /\ y.rec = <<>> /\ y.in = <<>>
<1> DEFINE u == Hear(z)
<1>0. z.hs \in {"flight", "done"}
  BY DEF Sized
<1>1. CASE z.hs # "flight" \/ z.rec # <<>> \/ Halted(z)
  <2>1. u = z
    BY <1>1, Zenon DEF Hear
  <2> HIDE DEF u
  <2> QED
    BY <1>0, <1>1, <2>1 DEF u
<1>2. CASE ~(z.hs # "flight" \/ z.rec # <<>> \/ Halted(z))
  <2> DEFINE t == Take(z, HsLen)
             y == [t EXCEPT !.hs = "done", !.got = 0]
             p == Make(y, 1)
             q == Push(p)
  <2>0. Limit(z.hs) = HsLen /\ HsLen \in Nat /\ z.hs = "flight" /\ z.rec = <<>>
        /\ z.got \in Nat /\ z.got < HsLen /\ z.made = 1
    BY <1>2, TlsLimits DEF Limit, Sized
  <2>9. ~z.closed
    BY <1>2 DEF Halted
  <2>1. u = IF t.got < HsLen THEN t ELSE q
    BY <1>2, Zenon DEF Hear
  <2>2. /\ IsState(t) /\ t.hs = z.hs /\ t.rec = z.rec /\ t.out = z.out
        /\ t.made = z.made /\ t.closed = z.closed
        /\ t.in \in Seq(Tags) /\ Len(t.in) <= Cap /\ t.got \in Nat
        /\ t.got < HsLen => t.in = <<>> /\ Sized(t)
        /\ z.in = <<>> => t.got = z.got
    BY <2>0, SizedTake
  <2> HIDE DEF t
  <2>3. /\ IsState(y) /\ y.hs = "done" /\ y.got = 0 /\ y.closed = z.closed
        /\ y.out = z.out /\ y.in = t.in /\ y.made = z.made
    BY <2>2 DEF IsState
  <2> HIDE DEF y
  <2>4. 0 \in Nat /\ 0 < Limit("done") /\ z.made + 1 <= MaxMade /\ 1 \in Nat
    BY <2>0, TlsLimits DEF Limit
  <2>5. Sized(p) /\ p.hs = "done"
    BY <2>2, <2>3, <2>4, SizedMake
  <2> HIDE DEF p
  <2>6. Sized(q) /\ q.hs = p.hs
    BY <2>5, SizedPush
  <2> HIDE DEF q, u
  <2>7. CASE t.got < HsLen
    BY <2>0, <2>1, <2>2, <2>7, <2>9 DEF u
  <2>8. CASE ~(t.got < HsLen)
    <3>1. z.in # <<>>
      BY <2>0, <2>2, <2>8
    <3> QED
      BY <2>0, <2>1, <2>5, <2>6, <2>8, <2>9, <3>1 DEF u
  <2> QED
    BY <2>7, <2>8
<1> QED
  BY <1>1, <1>2

(* What comes in has ended. *)
LEMMA SizedHalt ==
  ASSUME NEW z, Sized(z), Halted(z), NEW a, a = Halt(z)
  PROVE  /\ Sized(a.z) /\ a.z.hs = z.hs /\ a.z.rec = z.rec
         /\ (a.err = "ZERO_RETURN" /\ a.z.closed) \/ (a.err = "SSL" /\ a.z = z)
<1> DEFINE y == [z EXCEPT !.in = Tail(z.in), !.closed = TRUE]
<1>1. \/ z.closed /\ a = Answer(z, "ZERO_RETURN")
      \/ a = Answer(z, "SSL")
      \/ z.in # <<>> /\ a = Answer(y, "ZERO_RETURN")
  BY DEF Halt, Halted, IsNext
<1>2. ASSUME z.in # <<>> PROVE Sized(y) /\ y.hs = z.hs /\ y.rec = z.rec /\ y.closed
  <2> DEFINE i == Tail(z.in)
  <2>1. z.in \in Seq(Tags) /\ Len(z.in) <= Cap /\ Len(z.in) \in Nat
    BY LenProperties DEF Sized
  <2>2. i \in Seq(Tags) /\ Len(i) = Len(z.in) - 1
    BY <1>2, <2>1, HeadTailProperties
  <2>3. Len(i) <= Cap
    BY <2>1, <2>2, TlsLimits
  <2> HIDE DEF i
  <2>4. y = [z EXCEPT !.in = i, !.closed = TRUE]
    BY DEF i
  <2> HIDE DEF y
  <2>5. /\ IsState(y) /\ y.out = z.out /\ y.rec = z.rec /\ y.made = z.made
        /\ y.closed = TRUE /\ y.hs = z.hs /\ y.in = i /\ y.got = z.got
    BY <2>4 DEF Sized, IsState
  <2> QED
    BY <2>2, <2>3, <2>5 DEF Sized
<1> HIDE DEF y
<1> QED
  BY <1>1, <1>2 DEF Answer

(* SSL_read after the handshake. *)
LEMMA SizedRead ==
  ASSUME NEW z, Sized(z), z.hs = "done", NEW a, a = SslRead(z)
  PROVE  /\ Sized(a.z) /\ a.z.hs = "done"
         /\ a.err \in {"ZERO_RETURN", "SSL", "WANT_READ", "NONE"}
         /\ a.err = "WANT_READ" => a.z.in = <<>>
<1> DEFINE t == Take(z, RecLen)
           u == [t EXCEPT !.got = 0]
<1>0. Limit(z.hs) = RecLen /\ RecLen \in Nat \ {0}
  BY TlsLimits DEF Limit
<1>1. /\ IsState(t) /\ t.hs = z.hs /\ t.rec = z.rec /\ t.out = z.out
      /\ t.made = z.made /\ t.closed = z.closed
      /\ t.in \in Seq(Tags) /\ Len(t.in) <= Cap /\ t.got \in Nat
      /\ t.got < RecLen => t.in = <<>> /\ Sized(t)
  BY <1>0, SizedTake
<1>2. \/ Halted(z) /\ a = Halt(z)
      \/ a = (IF t.got < RecLen THEN Answer(t, "WANT_READ") ELSE Answer(u, "NONE"))
  BY DEF SslRead
<1> HIDE DEF t
<1>3. CASE Halted(z) /\ a = Halt(z)
  <2>1. /\ Sized(a.z) /\ a.z.hs = z.hs /\ a.err \in {"ZERO_RETURN", "SSL"}
    BY <1>3, SizedHalt
  <2> QED
    BY <2>1
<1>4. Sized(u) /\ u.hs = "done"
  <2>1. /\ IsState(u) /\ u.hs = z.hs /\ u.rec = z.rec /\ u.out = z.out
        /\ u.made = z.made /\ u.closed = z.closed /\ u.in = t.in /\ u.got = 0
    BY <1>1 DEF IsState
  <2>2. 0 < RecLen /\ 0 \in Nat
    BY <1>0
  <2> HIDE DEF u
  <2> QED
    BY <1>0, <1>1, <2>1, <2>2 DEF Sized
<1> HIDE DEF u
<1> QED
  BY <1>1, <1>2, <1>3, <1>4 DEF Answer

(* SSL_write after the handshake: it makes its record once. *)
LEMMA SizedWrite ==
  ASSUME NEW z, Sized(z), z.hs = "done", z.rec = <<>> => z.made + RecLen <= MaxMade,
         NEW a, a = SslWrite(z)
  PROVE  /\ Sized(a.z) /\ a.z.hs = "done"
         /\ \/ a.err = "NONE"
            \/ a.err = "WANT_WRITE" /\ a.z.rec # <<>>
<1> DEFINE m == Make(z, RecLen)
           y == IF z.rec = <<>> THEN m ELSE z
           t == Push(y)
<1>1. Sized(y) /\ y.hs = "done"
  <2>1. CASE z.rec # <<>>
    BY <2>1
  <2>2. CASE z.rec = <<>>
    <3>1. /\ IsState(z) /\ z.got \in Nat /\ z.got < Limit("done") /\ z.in \in Seq(Tags)
          /\ Len(z.in) <= Cap /\ RecLen \in Nat /\ z.made + RecLen <= MaxMade
      BY <2>2, TlsLimits DEF Sized
    <3>2. Sized(m) /\ m.hs = "done"
      BY <3>1, SizedMake
    <3> HIDE DEF m
    <3> QED
      BY <2>2, <3>2
  <2> QED
    BY <2>1, <2>2
<1>2. a = Answer(t, IF t.rec = <<>> THEN "NONE" ELSE "WANT_WRITE")
  BY DEF SslWrite
<1> HIDE DEF y
<1>3. Sized(t) /\ t.hs = y.hs
  BY <1>1, SizedPush
<1> HIDE DEF t
<1> QED
  BY <1>1, <1>2, <1>3 DEF Answer

(* What a call of OpenSSL leaves when the handshake has gone first. *)
LEMMA SizedCall ==
  ASSUME NEW z, Sized(z), z.hs # "hello", NEW what \in {"connect", "read", "write"},
         z.hs # "done" /\ z.rec = <<>> /\ ~Halted(z) => z.in = <<>>,
         what = "write" /\ z.hs = "done" /\ z.rec = <<>> => z.made + RecLen <= MaxMade,
         NEW a, a = Call(what, z)
  PROVE  /\ Sized(a.z) /\ a.z.hs = z.hs /\ (z.hs # "done" => a.z = z \/ a.z.closed)
         /\ a.err \in {"NONE", "ZERO_RETURN", "SSL", "WANT_READ", "WANT_WRITE"}
         /\ a.err = "WANT_READ" => a.z.in = <<>> /\ (a.z.hs # "done" => a.z.rec = <<>>)
         /\ what = "write" /\ a.err \in {"WANT_READ", "WANT_WRITE"} =>
              ~(a.z.hs = "done" /\ a.z.rec = <<>>)
         /\ what = "connect" /\ a.err \in {"NONE", "ZERO_RETURN"} =>
              a.z.hs = "done" \/ a.z.closed
<1>1. CASE z.hs # "done"
  <2>1. \/ a = Answer(z, "WANT_WRITE")
        \/ Halted(z) /\ a = Halt(z)
        \/ z.rec = <<>> /\ ~Halted(z) /\ a = Answer(z, "WANT_READ")
    BY <1>1, Zenon DEF Call
  <2>2. CASE a = Answer(z, "WANT_WRITE")
    BY <1>1, <2>2 DEF Answer
  <2>3. CASE Halted(z) /\ a = Halt(z)
    <3>1. /\ Sized(a.z) /\ a.z.hs = z.hs
          /\ (a.err = "ZERO_RETURN" /\ a.z.closed) \/ (a.err = "SSL" /\ a.z = z)
      BY <2>3, SizedHalt
    <3> QED
      BY <1>1, <3>1
  <2>4. CASE z.rec = <<>> /\ ~Halted(z) /\ a = Answer(z, "WANT_READ")
    BY <1>1, <2>4 DEF Answer
  <2> QED
    BY <2>1, <2>2, <2>3, <2>4
<1>2. CASE z.hs = "done" /\ what = "connect"
  <2>1. a = Answer(z, "NONE")
    BY <1>2 DEF Call
  <2> QED
    BY <1>2, <2>1 DEF Answer
<1>3. CASE z.hs = "done" /\ what = "read"
  <2>1. a = SslRead(z)
    BY <1>3 DEF Call
  <2> QED
    BY <1>3, <2>1, SizedRead
<1>4. CASE z.hs = "done" /\ what = "write"
  <2>1. a = SslWrite(z)
    BY <1>4 DEF Call
  <2>2. /\ Sized(a.z) /\ a.z.hs = "done"
        /\ \/ a.err = "NONE"
           \/ a.err = "WANT_WRITE" /\ a.z.rec # <<>>
    BY <1>4, <2>1, SizedWrite
  <2> QED
    BY <1>4, <2>2
<1> QED
  BY <1>1, <1>2, <1>3, <1>4

-----------------------------------------------------------------------------
(* The steps of the connection.                                            *)

(* No units are a sequence of units. *)
LEMMA NoUnits == <<>> \in Units /\ <<>> \in Seq(Tags) /\ Len(<<>>) = 0 /\ 0 <= Cap
  BY EmptySeq, TlsLimits DEF Units

(* The state that OpenSSL leaves is a state it may be called in. *)
LEMMA SizedAfter ==
  ASSUME NEW z, Sized(z), made' = z.made, nbIn' = z.in, nbOut' \in {z.out, <<>>},
         ssl' = [hs |-> z.hs, got |-> z.got, rec |-> z.rec, closed |-> z.closed]
  PROVE  /\ Sized(Before') /\ ssl' \in SslType /\ ssl'.hs = z.hs /\ ssl'.rec = z.rec
         /\ ssl'.closed = z.closed
<1>1. /\ IsState(Before') /\ Before'.hs = z.hs /\ Before'.got = z.got
      /\ Before'.rec = z.rec /\ Before'.closed = z.closed /\ Before'.in = z.in
      /\ Before'.out = nbOut' /\ Before'.made = z.made
  BY DEF Before, IsState
<1>2. nbOut' \in Units /\ Len(nbOut') <= Cap
  BY NoUnits DEF Sized
<1>3. Sized(Before')
  BY <1>1, <1>2 DEF Sized
<1> QED
  BY <1>3 DEF Sized, SslType

(* A fresh SSL object. *)
LEMMA SizedFresh ==
  ASSUME FreshTls
  PROVE  /\ Sized(Before') /\ ssl' \in SslType /\ last' \in LastType /\ wire' \in Units
         /\ torn' \in BOOLEAN /\ net' \in Seq(Tags) /\ fed' \in 0 .. MaxFed
         /\ eof' \in BOOLEAN
<1>1. /\ ssl' = [hs |-> "hello", got |-> 0, rec |-> <<>>, closed |-> FALSE]
      /\ nbOut' = <<>> /\ nbIn' = <<>> /\ wire' = <<>> /\ made' = 0 /\ torn' = FALSE
      /\ net' = <<>> /\ fed' = 0 /\ eof' = FALSE
      /\ last' = [what |-> "none", as |-> "ok"]
  BY DEF FreshTls
<1>2. /\ IsState(Before') /\ Before'.hs = "hello" /\ Before'.got = 0
      /\ Before'.rec = <<>> /\ Before'.closed = FALSE /\ Before'.in = <<>>
      /\ Before'.out = <<>> /\ Before'.made = 0
  BY <1>1 DEF Before, IsState
<1>3. 0 \in Nat /\ 0 < Limit("hello") /\ 0 \in 0 .. MaxMade /\ 0 \in 0 .. MaxFed
  BY TlsLimits DEF Limit
<1>4. Sized(Before')
  BY <1>2, <1>3, NoUnits DEF Sized
<1>5. ssl' \in SslType /\ last' \in LastType
  BY <1>1, <1>3, NoUnits DEF SslType, LastType
<1> QED
  BY <1>1, <1>3, <1>4, <1>5, NoUnits

(* An operation is over: it is not one of the connection any more, and only *)
(* the end of a handshake makes connect return.                             *)
LEMMA Ended ==
  ASSUME RestTypes, DialInv, NEW as \in Failed \cup {"ok", "zero"}, Ends(as)
  PROVE  /\ op' = Idle /\ op' \in OpType /\ op'.at = "idle" /\ op'.what = "none"
         /\ last' \in LastType
         /\ call'.op = "returned" /\ call'.secure =>
              /\ call.secure
              /\ call.op = "returned" \/ (op.what = "connect" /\ as \notin Failed)
<1>1. /\ op' = Idle
      /\ last' = [what |-> op.what,
                  as |-> IF op.what = "write" /\ as = "zero" THEN "error" ELSE as]
      /\ \/ op.what # "connect" /\ call' = call
         \/ op.what = "connect" /\ as \in Failed /\ Caught(as)
         \/ /\ op.what = "connect" /\ as \notin Failed
            /\ call' = [call EXCEPT !.op = "returned"]
  BY DEF Ends, dial
<1>2. op' \in OpType /\ op'.at = "idle" /\ op'.what = "none"
  BY <1>1, NoUnits DEF Idle, OpType
<1>3. last' \in LastType
  BY <1>1 DEF RestTypes, OpType, LastType, Failed
<1>4. call \in ConnectCall
  BY DEF DialInv, DialTypes
<1>5. Caught(as) => call'.op = "next"
  BY <1>4 DEF Caught, ConnectCall
<1>6. call' = [call EXCEPT !.op = "returned"] => call'.secure = call.secure
  BY <1>4 DEF ConnectCall
<1> QED
  BY <1>1, <1>2, <1>3, <1>5, <1>6

(* Before the BIO is changed. *)
LEMMA SizedKept ==
  ASSUME Sized(Before), UNCHANGED <<ssl, nbIn, nbOut, made>>
  PROVE  Sized(Before')
<1>1. Before' = Before
  BY DEF Before
<1> QED
  BY <1>1

(* An operation that ends outside of OpenSSL. *)
LEMMA BioEnds ==
  ASSUME BioInv, DialInv, NEW as \in Failed \cup {"ok", "zero"}, Ends(as),
         UNCHANGED <<ssl, nbIn, nbOut, made, wire, peer>>, torn' \in BOOLEAN,
         op.what = "connect" /\ as \notin Failed => ssl.hs = "done" \/ Stuck
  PROVE  BioInv'
<1>1. /\ op' \in OpType /\ op'.at = "idle" /\ op'.what = "none" /\ last' \in LastType
      /\ call'.op = "returned" /\ call'.secure =>
           /\ call.secure
           /\ call.op = "returned" \/ (op.what = "connect" /\ as \notin Failed)
  BY Ended DEF BioInv
<1>2. Sized(Before')
  BY SizedKept DEF BioInv
<1>3. RestTypes'
  BY <1>1 DEF BioInv, RestTypes, peer
<1>4. Waits' /\ OfConnection'
  BY <1>1 DEF Waits, OfConnection
<1>5. HandshakeDone'
  BY <1>1 DEF BioInv, HandshakeDone, Stuck, peer
<1> QED
  BY <1>2, <1>3, <1>4, <1>5 DEF BioInv

(* The state OpenSSL is left in by the handshake. *)
LEMMA AfterHandshake ==
  ASSUME BioInv, NEW z, z = Handshake
  PROVE  /\ Sized(z) /\ z.hs # "hello"
         /\ z.hs # "done" /\ z.rec = <<>> /\ ~Halted(z) => z.in = <<>>
         /\ ssl.hs = "done" => z = Before
         /\ ssl.closed /\ ssl.hs # "done" => z.closed /\ z.hs # "done"
         /\ Stuck => z.hs = "flight" /\ z.rec = <<>> /\ z.in = <<>>
<1> DEFINE g == Greet(Before)
<1>1. z = Hear(g)
  BY DEF Handshake, Before
<1>2. /\ Before.hs = ssl.hs /\ Before.rec = ssl.rec /\ Before.in = nbIn
      /\ Before.closed = ssl.closed
  BY DEF Before
<1>3. /\ Sized(g) /\ g.hs # "hello" /\ (Before.hs # "hello" => g = Before)
      /\ g.closed = Before.closed /\ (Before.hs = "hello" => g.hs = "flight")
  BY SizedGreet DEF BioInv
<1> HIDE DEF g
<1>4. /\ Sized(z) /\ z.hs # "hello"
      /\ z.hs # "done" /\ z.rec = <<>> /\ ~Halted(z) => z.in = <<>>
      /\ g.hs = "done" \/ g.closed => z = g
      /\ g.hs = "flight" /\ g.rec = <<>> /\ g.in = <<>> =>
           z.hs = "flight" /\ z.rec = <<>> /\ z.in = <<>>
  BY <1>1, <1>3, SizedHear
<1> QED
  BY <1>2, <1>3, <1>4 DEF Stuck

(* One turn of the loop. *)
LEMMA BioTurn ==
  ASSUME BioInv, WireInv, DialInv, Turn
  PROVE  BioInv'
<1> DEFINE z == Handshake
           a == Call(op.what, z)
<1>1. /\ op.at = "turn" /\ op \in OpType /\ op.what \in {"connect", "read", "write"}
  BY DEF Turn, BioInv, RestTypes, OpType, WireInv, OpOK
<1>2. /\ ssl' = [hs |-> a.z.hs, got |-> a.z.got, rec |-> a.z.rec, closed |-> a.z.closed]
      /\ nbIn' = a.z.in /\ made' = a.z.made
      /\ \/ /\ a.err \in {"NONE", "ZERO_RETURN", "SSL"}
            /\ Ends(CASE a.err = "NONE" -> "ok" [] a.err = "SSL" -> "error"
                      [] OTHER -> "zero")
            /\ nbOut' = a.z.out
         \/ /\ a.err \in {"WANT_READ", "WANT_WRITE"}
            /\ Goes(a.z.out, a.err = "WANT_READ")
            /\ UNCHANGED <<last, dial>>
      /\ UNCHANGED <<wire, torn, peer>>
  BY DEF Turn
<1>3. /\ Sized(z) /\ z.hs # "hello"
      /\ z.hs # "done" /\ z.rec = <<>> /\ ~Halted(z) => z.in = <<>>
      /\ ssl.hs = "done" => z = Before
      /\ ssl.closed /\ ssl.hs # "done" => z.closed /\ z.hs # "done"
      /\ Stuck => z.hs = "flight" /\ z.rec = <<>> /\ z.in = <<>>
  BY AfterHandshake
<1> HIDE DEF z
<1>4. Before.hs = ssl.hs /\ Before.rec = ssl.rec /\ Before.made = made
  BY DEF Before
<1>5. op.what = "write" /\ z.hs = "done" /\ z.rec = <<>> => z.made + RecLen <= MaxMade
  <2> SUFFICES ASSUME op.what = "write", z.hs = "done", z.rec = <<>>
               PROVE  z.made + RecLen <= MaxMade
    OBVIOUS
  <2>1. ssl.hs = "done"
    BY <1>3 DEF BioInv, OfConnection, HandshakeDone
  <2>2. z = Before
    BY <1>3, <2>1
  <2> QED
    BY <1>4, <2>1, <2>2 DEF BioInv, OfConnection
<1>6. /\ Sized(a.z) /\ a.z.hs = z.hs /\ (z.hs # "done" => a.z = z \/ a.z.closed)
      /\ a.err = "WANT_READ" => a.z.in = <<>> /\ (a.z.hs # "done" => a.z.rec = <<>>)
      /\ op.what = "write" /\ a.err \in {"WANT_READ", "WANT_WRITE"} =>
           ~(a.z.hs = "done" /\ a.z.rec = <<>>)
      /\ op.what = "connect" /\ a.err \in {"NONE", "ZERO_RETURN"} =>
           a.z.hs = "done" \/ a.z.closed
  BY <1>1, <1>3, <1>5, SizedCall
<1> HIDE DEF a
(* A connection that was returned stays one whose handshake is done, or     *)
(* can never be.                                                            *)
<1>7. call.op = "returned" /\ call.secure => a.z.hs = "done" \/ Stuck' \/ a.z.closed
  <2> SUFFICES ASSUME call.op = "returned", call.secure, a.z.hs # "done", ~a.z.closed
               PROVE  Stuck'
    OBVIOUS
  <2>1. ssl.hs # "done" /\ ~ssl.closed
    BY <1>3, <1>4, <1>6
  <2>2. Stuck
    BY <2>1 DEF BioInv, HandshakeDone
  <2>3. a.z.hs = "flight" /\ a.z.rec = <<>> /\ a.z.in = <<>>
    BY <1>3, <1>6, <2>2
  <2> QED
    BY <1>2, <2>2, <2>3 DEF Stuck, peer
<1>8. nbOut' \in {a.z.out, <<>>}
  BY <1>2 DEF Goes
<1>9. /\ Sized(Before') /\ ssl' \in SslType /\ ssl'.hs = a.z.hs /\ ssl'.rec = a.z.rec
      /\ ssl'.closed = a.z.closed
  BY <1>2, <1>6, <1>8, SizedAfter
<1>10. CASE /\ a.err \in {"NONE", "ZERO_RETURN", "SSL"}
            /\ Ends(CASE a.err = "NONE" -> "ok" [] a.err = "SSL" -> "error"
                      [] OTHER -> "zero")
  <2>1. PICK as \in Failed \cup {"ok", "zero"} :
          Ends(as) /\ (as \notin Failed => a.err \in {"NONE", "ZERO_RETURN"})
    BY <1>10 DEF Failed
  <2>2. /\ op' \in OpType /\ op'.at = "idle" /\ op'.what = "none" /\ last' \in LastType
        /\ call'.op = "returned" /\ call'.secure =>
             /\ call.secure
             /\ call.op = "returned" \/ (op.what = "connect" /\ as \notin Failed)
    BY <2>1, Ended DEF BioInv
  <2>3. RestTypes'
    BY <1>2, <1>9, <2>2 DEF BioInv, RestTypes, peer
  <2>4. Waits' /\ OfConnection'
    BY <2>2 DEF Waits, OfConnection
  <2>5. HandshakeDone'
    BY <1>6, <1>7, <1>9, <2>1, <2>2 DEF HandshakeDone
  <2> QED
    BY <1>9, <2>3, <2>4, <2>5 DEF BioInv
<1>11. CASE /\ a.err \in {"WANT_READ", "WANT_WRITE"}
            /\ Goes(a.z.out, a.err = "WANT_READ")
            /\ UNCHANGED <<last, dial>>
  <2> DEFINE f == a.err = "WANT_READ"
  <2>1. a.z.out \in Units /\ f \in BOOLEAN
    BY <1>6 DEF Sized
  <2>2. /\ op' \in OpType /\ op'.what = op.what /\ op'.fill = f
        /\ op'.at \in {"flush", "fill", "turn"} /\ (op'.at = "fill" => f)
    BY <1>1, <1>11, <2>1 DEF Goes, OpType
  <2> HIDE DEF f
  <2>3. RestTypes'
    BY <1>2, <1>9, <1>11, <2>2 DEF BioInv, RestTypes, peer
  <2>4. Waits'
    <3>1. a.z.hs # "hello" /\ a.z.hs \in {"hello", "flight", "done"}
      BY <1>3, <1>6 DEF Sized
    <3>2. f => nbIn' = <<>> /\ (ssl'.hs # "done" => ssl'.hs = "flight" /\ ssl'.rec = <<>>)
      BY <1>2, <1>6, <1>9, <3>1 DEF f
    <3> QED
      BY <2>2, <3>2 DEF Waits
  <2>5. call' = call
    BY <1>11 DEF dial
  <2>6. HandshakeDone'
    BY <1>7, <1>9, <2>5 DEF HandshakeDone
  <2>7. OfConnection'
    BY <1>6, <1>9, <1>11, <2>2, <2>5 DEF BioInv, OfConnection
  <2> QED
    BY <1>9, <2>3, <2>4, <2>6, <2>7 DEF BioInv
<1> QED
  BY <1>2, <1>10, <1>11

(* A part of the buffer goes over the wire. *)
LEMMA BioFlushed ==
  ASSUME BioInv, NEW n, Flushed(n)
  PROVE  BioInv'
<1> DEFINE x == SubSeq(op.out, 1, n)
           y == SubSeq(op.out, n + 1, Len(op.out))
<1>1. /\ op.at = "flush" /\ n \in 1 .. Len(op.out)
      /\ wire' = wire \o x
      /\ op' = [op EXCEPT !.out = y, !.at = IF n < Len(op.out) THEN "flush"
                                            ELSE IF op.fill THEN "fill" ELSE "turn"]
      /\ UNCHANGED <<ssl, nbOut, nbIn, last, made, torn, peer>> /\ UNCHANGED dial
  BY DEF Flushed
<1>2. op \in OpType /\ op.out \in Seq(1 .. MaxMade) /\ wire \in Seq(1 .. MaxMade)
  BY DEF BioInv, RestTypes, OpType, Units
<1>3. n \in 0 .. Len(op.out)
  BY <1>1, <1>2, LenProperties
<1>4. x \in Seq(1 .. MaxMade) /\ y \in Seq(1 .. MaxMade)
  BY <1>2, <1>3, Cut
<1> HIDE DEF x, y
<1>5. wire' \in Units
  BY <1>1, <1>2, <1>4, ConcatProperties DEF Units
<1>6. /\ op' \in OpType /\ op'.what = op.what /\ op'.fill = op.fill
      /\ op'.at \in {"flush", "fill", "turn"} /\ (op'.at = "fill" => op.fill)
  BY <1>1, <1>2, <1>4 DEF OpType, Units
<1>7. RestTypes'
  BY <1>1, <1>5, <1>6 DEF BioInv, RestTypes, peer
<1>8. Sized(Before')
  BY <1>1, SizedKept DEF BioInv
<1>9. Waits'
  BY <1>1, <1>6 DEF BioInv, Waits
<1>10. HandshakeDone' /\ OfConnection'
  BY <1>1, <1>6 DEF BioInv, HandshakeDone, OfConnection, Stuck, peer, dial
<1> QED
  BY <1>7, <1>8, <1>9, <1>10 DEF BioInv

(* The rest of the buffer is dropped. *)
LEMMA BioFlushedNothing ==
  ASSUME BioInv, FlushedNothing
  PROVE  BioInv'
<1>1. /\ op.at = "flush" /\ torn' = TRUE
      /\ op' = [op EXCEPT !.out = <<>>, !.at = IF op.fill THEN "fill" ELSE "turn"]
      /\ UNCHANGED <<ssl, nbOut, nbIn, last, wire, made, peer>> /\ UNCHANGED dial
  BY DEF FlushedNothing
<1>2. op \in OpType
  BY DEF BioInv, RestTypes
<1>3. /\ op' \in OpType /\ op'.what = op.what /\ op'.fill = op.fill
      /\ op'.at \in {"fill", "turn"} /\ (op'.at = "fill" => op.fill)
  BY <1>1, <1>2, NoUnits DEF OpType
<1>4. RestTypes'
  BY <1>1, <1>3 DEF BioInv, RestTypes, peer
<1>5. Sized(Before')
  BY <1>1, SizedKept DEF BioInv
<1>6. Waits'
  BY <1>1, <1>3 DEF BioInv, Waits
<1>7. HandshakeDone' /\ OfConnection'
  BY <1>1, <1>3 DEF BioInv, HandshakeDone, OfConnection, Stuck, peer, dial
<1> QED
  BY <1>4, <1>5, <1>6, <1>7 DEF BioInv

(* What a read of the socket returned goes into the BIO: there is room for  *)
(* all of it, as OpenSSL left nothing there.                                *)
LEMMA BioFilled ==
  ASSUME BioInv, NEW n, Filled(n)
  PROVE  BioInv'
<1> DEFINE l == Len(net)
           x == SubSeq(net, 1, n)
<1>1. /\ op.at = "fill" /\ n \in 1 .. Min({l, Cap})
      /\ net' = SubSeq(net, n + 1, Len(net))
      /\ UNCHANGED <<ssl, nbOut, wire, made, torn, fed, eof>>
  BY DEF Filled
<1>2. nbIn = <<>> /\ net \in Seq(Tags) /\ l \in Nat /\ op \in OpType /\ Len(nbIn) = 0
  BY <1>1, EmptySeq, LenProperties DEF BioInv, Waits, RestTypes
<1> HIDE DEF l
<1>3. n \in Nat \ {0} /\ n <= l /\ n <= Cap
  <2> DEFINE m == Min({l, Cap})
  <2>1. m \in Nat /\ m <= l /\ m <= Cap
    <3>1. Cap \in Nat
      BY TlsLimits
    <3> QED
      BY <1>2, <3>1, MinOfTwo
  <2>2. n \in 1 .. m
    BY <1>1
  <2> HIDE DEF m
  <2> QED
    BY <1>2, <2>1, <2>2, TlsLimits
<1>4. Min({n, Cap - Len(nbIn)}) = n
  <2>1. Cap - Len(nbIn) = Cap
    BY <1>2, TlsLimits
  <2> DEFINE m == Min({n, Cap})
  <2>2. m = n
    <3>1. m \in Nat /\ m <= n /\ m <= Cap /\ (m = n \/ m = Cap)
      BY <1>3, TlsLimits, MinOfTwo
    <3> HIDE DEF m
    <3> QED
      BY <1>3, <3>1, TlsLimits
  <2> QED
    BY <2>1, <2>2
<1>5. nbIn' = nbIn \o x /\ op' = [op EXCEPT !.at = "turn"] /\ UNCHANGED <<last, dial>>
  <2>1. ~(n < n)
    BY <1>3
  <2> QED
    BY <1>4, <2>1 DEF Filled
<1>6. n \in 0 .. Len(net)
  BY <1>2, <1>3 DEF l
<1>7. x \in Seq(Tags) /\ Len(x) = n /\ net' \in Seq(Tags)
  BY <1>1, <1>2, <1>6, Cut
<1> HIDE DEF x
<1>8. nbIn' = x
  BY <1>2, <1>5, <1>7, ConcatEmptySeq
<1>9. Sized(Before')
  <2>1. /\ IsState(Before') /\ Before'.hs = ssl.hs /\ Before'.got = ssl.got
        /\ Before'.rec = ssl.rec /\ Before'.closed = ssl.closed /\ Before'.in = x
        /\ Before'.out = nbOut /\ Before'.made = made
    BY <1>1, <1>8 DEF Before, IsState
  <2>2. /\ Before.hs = ssl.hs /\ Before.got = ssl.got /\ Before.made = made
        /\ Before.rec = ssl.rec /\ Before.closed = ssl.closed /\ Before.out = nbOut
    BY DEF Before
  <2>3. Sized(Before)
    BY DEF BioInv
  <2>4. Len(x) <= Cap
    BY <1>3, <1>7
  <2> QED
    BY <1>7, <2>1, <2>2, <2>3, <2>4 DEF Sized
<1>10. op' \in OpType /\ op'.at = "turn" /\ op'.what = op.what
  BY <1>2, <1>5 DEF OpType
<1>11. RestTypes'
  BY <1>1, <1>5, <1>7, <1>10 DEF BioInv, RestTypes
<1>12. Waits'
  BY <1>10 DEF Waits
<1>13. net # <<>>
  BY <1>3, EmptySeq DEF l
<1>14. HandshakeDone' /\ OfConnection'
  BY <1>1, <1>5, <1>10, <1>13 DEF BioInv, HandshakeDone, OfConnection, Stuck, dial
<1> QED
  BY <1>9, <1>11, <1>12, <1>14 DEF BioInv

(* A step that leaves the connection and its operation alone. *)
LEMMA BioKept ==
  ASSUME BioInv, UNCHANGED <<tls, peer>>,
         call.op = "returned" => call' = call,
         call'.op = "returned" /\ call'.secure => call.op = "returned" /\ call.secure
  PROVE  BioInv'
<1>1. UNCHANGED <<ssl, nbOut, nbIn, op, last, wire, made, torn, net, fed, eof>>
  BY DEF tls, peer
<1>2. Sized(Before')
  BY <1>1, SizedKept DEF BioInv
<1>3. RestTypes' /\ Waits'
  BY <1>1 DEF BioInv, RestTypes, Waits
<1>4. HandshakeDone' /\ OfConnection'
  BY <1>1 DEF BioInv, HandshakeDone, OfConnection, Stuck
<1> QED
  BY <1>2, <1>3, <1>4 DEF BioInv

(* The steps of connect and of the accept stream neither end a handshake    *)
(* nor change a connection that was returned.                               *)
LEMMA PlainCall ==
  ASSUME DialInv, Plain
  PROVE  /\ call.op = "returned" => call' = call
         /\ call'.op = "returned" /\ call'.secure => call.op = "returned" /\ call.secure
<1>0. call \in ConnectCall
  BY DEF DialInv, DialTypes
<1>1. ASSUME NEW hs \in Hosts, NEW due \in Due, Lookup(hs, due)
      PROVE  call.op # "returned" /\ call'.op # "returned"
  BY <1>1 DEF Lookup
<1>2. CASE LookupFails \/ NextHost \/ Exhausted
  BY <1>0, <1>2 DEF LookupFails, NextHost, Exhausted, ConnectCall
<1>3. CASE NoSocket
  BY <1>0, <1>3 DEF NoSocket, ConnectCall
<1>4. CASE ConnectTimesOut \/ ConnectFails
  BY <1>0, <1>4 DEF ConnectTimesOut, ConnectFails, Caught, ConnectCall
<1>5. ASSUME ~call.secure, NEW s \in Held, Connected(s)
      PROVE  call.op # "returned" /\ ~call'.secure
  BY <1>0, <1>5 DEF Connected, ConnectCall
<1>6. CASE AcceptNext \/ Accepted \/ AcceptFails \/ CloseListener
  BY <1>6 DEF AcceptNext, Accepted, AcceptFails, CloseListener, dial
<1> QED
  BY <1>1, <1>2, <1>3, <1>4, <1>5, <1>6 DEF Plain

(* A fresh SSL object, with no operation or with a handshake that starts. *)
LEMMA BioFresh ==
  ASSUME FreshTls, op' \in OpType, op'.at \in {"idle", "turn"},
         op'.what \in {"none", "connect"}, call'.op # "returned"
  PROVE  BioInv'
<1>1. Sized(Before') /\ RestTypes'
  BY SizedFresh DEF RestTypes
<1>2. Waits' /\ HandshakeDone' /\ OfConnection'
  BY DEF Waits, HandshakeDone, OfConnection
<1> QED
  BY <1>1, <1>2 DEF BioInv

(* A read or a write starts. *)
LEMMA BioStarts ==
  ASSUME BioInv, now \in Nat, NEW due \in Due, Read(due) \/ Write(due)
  PROVE  BioInv'
<1>1. /\ Ready /\ UNCHANGED <<dial, ssl, nbOut, nbIn, last, wire, made, torn, peer>>
      /\ Starts("read", due) \/ (Starts("write", due) /\ made + RecLen <= MaxMade)
  BY DEF Read, Write
<1>2. due \in Nat \cup {NoDeadline}
  BY DueTypes
<1>3. /\ op' \in OpType /\ op'.at = "turn" /\ op'.what \in {"read", "write"}
      /\ op'.what = "write" => made + RecLen <= MaxMade
  BY <1>1, <1>2, NoUnits DEF Starts, Idle, OpType
<1>4. Sized(Before')
  BY <1>1, SizedKept DEF BioInv
<1>5. RestTypes' /\ Waits'
  BY <1>1, <1>3 DEF BioInv, RestTypes, Waits, peer
<1>6. HandshakeDone' /\ OfConnection'
  BY <1>1, <1>3 DEF BioInv, HandshakeDone, OfConnection, Stuck, peer, dial, Ready
<1> QED
  BY <1>4, <1>5, <1>6 DEF BioInv

(* The server sends something, or closes its side; it does neither once it  *)
(* has closed it.                                                           *)
LEMMA BioServer ==
  ASSUME BioInv, UNCHANGED <<dial, tls>>, ~eof,
         net' \in Seq(Tags), fed' \in 0 .. MaxFed, eof' \in BOOLEAN
  PROVE  BioInv'
<1>1. UNCHANGED <<ssl, nbOut, nbIn, op, last, wire, made, torn, call>> /\ ~Stuck
  BY DEF tls, dial, Stuck
<1>2. Sized(Before')
  BY <1>1, SizedKept DEF BioInv
<1>3. RestTypes' /\ Waits'
  BY <1>1 DEF BioInv, RestTypes, Waits
<1>4. HandshakeDone' /\ OfConnection'
  BY <1>1 DEF BioInv, HandshakeDone, OfConnection
<1> QED
  BY <1>2, <1>3, <1>4 DEF BioInv

(* What the server sends is made of tags. *)
LEMMA MessageTags ==
  ASSUME NEW r \in Messages
  PROVE  r \in Seq(Tags) /\ Len(r) \in Nat
<1>1. HsLen \in Nat /\ RecLen \in Nat
  BY TlsLimits
<1>2. [k \in 1 .. HsLen |-> "hs"] \in Seq(Tags)
  BY <1>1 DEF Tags
<1>3. [k \in 1 .. RecLen |-> "data"] \in Seq(Tags)
  BY <1>1 DEF Tags
<1>4. <<"close">> \in Seq(Tags) /\ <<"bad">> \in Seq(Tags)
  BY DEF Tags
<1>5. r \in Seq(Tags)
  BY <1>2, <1>3, <1>4 DEF Messages
<1> QED
  BY <1>5, LenProperties

(* The connection starts in the invariant ... *)
LEMMA BioInvInit == Init => BioInv
<1> SUFFICES ASSUME Init PROVE BioInv
  OBVIOUS
<1>1. /\ ssl = [hs |-> "hello", got |-> 0, rec |-> <<>>, closed |-> FALSE]
      /\ nbOut = <<>> /\ nbIn = <<>> /\ wire = <<>> /\ made = 0 /\ torn = FALSE
      /\ net = <<>> /\ fed = 0 /\ eof = FALSE /\ op = Idle
      /\ last = [what |-> "none", as |-> "ok"] /\ call.op = "idle"
  BY DEF Init, ConnectInit
<1>2. /\ IsState(Before) /\ Before.hs = "hello" /\ Before.got = 0
      /\ Before.rec = <<>> /\ Before.closed = FALSE /\ Before.in = <<>>
      /\ Before.out = <<>> /\ Before.made = 0
  BY <1>1 DEF Before, IsState
<1>3. 0 \in Nat /\ 0 < Limit("hello") /\ 0 \in 0 .. MaxMade /\ 0 \in 0 .. MaxFed
  BY TlsLimits DEF Limit
<1>4. Sized(Before)
  BY <1>2, <1>3, NoUnits DEF Sized
<1>5. op \in OpType /\ op.at = "idle" /\ op.what = "none"
  BY <1>1, NoUnits DEF Idle, OpType
<1>6. RestTypes
  BY <1>1, <1>3, <1>5, NoUnits DEF RestTypes, SslType, LastType
<1>7. Waits /\ HandshakeDone /\ OfConnection
  BY <1>1, <1>5 DEF Waits, HandshakeDone, OfConnection
<1> QED
  BY <1>4, <1>6, <1>7 DEF BioInv

(* ... and each of its steps keeps it. *)
LEMMA BioInvStep ==
  ASSUME ConnectInv, WireInv, BioInv, [Next]_vars
  PROVE  BioInv'
<1>0. DialInv /\ call \in ConnectCall /\ now \in Nat
  BY DEF ConnectInv, DialInv, DialTypes, ServerInv
<1>1. CASE Plain /\ UNCHANGED <<tls, peer>>
  BY <1>0, <1>1, PlainCall, BioKept
<1>2. CASE Passes
  <2>1. call' = call /\ UNCHANGED <<tls, peer>>
    BY <1>2 DEF Passes, Tick, dial
  <2> QED
    BY <2>1, BioKept
<1>3. CASE Gone
  <2>1. op' = op /\ op.what = "none" /\ op.at = "idle" /\ op \in OpType
    BY <1>3 DEF Gone, WireInv, OpOK, BioInv, RestTypes
  <2>2. FreshTls /\ call'.op = "idle"
    BY <1>0, <1>3 DEF Gone, Drop, ConnectCall
  <2> QED
    BY <2>1, <2>2, BioFresh
<1>4. CASE Secure
  <2>1. /\ op' = [what |-> "connect", at |-> "turn", due |-> call.due,
                  out |-> <<>>, fill |-> FALSE]
    BY <1>4 DEF Secure, Starts, Idle
  <2>2. op' \in OpType /\ op'.at = "turn" /\ op'.what = "connect"
    BY <1>0, <2>1, NoUnits DEF OpType, ConnectCall
  <2>3. FreshTls /\ call'.op = "handshake"
    BY <1>0, <1>4 DEF Secure, Connected, ConnectCall
  <2> QED
    BY <2>2, <2>3, BioFresh
<1>5. CASE Turn
  BY <1>0, <1>5, BioTurn
<1>6. CASE FilledNothing
  <2>1. /\ op.at = "fill" /\ net = <<>> /\ eof /\ Ends("zero")
        /\ UNCHANGED <<ssl, nbIn, nbOut, made, wire, torn, peer>>
    BY <1>6 DEF FilledNothing
  <2>2. ssl.hs = "done" \/ Stuck
    BY <2>1 DEF BioInv, Waits, Stuck
  <2>3. torn' \in BOOLEAN /\ UNCHANGED <<ssl, nbIn, nbOut, made, wire, peer>>
    BY <2>1 DEF BioInv, RestTypes
  <2> QED
    BY <1>0, <2>1, <2>2, <2>3, BioEnds
<1>7. CASE Shut
  <2>1. UNCHANGED <<dial, tls, net, fed>> /\ ~eof /\ eof' = TRUE
    BY <1>7 DEF Shut
  <2> QED
    BY <2>1, BioServer DEF BioInv, RestTypes
<1>8. ASSUME NEW n \in 1 .. Cap, Flushed(n) PROVE BioInv'
  BY <1>8, BioFlushed
<1>14. CASE FlushedNothing
  BY <1>14, BioFlushedNothing
<1>9. ASSUME NEW n \in 1 .. Cap, Filled(n) PROVE BioInv'
  BY <1>9, BioFilled
<1>10. ASSUME NEW as \in Failed, Throws(as) PROVE BioInv'
  <2>1. /\ Ends(as) /\ UNCHANGED <<ssl, nbIn, nbOut, made, wire, peer>>
        /\ torn' \in BOOLEAN
    BY <1>10 DEF Throws, BioInv, RestTypes
  <2> QED
    BY <1>0, <2>1, BioEnds
<1>11. ASSUME NEW due \in Due, Read(due) \/ Write(due) PROVE BioInv'
  BY <1>0, <1>11, BioStarts
<1>12. ASSUME NEW r \in Messages, Feed(r) PROVE BioInv'
  <2>1. /\ UNCHANGED <<dial, tls, eof>> /\ ~eof /\ fed + Len(r) <= MaxFed
        /\ net' = net \o r /\ fed' = fed + Len(r)
    BY <1>12 DEF Feed
  <2>2. r \in Seq(Tags) /\ Len(r) \in Nat
    BY MessageTags
  <2>3. net \in Seq(Tags) /\ fed \in 0 .. MaxFed /\ eof \in BOOLEAN
    BY DEF BioInv, RestTypes
  <2>4. net' \in Seq(Tags)
    BY <2>1, <2>2, <2>3, ConcatProperties
  <2>5. fed' \in 0 .. MaxFed
    BY <2>1, <2>2, <2>3, TlsLimits
  <2> QED
    BY <2>1, <2>3, <2>4, <2>5, BioServer
<1>13. CASE UNCHANGED vars
  <2>1. call' = call /\ UNCHANGED <<tls, peer>>
    BY <1>13 DEF vars, dial
  <2> QED
    BY <2>1, BioKept
<1> QED
  BY <1>1, <1>2, <1>3, <1>4, <1>5, <1>6, <1>7, <1>8, <1>9, <1>10, <1>11, <1>12, <1>13,
     <1>14 DEF Next

(* The inductive invariant of what OpenSSL leaves in the BIO pair. *)
THEOREM BioInvariant == Spec => []BioInv
<1>1. Init => BioInv
  BY BioInvInit
<1>2. ConnectInv /\ WireInv /\ BioInv /\ [Next]_vars => BioInv'
  BY BioInvStep
<1> QED
  BY <1>1, <1>2, ConnectInvariant, WireInvariant, PTL DEF Spec

(* Type correctness of connect, the accept stream and the TLS connection:   *)
(* every variable keeps its type, OpenSSL makes no more than the bound, and *)
(* the BIOs never hold more than their capacity.                            *)
THEOREM TlsTypeCorrect == Spec => []TypeOK
<1>1. ConnectInv /\ BioInv => TypeOK
  <2> SUFFICES ASSUME ConnectInv, BioInv PROVE TypeOK
    OBVIOUS
  <2>1. Before.out = nbOut /\ Before.in = nbIn /\ Before.made = made
    BY DEF Before
  <2>2. /\ nbOut \in Units /\ Len(nbOut) <= Cap /\ nbIn \in Seq(Tags)
        /\ Len(nbIn) <= Cap /\ made \in 0 .. MaxMade
    BY <2>1 DEF BioInv, Sized
  <2>3. DialTypes /\ ServerInv /\ RestTypes
    BY DEF ConnectInv, DialInv, BioInv
  <2> QED
    BY <2>2, <2>3, Zenon DEF TypeOK, DialTypes, ServerInv, RestTypes, ConnectCall, Stream,
       SslType, OpType, LastType
<1> QED
  BY <1>1, ConnectInvariant, BioInvariant, PTL

(* Whatever a read of the socket returns fits into the BIO, as OpenSSL has  *)
(* taken everything out of it before service_operation awaits the socket:   *)
(* "Not all bytes written to BIO" is never thrown, for BIOs and messages of *)
(* any size.                                                                *)
THEOREM TlsBioFits == Spec => []BioFits
<1>1. BioInv => BioFits
  <2> SUFFICES ASSUME BioInv, op.at = "fill" PROVE Min({Len(net), Cap}) <= Cap - Len(nbIn)
    BY DEF BioFits
  <2>1. Len(nbIn) = 0
    BY EmptySeq DEF BioInv, Waits
  <2>2. Len(net) \in Nat /\ Cap \in Nat
    BY TlsLimits, LenProperties DEF BioInv, RestTypes
  <2> DEFINE m == Min({Len(net), Cap})
  <2>3. m \in Nat /\ m <= Cap
    BY <2>2, MinOfTwo
  <2> HIDE DEF m
  <2>4. m <= Cap - Len(nbIn)
    BY <2>1, <2>2, <2>3
  <2> QED
    BY <2>4 DEF m
<1> QED
  BY <1>1, BioInvariant, PTL

(* A connection that tls::connect returned is secured, but for a server     *)
(* that ended the handshake: by closing the socket, for which bio_write     *)
(* yields 0, or by a close_notify, for which OpenSSL reports                *)
(* SSL_ERROR_ZERO_RETURN.  Both make service_operation return a 0 that      *)
(* connect does not look at, and no other answer of OpenSSL, failure of the *)
(* socket or deadline lets an unsecured connection out of connect.          *)
THEOREM TlsSecureUnlessEnded == Spec => [](~eof /\ ~ssl.closed => ConnectedSecure)
<1>1. BioInv => (~eof /\ ~ssl.closed => ConnectedSecure)
  BY DEF BioInv, HandshakeDone, Stuck, ConnectedSecure
<1> QED
  BY <1>1, BioInvariant, PTL

=============================================================================
