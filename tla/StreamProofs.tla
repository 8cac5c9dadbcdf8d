---------------------------- MODULE StreamProofs ----------------------------
(***************************************************************************)
(* Theorems about Stream, for every storage size, every capacity of the    *)
(* pipe and every way the stream is written and read.                      *)
(***************************************************************************)
EXTENDS Stream, SeqLemmas

(* The sizes and the times are numbers. *)
LEMMA Limits ==
  /\ Size \in Nat \ {0} /\ Cap \in Nat \ {0} /\ Timeout \in Nat \ {0}
  /\ NoDeadline \notin Nat /\ MaxSent \in Nat /\ MaxTime \in Nat
  BY ConstantsAssumption

USE Limits

(* The calls of the two ends. *)
WriteCall == [op : {"idle", "write_all"}, s : Seq(Byte), out : Nat,
              due : Deadline, from : Nat, ret : Int]

(* What is kept of a read helper's call. *)
ReadCall == [op : {"idle", "read_line", "read_exactly"}, due : Deadline,
             in : Nat, from : Nat, count : Nat,
             ret : Exceptions \cup {"none", "line", "empty", "count"}]

(* The bytes of the read_buffer. *)
Storage == [0..(Size - 1) -> Byte]

-----------------------------------------------------------------------------
(* Sequences of bytes.                                                     *)

(* Bytes that are added at the end leave the others where they were. *)
LEMMA ConcatBytes ==
  ASSUME NEW s \in Seq(Byte), NEW t \in Seq(Byte)
  PROVE  /\ s \o t \in Seq(Byte) /\ Len(s \o t) = Len(s) + Len(t)
         /\ \A n \in 1..Len(s) : (s \o t)[n] = s[n]
         /\ \A n \in 1..Len(t) : (s \o t)[Len(s) + n] = t[n]
<1>1. Len(s) \in Nat /\ Len(t) \in Nat
  BY LenProperties
<1>2. /\ s \o t \in Seq(Byte) /\ Len(s \o t) = Len(s) + Len(t)
      /\ \A i \in 1..(Len(s) + Len(t)) :
           (s \o t)[i] = IF i <= Len(s) THEN s[i] ELSE t[i - Len(s)]
  BY ConcatProperties
<1>3. \A n \in 1..Len(s) : n \in 1..(Len(s) + Len(t)) /\ n <= Len(s)
  BY <1>1
<1>4. \A n \in 1..Len(t) : /\ Len(s) + n \in 1..(Len(s) + Len(t))
                           /\ ~(Len(s) + n <= Len(s)) /\ Len(s) + n - Len(s) = n
  BY <1>1
<1> QED
  BY <1>2, <1>3, <1>4

(* A part of a sequence. *)
LEMMA SubBytes ==
  ASSUME NEW s \in Seq(Byte), NEW m \in Nat, NEW n \in Nat, m <= n, n <= Len(s)
  PROVE  /\ SubSeq(s, m + 1, n) \in Seq(Byte)
         /\ Len(SubSeq(s, m + 1, n)) = n - m
         /\ \A k \in 1..(n - m) : SubSeq(s, m + 1, n)[k] = s[m + k]
<1>1. Len(s) \in Nat /\ \A i \in 1..Len(s) : s[i] \in Byte
  BY LenProperties, ElementOfSeq
<1>2. m + 1 \in Int /\ n \in Int /\ \A i \in (m + 1)..n : s[i] \in Byte
  BY <1>1
<1>3. /\ SubSeq(s, m + 1, n) \in Seq(Byte)
      /\ Len(SubSeq(s, m + 1, n)) = IF m + 1 <= n THEN n - (m + 1) + 1 ELSE 0
      /\ \A i \in 1..(n - (m + 1) + 1) : SubSeq(s, m + 1, n)[i] = s[m + 1 + i - 1]
  BY <1>2, SubSeqProperties
<1>4. n - (m + 1) + 1 = n - m /\ (~(m + 1 <= n) => n - m = 0)
  OBVIOUS
<1>5. \A k \in 1..(n - m) : m + 1 + k - 1 = m + k
  OBVIOUS
<1> QED
  BY <1>3, <1>4, <1>5

(* A function on 1..n is a sequence of n bytes. *)
LEMMA FunctionBytes ==
  ASSUME NEW n \in Nat, NEW f \in [1..n -> Byte]
  PROVE  f \in Seq(Byte) /\ Len(f) = n
  OBVIOUS

(* A part of a sequence is known by its length and its elements. *)
LEMMA EqualBytes ==
  ASSUME NEW s \in Seq(Byte), NEW m \in Nat, NEW n \in Nat, m <= n, n <= Len(s),
         NEW f \in Seq(Byte), Len(f) = n - m, \A k \in 1..(n - m) : f[k] = s[m + k]
  PROVE  f = SubSeq(s, m + 1, n)
<1> DEFINE g == SubSeq(s, m + 1, n)
<1>1. g \in Seq(Byte) /\ Len(g) = n - m /\ \A k \in 1..(n - m) : g[k] = s[m + k]
  BY SubBytes
<1> HIDE DEF g
<1>2. f = g
  BY <1>1, SeqEqual
<1> QED
  BY <1>2 DEF g

(* The bytes of a span inside the storage. *)
LEMMA SpanBytes ==
  ASSUME NEW st \in [Object -> Storage], NEW sp \in Span, sp.from + sp.len <= Size
  PROVE  /\ Bytes(st, sp) \in Seq(Byte) /\ Len(Bytes(st, sp)) = sp.len
         /\ \A n \in 1..sp.len : Bytes(st, sp)[n] = st[sp.at][sp.from + n - 1]
<1>1. sp.at \in Object /\ sp.from \in 0..Size /\ sp.len \in 0..Size /\ sp.len \in Nat
  BY DEF Span
<1>2. \A n \in 1..sp.len : sp.from + n - 1 \in 0..(Size - 1)
  BY <1>1
<1>3. \A n \in 1..sp.len : st[sp.at][sp.from + n - 1] \in Byte
  BY <1>1, <1>2 DEF Storage
<1>4. Bytes(st, sp) \in [1..sp.len -> Byte]
  BY <1>3 DEF Bytes
<1>5. Bytes(st, sp) \in Seq(Byte) /\ Len(Bytes(st, sp)) = sp.len
  BY <1>1, <1>4, FunctionBytes
<1> QED
  BY <1>5 DEF Bytes

(* find: there is no LF, or the one it finds is the first. *)
LEMMA FindFirst ==
  ASSUME NEW st \in [Object -> Storage], NEW dr \in Span, dr.from + dr.len <= Size,
         NEW k, k = Find(st, dr)
  PROVE  /\ k \in 0..dr.len
         /\ k > 0 => /\ st[dr.at][dr.from + k - 1] = "lf"
                     /\ \A n \in 1..(k - 1) : st[dr.at][dr.from + n - 1] # "lf"
<1> DEFINE bs == Bytes(st, dr)
           I == {i \in 1..Len(bs) : bs[i] = "lf"}
<1>1. /\ Len(bs) = dr.len
      /\ \A n \in 1..dr.len : bs[n] = st[dr.at][dr.from + n - 1]
  BY SpanBytes
<1>2. k = IF I # {} THEN Min(I) ELSE 0
  BY DEF Find, SelectInSeq
<1>3. dr.len \in Nat
  BY DEF Span
<1> HIDE DEF bs
<1>4. CASE I = {}
  BY <1>2, <1>3, <1>4
<1>5. CASE I # {}
  <2>1. I \subseteq Nat
    BY <1>1, <1>3
  <2>2. k \in I /\ \A y \in I : k <= y
    <3>1. k = Min(I)
      BY <1>2, <1>5
    <3>2. Min(I) \in I /\ \A y \in I : Min(I) <= y
      BY <1>5, <2>1, MinLeast
    <3> HIDE DEF I
    <3> QED
      BY <3>1, <3>2
  <2>3. k \in 1..dr.len /\ bs[k] = "lf"
    BY <1>1, <2>2
  <2>4. ASSUME NEW n \in 1..(k - 1) PROVE bs[n] # "lf" /\ n \in 1..dr.len
    BY <1>1, <1>3, <2>2, <2>3
  <2> QED
    BY <1>1, <1>3, <2>3, <2>4
<1> QED
  BY <1>4, <1>5

(* The first LF of the stream after place p. *)
LEMMA LfAfterFirst ==
  ASSUME sent \in Seq(Byte), NEW p \in Nat, NEW k \in Nat \ {0}, p + k <= Len(sent),
         sent[p + k] = "lf", \A n \in 1..(k - 1) : sent[p + n] # "lf"
  PROVE  LfAfter(p) = p + k
<1> DEFINE lf == {i \in (p + 1)..Len(sent) : sent[i] = "lf"}
<1>1. Len(sent) \in Nat
  BY LenProperties
<1>2. lf \subseteq Nat /\ p + k \in lf
  BY <1>1
<1>3. Min(lf) \in lf /\ \A y \in lf : Min(lf) <= y
  BY <1>2, MinLeast
<1>4. ASSUME NEW i \in lf PROVE p + k <= i
  <2>1. SUFFICES ASSUME ~(p + k <= i) PROVE FALSE
    OBVIOUS
  <2>2. i - p \in 1..(k - 1) /\ p + (i - p) = i
    BY <1>1, <2>1
  <2> QED
    BY <2>2
<1>5. Min(lf) = p + k
  BY <1>1, <1>2, <1>3, <1>4
<1> QED
  BY <1>2, <1>5 DEF LfAfter

-----------------------------------------------------------------------------
(* The inductive invariant.                                                *)

(* The pipe holds the end of what was sent. *)
PipeInv ==
  /\ Len(pipe) <= Len(sent)
  /\ \A n \in 1..Len(pipe) : pipe[n] = sent[Taken + n]

(* write_all has sent the bytes of its span that are not left in it. *)
WriterInv ==
  writer.op = "write_all" =>
    /\ writer.out <= Len(writer.s)
    /\ Len(sent) = writer.from + Len(writer.s) - writer.out
    /\ Len(sent) + writer.out <= MaxSent
    /\ \A n \in 1..(Len(writer.s) - writer.out) : sent[writer.from + n] = writer.s[n]

(* read_exactly has put in its target what it took off the stream. *)
ReaderInv ==
  /\ reader.op # "idle" => reader.ret = "none"
  /\ reader.op = "read_exactly" =>
       /\ reader.in <= Len(target)
       /\ data_read[rb].len = 0
       /\ at = reader.from + Len(target) - reader.in
       /\ \A n \in 1..(Len(target) - reader.in) : target[n] = sent[reader.from + n]

(* The unread bytes of the buffer are what follows what the application has. *)
BufferInv ==
  LET dr == data_read[rb]
  IN  /\ dr.len = Taken - at
      /\ \A n \in 1..dr.len : storage[rb][dr.from + n - 1] = sent[at + n]

(* The line that was returned last is still there, in whichever object. *)
LineInv ==
  reader.ret = "line" =>
    /\ storage[line.at] = storage[rb]
    /\ line.from + line.len <= Size
    /\ since < at /\ sent[at] = "lf"
    /\ line.len = IF since < at - 1 /\ sent[at - 1] = "cr" THEN at - since - 2
                  ELSE at - since - 1
    /\ \A n \in 1..line.len : storage[line.at][line.from + n - 1] = sent[since + n]

(* All of it. *)
StreamInv ==
  TypeOK /\ Adjacent /\ PipeInv /\ WriterInv /\ ReaderInv /\ BufferInv /\ LineInv

(* TypeOK, with the names of this module. *)
LEMMA Types ==
  TypeOK <=>
    /\ now \in 0..MaxTime
    /\ pipe \in Seq(Byte) /\ Len(pipe) <= Cap
    /\ closed \in BOOLEAN
    /\ sent \in Seq(Byte) /\ Len(sent) <= MaxSent
    /\ writer \in WriteCall /\ reader \in ReadCall
    /\ rb \in Object
    /\ storage \in [Object -> Storage]
    /\ data_read \in [Object -> Span] /\ empty_buffer \in [Object -> Span]
    /\ line \in Span
    /\ target \in Seq(Byte)
    /\ at \in Nat /\ since \in Nat
  BY DEF TypeOK, WriteCall, ReadCall, Storage

(* An idle end. *)
LEMMA IdleWrite ==
  ASSUME NEW ret \in Int
  PROVE  /\ NoWrite(ret) \in WriteCall
         /\ NoWrite(ret).op = "idle" /\ NoWrite(ret).ret = ret
  BY EmptySeq DEF NoWrite, WriteCall, Deadline

(* A call that has read nothing yet, and one that is over. *)
LEMMA IdleRead ==
  ASSUME NEW ret \in Exceptions \cup {"none", "line", "empty", "count"},
         NEW count \in Nat
  PROVE  /\ NoRead(ret, count) \in ReadCall
         /\ NoRead(ret, count).op = "idle" /\ NoRead(ret, count).ret = ret
         /\ NoRead(ret, count).count = count
  BY DEF NoRead, ReadCall, Deadline

(* The bounds that the parts of the invariant put on each other. *)
LEMMA Bounds ==
  ASSUME StreamInv
  PROVE  /\ Len(pipe) \in Nat /\ Len(sent) \in Nat /\ Taken \in Nat
         /\ Len(sent) = Taken + Len(pipe)
         /\ at \in Nat /\ since \in Nat /\ at <= Taken
         /\ data_read[rb] \in Span /\ empty_buffer[rb] \in Span
         /\ at + data_read[rb].len = Taken
<1>1. /\ Len(pipe) \in Nat /\ Len(sent) \in Nat /\ at \in Nat /\ since \in Nat
      /\ data_read[rb] \in Span /\ empty_buffer[rb] \in Span
  BY LenProperties DEF StreamInv, TypeOK
<1>2. data_read[rb].len \in Nat
  BY <1>1 DEF Span
<1> QED
  BY <1>1, <1>2 DEF StreamInv, PipeInv, BufferInv, Taken

(* A call is made with a deadline, or with none. *)
LEMMA DueType ==
  ASSUME now \in Nat, NEW due \in Due
  PROVE  due \in Deadline
  BY DEF Due, Deadline

(* The writing end goes on, and nothing is sent. *)
LEMMA WriterStep ==
  ASSUME StreamInv, writer' \in WriteCall, closed' \in BOOLEAN, WriterInv',
         UNCHANGED <<now, pipe, sent, reader, buffer, line, target, given>>
  PROVE  StreamInv'
<1>1. UNCHANGED <<now, pipe, sent, reader, rb, storage, data_read, empty_buffer, line,
                  target, at, since>>
  BY DEF buffer, given
<1>2. TypeOK'
  BY <1>1, Types DEF StreamInv, WriteCall, TypeOK
<1>3. PipeInv' /\ Adjacent' /\ ReaderInv' /\ BufferInv' /\ LineInv'
  BY <1>1 DEF StreamInv, PipeInv, Adjacent, ReaderInv, BufferInv, LineInv, Taken
<1> QED
  BY <1>2, <1>3 DEF StreamInv

(* t is s with the bytes bs after it. *)
Grown(s, bs, t) ==
  /\ t \in Seq(Byte) /\ Len(t) = Len(s) + Len(bs)
  /\ \A n \in 1..Len(s) : t[n] = s[n]
  /\ \A n \in 1..Len(bs) : t[Len(s) + n] = bs[n]

(* Concatenation. *)
LEMMA ConcatGrown ==
  ASSUME NEW s \in Seq(Byte), NEW t \in Seq(Byte)
  PROVE  Grown(s, t, s \o t)
  BY ConcatBytes DEF Grown

(* Bytes are sent: they are at the end of the stream and of the pipe, and   *)
(* what was taken off the stream before stays what it was.                  *)
LEMMA SentStep ==
  ASSUME StreamInv, writer' \in WriteCall, WriterInv', NEW bs \in Seq(Byte),
         Len(pipe) + Len(bs) <= Cap, Len(sent) + Len(bs) <= MaxSent,
         Grown(pipe, bs, pipe'), Grown(sent, bs, sent'),
         UNCHANGED <<now, closed, reader, buffer, line, target, given>>
  PROVE  StreamInv'
<1>0. UNCHANGED <<now, closed, reader, rb, storage, data_read, empty_buffer, line,
                  target, at, since>>
  BY DEF buffer, given
<1>1. TypeOK /\ pipe \in Seq(Byte) /\ sent \in Seq(Byte) /\ Len(bs) \in Nat
  BY LenProperties DEF StreamInv, TypeOK
<1>2. /\ sent' \in Seq(Byte) /\ Len(sent') = Len(sent) + Len(bs)
      /\ \A n \in 1..Len(sent) : sent'[n] = sent[n]
      /\ \A n \in 1..Len(bs) : sent'[Len(sent) + n] = bs[n]
  BY DEF Grown
<1>3. /\ pipe' \in Seq(Byte) /\ Len(pipe') = Len(pipe) + Len(bs)
      /\ \A n \in 1..Len(pipe) : pipe'[n] = pipe[n]
      /\ \A n \in 1..Len(bs) : pipe'[Len(pipe) + n] = bs[n]
  BY DEF Grown
<1>4. /\ Len(pipe) \in Nat /\ Len(sent) \in Nat /\ Taken \in Nat
      /\ Len(sent) = Taken + Len(pipe) /\ at \in Nat /\ since \in Nat /\ at <= Taken
  BY Bounds
<1>5. Taken' = Taken
  BY <1>2, <1>3, <1>4 DEF Taken
<1>6. TypeOK'
  BY <1>0, <1>1, <1>2, <1>3 DEF TypeOK, WriteCall
<1>7. PipeInv'
  <2>1. ASSUME NEW n \in 1..Len(pipe') PROVE pipe'[n] = sent'[Taken + n]
    <3>1. CASE n \in 1..Len(pipe)
      <4>1. pipe[n] = sent[Taken + n] /\ Taken + n \in 1..Len(sent)
        BY <1>4, <3>1 DEF StreamInv, PipeInv
      <4> QED
        BY <1>2, <1>3, <3>1, <4>1
    <3>2. CASE n \notin 1..Len(pipe)
      <4> DEFINE m == n - Len(pipe)
      <4>1. m \in 1..Len(bs) /\ n = Len(pipe) + m /\ Taken + n = Len(sent) + m
        BY <1>1, <1>3, <1>4, <3>2
      <4> HIDE DEF m
      <4> QED
        BY <1>2, <1>3, <4>1
    <3> QED
      BY <3>1, <3>2
  <2> QED
    BY <1>1, <1>2, <1>3, <1>4, <1>5, <2>1 DEF PipeInv
<1>8. Adjacent'
  BY <1>0 DEF StreamInv, Adjacent
<1>9. ReaderInv'
  <2>1. ASSUME reader.op = "read_exactly", NEW n \in 1..(Len(target) - reader.in)
        PROVE  target[n] = sent'[reader.from + n]
    <3>1. /\ target[n] = sent[reader.from + n]
          /\ at = reader.from + Len(target) - reader.in
      BY <2>1 DEF StreamInv, ReaderInv
    <3>2. Len(target) \in Nat /\ reader.from \in Nat /\ reader.in \in Nat
      BY <1>1, LenProperties DEF TypeOK
    <3>3. reader.from + n \in 1..Len(sent)
      <4>1. \A f, t, i, a, l \in Int : \A k \in 1..(t - i) :
              f >= 0 /\ a = f + t - i /\ a <= l => f + k \in 1..l
        OBVIOUS
      <4>2. at \in Int /\ Len(sent) \in Int /\ at <= Len(sent)
        BY <1>4
      <4> QED
        BY ONLY <2>1, <3>1, <3>2, <4>1, <4>2
    <3> QED
      BY <1>2, <3>1, <3>3
  <2> QED
    BY <1>0, <2>1 DEF StreamInv, ReaderInv
<1>10. BufferInv'
  <2> DEFINE dr == data_read[rb]
  <2>1. at + dr.len = Taken /\ dr \in Span
    BY Bounds
  <2>2. ASSUME NEW n \in 1..dr.len PROVE storage[rb][dr.from + n - 1] = sent'[at + n]
    <3>1. storage[rb][dr.from + n - 1] = sent[at + n]
      BY DEF StreamInv, BufferInv
    <3>2. at + n \in 1..Len(sent)
      <4>1. \A a, d, t, l \in Int : \A k \in 1..d :
              a >= 0 /\ a + d = t /\ t <= l => a + k \in 1..l
        OBVIOUS
      <4>2. /\ at \in Int /\ at >= 0 /\ dr.len \in Int
            /\ Taken \in Int /\ Len(sent) \in Int /\ Taken <= Len(sent)
        BY <1>4, <2>1 DEF Span
      <4> HIDE DEF dr
      <4> QED
        BY ONLY n \in 1..dr.len, <2>1, <4>1, <4>2
    <3> QED
      BY <1>2, <3>1, <3>2
  <2>3. dr.len = Taken' - at
    BY <1>5 DEF StreamInv, BufferInv
  <2> QED
    BY <1>0, <2>2, <2>3 DEF BufferInv
<1>11. LineInv'
  <2> SUFFICES ASSUME reader.ret = "line" PROVE LineInv'
    BY <1>0 DEF LineInv
  <2>1. /\ since < at /\ sent[at] = "lf" /\ storage[line.at] = storage[rb]
        /\ line.from + line.len <= Size
        /\ line.len = IF since < at - 1 /\ sent[at - 1] = "cr" THEN at - since - 2
                      ELSE at - since - 1
        /\ \A n \in 1..line.len : storage[line.at][line.from + n - 1] = sent[since + n]
    BY DEF StreamInv, LineInv
  <2>2. sent'[at] = sent[at]
    BY <1>2, <1>4, <2>1
  <2>3. since < at - 1 => sent'[at - 1] = sent[at - 1]
    <3>1. since < at - 1 => at - 1 \in 1..Len(sent)
      BY <1>4
    <3> QED
      BY <1>2, <3>1
  <2>4. \A n \in 1..line.len : since + n \in 1..Len(sent)
    BY <1>4, <2>1
  <2>5. \A n \in 1..line.len : storage[line.at][line.from + n - 1] = sent'[since + n]
    BY <1>2, <2>1, <2>4
  <2> QED
    BY <1>0, <2>1, <2>2, <2>3, <2>5 DEF LineInv
<1> QED
  BY <1>6, <1>7, <1>8, <1>9, <1>10, <1>11 DEF StreamInv

(* The arithmetic of a span of length l with u bytes left, of which n go. *)
LEMMA Shorter ==
  ASSUME NEW l \in Nat, NEW u \in Nat, NEW f \in Nat, NEW n \in Nat, u <= l, n <= u
  PROVE  /\ u - n \in Nat /\ u - n <= l
         /\ l - (u - n) = (l - u) + n
         /\ f + l - u + n = f + l - (u - n)
  OBVIOUS

(* What write_all has sent of its span, and what it sends next. *)
Done == Len(writer.s) - writer.out

(* The n bytes of the span that a write_some takes next. *)
Part(n) == SubSeq(writer.s, Done + 1, Done + n)

(* write_some puts the next n bytes of the span on the stream: the first    *)
(* Done + n of them are now what was sent since the call.                   *)
LEMMA WroteBytes ==
  ASSUME StreamInv, NEW n \in 1..Cap, WriteSome(n)
  PROVE  /\ Part(n) \in Seq(Byte) /\ Len(Part(n)) = n
         /\ Grown(pipe, Part(n), pipe') /\ Grown(sent, Part(n), sent')
         /\ Done \in Nat /\ Done + n <= Len(writer.s) /\ Len(sent) = writer.from + Done
         /\ sent' \in Seq(Byte) /\ Len(sent') = Len(sent) + n
         /\ \A k \in 1..(Done + n) : sent'[writer.from + k] = writer.s[k]
<1>0. /\ pipe' = pipe \o Part(n) /\ sent' = sent \o Part(n) /\ writer' = Wrote(n)
      /\ UNCHANGED <<now, closed, reader, buffer, line, target, given>>
  BY DEF WriteSome, Done, Part
<1>1. /\ WriterInv /\ writer.op = "write_all" /\ writer \in WriteCall
      /\ n \in Nat /\ n <= writer.out /\ Len(pipe) + n <= Cap
  BY Types DEF WriteSome, StreamInv
<1>2. /\ writer.s \in Seq(Byte) /\ Len(writer.s) \in Nat
      /\ writer.out \in Nat /\ writer.from \in Nat
  BY <1>1, LenProperties DEF WriteCall
<1>4. /\ writer.out <= Len(writer.s)
      /\ Len(sent) = writer.from + Len(writer.s) - writer.out
      /\ Len(sent) + writer.out <= MaxSent
      /\ \A k \in 1..Done : sent[writer.from + k] = writer.s[k]
  BY <1>1 DEF WriterInv, Done
<1>5. /\ Done \in Nat /\ Done + n \in Nat /\ Done <= Done + n
      /\ Done + n <= Len(writer.s) /\ Len(sent) = writer.from + Done
  <2>1. \A l, o, f, k, t \in Nat : o <= l /\ k <= o /\ t = f + l - o =>
          /\ l - o \in Nat /\ l - o + k \in Nat /\ l - o <= l - o + k
          /\ l - o + k <= l /\ t = f + (l - o)
    OBVIOUS
  <2>2. Len(sent) \in Nat
    BY Bounds
  <2> QED
    BY ONLY <1>1, <1>2, <1>4, <2>1, <2>2 DEF Done
<1>6. /\ Part(n) \in Seq(Byte) /\ Len(Part(n)) = n
      /\ \A k \in 1..n : Part(n)[k] = writer.s[Done + k]
  <2>1. Done + n - Done = n
    BY <1>1, <1>5
  <2> QED
    BY <1>2, <1>5, <2>1, SubBytes DEF Part
<1>9. Grown(pipe, Part(n), pipe') /\ Grown(sent, Part(n), sent')
  <2>1. pipe \in Seq(Byte) /\ sent \in Seq(Byte) /\ Part(n) \in Seq(Byte)
    BY <1>6 DEF StreamInv, TypeOK
  <2>2. Grown(pipe, Part(n), pipe \o Part(n)) /\ Grown(sent, Part(n), sent \o Part(n))
    BY <2>1, ConcatGrown
  <2> QED
    BY <1>0, <2>2
<1>7. /\ sent' \in Seq(Byte) /\ Len(sent') = Len(sent) + n
      /\ \A k \in 1..Len(sent) : sent'[k] = sent[k]
      /\ \A k \in 1..n : sent'[Len(sent) + k] = Part(n)[k]
  BY <1>6, <1>9 DEF Grown
<1>8. ASSUME NEW k \in 1..(Done + n) PROVE sent'[writer.from + k] = writer.s[k]
  <2>1. CASE k \in 1..Done
    <3>1. writer.from + k \in 1..Len(sent)
      BY <1>2, <1>5, <2>1
    <3> QED
      BY <1>4, <1>7, <2>1, <3>1
  <2>2. CASE k \notin 1..Done
    <3> DEFINE m == k - Done
    <3>1. m \in 1..n /\ k = Done + m /\ writer.from + k = Len(sent) + m
      BY <1>1, <1>2, <1>5, <2>2
    <3> HIDE DEF m
    <3> QED
      BY <1>6, <1>7, <3>1
  <2> QED
    BY <2>1, <2>2
<1> QED
  BY <1>5, <1>6, <1>9, <1>7, <1>8

(* write_some has taken n bytes of the span: what is left is shorter by     *)
(* them.                                                                    *)
LEMMA WroteStep ==
  ASSUME StreamInv, NEW n \in 1..Cap, WriteSome(n)
  PROVE  StreamInv'
<1>0. /\ pipe' = pipe \o Part(n) /\ sent' = sent \o Part(n) /\ writer' = Wrote(n)
      /\ UNCHANGED <<now, closed, reader, buffer, line, target, given>>
  BY DEF WriteSome, Done, Part
<1>1. /\ WriterInv /\ writer.op = "write_all" /\ writer \in WriteCall
      /\ n \in Nat /\ n <= writer.out /\ Len(pipe) + n <= Cap
  BY Types DEF WriteSome, StreamInv
<1>2. /\ writer.s \in Seq(Byte) /\ Len(writer.s) \in Nat
      /\ writer.out \in Nat /\ writer.from \in Nat
  BY <1>1, LenProperties DEF WriteCall
<1>4. /\ writer.out <= Len(writer.s)
      /\ Len(sent) = writer.from + Len(writer.s) - writer.out
      /\ Len(sent) + writer.out <= MaxSent
      /\ \A k \in 1..Done : sent[writer.from + k] = writer.s[k]
  BY <1>1 DEF WriterInv, Done
<1>5. /\ Done \in Nat /\ Done + n \in Nat /\ Done <= Done + n
      /\ Done + n <= Len(writer.s) /\ Len(sent) = writer.from + Done
  <2>1. \A l, o, f, k, t \in Nat : o <= l /\ k <= o /\ t = f + l - o =>
          /\ l - o \in Nat /\ l - o + k \in Nat /\ l - o <= l - o + k
          /\ l - o + k <= l /\ t = f + (l - o)
    OBVIOUS
  <2>2. Len(sent) \in Nat
    BY Bounds
  <2> QED
    BY ONLY <1>1, <1>2, <1>4, <2>1, <2>2 DEF Done
<1>6. /\ Part(n) \in Seq(Byte) /\ Len(Part(n)) = n
      /\ Grown(pipe, Part(n), pipe') /\ Grown(sent, Part(n), sent')
  BY WroteBytes
<1>7. Len(sent') = Len(sent) + n
  BY WroteBytes
<1>8. \A k \in 1..(Done + n) : sent'[writer.from + k] = writer.s[k]
  BY WroteBytes
<1>9. Len(sent) \in Nat /\ Len(sent) + Len(Part(n)) <= MaxSent
  <2>1. Len(sent) \in Nat
    BY Bounds
  <2> QED
    BY <1>1, <1>2, <1>4, <1>6, <2>1
<1>10. writer' \in WriteCall /\ WriterInv'
  <2>1. CASE writer.out = n
    <3>1. writer' = NoWrite(Len(writer.s))
      BY <1>0, <2>1 DEF Wrote
    <3>2. writer' \in WriteCall /\ writer'.op = "idle"
      BY <1>2, <3>1, IdleWrite
    <3> QED
      BY <3>2 DEF WriterInv
  <2>2. CASE writer.out # n
    <3> DEFINE o == writer.out - n
    <3>1. writer' = [writer EXCEPT !.out = o]
      BY <1>0, <2>2 DEF Wrote
    <3>2. o \in Nat
      BY <1>1, <1>2
    <3>3. /\ Len(writer.s) - o = Done + n /\ o <= Len(writer.s)
          /\ Len(sent') = writer.from + Len(writer.s) - o
          /\ Len(sent') + o <= MaxSent
      <4>2. /\ writer.out <= Len(writer.s) /\ Len(sent) + writer.out <= MaxSent
            /\ Len(sent) = writer.from + Len(writer.s) - writer.out /\ n <= writer.out
        BY <1>1, <1>4
      <4>3. Len(sent') = Len(sent) + n /\ Len(sent) \in Nat /\ n \in Nat
        BY <1>1, <1>7, <1>9
      <4>4. /\ o = writer.out - n /\ o \in Nat
            /\ Done = Len(writer.s) - writer.out /\ Done \in Nat
        BY <1>5, <3>2 DEF Done
      <4> HIDE DEF o
      <4>5. /\ writer.out - n <= Len(writer.s)
            /\ Len(writer.s) - (writer.out - n) = (Len(writer.s) - writer.out) + n
            /\ writer.from + Len(writer.s) - writer.out + n
                 = writer.from + Len(writer.s) - (writer.out - n)
        <5>1. Len(writer.s) \in Nat /\ writer.out \in Nat /\ writer.from \in Nat
          BY <1>2
        <5>2. n \in Nat /\ writer.out <= Len(writer.s) /\ n <= writer.out
          BY <1>1, <4>2
        <5> QED
          BY <5>1, <5>2, Shorter
      <4>6. /\ Len(writer.s) - o = Done + n /\ o <= Len(writer.s)
            /\ Len(sent) + n = writer.from + Len(writer.s) - o
        BY <4>2, <4>4, <4>5, Zenon
      <4>7. Len(sent') + o <= MaxSent
        BY <1>2, <4>2, <4>3, <4>4
      <4> QED
        BY <4>3, <4>6, <4>7, Zenon
    <3> HIDE DEF o
    <3>4. /\ writer' \in WriteCall /\ writer'.out = o /\ writer'.s = writer.s
          /\ writer'.from = writer.from
      BY <1>1, <3>1, <3>2 DEF WriteCall
    <3>5. \A k \in 1..(Len(writer'.s) - writer'.out) :
            sent'[writer'.from + k] = writer'.s[k]
      BY <1>8, <3>3, <3>4
    <3>6. /\ writer'.out <= Len(writer'.s) /\ Len(sent') + writer'.out <= MaxSent
          /\ Len(sent') = writer'.from + Len(writer'.s) - writer'.out
      BY <3>3, <3>4
    <3> QED
      BY <3>4, <3>5, <3>6 DEF WriterInv
  <2> QED
    BY <2>1, <2>2
<1> QED
  BY <1>0, <1>1, <1>6, <1>6, <1>9, <1>10, SentStep

(* The reading end goes on, and reads nothing. *)
LEMMA ReaderStep ==
  ASSUME StreamInv, reader' \in ReadCall, line' \in Span, target' \in Seq(Byte),
         since' \in Nat, ReaderInv', LineInv',
         UNCHANGED <<now, pipe, closed, sent, writer, buffer, at>>
  PROVE  StreamInv'
<1>1. UNCHANGED <<now, pipe, closed, sent, writer, rb, storage, data_read,
                  empty_buffer, at>>
  BY DEF buffer
<1>2. TypeOK'
  BY <1>1 DEF StreamInv, ReadCall, TypeOK
<1>3. PipeInv' /\ Adjacent' /\ WriterInv' /\ BufferInv'
  BY <1>1 DEF StreamInv, PipeInv, Adjacent, WriterInv, BufferInv, Taken
<1> QED
  BY <1>2, <1>3 DEF StreamInv

(* A call is over: with anything but a line, nothing is said of the span.   *)
LEMMA EndStep ==
  ASSUME StreamInv, NEW ret \in Exceptions \cup {"empty", "count"}, NEW count \in Nat,
         reader' = NoRead(ret, count), line' \in Span, target' \in Seq(Byte),
         since' \in Nat, UNCHANGED <<now, pipe, closed, sent, writer, buffer, at>>
  PROVE  StreamInv'
<1>1. /\ reader' \in ReadCall /\ reader'.op = "idle" /\ reader'.ret = ret
  BY IdleRead
<1>2. ReaderInv' /\ LineInv'
  BY <1>1 DEF ReaderInv, LineInv, Exceptions
<1> QED
  BY <1>1, <1>2, ReaderStep

(* The spans dr and eb of storage st fit the stream, of which t bytes were  *)
(* taken off the pipe.                                                      *)
Fits(st, dr, eb, t) ==
  /\ dr.at = rb /\ eb.at = rb
  /\ eb.from = dr.from + dr.len /\ eb.from + eb.len = Size
  /\ at + dr.len = t
  /\ \A n \in 1..dr.len : st[rb][dr.from + n - 1] = sent[at + n]

(* A span and its subspan. *)
LEMMA SubspanFits ==
  ASSUME NEW sp \in Span, NEW n \in Nat, n <= sp.len, sp.from + sp.len <= Size
  PROVE  /\ Subspan(sp, n) \in Span /\ Subspan(sp, n).at = sp.at
         /\ Subspan(sp, n).from = sp.from + n /\ Subspan(sp, n).len = sp.len - n
<1> DEFINE f == sp.from + n
           l == sp.len - n
           b == [sp EXCEPT !.from = f, !.len = l]
<1>0. sp.from \in 0..Size /\ sp.len \in 0..Size
  BY DEF Span
<1>1. f \in 0..Size /\ l \in 0..Size
  BY <1>0
<1>2. Subspan(sp, n) = b
  BY DEF Subspan
<1> HIDE DEF f, l
<1>3. b \in Span /\ b.at = sp.at /\ b.from = f /\ b.len = l
  BY <1>1 DEF Span
<1> QED
  BY <1>2, <1>3 DEF f, l

(* A span of another length. *)
LEMMA LengthFits ==
  ASSUME NEW sp \in Span, NEW l \in 0..Size
  PROVE  LET b == [sp EXCEPT !.len = l]
         IN  b \in Span /\ b.at = sp.at /\ b.from = sp.from /\ b.len = l
  BY DEF Span

(* consume: the spans that are left fit the stream after the LF. *)
LEMMA ConsumeFits ==
  ASSUME rb \in Object, NEW dr \in Span, NEW eb \in Span, NEW k \in 1..dr.len,
         dr.at = rb, eb.at = rb, eb.from = dr.from + dr.len, eb.from + eb.len = Size,
         NEW c, c = Consume(dr, eb, k)
  PROVE  /\ c.data \in Span /\ c.empty \in Span /\ c.data.at = rb /\ c.empty.at = rb
         /\ c.empty.from = c.data.from + c.data.len
         /\ c.empty.from + c.empty.len = Size
         /\ c.data.len = dr.len - k
         /\ c.data.len # 0 => c.data.from = dr.from + k
<1>0. /\ dr.from \in Nat /\ dr.len \in Nat /\ eb.len \in Nat /\ eb.from \in Nat
      /\ k \in Nat /\ k <= dr.len /\ dr.from + dr.len <= Size
  BY DEF Span
<1>1. CASE dr.len = k
  <2>1. c.data = Start(rb) /\ c.empty = Whole(rb)
    BY <1>1 DEF Consume
  <2>2. /\ Start(rb) \in Span /\ Start(rb).at = rb /\ Start(rb).from = 0
        /\ Start(rb).len = 0
        /\ Whole(rb) \in Span /\ Whole(rb).at = rb /\ Whole(rb).from = 0
        /\ Whole(rb).len = Size
    BY DEF Start, Whole, Span
  <2> QED
    BY <1>0, <1>1, <2>1, <2>2
<1>2. CASE dr.len # k
  <2>1. c.data = Subspan(dr, k) /\ c.empty = eb
    BY <1>2 DEF Consume
  <2>2. /\ Subspan(dr, k) \in Span /\ Subspan(dr, k).at = rb
        /\ Subspan(dr, k).from = dr.from + k /\ Subspan(dr, k).len = dr.len - k
    BY <1>0, SubspanFits
  <2>3. dr.from + k + (dr.len - k) = dr.from + dr.len
    BY <1>0
  <2> QED
    BY <2>1, <2>2, <2>3
<1> QED
  BY <1>1, <1>2

(* The line up to the LF at place k of the unread bytes, without its CR.    *)
LEMMA StrippedFits ==
  ASSUME NEW st \in [Object -> Storage], NEW dr \in Span, NEW k \in 1..dr.len,
         dr.from + dr.len <= Size, NEW b, b = Stripped(st, [dr EXCEPT !.len = k - 1])
  PROVE  /\ b \in Span /\ b.at = dr.at /\ b.from = dr.from /\ b.len < k
         /\ b.len = IF k > 1 /\ st[dr.at][dr.from + k - 2] = "cr" THEN k - 2 ELSE k - 1
<1> DEFINE l == k - 1
           a == [dr EXCEPT !.len = l]
<1>0. dr.from \in Nat /\ dr.len \in 0..Size /\ k \in Nat /\ 1 <= k /\ k <= dr.len
  BY DEF Span
<1>1. l \in 0..Size /\ l < k
  BY <1>0
<1>2. b = Stripped(st, a)
  OBVIOUS
<1>3. a \in Span /\ a.at = dr.at /\ a.from = dr.from /\ a.len = l
  BY <1>1, LengthFits
<1>4. dr.from + l - 1 = dr.from + k - 2 /\ (l > 0 <=> k > 1)
  BY <1>0
<1>5. CASE k > 1 /\ st[dr.at][dr.from + k - 2] = "cr"
  <2> DEFINE m == l - 1
  <2>1. m \in 0..Size /\ m < k /\ m = k - 2
    BY <1>0, <1>5
  <2> HIDE DEF l, a
  <2>2. b = [a EXCEPT !.len = m]
    BY <1>2, <1>3, <1>4, <1>5 DEF Stripped
  <2> HIDE DEF m
  <2>3. b \in Span /\ b.at = a.at /\ b.from = a.from /\ b.len = m
    BY <1>3, <2>1, <2>2 DEF Span
  <2> QED
    BY <1>3, <1>5, <2>1, <2>3
<1>6. CASE ~(k > 1 /\ st[dr.at][dr.from + k - 2] = "cr")
  <2>1. b = a
    <3> HIDE DEF l, a
    <3> QED
      BY <1>2, <1>3, <1>4, <1>6 DEF Stripped
  <2> QED
    BY <1>1, <1>3, <1>6, <2>1
<1> QED
  BY <1>5, <1>6

(* The loop of read_until_lf_strip_cr: whether it returns a line or waits   *)
(* for more, the buffer fits the stream, and a line is the next one.        *)
LEMMA NextLineStep ==
  ASSUME StreamInv, NEW st \in [Object -> Storage], NEW dr \in Span, NEW eb \in Span,
         NEW t \in Nat, t <= Len(sent), Fits(st, dr, eb, t),
         NEW r \in ReadCall, r.op = "read_line", r.ret = "none",
         NextLine(st, dr, eb, r), storage' = st, rb' = rb, sent' = sent, Taken' = t
  PROVE  /\ reader' = r \/ reader' = NoRead("line", 0)
         /\ data_read' \in [Object -> Span] /\ empty_buffer' \in [Object -> Span]
         /\ line' \in Span /\ at' \in Nat /\ since' \in Nat
         /\ Adjacent' /\ BufferInv' /\ LineInv'
<1> DEFINE k == Find(st, dr)
<1>1. /\ rb \in Object /\ data_read \in [Object -> Span]
      /\ empty_buffer \in [Object -> Span] /\ at \in Nat /\ sent \in Seq(Byte)
  BY DEF StreamInv, TypeOK
<1>2. /\ dr.at = rb /\ eb.at = rb
      /\ eb.from = dr.from + dr.len /\ eb.from + eb.len = Size /\ at + dr.len = t
  BY DEF Fits
<1>3. \A n \in 1..dr.len : st[rb][dr.from + n - 1] = sent[at + n]
  BY DEF Fits
<1>4. /\ dr.from \in Nat /\ dr.len \in Nat /\ eb.from \in Nat /\ eb.len \in Nat
  BY DEF Span
<1>5. dr.from + dr.len <= Size /\ dr.len = t - at
  <2>1. eb.from + eb.len = Size /\ eb.from = dr.from + dr.len
    BY <1>2
  <2>2. dr.from + dr.len + eb.len = Size
    BY ONLY <2>1
  <2>3. dr.from + dr.len <= Size
    BY ONLY <1>4, <2>2, Limits
  <2>4. at \in Nat /\ at + dr.len = t
    BY <1>1, <1>2
  <2>5. dr.len = t - at
    BY ONLY <1>4, <2>4
  <2> QED
    BY <2>3, <2>5
<1>6. /\ k \in 0..dr.len
      /\ k > 0 => /\ st[rb][dr.from + k - 1] = "lf"
                  /\ \A n \in 1..(k - 1) : st[rb][dr.from + n - 1] # "lf"
  BY <1>2, <1>5, FindFirst
<1> HIDE DEF k
<1>7. CASE k = 0
  <2>1. /\ reader' = r /\ data_read' = [data_read EXCEPT ![rb] = dr]
        /\ empty_buffer' = [empty_buffer EXCEPT ![rb] = eb]
        /\ line' = Start(rb) /\ since' = 0 /\ at' = at
    BY <1>7 DEF NextLine, k
  <2>2. line' \in Span
    BY <1>1, <2>1 DEF Start, Span
  <2>3. data_read'[rb] = dr /\ empty_buffer'[rb] = eb
    BY <1>1, <2>1
  <2>4. Adjacent'
    BY <1>2, <2>3 DEF Adjacent
  <2>5. BufferInv'
    BY <1>3, <1>5, <2>1, <2>3 DEF BufferInv
  <2>6. LineInv'
    BY <2>1 DEF LineInv
  <2> QED
    BY <1>1, <2>1, <2>2, <2>4, <2>5, <2>6
<1>8. CASE k > 0
  <2> DEFINE c == Consume(dr, eb, k)
             b == Stripped(st, [dr EXCEPT !.len = k - 1])
  <2>0. k \in 1..dr.len /\ k \in Nat \ {0} /\ k <= dr.len
    BY <1>4, <1>6, <1>8
  <2>1. /\ reader' = NoRead("line", 0)
        /\ data_read' = [data_read EXCEPT ![rb] = c.data]
        /\ empty_buffer' = [empty_buffer EXCEPT ![rb] = c.empty]
        /\ line' = b /\ since' = at /\ at' = LfAfter(at)
    BY <1>7, <1>8 DEF NextLine, k
  <2>2. /\ c.data \in Span /\ c.empty \in Span /\ c.data.at = rb /\ c.empty.at = rb
        /\ c.empty.from = c.data.from + c.data.len
        /\ c.empty.from + c.empty.len = Size
        /\ c.data.len = dr.len - k
        /\ c.data.len # 0 => c.data.from = dr.from + k
    BY <1>1, <1>2, <2>0, ConsumeFits
  <2>3. /\ b \in Span /\ b.at = rb /\ b.from = dr.from /\ b.len < k
        /\ b.len = IF k > 1 /\ st[rb][dr.from + k - 2] = "cr" THEN k - 2 ELSE k - 1
    <3>1. /\ b \in Span /\ b.at = dr.at /\ b.from = dr.from /\ b.len < k
          /\ b.len = IF k > 1 /\ st[dr.at][dr.from + k - 2] = "cr" THEN k - 2 ELSE k - 1
      <4>1. k \in 1..dr.len /\ dr.from + dr.len <= Size
        BY <1>5, <2>0
      <4> QED
        BY ONLY <4>1, StrippedFits
    <3>2. dr.at = rb
      BY <1>2
    <3> HIDE DEF b
    <3> QED
      BY ONLY <3>1, <3>2
  <2> HIDE DEF b, c
  <2>4. at' = at + k
    <3>0. sent[at + k] = "lf"
      BY <1>3, <1>6, <1>8, <2>0
    <3>1. at + k <= Len(sent)
      <4>1. Len(sent) \in Nat /\ t <= Len(sent) /\ at + dr.len = t
        BY <1>1, <1>2, LenProperties
      <4> QED
        BY ONLY <1>1, <1>4, <2>0, <4>1
    <3>2. \A n \in 1..(k - 1) : n \in 1..dr.len
      BY <1>4, <2>0
    <3>3. \A n \in 1..(k - 1) : sent[at + n] # "lf"
      BY <1>3, <1>6, <1>8, <3>2
    <3> QED
      BY <1>1, <2>0, <2>1, <3>0, <3>1, <3>3, LfAfterFirst
  <2>5. data_read'[rb] = c.data /\ empty_buffer'[rb] = c.empty
    BY <1>1, <2>1
  <2>6. Adjacent'
    BY <2>2, <2>5 DEF Adjacent
  <2>7. BufferInv'
    <3>1. c.data.len = t - at'
      <4>1. dr.len - k = t - (at + k)
        BY ONLY <1>1, <1>4, <1>5, <2>0
      <4> QED
        BY <2>2, <2>4, <4>1, Zenon
    <3>2. ASSUME NEW n \in 1..c.data.len
          PROVE  st[rb][c.data.from + n - 1] = sent[at' + n]
      <4>1. c.data.len \in Nat /\ c.data.from \in Nat
        BY <2>2 DEF Span
      <4>2. n \in Nat \ {0} /\ n <= dr.len - k /\ c.data.from = dr.from + k
        BY <2>2, <4>1
      <4>3. k + n \in 1..dr.len
        BY <1>4, <2>0, <4>2
      <4>4. st[rb][dr.from + (k + n) - 1] = sent[at + (k + n)]
        BY <1>3, <4>3
      <4>5. dr.from + (k + n) - 1 = dr.from + k + n - 1 /\ at + (k + n) = at + k + n
        BY <1>1, <1>4, <2>0, <4>2
      <4> QED
        BY <2>4, <4>2, <4>4, <4>5
    <3> QED
      BY <2>5, <3>1, <3>2 DEF BufferInv
  <2>8. LineInv'
    <3>1. st[rb][dr.from + k - 1] = sent[at + k] /\ sent[at + k] = "lf"
      BY <1>3, <1>6, <1>8, <2>0
    <3>2. k > 1 => st[rb][dr.from + k - 2] = sent[at + k - 1]
      <4> SUFFICES ASSUME k > 1 PROVE st[rb][dr.from + k - 2] = sent[at + k - 1]
        OBVIOUS
      <4>1. k - 1 \in 1..dr.len
        BY <1>4, <2>0
      <4>2. st[rb][dr.from + (k - 1) - 1] = sent[at + (k - 1)]
        BY <1>3, <4>1
      <4>3. dr.from + (k - 1) - 1 = dr.from + k - 2 /\ at + (k - 1) = at + k - 1
        BY <1>1, <1>4, <2>0
      <4> QED
        BY <4>2, <4>3
    <3>3. /\ at < at + k /\ (k > 1 <=> at < at + k - 1)
          /\ at + k - at - 2 = k - 2 /\ at + k - at - 1 = k - 1
      BY <1>1, <2>0
    <3>4. b.len = IF at < at' - 1 /\ sent[at' - 1] = "cr" THEN at' - at - 2
                  ELSE at' - at - 1
      <4>1. /\ at' - 1 = at + k - 1 /\ at' - at - 2 = at + k - at - 2
            /\ at' - at - 1 = at + k - at - 1
        BY ONLY <1>1, <2>0, <2>4
      <4>2. b.len = IF k > 1 /\ sent[at + k - 1] = "cr" THEN k - 2 ELSE k - 1
        BY <2>3, <3>2
      <4>3. b.len = IF at < at + k - 1 /\ sent[at + k - 1] = "cr" THEN at + k - at - 2
                    ELSE at + k - at - 1
        BY <3>3, <4>2
      <4> QED
        BY ONLY <4>1, <4>3, Zenon
    <3>5. b.len \in Nat /\ b.from + b.len <= Size /\ \A n \in 1..b.len : n \in 1..dr.len
      <4>1. b.len \in Nat
        BY <2>3 DEF Span
      <4> QED
        BY <1>4, <1>5, <2>0, <2>3, <4>1
    <3>6. \A n \in 1..b.len : st[b.at][b.from + n - 1] = sent[at + n]
      BY <1>3, <2>3, <3>5
    <3>7. st[b.at] = st[rb]
      BY <2>3
    <3> QED
      BY <2>1, <2>4, <3>1, <3>3, <3>4, <3>5, <3>6, <3>7 DEF LineInv
  <2>9. at' \in Nat /\ since' \in Nat
    BY <1>1, <2>0, <2>1, <2>4
  <2> QED
    BY <1>1, <2>1, <2>2, <2>3, <2>6, <2>7, <2>8, <2>9
<1> QED
  BY <1>4, <1>6, <1>7, <1>8

(* n bytes are taken off the pipe. *)
LEMMA PipeTaken ==
  ASSUME StreamInv, NEW n \in Nat, n <= Len(pipe),
         pipe' = SubSeq(pipe, n + 1, Len(pipe)), sent' = sent
  PROVE  /\ pipe' \in Seq(Byte) /\ Len(pipe') <= Cap
         /\ PipeInv' /\ Taken' = Taken + n
         /\ \A m \in 1..n : pipe[m] = sent[Taken + m]
<1>1. /\ Len(pipe) \in Nat /\ Len(sent) \in Nat /\ Taken \in Nat
      /\ Len(sent) = Taken + Len(pipe)
  BY Bounds
<1>2. pipe \in Seq(Byte) /\ Len(pipe) <= Cap
  BY DEF StreamInv, TypeOK
<1>3. /\ pipe' \in Seq(Byte) /\ Len(pipe') = Len(pipe) - n
      /\ \A k \in 1..(Len(pipe) - n) : pipe'[k] = pipe[n + k]
  BY <1>1, <1>2, SubBytes
<1>4. \A m \in 1..Len(pipe) : pipe[m] = sent[Taken + m]
  BY DEF StreamInv, PipeInv
<1>5. Taken' = Taken + n
  <2>1. Taken' = Len(sent) - Len(pipe')
    BY DEF Taken
  <2>2. Len(sent) - (Len(pipe) - n) = Taken + n
    BY ONLY <1>1
  <2> QED
    BY ONLY <1>3, <2>1, <2>2
<1>6. PipeInv'
  <2>1. Len(pipe') <= Len(sent')
    BY <1>1, <1>3
  <2>2. ASSUME NEW k \in 1..Len(pipe') PROVE pipe'[k] = sent'[Taken' + k]
    <3>1. k \in 1..(Len(pipe) - n)
      BY <1>3
    <3>2. n + k \in 1..Len(pipe) /\ Taken + (n + k) = Taken + n + k
      BY ONLY <1>1, <3>1
    <3>3. pipe'[k] = pipe[n + k] /\ pipe[n + k] = sent[Taken + (n + k)]
      BY <1>3, <1>4, <3>1, <3>2
    <3> QED
      BY <1>5, <3>2, <3>3
  <2> QED
    BY <2>1, <2>2 DEF PipeInv
<1>7. \A m \in 1..n : m \in 1..Len(pipe)
  BY ONLY <1>1, n <= Len(pipe)
<1>8. Len(pipe') <= Cap
  BY <1>1, <1>2, <1>3
<1> QED
  BY <1>3, <1>4, <1>5, <1>6, <1>7, <1>8

(* A step of read_until_lf_strip_cr, from what NextLineStep says of it.     *)
LEMMA LineStep ==
  ASSUME StreamInv, NEW r \in ReadCall, r.op = "read_line", r.ret = "none",
         reader' = r \/ reader' = NoRead("line", 0),
         pipe' \in Seq(Byte), Len(pipe') <= Cap, PipeInv',
         storage' \in [Object -> Storage],
         data_read' \in [Object -> Span], empty_buffer' \in [Object -> Span],
         line' \in Span, at' \in Nat, since' \in Nat, target' \in Seq(Byte),
         Adjacent', BufferInv', LineInv', UNCHANGED <<now, closed, sent, writer, rb>>
  PROVE  StreamInv'
<1>1. NoRead("line", 0) \in ReadCall /\ NoRead("line", 0).op = "idle"
  <2>1. "line" \in Exceptions \cup {"none", "line", "empty", "count"} /\ 0 \in Nat
    OBVIOUS
  <2> QED
    BY ONLY <2>1, IdleRead
<1>2. reader' \in ReadCall /\ ReaderInv'
  BY <1>1 DEF ReaderInv
<1>3. TypeOK'
  BY <1>2, Types DEF StreamInv, TypeOK, ReadCall, Storage
<1>4. WriterInv'
  BY DEF StreamInv, WriterInv
<1> QED
  BY <1>2, <1>3, <1>4 DEF StreamInv

(* read_until_lf_strip_cr is entered. *)
LEMMA ReadLineStep ==
  ASSUME StreamInv, NEW due \in Due, ReadLine(due)
  PROVE  StreamInv'
<1> DEFINE dr == data_read[rb]
           eb == empty_buffer[rb]
           r == Reading("read_line", 0, due)
<1>1. /\ NextLine(storage, dr, eb, r) /\ target' = <<>>
      /\ UNCHANGED <<now, pipe, closed, sent, writer, rb, storage>>
  BY DEF ReadLine
<1>2. /\ Len(pipe) \in Nat /\ Len(sent) \in Nat /\ Taken \in Nat /\ Taken <= Len(sent)
      /\ dr \in Span /\ eb \in Span /\ at + dr.len = Taken
  BY Bounds
<1>3. Fits(storage, dr, eb, Taken)
  BY <1>2 DEF StreamInv, Adjacent, BufferInv, Fits
<1>4. now \in Nat /\ storage \in [Object -> Storage]
  BY DEF StreamInv, TypeOK, Storage
<1>5. due \in Deadline
  BY <1>4, DueType
<1>6. r \in ReadCall /\ r.op = "read_line" /\ r.ret = "none"
  BY <1>2, <1>5 DEF Reading, ReadCall
<1>7. PipeInv' /\ Taken' = Taken
  BY <1>1 DEF StreamInv, PipeInv, Taken
<1> HIDE DEF dr, eb, r
<1>8. /\ reader' = r \/ reader' = NoRead("line", 0)
      /\ data_read' \in [Object -> Span] /\ empty_buffer' \in [Object -> Span]
      /\ line' \in Span /\ at' \in Nat /\ since' \in Nat
      /\ Adjacent' /\ BufferInv' /\ LineInv'
  BY <1>1, <1>2, <1>3, <1>4, <1>6, <1>7, NextLineStep
<1>9. pipe' \in Seq(Byte) /\ Len(pipe') <= Cap
  BY <1>1 DEF StreamInv, TypeOK
<1>10. target' \in Seq(Byte) /\ storage' \in [Object -> Storage]
  BY <1>1, <1>4, EmptySeq
<1> QED
  BY <1>1, <1>5, <1>6, <1>7, <1>8, <1>9, <1>10, LineStep

(* do_read_some: the n bytes at the front of the pipe follow the unread     *)
(* bytes in the storage as they do in the stream.                           *)
LEMMA ReadSomeStep ==
  ASSUME StreamInv, NEW n \in 1..Cap, ReadSome(n)
  PROVE  StreamInv'
<1> DEFINE dr == data_read[rb]
           eb == empty_buffer[rb]
           new == [k \in DOMAIN storage[rb] |->
                     IF k \in eb.from..(eb.from + n - 1)
                     THEN pipe[k - eb.from + 1] ELSE storage[rb][k]]
           st == [storage EXCEPT ![rb] = new]
           l == dr.len + n
           d2 == [dr EXCEPT !.len = l]
           e2 == Subspan(eb, n)
<1>0. n \in Nat \ {0}
  OBVIOUS
<1>1. /\ rb \in Object /\ storage \in [Object -> Storage] /\ reader \in ReadCall
      /\ pipe \in Seq(Byte) /\ target \in Seq(Byte)
  BY Types DEF StreamInv, TypeOK, Storage, ReadCall
<1>2. /\ dr.at = rb /\ eb.at = rb
      /\ eb.from = dr.from + dr.len /\ eb.from + eb.len = Size
  BY DEF StreamInv, Adjacent
<1>3. /\ Len(pipe) \in Nat /\ Len(sent) \in Nat /\ Taken \in Nat /\ at \in Nat
      /\ Len(sent) = Taken + Len(pipe)
      /\ dr \in Span /\ eb \in Span /\ at + dr.len = Taken
  BY Bounds
<1>4. /\ dr.from \in Nat /\ dr.len \in Nat /\ eb.from \in Nat /\ eb.len \in Nat
  BY <1>3 DEF Span
<1>5. /\ reader.op = "read_line" /\ n <= eb.len /\ n <= Len(pipe)
      /\ pipe' = SubSeq(pipe, n + 1, Len(pipe))
      /\ UNCHANGED <<now, closed, sent, writer, rb, target>>
  BY DEF ReadSome
<1>6. storage' = st /\ NextLine(st, d2, e2, reader)
  BY <1>2 DEF ReadSome
<1>7. reader.ret = "none"
  BY <1>5 DEF StreamInv, ReaderInv
<1>8. /\ pipe' \in Seq(Byte) /\ Len(pipe') <= Cap /\ PipeInv' /\ Taken' = Taken + n
      /\ \A m \in 1..n : pipe[m] = sent[Taken + m]
  BY <1>0, <1>5, PipeTaken
<1>9. /\ storage[rb] \in Storage /\ DOMAIN storage[rb] = 0..(Size - 1)
  BY <1>1 DEF Storage
<1>10. \A k \in 0..(Size - 1) :
         new[k] = IF k \in eb.from..(eb.from + n - 1) THEN pipe[k - eb.from + 1]
                  ELSE storage[rb][k]
  BY <1>9
<1>11. new \in Storage
  <2>1. ASSUME NEW k \in 0..(Size - 1), k \in eb.from..(eb.from + n - 1)
        PROVE  pipe[k - eb.from + 1] \in Byte
    <3>1. k - eb.from + 1 \in 1..n
      BY ONLY <1>0, <1>4, <2>1, Limits
    <3>2. k - eb.from + 1 \in 1..Len(pipe)
      BY ONLY <1>0, <1>3, <1>5, <3>1
    <3> QED
      BY <1>1, <3>2, ElementOfSeq
  <2>2. \A k \in 0..(Size - 1) : storage[rb][k] \in Byte
    BY <1>9 DEF Storage
  <2> QED
    BY <1>9, <2>1, <2>2 DEF Storage
<1> HIDE DEF new
<1>12. st \in [Object -> Storage] /\ st[rb] = new
  BY <1>1, <1>11
<1>13. dr.from + dr.len + n <= Size /\ l \in 0..Size /\ eb.from + eb.len <= Size
  <2>1. dr.from + dr.len + eb.len = Size
    BY ONLY <1>2
  <2>2. n <= eb.len
    BY <1>5
  <2>3. dr.from + dr.len + n <= Size
    BY ONLY <1>0, <1>4, <2>1, <2>2, Limits
  <2>4. l \in 0..Size
    BY ONLY <1>0, <1>4, <2>3, Limits
  <2>5. eb.from + eb.len <= Size
    BY ONLY <1>2, Limits
  <2> QED
    BY <2>3, <2>4, <2>5
<1>14. d2 \in Span /\ d2.at = rb /\ d2.from = dr.from /\ d2.len = l
  <2> HIDE DEF dr, l
  <2> QED
    BY <1>2, <1>3, <1>13 DEF Span
<1>15. e2 \in Span /\ e2.at = rb /\ e2.from = eb.from + n /\ e2.len = eb.len - n
  BY <1>0, <1>2, <1>3, <1>5, <1>13, SubspanFits
<1> HIDE DEF st, d2, e2, dr, eb
<1>16. Fits(st, d2, e2, Taken + n)
  <2>1. e2.from = d2.from + d2.len
    BY ONLY <1>0, <1>2, <1>4, <1>14, <1>15 DEF l
  <2>2. e2.from + e2.len = Size
    <3>1. eb.from + n + (eb.len - n) = eb.from + eb.len
      BY ONLY <1>0, <1>4
    <3> QED
      BY ONLY <1>2, <1>15, <3>1
  <2>3. at + d2.len = Taken + n
    <3>1. at + (dr.len + n) = at + dr.len + n
      BY ONLY <1>0, <1>3, <1>4
    <3> QED
      BY ONLY <1>3, <1>14, <3>1 DEF l
  <2>4. ASSUME NEW m \in 1..d2.len PROVE st[rb][d2.from + m - 1] = sent[at + m]
    <3>0. m \in 1..(dr.len + n)
      BY <1>14 DEF l
    <3> DEFINE k == dr.from + m - 1
    <3>1. k \in 0..(Size - 1)
      BY ONLY <1>0, <1>4, <1>13, <3>0, Limits
    <3>2. CASE m \in 1..dr.len
      <4>1. k \notin eb.from..(eb.from + n - 1)
        <5>1. k < dr.from + dr.len
          BY ONLY <1>4, <3>2
        <5>2. k < eb.from /\ k \in Int
          BY ONLY <1>2, <3>1, <5>1
        <5> QED
          BY ONLY <1>0, <1>4, <5>2
      <4>2. new[k] = storage[rb][k]
        BY <1>10, <3>1, <4>1
      <4>3. storage[rb][k] = sent[at + m]
        BY <3>2 DEF StreamInv, BufferInv, dr
      <4> QED
        BY <1>12, <1>14, <4>2, <4>3
    <3>3. CASE m \notin 1..dr.len
      <4> DEFINE j == m - dr.len
      <4>1. j \in 1..n /\ dr.len + j = m
        BY ONLY <1>0, <1>4, <3>0, <3>3
      <4>2. k = dr.from + dr.len + j - 1
        BY ONLY <1>0, <1>4, <3>0
      <4>3. k = eb.from + j - 1
        BY ONLY <1>2, <4>2
      <4> HIDE DEF j, k
      <4>4. k \in eb.from..(eb.from + n - 1) /\ k - eb.from + 1 = j
        BY ONLY <1>0, <1>4, <4>1, <4>3
      <4>5. new[k] = pipe[j]
        BY <1>10, <3>1, <4>4
      <4>6. Taken + j = at + m
        <5>1. at + dr.len + j = at + (dr.len + j)
          BY ONLY <1>0, <1>3, <1>4, <4>1
        <5> QED
          BY ONLY <1>3, <4>1, <5>1
      <4>7. pipe[j] = sent[Taken + j]
        BY <1>8, <4>1
      <4> QED
        BY <1>12, <1>14, <4>5, <4>6, <4>7 DEF k
    <3> QED
      BY <3>2, <3>3
  <2> QED
    BY <1>14, <1>15, <2>1, <2>2, <2>3, <2>4 DEF Fits
<1>17. Taken + n \in Nat /\ Taken + n <= Len(sent)
  BY ONLY <1>0, <1>3, <1>5
<1>18. /\ reader' = reader \/ reader' = NoRead("line", 0)
       /\ data_read' \in [Object -> Span] /\ empty_buffer' \in [Object -> Span]
       /\ line' \in Span /\ at' \in Nat /\ since' \in Nat
       /\ Adjacent' /\ BufferInv' /\ LineInv'
  <2> DEFINE t == Taken + n
  <2>1. t \in Nat /\ t <= Len(sent) /\ Fits(st, d2, e2, t) /\ Taken' = t
    BY <1>8, <1>16, <1>17
  <2> HIDE DEF t
  <2> QED
    BY <1>1, <1>5, <1>6, <1>7, <1>12, <1>14, <1>15, <2>1, NextLineStep
<1> QED
  BY <1>1, <1>5, <1>6, <1>7, <1>8, <1>12, <1>18, LineStep

(* The move constructor: the spans follow the bytes to the other object, in *)
(* which a line that was returned is found as well.                         *)
LEMMA MoveBufferStep ==
  ASSUME StreamInv, NEW o \in Object, MoveBuffer(o)
  PROVE  StreamInv'
<1> DEFINE dr == data_read[rb]
           eb == empty_buffer[rb]
<1>1. /\ reader.op = "idle" /\ rb' = o
      /\ storage' = [storage EXCEPT ![o] = storage[rb]]
      /\ data_read' = [data_read EXCEPT ![o] = Moved(dr, o)]
      /\ empty_buffer' = [empty_buffer EXCEPT ![o] = Moved(eb, o)]
      /\ UNCHANGED <<now, pipe, closed, sent, writer, reader, line, target, at, since>>
  BY DEF MoveBuffer, given
<1>2. /\ rb \in Object /\ storage \in [Object -> Storage]
      /\ data_read \in [Object -> Span] /\ empty_buffer \in [Object -> Span]
      /\ line \in Span
  BY DEF StreamInv, TypeOK, Storage
<1>3. dr \in Span /\ eb \in Span
  BY <1>2
<1> HIDE DEF dr, eb
<1>4. /\ Moved(dr, o) \in Span /\ Moved(dr, o).at = o
      /\ Moved(dr, o).from = dr.from /\ Moved(dr, o).len = dr.len
  BY <1>3 DEF Moved, Span
<1>5. /\ Moved(eb, o) \in Span /\ Moved(eb, o).at = o
      /\ Moved(eb, o).from = eb.from /\ Moved(eb, o).len = eb.len
  BY <1>3 DEF Moved, Span
<1>6. /\ data_read'[rb'] = Moved(dr, o) /\ empty_buffer'[rb'] = Moved(eb, o)
      /\ storage'[rb'] = storage[rb]
  BY <1>1, <1>2
<1>7. TypeOK'
  <2>1. storage' \in [Object -> Storage]
    BY <1>1, <1>2
  <2>2. data_read' \in [Object -> Span] /\ empty_buffer' \in [Object -> Span]
    BY <1>1, <1>2, <1>4, <1>5
  <2> QED
    BY <1>1, <2>1, <2>2 DEF StreamInv, TypeOK, Storage
<1>8. Adjacent'
  BY <1>1, <1>4, <1>5, <1>6 DEF StreamInv, Adjacent, dr, eb
<1>9. PipeInv' /\ WriterInv'
  BY <1>1 DEF StreamInv, PipeInv, WriterInv, Taken
<1>10. ReaderInv'
  BY <1>1 DEF StreamInv, ReaderInv
<1>11. BufferInv'
  <2>1. Taken' = Taken
    BY <1>1 DEF Taken
  <2>2. /\ dr.len = Taken - at
        /\ \A n \in 1..dr.len : storage[rb][dr.from + n - 1] = sent[at + n]
    BY DEF StreamInv, BufferInv, dr
  <2> QED
    BY <1>1, <1>4, <1>6, <2>1, <2>2 DEF BufferInv
<1>12. LineInv'
  <2> SUFFICES ASSUME reader.ret = "line" PROVE LineInv'
    BY <1>1 DEF LineInv
  <2>1. storage[line.at] = storage[rb] /\ line.at \in Object
    BY <1>2 DEF StreamInv, LineInv, Span
  <2>2. storage'[line.at] = storage[line.at] /\ storage'[line.at] = storage'[rb']
    BY <1>1, <1>2, <1>6, <2>1
  <2> QED
    BY <1>1, <2>2 DEF StreamInv, LineInv
<1> QED
  BY <1>7, <1>8, <1>9, <1>10, <1>11, <1>12 DEF StreamInv

(* read_exactly is entered. *)
LEMMA ReadExactlyStep ==
  ASSUME StreamInv, NEW n \in Want, NEW due \in Due, ReadExactly(n, due)
  PROVE  StreamInv'
<1>0. n \in Nat
  BY ConstantsAssumption
<1>1. /\ reader.op = "idle" /\ data_read[rb].len = 0
      /\ reader' = IF n = 0 THEN NoRead("count", 0) ELSE Reading("read_exactly", n, due)
      /\ target' = [k \in 1..n |-> "x"] /\ line' = Start(rb) /\ since' = 0
      /\ UNCHANGED <<now, pipe, closed, sent, writer, buffer, at>>
  BY DEF ReadExactly
<1>2. target' \in Seq(Byte) /\ Len(target') = n
  <2>1. [k \in 1..n |-> "x"] \in [1..n -> Byte]
    BY DEF Byte
  <2> QED
    BY <1>0, <1>1, <2>1, FunctionBytes
<1>3. line' \in Span /\ since' \in Nat
  BY <1>1 DEF Start, Span, StreamInv, TypeOK
<1>4. CASE n = 0
  <2>1. "count" \in Exceptions \cup {"empty", "count"} /\ 0 \in Nat
    OBVIOUS
  <2>2. reader' = NoRead("count", 0)
    BY <1>1, <1>4
  <2> QED
    BY <1>1, <1>2, <1>3, <2>1, <2>2, EndStep
<1>5. CASE n # 0
  <2> DEFINE r == Reading("read_exactly", n, due)
  <2>1. Taken \in Nat /\ at \in Nat /\ at + data_read[rb].len = Taken
    BY Bounds
  <2>2. now \in Nat
    BY DEF StreamInv, TypeOK
  <2>3. due \in Deadline
    BY <2>2, DueType
  <2>4. /\ r \in ReadCall /\ r.op = "read_exactly" /\ r.ret = "none"
        /\ r.in = n /\ r.from = Taken
    BY <1>0, <2>1, <2>3 DEF Reading, ReadCall
  <2>5. reader' = r
    BY <1>1, <1>5
  <2> HIDE DEF r
  <2>6. UNCHANGED <<now, rb, data_read, at>>
    BY <1>1 DEF buffer
  <2>7. at = Taken + n - n /\ n - n = 0 /\ n <= n
    BY ONLY <1>0, <1>1, <2>1
  <2>8. ReaderInv'
    <3>1. /\ reader'.in <= Len(target') /\ data_read'[rb'].len = 0
          /\ at' = reader'.from + Len(target') - reader'.in
          /\ Len(target') - reader'.in = 0
      BY <1>1, <1>2, <2>4, <2>5, <2>6, <2>7
    <3>2. \A m \in 1..(Len(target') - reader'.in) : FALSE
      BY <3>1
    <3>3. reader'.ret = "none"
      BY <2>4, <2>5
    <3> QED
      BY <3>1, <3>2, <3>3 DEF ReaderInv
  <2>9. LineInv'
    BY <2>4, <2>5 DEF LineInv
  <2> QED
    BY <1>1, <1>2, <1>3, <2>4, <2>5, <2>8, <2>9, ReaderStep
<1> QED
  BY <1>4, <1>5

(* What read_exactly knows of its progress: `done` bytes are in the target. *)
LEMMA Progress ==
  ASSUME StreamInv, reader.op = "read_exactly", NEW done, done = Len(target) - reader.in
  PROVE  /\ Len(target) \in Nat /\ reader.in \in Nat /\ reader.from \in Nat
         /\ done \in Nat /\ reader.in <= Len(target) /\ done + reader.in = Len(target)
         /\ at = reader.from + done /\ at = Taken
         /\ \A n \in 1..done : target[n] = sent[reader.from + n]
<1>1. /\ reader.in <= Len(target) /\ data_read[rb].len = 0
      /\ at = reader.from + Len(target) - reader.in
      /\ \A n \in 1..(Len(target) - reader.in) : target[n] = sent[reader.from + n]
  BY DEF StreamInv, ReaderInv
<1>2. Len(target) \in Nat /\ reader.in \in Nat /\ reader.from \in Nat
  BY LenProperties DEF StreamInv, TypeOK
<1>3. done \in Nat /\ done + reader.in = Len(target)
  BY <1>1, <1>2
<1>4. reader.from + Len(target) - reader.in = reader.from + (Len(target) - reader.in)
  BY ONLY <1>2
<1>5. at = Taken
  BY <1>1, Bounds
<1> QED
  BY <1>1, <1>2, <1>3, <1>4, <1>5

(* read_some has filled n bytes of what is left of the target. *)
LEMMA Filled ==
  ASSUME StreamInv, reader.op = "read_exactly", NEW n \in 1..Cap, n <= reader.in,
         n <= Len(pipe), NEW done, done = Len(target) - reader.in,
         NEW t, t = Into(n)
  PROVE  /\ t \in Seq(Byte) /\ Len(t) = Len(target)
         /\ \A k \in 1..(done + n) : t[k] = sent[reader.from + k]
<1>0. n \in Nat \ {0}
  OBVIOUS
<1>1. /\ Len(target) \in Nat /\ reader.in \in Nat /\ reader.from \in Nat
      /\ done \in Nat /\ reader.in <= Len(target) /\ done + reader.in = Len(target)
      /\ at = reader.from + done /\ at = Taken
      /\ \A k \in 1..done : target[k] = sent[reader.from + k]
  BY Progress
<1>2. target \in Seq(Byte) /\ pipe \in Seq(Byte) /\ DOMAIN target = 1..Len(target)
  BY LenProperties DEF StreamInv, TypeOK
<1>3. Len(pipe) \in Nat /\ \A m \in 1..Len(pipe) : pipe[m] = sent[Taken + m]
  BY Bounds DEF StreamInv, PipeInv
<1>4. t = [k \in 1..Len(target) |-> IF k \in (done + 1)..(done + n)
                                    THEN pipe[k - done] ELSE target[k]]
  BY <1>2 DEF Into
<1>5. ASSUME NEW k \in 1..Len(target), k \in (done + 1)..(done + n)
      PROVE  k - done \in 1..n /\ k - done \in 1..Len(pipe)
  <2>1. n <= Len(pipe)
    OBVIOUS
  <2> QED
    BY ONLY <1>0, <1>1, <1>3, <1>5, <2>1
<1>6. \A k \in 1..Len(target) : target[k] \in Byte
  BY <1>2, ElementOfSeq
<1>7. \A k \in 1..Len(pipe) : pipe[k] \in Byte
  BY <1>2, ElementOfSeq
<1>8. t \in [1..Len(target) -> Byte]
  BY <1>4, <1>5, <1>6, <1>7
<1>9. t \in Seq(Byte) /\ Len(t) = Len(target)
  BY <1>1, <1>8, FunctionBytes
<1>10. ASSUME NEW k \in 1..(done + n) PROVE t[k] = sent[reader.from + k]
  <2>0. n <= reader.in /\ reader.in <= Len(target)
    BY <1>1
  <2>1. k \in 1..Len(target)
    BY ONLY <1>0, <1>1, <2>0, <1>10
  <2>2. CASE k \in 1..done
    <3>1. k \notin (done + 1)..(done + n)
      BY ONLY <1>0, <1>1, <2>2
    <3> QED
      BY <1>1, <1>4, <2>1, <2>2, <3>1
  <2>3. CASE k \notin 1..done
    <3> DEFINE m == k - done
    <3>1. k \in (done + 1)..(done + n) /\ done + m = k /\ m \in Int
      BY ONLY <1>0, <1>1, <2>3, <1>10
    <3>2. m \in 1..Len(pipe)
      BY <1>5, <2>1, <3>1
    <3>3. t[k] = pipe[m]
      BY <1>4, <2>1, <3>1
    <3>4. reader.from + done + m = reader.from + (done + m)
      BY ONLY <1>1, <3>1
    <3> HIDE DEF m
    <3>5. pipe[m] = sent[Taken + m] /\ Taken + m = reader.from + k
      <4>1. Taken = reader.from + done
        BY <1>1
      <4>2. Taken + m = reader.from + done + m
        BY ONLY <4>1
      <4> QED
        BY <1>3, <3>1, <3>2, <3>4, <4>2
    <3> QED
      BY <3>3, <3>5
  <2> QED
    BY <2>2, <2>3
<1> QED
  BY <1>9, <1>10

(* read_exactly gets some bytes: it goes on, or has them all. *)
LEMMA ReadIntoStep ==
  ASSUME StreamInv, NEW n \in 1..Cap, ReadInto(n)
  PROVE  StreamInv'
<1> DEFINE done == Len(target) - reader.in
<1>0. n \in Nat \ {0}
  OBVIOUS
<1>1. /\ reader.op = "read_exactly" /\ n <= reader.in /\ n <= Len(pipe)
      /\ target' = Into(n) /\ pipe' = SubSeq(pipe, n + 1, Len(pipe)) /\ at' = at + n
      /\ reader' = IF reader.in = n THEN NoRead("count", Len(target))
                   ELSE [reader EXCEPT !.in = @ - n]
      /\ UNCHANGED <<now, closed, sent, writer, rb, storage, data_read, empty_buffer,
                     line, since>>
  BY DEF ReadInto, buffer
<1>2. /\ Len(target) \in Nat /\ reader.in \in Nat /\ reader.from \in Nat
      /\ done \in Nat /\ reader.in <= Len(target) /\ done + reader.in = Len(target)
      /\ at = reader.from + done /\ at = Taken
  BY <1>1, Progress
<1>3. /\ target' \in Seq(Byte) /\ Len(target') = Len(target)
      /\ \A k \in 1..(done + n) : target'[k] = sent[reader.from + k]
  BY <1>1, Filled
<1> HIDE DEF done
<1>4. /\ pipe' \in Seq(Byte) /\ Len(pipe') <= Cap /\ PipeInv' /\ Taken' = Taken + n
  BY <1>0, <1>1, PipeTaken
<1>5. /\ reader \in ReadCall /\ Taken \in Nat /\ at \in Nat
  BY Bounds, Types DEF StreamInv
<1>6. data_read[rb].len = 0 /\ reader.ret = "none"
  BY <1>1 DEF StreamInv, ReaderInv
<1>7. reader' \in ReadCall /\ ReaderInv' /\ reader'.ret # "line"
  <2>1. CASE reader.in = n
    <3>1. "count" \in Exceptions \cup {"none", "line", "empty", "count"}
      OBVIOUS
    <3>2. reader' = NoRead("count", Len(target)) /\ Len(target) \in Nat
      BY <1>1, <1>2, <2>1
    <3>3. reader' \in ReadCall /\ reader'.op = "idle" /\ reader'.ret = "count"
      BY ONLY <3>1, <3>2, IdleRead
    <3> QED
      BY <3>3 DEF ReaderInv
  <2>2. CASE reader.in # n
    <3> DEFINE i == reader.in - n
    <3>1. i \in Nat /\ i <= Len(target)
      BY ONLY <1>0, <1>1, <1>2
    <3>2. Len(target) - i = done + n
      BY ONLY <1>0, <1>2
    <3>3. reader' = [reader EXCEPT !.in = i]
      BY <1>1, <2>2
    <3> HIDE DEF i
    <3>4. /\ reader' \in ReadCall /\ reader'.in = i /\ reader'.op = reader.op
          /\ reader'.ret = reader.ret /\ reader'.from = reader.from
      BY <1>5, <3>1, <3>3 DEF ReadCall
    <3>5. /\ reader'.in <= Len(target')
          /\ at' = reader'.from + Len(target') - reader'.in
          /\ Len(target') - reader'.in = done + n
      <4>1. reader.from + Len(target) - i = reader.from + (Len(target) - i)
        BY ONLY <1>2, <3>1
      <4>2. reader.from + done + n = reader.from + (done + n)
        BY ONLY <1>0, <1>2
      <4>3. at + n = reader.from + done + n
        BY ONLY <1>2
      <4> QED
        BY ONLY <1>1, <1>3, <3>1, <3>2, <3>4, <4>1, <4>2, <4>3
    <3>6. \A k \in 1..(Len(target') - reader'.in) : target'[k] = sent'[reader'.from + k]
      BY <1>1, <1>3, <3>4, <3>5
    <3>7. reader'.ret = "none" /\ data_read'[rb'].len = 0
      BY <1>1, <1>6, <3>4
    <3> QED
      BY <3>4, <3>5, <3>6, <3>7 DEF ReaderInv
  <2> QED
    BY <2>1, <2>2
<1>8. at' \in Nat
  BY <1>0, <1>1, <1>5
<1>9. TypeOK'
  BY <1>1, <1>3, <1>4, <1>7, <1>8 DEF StreamInv, TypeOK, ReadCall
<1>10. Adjacent' /\ WriterInv'
  BY <1>1 DEF StreamInv, Adjacent, WriterInv
<1>11. BufferInv'
  <2>1. Taken' - at' = 0
    <3>1. Taken' = Taken + n /\ at' = Taken + n
      BY <1>1, <1>2, <1>4
    <3> QED
      BY <1>0, <1>5, <3>1
  <2>2. data_read'[rb'].len = 0 /\ \A m \in 1..0 : FALSE
    BY <1>1, <1>6
  <2> QED
    BY <2>1, <2>2 DEF BufferInv
<1>12. LineInv'
  BY <1>7 DEF LineInv
<1> QED
  BY <1>4, <1>7, <1>9, <1>10, <1>11, <1>12 DEF StreamInv

(* The clock moves on. *)
LEMMA TickStep ==
  ASSUME StreamInv, Tick
  PROVE  StreamInv'
<1>1. /\ now < MaxTime /\ now' = now + 1
      /\ UNCHANGED <<pipe, closed, sent, writer, reader, rb, storage, data_read,
                     empty_buffer, line, target, at, since>>
  BY DEF Tick, buffer, given
<1>2. now \in Nat
  BY DEF StreamInv, TypeOK
<1>3. TypeOK'
  BY <1>1, <1>2 DEF StreamInv, TypeOK
<1>4. PipeInv' /\ Adjacent' /\ BufferInv' /\ LineInv'
  BY <1>1 DEF StreamInv, PipeInv, Adjacent, BufferInv, LineInv, Taken
<1>5. WriterInv' /\ ReaderInv'
  BY <1>1 DEF StreamInv, WriterInv, ReaderInv
<1> QED
  BY <1>3, <1>4, <1>5 DEF StreamInv

(* write_all is entered. *)
LEMMA WriteAllStep ==
  ASSUME StreamInv, NEW s \in Chunk, NEW due \in Due, WriteAll(s, due)
  PROVE  StreamInv'
<1>1. /\ Len(sent) + Len(s) <= MaxSent
      /\ writer' = IF s = <<>> THEN NoWrite(0)
                   ELSE [op |-> "write_all", s |-> s, out |-> Len(s), due |-> due,
                         from |-> Len(sent), ret |-> 0]
      /\ UNCHANGED <<now, pipe, closed, sent, reader, buffer, line, target, given>>
  BY DEF WriteAll
<1>2. s \in Seq(Byte) /\ Len(s) \in Nat /\ Len(sent) \in Nat
  BY ConstantsAssumption, LenProperties, Bounds
<1>3. closed \in BOOLEAN /\ now \in Nat
  BY DEF StreamInv, TypeOK
<1>4. due \in Deadline
  BY <1>3, DueType
<1>5. writer' \in WriteCall /\ WriterInv'
  <2>1. CASE s = <<>>
    <3>1. writer' = NoWrite(0) /\ 0 \in Int
      BY <1>1, <2>1
    <3>2. writer' \in WriteCall /\ writer'.op = "idle"
      BY <3>1, IdleWrite
    <3> QED
      BY <3>2 DEF WriterInv
  <2>2. CASE s # <<>>
    <3>1. /\ writer' \in WriteCall /\ writer'.s = s /\ writer'.out = Len(s)
          /\ writer'.from = Len(sent)
      BY <1>1, <1>2, <1>4, <2>2 DEF WriteCall
    <3>2. Len(s) <= Len(s) /\ Len(sent) = Len(sent) + Len(s) - Len(s)
          /\ Len(s) - Len(s) = 0 /\ \A n \in 1..0 : FALSE
      BY <1>2
    <3>3. sent' = sent
      BY <1>1
    <3> QED
      BY <1>1, <1>4, <3>1, <3>2, <3>3 DEF WriterInv
  <2> QED
    BY <2>1, <2>2
<1> QED
  BY <1>1, <1>3, <1>5, WriterStep

(* write_all returns, or throws. *)
LEMMA WriteEnds ==
  ASSUME StreamInv, NEW ret \in Int, writer' = NoWrite(ret),
         UNCHANGED <<now, pipe, closed, sent, reader, buffer, line, target, given>>
  PROVE  StreamInv'
<1>1. writer' \in WriteCall /\ writer'.op = "idle"
  BY IdleWrite
<1>2. WriterInv'
  BY <1>1 DEF WriterInv
<1>3. closed' \in BOOLEAN
  BY DEF StreamInv, TypeOK
<1> QED
  BY <1>1, <1>2, <1>3, WriterStep

(* The invariant holds before anything is written or read. *)
LEMMA StreamInvInit == Init => StreamInv
<1> SUFFICES ASSUME Init PROVE StreamInv
  OBVIOUS
<1>1. rb \in Object
  BY ConstantsAssumption DEF Init
<1>2. /\ pipe = <<>> /\ sent = <<>> /\ target = <<>> /\ Len(<<>>) = 0
      /\ <<>> \in Seq(Byte)
  BY EmptySeq DEF Init
<1>3. \A o \in Object : /\ Start(o) \in Span /\ Start(o).at = o
                        /\ Start(o).from = 0 /\ Start(o).len = 0
                        /\ Whole(o) \in Span /\ Whole(o).at = o
                        /\ Whole(o).from = 0 /\ Whole(o).len = Size
  BY DEF Start, Whole, Span
<1>4. writer \in WriteCall /\ writer.op = "idle"
  <2>1. writer = NoWrite(0) /\ 0 \in Int
    BY DEF Init
  <2> QED
    BY ONLY <2>1, IdleWrite
<1>5. reader \in ReadCall /\ reader.op = "idle" /\ reader.ret = "none"
  <2>1. /\ reader = NoRead("none", 0) /\ 0 \in Nat
        /\ "none" \in Exceptions \cup {"none", "line", "empty", "count"}
    BY DEF Init
  <2> QED
    BY ONLY <2>1, IdleRead
<1>6. storage \in [Object -> Storage]
  BY DEF Init, Storage, Byte
<1>7. /\ data_read \in [Object -> Span] /\ empty_buffer \in [Object -> Span]
      /\ data_read[rb] = Start(rb) /\ empty_buffer[rb] = Whole(rb) /\ line = Start(rb)
      /\ now = 0 /\ closed = FALSE /\ at = 0 /\ since = 0
  BY <1>1, <1>3 DEF Init
<1>8. TypeOK
  <2>1. now \in 0..MaxTime /\ closed \in BOOLEAN /\ at \in Nat /\ since \in Nat
    <3>1. 0 \in 0..MaxTime /\ 0 \in Nat
      BY ONLY Limits
    <3>2. closed \in BOOLEAN
      BY ONLY <1>7
    <3>3. now = 0 /\ at = 0 /\ since = 0
      BY ONLY <1>7
    <3> QED
      BY ONLY <3>1, <3>2, <3>3, Zenon
  <2>2. /\ pipe \in Seq(Byte) /\ Len(pipe) <= Cap
        /\ sent \in Seq(Byte) /\ Len(sent) <= MaxSent /\ target \in Seq(Byte)
    <3>1. Len(pipe) = 0 /\ Len(sent) = 0
      BY ONLY <1>2
    <3>2. pipe \in Seq(Byte) /\ sent \in Seq(Byte) /\ target \in Seq(Byte)
      BY ONLY <1>2
    <3>3. 0 <= Cap /\ 0 <= MaxSent
      BY ONLY Limits
    <3> QED
      BY ONLY <3>1, <3>2, <3>3
  <2>3. line \in Span
    BY ONLY <1>1, <1>3, <1>7
  <2> QED
    BY ONLY <1>1, <1>4, <1>5, <1>6, <1>7, <2>1, <2>2, <2>3, Types
<1>9. Taken = 0
  BY <1>2 DEF Taken
<1>10. PipeInv
  BY <1>2, <1>9 DEF PipeInv
<1>11. Adjacent
  BY <1>1, <1>3, <1>7 DEF Adjacent
<1>12. WriterInv /\ ReaderInv /\ LineInv
  BY <1>4, <1>5 DEF WriterInv, ReaderInv, LineInv
<1>13. BufferInv
  BY <1>1, <1>3, <1>7, <1>9 DEF BufferInv
<1> QED
  BY <1>8, <1>10, <1>11, <1>12, <1>13 DEF StreamInv

(* Every step of either end, and of the clock, keeps the invariant. *)
LEMMA StreamInvStep == StreamInv /\ [Next]_vars => StreamInv'
<1> SUFFICES ASSUME StreamInv, [Next]_vars PROVE StreamInv'
  OBVIOUS
<1>0. /\ line \in Span /\ target \in Seq(Byte) /\ since \in Nat /\ closed \in BOOLEAN
      /\ writer \in WriteCall
  BY Types DEF StreamInv
<1>1. ASSUME NEW s \in Chunk, NEW due \in Due, WriteAll(s, due) PROVE StreamInv'
  BY <1>1, WriteAllStep
<1>2. ASSUME NEW n \in 1..Cap, WriteSome(n) PROVE StreamInv'
  BY <1>2, WroteStep
<1>3. ASSUME NEW why \in Exceptions, WriteThrows(why) PROVE StreamInv'
  <2>1. -1 \in Int
    OBVIOUS
  <2> QED
    BY <1>3, <2>1, WriteEnds DEF WriteThrows
<1>4. CASE WriteNothing
  <2>1. Len(writer.s) - writer.out \in Int
    BY <1>0, LenProperties DEF WriteCall
  <2> QED
    BY <1>4, <2>1, WriteEnds DEF WriteNothing
<1>5. CASE Close
  <2>1. /\ writer' = writer /\ closed' \in BOOLEAN
        /\ UNCHANGED <<now, pipe, sent, reader, buffer, line, target, given>>
    BY <1>5 DEF Close
  <2>2. WriterInv'
    BY <2>1 DEF StreamInv, WriterInv
  <2> QED
    BY <1>0, <2>1, <2>2, WriterStep
<1>6. ASSUME NEW due \in Due, ReadLine(due) PROVE StreamInv'
  BY <1>6, ReadLineStep
<1>7. ASSUME NEW due \in Due, NEW n \in Want, ReadExactly(n, due) PROVE StreamInv'
  BY <1>7, ReadExactlyStep
<1>8. ASSUME NEW n \in 1..Cap, ReadSome(n) PROVE StreamInv'
  BY <1>8, ReadSomeStep
<1>9. ASSUME NEW n \in 1..Cap, ReadInto(n) PROVE StreamInv'
  BY <1>9, ReadIntoStep
<1>10. ASSUME NEW ret \in Exceptions \cup {"empty", "count"}, NEW count \in Nat,
              reader' = NoRead(ret, count),
              UNCHANGED <<now, pipe, closed, sent, writer, buffer, line, target, given>>
       PROVE  StreamInv'
  <2>1. /\ line' \in Span /\ target' \in Seq(Byte) /\ since' \in Nat
        /\ UNCHANGED <<now, pipe, closed, sent, writer, buffer, at>>
    BY <1>0, <1>10 DEF given
  <2> QED
    BY <1>10, <2>1, EndStep
<1>11. ASSUME NEW why \in Exceptions, ReadThrows(why) PROVE StreamInv'
  BY <1>10, <1>11 DEF ReadThrows
<1>12. CASE ReadNothing
  BY <1>10, <1>12 DEF ReadNothing
<1>13. CASE ReadShort
  <2> DEFINE count == Len(target) - reader.in
  <2>1. reader.op = "read_exactly"
    BY <1>13 DEF ReadShort
  <2>2. count \in Nat
    BY <2>1, Progress
  <2>3. /\ reader' = NoRead("count", count)
        /\ UNCHANGED <<now, pipe, closed, sent, writer, buffer, line, target, given>>
    BY <1>13 DEF ReadShort
  <2> HIDE DEF count
  <2> QED
    BY <1>10, <2>2, <2>3
<1>14. ASSUME NEW o \in Object, MoveBuffer(o) PROVE StreamInv'
  BY <1>14, MoveBufferStep
<1>15. CASE Tick
  BY <1>15, TickStep
<1>16. CASE UNCHANGED vars
  <2>1. /\ writer' = writer /\ closed' = closed
        /\ UNCHANGED <<now, pipe, sent, reader, buffer, line, target, given>>
    BY <1>16 DEF vars
  <2>2. WriterInv'
    BY <2>1 DEF StreamInv, WriterInv
  <2> QED
    BY <1>0, <2>1, <2>2, WriterStep
<1> QED
  BY <1>1, <1>2, <1>3, <1>4, <1>5, <1>6, <1>7, <1>8, <1>9, <1>11, <1>12, <1>13, <1>14,
     <1>15, <1>16 DEF Next, Write, Read

-----------------------------------------------------------------------------
(* What the invariant says.                                                *)

(* The buffer holds what was taken off the stream and not given away. *)
LEMMA BufferBytes == StreamInv => BufferExact
<1> SUFFICES ASSUME StreamInv PROVE BufferExact
  OBVIOUS
<1> DEFINE dr == data_read[rb]
           f == Bytes(storage, dr)
<1>1. /\ Len(sent) \in Nat /\ Len(pipe) \in Nat /\ Taken \in Nat /\ at \in Nat
      /\ Len(sent) = Taken + Len(pipe) /\ at <= Taken /\ dr \in Span
      /\ empty_buffer[rb] \in Span
  BY Bounds
<1>2. storage \in [Object -> Storage] /\ sent \in Seq(Byte)
  BY Types DEF StreamInv
<1>3. /\ dr.at = rb /\ empty_buffer[rb].from = dr.from + dr.len
      /\ empty_buffer[rb].from + empty_buffer[rb].len = Size
  BY DEF StreamInv, Adjacent
<1>4. /\ dr.len = Taken - at
      /\ \A n \in 1..dr.len : storage[rb][dr.from + n - 1] = sent[at + n]
  BY DEF StreamInv, BufferInv
<1>5. /\ dr.from \in Nat /\ dr.len \in Nat /\ empty_buffer[rb].len \in Nat
      /\ empty_buffer[rb].from \in Nat
  BY <1>1 DEF Span
<1> HIDE DEF dr
<1>6. dr.from + dr.len <= Size
  <2>1. dr.from + dr.len + empty_buffer[rb].len = Size
    BY ONLY <1>3
  <2> QED
    BY ONLY <1>5, <2>1, Limits
<1>7. /\ f \in Seq(Byte) /\ Len(f) = dr.len
      /\ \A n \in 1..dr.len : f[n] = storage[dr.at][dr.from + n - 1]
  BY <1>1, <1>2, <1>6, SpanBytes
<1>8. Len(f) = Taken - at /\ \A n \in 1..(Taken - at) : f[n] = sent[at + n]
  BY <1>3, <1>4, <1>7
<1>9. Taken <= Len(sent)
  BY ONLY <1>1
<1> HIDE DEF f
<1>10. f = SubSeq(sent, at + 1, Taken)
  BY <1>1, <1>2, <1>7, <1>8, <1>9, EqualBytes
<1> QED
  BY <1>10 DEF BufferExact, f, dr

(* The text of a line, and the text without its last byte. *)
LEMMA FrontBytes ==
  ASSUME NEW s \in Seq(Byte), NEW m \in Nat, NEW n \in Nat, m < n, n <= Len(s)
  PROVE  LET t == SubSeq(s, m + 1, n)
         IN  t # <<>> /\ Last(t) = s[n] /\ Front(t) = SubSeq(s, m + 1, n - 1)
<1> DEFINE t == SubSeq(s, m + 1, n)
           l == n - 1
<1>1. t \in Seq(Byte) /\ Len(t) = n - m /\ \A k \in 1..(n - m) : t[k] = s[m + k]
  BY SubBytes
<1>2. l \in Nat /\ m <= l /\ l <= Len(s) /\ n - m \in 1..(n - m) /\ m + (n - m) = n
      /\ n - m # 0 /\ n - m - 1 = l - m /\ l - m \in Nat /\ l - m <= n - m
  BY LenProperties
<1> DEFINE f == Front(t)
<1>3. f = SubSeq(t, 1, l - m)
  BY <1>1, <1>2 DEF Front
<1>4. SubSeq(t, 0 + 1, l - m) \in Seq(Byte) /\ Len(SubSeq(t, 0 + 1, l - m)) = l - m - 0
      /\ \A k \in 1..(l - m - 0) : SubSeq(t, 0 + 1, l - m)[k] = t[0 + k]
  <2> HIDE DEF t, l
  <2>1. 0 \in Nat /\ 0 <= l - m /\ l - m <= Len(t)
    BY <1>1, <1>2
  <2> QED
    BY <1>1, <1>2, <2>1, SubBytes
<1>5. f \in Seq(Byte) /\ Len(f) = l - m /\ \A k \in 1..(l - m) : f[k] = s[m + k]
  <2> HIDE DEF t, l, f
  <2>1. /\ 0 + 1 = 1 /\ l - m - 0 = l - m
        /\ \A k \in 1..(l - m) : 0 + k = k /\ k \in 1..(n - m)
    BY <1>2
  <2> QED
    BY <1>1, <1>3, <1>4, <2>1
<1> HIDE DEF t, l, f
<1>6. f = SubSeq(s, m + 1, l)
  BY <1>2, <1>5, EqualBytes
<1>7. t # <<>>
  BY <1>1, <1>2, EmptySeq
<1>8. Last(t) = s[n]
  BY <1>1, <1>2 DEF Last
<1> QED
  BY <1>6, <1>7, <1>8 DEF t, l, f

(* The line that was returned is the next line of the stream. *)
LEMMA LineBytes == StreamInv => LineExact
<1> SUFFICES ASSUME StreamInv, reader.op = "idle", reader.ret = "line"
             PROVE  LET text == SubSeq(sent, since + 1, at - 1)
                    IN  /\ sent[at] = "lf"
                        /\ Bytes(storage, line) =
                             IF text # <<>> /\ Last(text) = "cr" THEN Front(text)
                             ELSE text
  BY DEF LineExact
<1> DEFINE e == at - 1
           text == SubSeq(sent, since + 1, e)
           f == Bytes(storage, line)
<1>1. /\ Len(sent) \in Nat /\ Len(pipe) \in Nat /\ Taken \in Nat /\ at \in Nat
      /\ Len(sent) = Taken + Len(pipe) /\ at <= Taken /\ since \in Nat
  BY Bounds
<1>2. storage \in [Object -> Storage] /\ sent \in Seq(Byte) /\ line \in Span
  BY Types DEF StreamInv
<1>3. /\ line.from + line.len <= Size
      /\ since < at /\ sent[at] = "lf"
      /\ line.len = IF since < at - 1 /\ sent[at - 1] = "cr" THEN at - since - 2
                    ELSE at - since - 1
      /\ \A n \in 1..line.len : storage[line.at][line.from + n - 1] = sent[since + n]
  BY DEF StreamInv, LineInv
<1>4. /\ f \in Seq(Byte) /\ Len(f) = line.len
      /\ \A n \in 1..line.len : f[n] = storage[line.at][line.from + n - 1]
  BY <1>2, <1>3, SpanBytes
<1>5. /\ f \in Seq(Byte) /\ Len(f) = line.len
      /\ \A n \in 1..line.len : f[n] = sent[since + n]
  BY <1>3, <1>4
<1> HIDE DEF f
<1>6. e \in Nat /\ since <= e /\ e <= Len(sent)
  <2>1. since < at
    BY <1>3
  <2> QED
    BY ONLY <1>1, <2>1
<1>7. CASE since < e /\ sent[e] = "cr"
  <2> DEFINE d == e - 1
  <2>1. d \in Nat /\ since <= d /\ d <= Len(sent)
    BY ONLY <1>1, <1>6, <1>7
  <2>2. at - since - 2 = d - since
    BY ONLY <1>1
  <2>3. line.len = d - since
    BY <1>3, <1>7, <2>2
  <2>4. text # <<>> /\ Last(text) = sent[e] /\ Front(text) = SubSeq(sent, since + 1, d)
    <3> HIDE DEF e
    <3>1. since < e
      BY <1>7
    <3>2. SubSeq(sent, since + 1, e) # <<>> /\ Last(SubSeq(sent, since + 1, e)) = sent[e]
      BY ONLY <1>1, <1>2, <1>6, <3>1, FrontBytes
    <3>3. Front(SubSeq(sent, since + 1, e)) = SubSeq(sent, since + 1, e - 1)
      BY ONLY <1>1, <1>2, <1>6, <3>1, FrontBytes
    <3> QED
      BY <3>2, <3>3
  <2> HIDE DEF d
  <2>5. f = SubSeq(sent, since + 1, d)
    <3>1. sent \in Seq(Byte) /\ since \in Nat
      BY <1>1, <1>2
    <3>2. Len(f) = d - since /\ \A n \in 1..(d - since) : f[n] = sent[since + n]
      BY <1>5, <2>3
    <3>3. f \in Seq(Byte)
      BY <1>5
    <3> QED
      BY ONLY <2>1, <3>1, <3>2, <3>3, EqualBytes
  <2> HIDE DEF e, text
  <2>6. f = IF text # <<>> /\ Last(text) = "cr" THEN Front(text) ELSE text
    BY <1>7, <2>4, <2>5
  <2> QED
    BY <1>3, <2>6 DEF text, e, f
<1>8. CASE ~(since < e /\ sent[e] = "cr")
  <2>1. at - since - 1 = e - since
    BY ONLY <1>1
  <2>2. line.len = e - since
    BY <1>3, <1>8, <2>1
  <2> HIDE DEF e
  <2>3. f = text
    <3>1. sent \in Seq(Byte) /\ since \in Nat
      BY <1>1, <1>2
    <3>2. Len(f) = e - since /\ \A n \in 1..(e - since) : f[n] = sent[since + n]
      BY <1>5, <2>2
    <3>3. f \in Seq(Byte)
      BY <1>5
    <3> QED
      BY ONLY <1>6, <3>1, <3>2, <3>3, EqualBytes
  <2>4. ~(text # <<>> /\ Last(text) = "cr")
    <3>1. CASE since < e
      BY <1>1, <1>2, <1>6, <1>8, <3>1, FrontBytes
    <3>2. CASE ~(since < e)
      <4>1. text \in Seq(Byte) /\ Len(text) = e - since
        BY <1>1, <1>2, <1>6, SubBytes
      <4>2. e - since = 0
        BY ONLY <1>1, <1>6, <3>2
      <4> HIDE DEF text
      <4> QED
        BY <4>1, <4>2, EmptySeq
    <3> QED
      BY <3>1, <3>2
  <2> HIDE DEF text
  <2>5. f = IF text # <<>> /\ Last(text) = "cr" THEN Front(text) ELSE text
    BY <2>3, <2>4
  <2> QED
    BY <1>3, <2>5 DEF text, e, f
<1> QED
  BY <1>7, <1>8

(* The last c bytes of one sequence are the first c of another. *)
LEMMA SameBytes ==
  ASSUME NEW s \in Seq(Byte), NEW t \in Seq(Byte), NEW p \in Nat, NEW c \in Nat,
         c <= Len(s), p + c <= Len(t), \A n \in 1..c : t[p + n] = s[n]
  PROVE  SubSeq(t, p + 1, p + c) = SubSeq(s, 1, c)
<1> DEFINE q == p + c
           g == SubSeq(t, p + 1, q)
<1>1. q \in Nat /\ p <= q /\ q <= Len(t) /\ q - p = c
  OBVIOUS
<1>2. g \in Seq(Byte) /\ Len(g) = c /\ \A k \in 1..c : g[k] = t[p + k]
  <2> HIDE DEF q
  <2> QED
    BY <1>1, SubBytes
<1> HIDE DEF g, q
<1>3. 0 \in Nat /\ 0 <= c /\ c - 0 = c /\ 0 + 1 = 1 /\ \A k \in 1..c : 0 + k = k
  OBVIOUS
<1>4. Len(g) = c - 0 /\ \A k \in 1..(c - 0) : g[k] = s[0 + k]
  BY <1>2, <1>3
<1>5. g = SubSeq(s, 0 + 1, c)
  BY <1>2, <1>3, <1>4, EqualBytes
<1> QED
  BY <1>3, <1>5 DEF g, q

(* What write_all counts when it ends is what the kernel took of its span. *)
LEMMA WriteCounts ==
  ASSUME StreamInv, writer.op = "write_all", [Next]_vars,
         writer'.op = "idle", writer'.ret >= 0
  PROVE  SubSeq(sent', writer.from + 1, Len(sent')) = SubSeq(writer.s, 1, writer'.ret)
<1>1. /\ writer \in WriteCall /\ sent \in Seq(Byte)
      /\ writer.s \in Seq(Byte) /\ writer.out \in Nat /\ writer.from \in Nat
      /\ Len(writer.s) \in Nat /\ Len(sent) \in Nat
  BY Types, LenProperties DEF StreamInv, WriteCall
<1>2. ASSUME NEW n \in 1..Cap, WriteSome(n)
      PROVE  SubSeq(sent', writer.from + 1, Len(sent')) = SubSeq(writer.s, 1, writer'.ret)
  <2>1. /\ Done \in Nat /\ Done + n <= Len(writer.s) /\ Len(sent) = writer.from + Done
        /\ sent' \in Seq(Byte) /\ Len(sent') = Len(sent) + n
        /\ \A k \in 1..(Done + n) : sent'[writer.from + k] = writer.s[k]
    BY <1>2, WroteBytes
  <2>2. writer.out = n /\ writer' = NoWrite(Len(writer.s))
    BY <1>2 DEF WriteSome, Wrote
  <2>3. writer'.ret = Len(writer.s)
    BY <2>2 DEF NoWrite
  <2>4. Done + n = Len(writer.s)
    BY ONLY <1>1, <2>2 DEF Done
  <2>5. Len(sent') = writer.from + Len(writer.s)
    <3>1. n \in Nat
      OBVIOUS
    <3>2. writer.from + Done + n = writer.from + (Done + n)
      BY ONLY <1>1, <2>1, <3>1
    <3> QED
      BY ONLY <2>1, <2>4, <3>2
  <2>6. /\ Len(writer.s) <= Len(writer.s)
        /\ writer.from + Len(writer.s) <= writer.from + Len(writer.s)
    BY ONLY <1>1
  <2>7. \A k \in 1..Len(writer.s) : sent'[writer.from + k] = writer.s[k]
    BY <2>1, <2>4
  <2>8. SubSeq(sent', writer.from + 1, writer.from + Len(writer.s))
          = SubSeq(writer.s, 1, Len(writer.s))
    <3>1. writer.from + Len(writer.s) <= Len(sent')
      BY <2>5, <2>6
    <3>2. sent' \in Seq(Byte)
      BY <2>1
    <3> HIDE <1>2
    <3> QED
      BY ONLY <1>1, <2>6, <2>7, <3>1, <3>2, SameBytes
  <2> QED
    BY <2>3, <2>5, <2>8
<1>3. CASE WriteNothing
  <2>1. writer' = NoWrite(Done) /\ sent' = sent
    BY <1>3 DEF WriteNothing, Done
  <2>2. writer'.ret = Done
    BY <2>1 DEF NoWrite
  <2>3. /\ writer.out <= Len(writer.s)
        /\ Len(sent) = writer.from + Len(writer.s) - writer.out
        /\ \A n \in 1..Done : sent[writer.from + n] = writer.s[n]
    BY DEF StreamInv, WriterInv, Done
  <2>4. Done \in Nat /\ Done <= Len(writer.s) /\ Len(sent) = writer.from + Done
    BY ONLY <1>1, <2>3 DEF Done
  <2>5. writer.from + Done <= Len(sent)
    BY ONLY <1>1, <2>4
  <2>6. SubSeq(sent, writer.from + 1, writer.from + Done) = SubSeq(writer.s, 1, Done)
    BY ONLY <1>1, <2>3, <2>4, <2>5, SameBytes
  <2> QED
    BY <2>1, <2>2, <2>4, <2>6
<1>4. ASSUME NEW why \in Exceptions, WriteThrows(why) PROVE FALSE
  BY <1>4 DEF WriteThrows, NoWrite
<1>5. ASSUME NEW s \in Chunk, NEW due \in Due, WriteAll(s, due) PROVE FALSE
  BY <1>5 DEF WriteAll
<1>6. CASE Close
  BY <1>6 DEF Close
<1>7. ASSUME writer' = writer PROVE FALSE
  BY <1>7
<1>8. ASSUME Read \/ Tick \/ UNCHANGED vars PROVE writer' = writer
  BY <1>8 DEF Read, ReadLine, ReadExactly, ReadSome, ReadInto, ReadThrows, ReadNothing,
              ReadShort, MoveBuffer, Tick, vars
<1> QED
  BY <1>2, <1>3, <1>4, <1>5, <1>6, <1>7, <1>8 DEF Next, Write

(* What read_exactly counts when it returns is what it took off the stream. *)
LEMMA ReadCounts ==
  ASSUME StreamInv, reader.op = "read_exactly", [Next]_vars, reader'.ret = "count"
  PROVE  /\ at' = reader.from + reader'.count
         /\ SubSeq(target', 1, reader'.count) = SubSeq(sent, reader.from + 1, at')
         /\ reader'.count < Len(target) => closed /\ pipe = <<>>
<1> DEFINE done == Len(target) - reader.in
<1>1. /\ Len(target) \in Nat /\ reader.in \in Nat /\ reader.from \in Nat
      /\ done \in Nat /\ reader.in <= Len(target) /\ done + reader.in = Len(target)
      /\ at = reader.from + done /\ at = Taken
      /\ \A n \in 1..done : target[n] = sent[reader.from + n]
  BY Progress
<1>2. /\ sent \in Seq(Byte) /\ target \in Seq(Byte) /\ reader.ret = "none"
      /\ Len(sent) \in Nat /\ Len(pipe) \in Nat /\ Len(sent) = Taken + Len(pipe)
  BY Bounds DEF StreamInv, TypeOK, ReaderInv
<1>3. ASSUME NEW n \in 1..Cap, ReadInto(n)
      PROVE  /\ at' = reader.from + reader'.count
             /\ SubSeq(target', 1, reader'.count) = SubSeq(sent, reader.from + 1, at')
             /\ ~(reader'.count < Len(target))
  <2>0. n \in Nat
    OBVIOUS
  <2>1. /\ n <= reader.in /\ n <= Len(pipe) /\ target' = Into(n) /\ at' = at + n
    BY <1>3 DEF ReadInto
  <2>2. reader.in = n /\ reader' = NoRead("count", Len(target))
    BY <1>2, <1>3 DEF ReadInto
  <2>3. reader'.count = Len(target)
    BY <2>2 DEF NoRead
  <2>4. /\ target' \in Seq(Byte) /\ Len(target') = Len(target)
        /\ \A k \in 1..(done + n) : target'[k] = sent[reader.from + k]
    BY <2>1, Filled
  <2>5. done + n = Len(target)
    BY ONLY <1>1, <2>2
  <2>6. at' = reader.from + Len(target)
    <3>1. reader.from + done + n = reader.from + (done + n)
      BY ONLY <1>1, <2>0
    <3> HIDE DEF done
    <3> QED
      BY ONLY <1>1, <2>1, <2>5, <3>1
  <2>7. reader.from + Len(target) <= Len(sent)
    <3>1. Len(sent) = reader.from + done + Len(pipe)
      BY ONLY <1>1, <1>2
    <3> HIDE DEF done
    <3>2. Len(sent) = reader.from + done + Len(pipe) /\ done + n = Len(target)
          /\ n <= Len(pipe) /\ done \in Nat /\ reader.from \in Nat /\ Len(pipe) \in Nat
      BY <1>1, <1>2, <2>1, <2>5, <3>1
    <3> QED
      BY ONLY <2>0, <3>2
  <2>8. \A k \in 1..Len(target) : sent[reader.from + k] = target'[k]
    BY <2>4, <2>5
  <2>9. SubSeq(sent, reader.from + 1, reader.from + Len(target))
          = SubSeq(target', 1, Len(target))
    <3>1. Len(target) <= Len(target')
      BY <1>1, <2>4
    <3>2. target' \in Seq(Byte) /\ sent \in Seq(Byte)
      BY <1>2, <2>4
    <3>3. reader.from \in Nat /\ Len(target) \in Nat
      BY <1>1
    <3> QED
      BY ONLY <2>7, <2>8, <3>1, <3>2, <3>3, SameBytes
  <2>10. ~(Len(target) < Len(target))
    BY ONLY <1>1
  <2> QED
    BY <2>3, <2>6, <2>9, <2>10
<1>4. CASE ReadShort
  <2>1. reader' = NoRead("count", done) /\ target' = target /\ at' = at
        /\ closed /\ pipe = <<>>
    BY <1>4 DEF ReadShort, given
  <2>2. reader'.count = done
    BY <2>1 DEF NoRead
  <2> HIDE DEF done
  <2>3. done <= Len(target) /\ reader.from + done <= Len(sent)
    <3>1. done \in Nat /\ reader.in \in Nat /\ done + reader.in = Len(target)
      BY <1>1
    <3>2. Len(sent) = reader.from + done + Len(pipe)
      BY ONLY <1>1, <1>2
    <3>3. done <= Len(target)
      BY ONLY <3>1
    <3>4. reader.from \in Nat /\ Len(pipe) \in Nat
      BY <1>1, <1>2
    <3>5. reader.from + done <= Len(sent)
      BY ONLY <3>1, <3>2, <3>4
    <3> QED
      BY <3>3, <3>5
  <2>4. \A k \in 1..done : sent[reader.from + k] = target[k]
    BY <1>1
  <2>5. SubSeq(sent, reader.from + 1, reader.from + done) = SubSeq(target, 1, done)
    BY ONLY <1>1, <1>2, <2>3, <2>4, SameBytes
  <2> QED
    BY <1>1, <2>1, <2>2, <2>5
<1>5. ASSUME NEW why \in Exceptions, ReadThrows(why) PROVE FALSE
  BY <1>5 DEF ReadThrows, NoRead, Exceptions
<1>6. CASE ReadNothing
  BY <1>6 DEF ReadNothing
<1>7. ASSUME NEW due \in Due, ReadLine(due) \/ \E n \in Want : ReadExactly(n, due)
      PROVE  FALSE
  BY <1>7 DEF ReadLine, ReadExactly
<1>8. ASSUME NEW n \in 1..Cap, ReadSome(n) PROVE FALSE
  BY <1>8 DEF ReadSome
<1>9. ASSUME NEW o \in Object, MoveBuffer(o) PROVE FALSE
  BY <1>9 DEF MoveBuffer
<1>10. ASSUME reader' = reader PROVE FALSE
  BY <1>2, <1>10
<1>11. ASSUME Write \/ Tick \/ UNCHANGED vars PROVE reader' = reader
  BY <1>11 DEF Write, WriteAll, WriteSome, WriteThrows, WriteNothing, Close, Tick, vars
<1> QED
  BY <1>3, <1>4, <1>5, <1>6, <1>7, <1>8, <1>9, <1>10, <1>11 DEF Next, Read

-----------------------------------------------------------------------------
(* The theorems.                                                           *)

(* The inductive invariant, which relates the bytes the kernel took, the    *)
(* pipe, the buffer, the line and the target, holds in every state.         *)
THEOREM StreamInvariant == Spec => []StreamInv
<1>1. Init => StreamInv
  BY StreamInvInit
<1>2. StreamInv /\ [Next]_vars => StreamInv'
  BY StreamInvStep
<1> QED
  BY <1>1, <1>2, PTL DEF Spec

(* The calls and the read_buffer always have the types of their members. *)
THEOREM StreamTypeCorrect == Spec => []TypeOK
<1>1. StreamInv => TypeOK
  BY DEF StreamInv
<1> QED
  BY <1>1, StreamInvariant, PTL

(* data_read and empty_buffer lie one after the other in the storage of the *)
(* object in use and end where it ends, through any sequence of reads,      *)
(* lines, time outs and moves, whatever the size of the storage.            *)
THEOREM StreamAdjacent == Spec => []Adjacent
<1>1. StreamInv => Adjacent
  BY DEF StreamInv
<1> QED
  BY <1>1, StreamInvariant, PTL

(* The read_buffer holds exactly the bytes that were taken off the stream   *)
(* and not given to the application, in order.                              *)
THEOREM StreamBufferExact == Spec => []BufferExact
  BY BufferBytes, StreamInvariant, PTL

(* The span read_until_lf_strip_cr returned is the next line of the stream, *)
(* until another read is issued, also when the buffer has moved.            *)
THEOREM StreamLineExact == Spec => []LineExact
  BY LineBytes, StreamInvariant, PTL

(* read_exactly returns the number of bytes it took off the stream, they    *)
(* are in the target, and there are fewer only at the end of the stream.    *)
THEOREM StreamReadCountExact == Spec => ReadCountExact
<1>1. StreamInv /\ [Next]_vars =>
        [reader.op = "read_exactly" /\ reader'.ret = "count" =>
           LET count == reader'.count
           IN  /\ at' = reader.from + count
               /\ SubSeq(target', 1, count) = SubSeq(sent, reader.from + 1, at')
               /\ count < Len(target) => closed /\ pipe = <<>>]_vars
  BY ReadCounts
<1> QED
  BY <1>1, StreamInvariant, PTL DEF Spec, ReadCountExact

(* write_all returns the number of bytes of its span that the kernel took,  *)
(* and they are the first ones, in order.                                   *)
THEOREM StreamWriteCountExact == Spec => WriteCountExact
<1>1. StreamInv /\ [Next]_vars =>
        [writer.op = "write_all" /\ writer'.op = "idle" /\ writer'.ret >= 0 =>
           SubSeq(sent', writer.from + 1, Len(sent'))
             = SubSeq(writer.s, 1, writer'.ret)]_vars
  BY WriteCounts
<1> QED
  BY <1>1, StreamInvariant, PTL DEF Spec, WriteCountExact

====
