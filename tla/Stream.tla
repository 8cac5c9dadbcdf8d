------------------------------- MODULE Stream -------------------------------
(***************************************************************************)
(* The helpers of read.hpp and write.hpp: `write_all` at one end of a      *)
(* stream, and at the other end `read_exactly` and, by way of a            *)
(* `read_buffer`, `read_until_lf_strip_cr`.                                *)
(*                                                                         *)
(* The two ends are coroutines.  Each is suspended in one `read_some` or   *)
(* `write_some` of a warden at a time, which moves some of the bytes asked *)
(* for, moves none, or throws.  A span is an object, an offset and a       *)
(* length, so a span that is not followed to the object its buffer moved   *)
(* to is visible.                                                          *)
(***************************************************************************)
EXTENDS Integers, Sequences, SequencesExt, FiniteSets

CONSTANTS
  Chunk,       \* the spans the application passes to write_all
  Want,        \* the sizes it passes to read_exactly
  Object,      \* the read_buffer objects, one of which is in use
  Size,        \* the size of their storage
  Cap,         \* bytes the kernel holds between the two ends
  Timeout,     \* the time out the application passes, if it passes one
  NoDeadline,  \* the empty optional<deadline>
  MaxSent,     \* bound on the bytes written
  MaxTime      \* bound on the clock

Byte == {"lf", "cr", "x"}

ASSUME ConstantsAssumption ==
  /\ Chunk \subseteq Seq(Byte) /\ Want \subseteq Nat /\ Object # {}
  /\ Size \in Nat \ {0} /\ Cap \in Nat \ {0}
  /\ Timeout \in Nat \ {0} /\ NoDeadline \notin Nat
  /\ MaxSent \in Nat /\ MaxTime \in Nat

VARIABLES
  now,          \* the steady clock
  pipe,         \* the bytes on their way
  closed,       \* the writing end is closed
  sent,         \* every byte the kernel took, in order (history)
  writer,       \* the write_all in progress, or the last one
  reader,       \* the read in progress, or the last one
  rb,           \* the read_buffer object in use
  storage,      \* read_buffer::storage of each object
  data_read,    \* read_buffer::data_read
  empty_buffer, \* read_buffer::empty_buffer
  line,         \* the span the last read returned, if it returned a line
  target,       \* the buffer passed to the last read, if it was a read_exactly
  at,           \* how much of the stream the application was given (history)
  since         \* ... and how much before that line (history)

buffer == <<rb, storage, data_read, empty_buffer>>
given  == <<at, since>>
vars   == <<now, pipe, closed, sent, writer, reader, buffer, line, target, given>>

Span == [at : Object, from : 0..Size, len : 0..Size]

(* The bytes of a span into storage st. *)
Bytes(st, sp) == [n \in 1..sp.len |-> st[sp.at][sp.from + n - 1]]

(* The place of the first LF of the stream after place p. *)
LfAfter(p) ==
  LET lf == {k \in (p + 1)..Len(sent) : sent[k] = "lf"}
  IN  IF lf = {} THEN Len(sent) + 1 ELSE Min(lf)

(* The bytes that were taken off the pipe. *)
Taken == Len(sent) - Len(pipe)

(* A time out becomes a deadline once, as the call is entered.              *)
Due == {NoDeadline} \cup {t \in {now + Timeout} : t <= MaxTime}

Past(due) == due # NoDeadline /\ now >= due

Exceptions == {"error", "timeout"}

-----------------------------------------------------------------------------
(* write_all.  `out` is the length of what is left of the span `s`, `from`  *)
(* the number of bytes sent before.                                         *)

NoWrite(ret) == [op |-> "idle", s |-> <<>>, out |-> 0, due |-> NoDeadline,
                 from |-> 0, ret |-> ret]

WriteAll(s, due) ==
  /\ writer.op = "idle" /\ ~closed
  /\ Len(sent) + Len(s) <= MaxSent
  /\ writer' = IF s = <<>> THEN NoWrite(0)
               ELSE [op |-> "write_all", s |-> s, out |-> Len(s), due |-> due,
                     from |-> Len(sent), ret |-> 0]
  /\ UNCHANGED <<now, pipe, closed, sent, reader, buffer, line, target, given>>

(* Mutant of Wrote: the count is that of the last write_some. *)
WroteLast(n) ==
  IF writer.out = n THEN NoWrite(n) ELSE [writer EXCEPT !.out = @ - n]

(* The span shrinks by what was written; the whole of it is the result.     *)
Wrote(n) ==
  IF writer.out = n THEN NoWrite(Len(writer.s)) ELSE [writer EXCEPT !.out = @ - n]

(* write_some takes n bytes of what is left.                                *)
WriteSome(n) ==
  /\ writer.op = "write_all"
  /\ n <= writer.out /\ Len(pipe) + n <= Cap
  /\ LET done == Len(writer.s) - writer.out
         bs == SubSeq(writer.s, done + 1, done + n)
     IN  pipe' = pipe \o bs /\ sent' = sent \o bs
  /\ writer' = Wrote(n)
  /\ UNCHANGED <<now, closed, reader, buffer, line, target, given>>

(* write_some wrote nothing: write_all returns what it wrote before.        *)
WriteNothing ==
  /\ writer.op = "write_all"
  /\ writer' = NoWrite(Len(writer.s) - writer.out)
  /\ UNCHANGED <<now, pipe, closed, sent, reader, buffer, line, target, given>>

(* An error, or the deadline: the exception ends write_all, and the count   *)
(* is lost.                                                                 *)
WriteThrows(why) ==
  /\ writer.op = "write_all" /\ (why = "timeout" => Past(writer.due))
  /\ writer' = NoWrite(-1)
  /\ UNCHANGED <<now, pipe, closed, sent, reader, buffer, line, target, given>>

Close ==
  /\ writer.op = "idle" /\ ~closed
  /\ closed' = TRUE
  /\ UNCHANGED <<now, pipe, sent, writer, reader, buffer, line, target, given>>

-----------------------------------------------------------------------------
(* A read: `in` is the length of what is left of read_exactly's target,     *)
(* `from` the number of bytes taken before.                                 *)
NoRead(ret, count) == [op |-> "idle", due |-> NoDeadline, in |-> 0, from |-> 0,
                       ret |-> ret, count |-> count]

Reading(op, n, due) == [op |-> op, due |-> due, in |-> n, from |-> Taken,
                        ret |-> "none", count |-> 0]

-----------------------------------------------------------------------------
(* read_buffer.                                                            *)

Whole(o) == [at |-> o, from |-> 0, len |-> Size]
Start(o) == [at |-> o, from |-> 0, len |-> 0]

(* span::subspan *)
Subspan(sp, n) == [sp EXCEPT !.from = @ + n, !.len = @ - n]

(* find: the place of the first LF of the unread bytes, 0 if there is none. *)
Find(st, dr) == SelectInSeq(Bytes(st, dr), LAMBDA b : b = "lf")

(* Mutants of Consume: the storage is used from its start after every line; *)
(* the LF is counted twice.                                                 *)
ConsumeResets(dr, eb, n) == [data |-> Start(rb), empty |-> Whole(rb)]

ConsumeOneMore(dr, eb, n) == [data |-> Subspan(dr, n + 1), empty |-> eb]

(* consume: the storage is used from its start again only when every byte   *)
(* that was read is consumed.                                               *)
Consume(dr, eb, n) ==
  IF dr.len = n THEN [data |-> Start(rb), empty |-> Whole(rb)]
  ELSE [data |-> Subspan(dr, n), empty |-> eb]

(* Mutant of Stripped: every line loses its last byte. *)
StrippedAlways(st, sp) == IF sp.len > 0 THEN [sp EXCEPT !.len = @ - 1] ELSE sp

(* The line without its final CR. *)
Stripped(st, sp) ==
  IF sp.len > 0 /\ st[sp.at][sp.from + sp.len - 1] = "cr"
  THEN [sp EXCEPT !.len = @ - 1] ELSE sp

(* The loop of read_until_lf_strip_cr, with dr and eb as the spans of the   *)
(* buffer and r as the call: it returns a line, or issues a read_some.      *)
NextLine(st, dr, eb, r) ==
  LET k == Find(st, dr)
  IN  \/ /\ k = 0
         /\ reader' = r
         /\ data_read' = [data_read EXCEPT ![rb] = dr]
         /\ empty_buffer' = [empty_buffer EXCEPT ![rb] = eb]
         /\ line' = Start(rb) /\ since' = 0
         /\ UNCHANGED at
      \/ /\ k > 0
         /\ reader' = NoRead("line", 0)
         /\ LET c == Consume(dr, eb, k)
            IN  /\ data_read' = [data_read EXCEPT ![rb] = c.data]
                /\ empty_buffer' = [empty_buffer EXCEPT ![rb] = c.empty]
         /\ line' = Stripped(st, [dr EXCEPT !.len = k - 1])
         /\ since' = at /\ at' = LfAfter(at)

ReadLine(due) ==
  /\ reader.op = "idle"
  /\ NextLine(storage, data_read[rb], empty_buffer[rb],
              Reading("read_line", 0, due))
  /\ target' = <<>>
  /\ UNCHANGED <<now, pipe, closed, sent, writer, rb, storage>>

(* do_read_some: the kernel puts n bytes at the start of remaining().       *)
ReadSome(n) ==
  /\ reader.op = "read_line"
  /\ LET dr == data_read[rb]
         eb == empty_buffer[rb]
         st == [storage EXCEPT ![eb.at] =
                  [k \in DOMAIN @ |-> IF k \in eb.from..(eb.from + n - 1)
                                      THEN pipe[k - eb.from + 1] ELSE @[k]]]
     IN  /\ n <= eb.len /\ n <= Len(pipe)
         /\ storage' = st
         /\ NextLine(st, [dr EXCEPT !.len = @ + n], Subspan(eb, n), reader)
  /\ pipe' = SubSeq(pipe, n + 1, Len(pipe))
  /\ UNCHANGED <<now, closed, sent, writer, rb, target>>

(* Mutant of ReadNothing: only the end of the stream ends the loop. *)
ReadNothingAtEnd ==
  /\ reader.op = "read_line"
  /\ closed /\ pipe = <<>>
  /\ reader' = NoRead("empty", 0)
  /\ UNCHANGED <<now, pipe, closed, sent, writer, buffer, line, target, given>>

(* do_read_some read nothing: there is nothing left to read, or no room to  *)
(* read into.  The caller gets an empty span.                               *)
ReadNothing ==
  /\ reader.op = "read_line"
  /\ empty_buffer[rb].len = 0 \/ (closed /\ pipe = <<>>)
  /\ reader' = NoRead("empty", 0)
  /\ UNCHANGED <<now, pipe, closed, sent, writer, buffer, line, target, given>>

(* Mutant of Moved: the spans of the new object point into the old one. *)
MovedUnadjusted(sp, o) == sp

(* recalculate_data_read, recalculate_empty_buffer: the same place in the   *)
(* storage of the object o.                                                 *)
Moved(sp, o) == [sp EXCEPT !.at = o]

(* The buffer is moved to another object between two calls. *)
MoveBuffer(o) ==
  /\ reader.op = "idle"
  /\ o # rb
  /\ rb' = o
  /\ storage' = [storage EXCEPT ![o] = storage[rb]]
  /\ data_read' = [data_read EXCEPT ![o] = Moved(data_read[rb], o)]
  /\ empty_buffer' = [empty_buffer EXCEPT ![o] = Moved(empty_buffer[rb], o)]
  /\ UNCHANGED <<now, pipe, closed, sent, writer, reader, line, target, given>>

-----------------------------------------------------------------------------
(* read_exactly.                                                           *)

(* It knows nothing of a read_buffer, so the application calls it only when *)
(* the buffer holds no unread bytes.                                        *)
ReadExactly(n, due) ==
  /\ reader.op = "idle" /\ data_read[rb].len = 0
  /\ reader' = IF n = 0 THEN NoRead("count", 0) ELSE Reading("read_exactly", n, due)
  /\ target' = [k \in 1..n |-> "x"] /\ line' = Start(rb) /\ since' = 0
  /\ UNCHANGED <<now, pipe, closed, sent, writer, buffer, at>>

(* Mutant of Into: every read_some fills the target from its start. *)
IntoStart(n) ==
  [k \in DOMAIN target |-> IF k <= n THEN pipe[k] ELSE target[k]]

(* read_some fills the start of what is left of the target. *)
Into(n) ==
  LET done == Len(target) - reader.in
  IN  [k \in DOMAIN target |-> IF k \in (done + 1)..(done + n)
                               THEN pipe[k - done] ELSE target[k]]

ReadInto(n) ==
  /\ reader.op = "read_exactly"
  /\ n <= reader.in /\ n <= Len(pipe)
  /\ target' = Into(n)
  /\ pipe' = SubSeq(pipe, n + 1, Len(pipe))
  /\ reader' = IF reader.in = n THEN NoRead("count", Len(target))
               ELSE [reader EXCEPT !.in = @ - n]
  /\ at' = at + n
  /\ UNCHANGED <<now, closed, sent, writer, buffer, line, since>>

(* The stream ended: read_exactly returns the count it has.                 *)
ReadShort ==
  /\ reader.op = "read_exactly"
  /\ closed /\ pipe = <<>>
  /\ reader' = NoRead("count", Len(target) - reader.in)
  /\ UNCHANGED <<now, pipe, closed, sent, writer, buffer, line, target, given>>

(* An exception leaves the buffer as the last read_some left it.            *)
ReadThrows(why) ==
  /\ reader.op # "idle" /\ (why = "timeout" => Past(reader.due))
  /\ reader' = NoRead(why, 0)
  /\ UNCHANGED <<now, pipe, closed, sent, writer, buffer, line, target, given>>

-----------------------------------------------------------------------------
(* The clock waits for nobody: a read_some or write_some that need not wait *)
(* completes without a look at its deadline, so a call may outlast it.      *)
Tick ==
  /\ now < MaxTime
  /\ now' = now + 1
  /\ UNCHANGED <<pipe, closed, sent, writer, reader, buffer, line, target, given>>

Init ==
  /\ now = 0
  /\ pipe = <<>> /\ closed = FALSE /\ sent = <<>>
  /\ writer = NoWrite(0) /\ reader = NoRead("none", 0)
  /\ rb = CHOOSE o \in Object : TRUE
  /\ storage = [o \in Object |-> [k \in 0..(Size - 1) |-> "x"]]
  /\ data_read = [o \in Object |-> Start(o)]
  /\ empty_buffer = [o \in Object |-> Whole(o)]
  /\ line = Start(rb) /\ target = <<>> /\ at = 0 /\ since = 0

Write ==
  \/ \E s \in Chunk, due \in Due : WriteAll(s, due)
  \/ \E n \in 1..Cap : WriteSome(n)
  \/ \E why \in Exceptions : WriteThrows(why)
  \/ WriteNothing \/ Close

Read ==
  \/ \E due \in Due : ReadLine(due) \/ \E n \in Want : ReadExactly(n, due)
  \/ \E n \in 1..Cap : ReadSome(n) \/ ReadInto(n)
  \/ \E why \in Exceptions : ReadThrows(why)
  \/ ReadNothing \/ ReadShort
  \/ \E o \in Object : MoveBuffer(o)

Next == Write \/ Read \/ Tick

Spec == Init /\ [][Next]_vars

(* The warden completes the read_some of a reader when there are bytes, the *)
(* end of the stream, no room, or its deadline, and the clock advances.     *)
ReadEnds ==
  \/ \E n \in 1..Cap : ReadSome(n) \/ ReadInto(n)
  \/ ReadNothing \/ ReadShort \/ ReadThrows("timeout")

Fairness == WF_vars(ReadEnds) /\ WF_vars(WriteThrows("timeout")) /\ WF_vars(Tick)

FairSpec == Spec /\ Fairness

-----------------------------------------------------------------------------
(* Properties.                                                             *)

Deadline == Nat \cup {NoDeadline}

(* The calls and the read_buffer have the types of their C++ members. *)
TypeOK ==
  /\ now \in 0..MaxTime
  /\ pipe \in Seq(Byte) /\ Len(pipe) <= Cap
  /\ closed \in BOOLEAN
  /\ sent \in Seq(Byte) /\ Len(sent) <= MaxSent
  /\ writer \in [op : {"idle", "write_all"}, s : Seq(Byte), out : Nat,
                  due : Deadline, from : Nat, ret : Int]
  /\ reader \in [op : {"idle", "read_line", "read_exactly"}, due : Deadline,
                  in : Nat, from : Nat, count : Nat,
                  ret : Exceptions \cup {"none", "line", "empty", "count"}]
  /\ rb \in Object
  /\ storage \in [Object -> [0..(Size - 1) -> Byte]]
  /\ data_read \in [Object -> Span] /\ empty_buffer \in [Object -> Span]
  /\ line \in Span
  /\ target \in Seq(Byte)
  /\ at \in Nat /\ since \in Nat

(* do_read_some lengthens data_read by what the kernel put at the start of  *)
(* empty_buffer: the two spans must lie in the storage of the object in     *)
(* use, one directly after the other, and end where the storage ends,       *)
(* through any sequence of reads, lines, time outs and moves.               *)
Adjacent ==
  LET dr == data_read[rb]
      eb == empty_buffer[rb]
  IN  /\ dr.at = rb /\ eb.at = rb
      /\ eb.from = dr.from + dr.len
      /\ eb.from + eb.len = Size

(* Nothing is lost, repeated or reordered on the way through the buffer: it *)
(* holds exactly the bytes that were taken off the stream and not given to  *)
(* the application, also after a time out in the middle of a line.          *)
BufferExact == Bytes(storage, data_read[rb]) = SubSeq(sent, at + 1, Taken)

(* The span read_until_lf_strip_cr returns is the next line of the stream,  *)
(* up to its LF and without one final CR, and stays so until another read   *)
(* is issued through the buffer, as consume's comment promises, even when   *)
(* the buffer has moved.                                                    *)
LineExact ==
  reader.op = "idle" /\ reader.ret = "line" =>
    LET text == SubSeq(sent, since + 1, at - 1)
    IN  /\ sent[at] = "lf"
        /\ Bytes(storage, line) =
             IF text # <<>> /\ Last(text) = "cr" THEN Front(text) ELSE text

(* read_exactly returns the number of bytes it took off the stream, fewer   *)
(* than it was asked for only at the end of the stream, and they are in the *)
(* target in order, however they were split up.                             *)
ReadCountExact ==
  [][reader.op = "read_exactly" /\ reader'.ret = "count" =>
       LET count == reader'.count
       IN  /\ at' = reader.from + count
           /\ SubSeq(target', 1, count) = SubSeq(sent, reader.from + 1, at')
           /\ count < Len(target) => closed /\ pipe = <<>>]_vars

(* write_all returns the number of bytes of its span that the kernel took,  *)
(* which its own comment doubts, and they are the first ones, in order.     *)
WriteCountExact ==
  [][writer.op = "write_all" /\ writer'.op = "idle" /\ writer'.ret >= 0 =>
       SubSeq(sent', writer.from + 1, Len(sent')) = SubSeq(writer.s, 1, writer'.ret)]_vars

(* A read returns once what it reads for is there, the stream has ended, or *)
(* it has a deadline: also when the line is too long for the storage.       *)
ReadReturns ==
  ( \/ reader.op = "read_line" /\ (closed \/ LfAfter(at) <= Len(sent))
    \/ reader.op = "read_exactly" /\ (closed \/ Len(pipe) >= reader.in)
    \/ reader.op # "idle" /\ reader.due # NoDeadline ) ~> reader.op = "idle"
=============================================================================
