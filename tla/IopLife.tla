------------------------------ MODULE IopLife ------------------------------
(***************************************************************************)
(* What a warden promises to a coroutine that awaits an IOP, whichever     *)
(* system interface it is built on (completion.hpp): the coroutine is      *)
(* resumed once, and never after it let go of the IOP; it finds an outcome *)
(* that the kind of IOP can have; and a time out is reported only to an    *)
(* IOP that was given a deadline.                                          *)
(***************************************************************************)

CONSTANTS
  Iop,      \* the IOPs
  Kind      \* the operations of the warden

VARIABLE life   \* how far each IOP has come

Point(st, k, d, o) == [st |-> st, kind |-> k, deadline |-> d, outcome |-> o]
Blank(st) == Point(st, "close", FALSE, "none")

ValueKinds == {"read_some", "write_some", "accept"}

(* The outcomes of an IOP of kind k, with or without a deadline.  For the   *)
(* kinds that have a result "none" would be a logic_error.                  *)
OutcomesOf(k, deadline) ==
  {IF k \in ValueKinds THEN "value" ELSE "none", "error"}
    \cup IF deadline /\ k \notin {"sleep", "close"} THEN {"timeout"} ELSE {}

(* co_await of a fresh IOP suspends the coroutine, or the coroutine goes on *)
(* at once, with an outcome or an exception.                                *)
Await(i) ==
  /\ life[i].st = "unused"
  /\ \E k \in Kind, d \in BOOLEAN :
       \/ life' = [life EXCEPT ![i] = Point("pending", k, d, "none")]
       \/ \E o \in OutcomesOf(k, FALSE) :
            life' = [life EXCEPT ![i] = Point("done", k, d, o)]

(* The warden resumes the coroutine that is suspended on the IOP. *)
Resume(i) ==
  /\ life[i].st = "pending"
  /\ \E o \in OutcomesOf(life[i].kind, life[i].deadline) :
       life' = [life EXCEPT ![i] = [@ EXCEPT !.st = "done", !.outcome = o]]

(* The IOP is destructed: before it is awaited, while it is pending, after. *)
Release(i) ==
  /\ life[i].st # "released"
  /\ life' = [life EXCEPT ![i] = Blank("released")]

Init == life = [i \in Iop |-> Blank("unused")]

Next == \E i \in Iop : Await(i) \/ Resume(i) \/ Release(i)

Spec == Init /\ [][Next]_life

=============================================================================
