------------------------------ MODULE BipQueue ------------------------------
(***************************************************************************)
(* The bbqueue crate (outside src/) as the interrupt example uses it: a    *)
(* ring whose grants are contiguous.  A grant that does not fit at the end *)
(* starts again at 0 and leaves a gap there, which "last" marks.           *)
(***************************************************************************)
EXTENDS Integers

CONSTANT Capacity

NoRoom == -1
EmptyQueue == [write |-> 0, read |-> 0, last |-> 0]
Queues == [write : 0..Capacity, read : 0..Capacity, last : 0..Capacity]

Inverted(q) == q.write < q.read
Length(q) == (IF Inverted(q) THEN q.last ELSE 0) + q.write - q.read

(* grant_exact: where n units would go.                                    *)
grant_exact(q, n) ==
  IF Inverted(q) THEN (IF q.write + n < q.read THEN q.write ELSE NoRoom)
  ELSE IF q.write + n <= Capacity THEN q.write
  ELSE IF n < q.read THEN 0 ELSE NoRoom

(* commit: of a grant of n units, at most those.                           *)
commit(q, start, n, used) ==
  LET end == start + IF n < used THEN n ELSE used
  IN  [q EXCEPT !.write = end,
                !.last = IF end < q.write /\ q.write # Capacity THEN q.write
                         ELSE IF end > q.last THEN Capacity ELSE q.last]

(* read: the contiguous units at the front; at the gap, go to 0 first.     *)
AtFront(q) == IF q.read = q.last /\ Inverted(q) THEN [q EXCEPT !.read = 0] ELSE q
Readable(q) == (IF Inverted(q) THEN q.last ELSE q.write) - q.read
release(q, n) == [q EXCEPT !.read = @ + n]
=============================================================================
