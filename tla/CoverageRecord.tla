--------------------------- MODULE CoverageRecord ---------------------------
(***************************************************************************)
(* What a reserve coverage registry promises its readers: a record that    *)
(* only grows, in which every entry's reserves cover its liabilities and   *)
(* no entry's reserves exceed the previous entry's by more than a tenth.   *)
(***************************************************************************)
EXTENDS Integers, Sequences

CONSTANT Amount
VARIABLE record      \* the published entries, oldest first

Entry == [r: Amount, l: Amount]

Init == record = << >>

Publish(e) ==
  /\ e.r >= e.l
  /\ Len(record) > 0 => 10 * e.r <= 11 * record[Len(record)].r
  /\ record' = Append(record, e)

Next == \E e \in Entry : Publish(e)

Spec == Init /\ [][Next]_record
=============================================================================
