------------------------------- MODULE ShdLog -------------------------------
(***************************************************************************)
(* What the ring of samples promises to its readers, without slots,        *)
(* counters or producers: the most recent samples, oldest first, each one  *)
(* whole and newer than the one before it.  A ring of N slots keeps only   *)
(* N - 1 of them at any time, for the Nth is the slot that may be being    *)
(* overwritten.                                                            *)
(***************************************************************************)
EXTENDS Naturals, Sequences

CONSTANTS
  Depth,    \* how many samples are kept, at least 1
  Times     \* the time stamps clients may write, natural numbers

VARIABLE log

Sample(t) == [metadata |-> t, blob |-> t]     \* written whole

Newest(q) == SubSeq(q, IF Len(q) > Depth THEN Len(q) - Depth + 1 ELSE 1, Len(q))

Init == log = <<>>

\* A producer commits the sample of time stamp t.
Publish(t) ==
  /\ \A i \in DOMAIN log : log[i].metadata < t
  /\ log' = Newest(Append(log, Sample(t)))

Next == \E t \in Times : Publish(t)

Spec == Init /\ [][Next]_log

=============================================================================
