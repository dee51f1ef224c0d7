------------------------------ MODULE ShdIndex ------------------------------
(***************************************************************************)
(* The circular index arithmetic of src/src/shd_utils.h, over a data       *)
(* section of NbSamples slots numbered from 0.  An index is the position   *)
(* of a slot, or -1 where the code uses -1 for "no slot".                  *)
(*                                                                         *)
(* The C functions compute in uint32_t.  On every argument the library     *)
(* passes (idx >= -1, -1 <= n <= size) the sums stay between 0 and         *)
(* 2 * size, so the unsigned remainder is the mathematical one and no      *)
(* modulus of 2^32 appears here; the two places where a uint32_t really    *)
(* wraps (shd_sync.c:114 and shd_data.c:164) are modelled where they are.  *)
(***************************************************************************)
EXTENDS Integers

CONSTANT NbSamples   \* desc->nb_samples : the number of slots in the ring

ASSUME NbSamplesAssumption == NbSamples \in Nat \ {0}

Slots == 0 .. NbSamples - 1

index_n_after(idx, n)  == (idx + n) % NbSamples

index_n_before(idx, n) == (idx + NbSamples - n) % NbSamples

\* Slip for mutation: the wrap at the end of the ring is forgotten.
index_next_unwrapped(idx) == idx + 1

index_next(idx)        == index_n_after(idx, 1)

\* Number of slots from idx1 forward to idx2, idx2 "known to have happened
\* AFTER idx1".
interval_between(idx1, idx2) ==
  IF idx1 <= idx2 THEN idx2 - idx1 ELSE idx2 + NbSamples - idx1

=============================================================================
