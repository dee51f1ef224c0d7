------------------------------ MODULE ShdBpmp ------------------------------
(***************************************************************************)
(* ShdWrite with the add_and_fetch that the lookup of the x1 board gives   *)
(* to the sections it shares with its other processor: bpmp_add_and_fetch  *)
(* of src/src/lookup/shd_lookup_x1.c loads the counter, stores the sum and *)
(* loads it again, between full barriers, where ShdWrite has one atomic    *)
(* step.  The calls are otherwise those of ShdWrite.                       *)
(***************************************************************************)
EXTENDS ShdWrite

VARIABLE sum   \* per producer, the sum bpmp_add_and_fetch is about to store

BpmpInit == Init /\ sum = [p \in Producers |-> 0]

\* *ptr += value, the load: of nb_ongoing_writes by
\* shd_sync_start_write_session.
load_ongoing(p) ==
  /\ pc[p] = "idle"
  /\ nb_ongoing_writes < MaxOngoing /\ sessions < MaxSessions
  /\ \E f \in Api \cap Starting : call' = [call EXCEPT ![p] = f]
  /\ sum' = [sum EXCEPT ![p] = nb_ongoing_writes + 1]
  /\ Goto(p, "store_ongoing")
  /\ UNCHANGED <<shared, ctx, curr_sample, ghosts>>

\* The store.
store_ongoing(p) ==
  /\ pc[p] = "store_ongoing"
  /\ nb_ongoing_writes' = sum[p]
  /\ Goto(p, "fetch_ongoing")
  /\ UNCHANGED <<write_index, nb_writes, samples, ctx, call, curr_sample, ghosts, sum>>

\* return *ptr, and the decision of shd_sync_start_write_session.
fetch_ongoing(p) ==
  /\ pc[p] = "fetch_ongoing"
  /\ IF nb_ongoing_writes = 1
     THEN /\ sessions' = sessions + 1
          /\ payload' = [payload EXCEPT ![p] = sessions + 1]
          /\ Goto(p, "get_next_write_index")
     ELSE /\ Return(p, IF index[p] # -1 THEN "EALREADY" ELSE "EPERM")
          /\ UNCHANGED <<sessions, payload>>
  /\ UNCHANGED <<shared, ctx, call, curr_sample, foreign, sum>>

\* The same of nb_writes, by shd_sync_start_sample_write, which does not use
\* the result.
load_writes(p) ==
  /\ pc[p] = "invalidate"
  /\ sum' = [sum EXCEPT ![p] = nb_writes[curr_sample[p]] + 1]
  /\ Goto(p, "store_writes")
  /\ UNCHANGED <<shared, ctx, call, curr_sample, ghosts>>

store_writes(p) ==
  /\ pc[p] = "store_writes"
  /\ nb_writes' = [nb_writes EXCEPT ![curr_sample[p]] = sum[p]]
  /\ Goto(p, "take_index")
  /\ UNCHANGED <<write_index, nb_ongoing_writes, samples, ctx, call, curr_sample,
                 ghosts, sum>>

BpmpNext ==
  \/ \E p \in Producers :
       \/ load_ongoing(p) \/ store_ongoing(p) \/ fetch_ongoing(p)
       \/ load_writes(p) \/ store_writes(p)
       \/ /\ \/ get_next_write_index(p) \/ take_index(p) \/ write_metadata(p)
             \/ write_quantity(p) \/ commit(p) \/ release(p) \/ out_of_sequence(p)
          /\ UNCHANGED sum
  \/ ClientsDone /\ UNCHANGED sum

BpmpSpec == BpmpInit /\ [][BpmpNext]_<<vars, sum>>

-----------------------------------------------------------------------------
(* The atomic increment, for a producer that is alone on its section.       *)

\* p has called add_and_fetch on nb_ongoing_writes, and will find its own sum.
Asking(p) == pc[p] \in {"store_ongoing", "fetch_ongoing"}
Granting(p) == Asking(p) /\ sum[p] = 1

\* ShdWrite, whose increment takes place at the load.
Atomic == INSTANCE ShdWrite WITH
  nb_ongoing_writes <- IF \E p \in Producers : pc[p] = "store_ongoing"
                       THEN nb_ongoing_writes + 1 ELSE nb_ongoing_writes,
  pc <- [p \in Producers |->
           CASE Granting(p) -> "get_next_write_index"
             [] Asking(p) /\ ~Granting(p) -> "idle"
             [] pc[p] = "store_writes" -> "invalidate"
             [] OTHER -> pc[p]],
  ret <- [p \in Producers |->
            IF Asking(p) /\ ~Granting(p)
            THEN IF index[p] # -1 THEN "EALREADY" ELSE "EPERM" ELSE ret[p]],
  sessions <- IF \E p \in Producers : Granting(p) THEN sessions + 1 ELSE sessions,
  payload <- [p \in Producers |-> IF Granting(p) THEN sessions + 1 ELSE payload[p]]

\* A single producer cannot tell bpmp_add_and_fetch from the atomic increment
\* that shd_sync.c counts on: all that ShdWrite promises holds of it.
ImplementsAtomic == Atomic!Spec

=============================================================================
