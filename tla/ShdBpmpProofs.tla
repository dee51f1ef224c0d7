--------------------------- MODULE ShdBpmpProofs ---------------------------
(***************************************************************************)
(* Proofs about ShdBpmp: for a producer that is alone on its section, the  *)
(* increment in three steps implements the atomic one of ShdWrite.         *)
(***************************************************************************)
EXTENDS ShdBpmp, TLAPS

BpmpSteps == Steps \cup {"store_ongoing", "fetch_ongoing", "store_writes"}

\* What a lone producer stores is what it would have added to: nothing moves
\* the counters between its load and its store.
SumInv ==
  /\ pc \in [Producers -> BpmpSteps] /\ ret \in [Producers -> Errors \cup {"OK"}]
  /\ sum = [p \in Producers |-> sum[p]] /\ payload \in [Producers -> Int]
  /\ sessions \in Int /\ nb_ongoing_writes \in Int
  /\ \A p \in Producers :
       /\ pc[p] = "store_ongoing" => sum[p] = nb_ongoing_writes + 1
       /\ pc[p] = "fetch_ongoing" => sum[p] = nb_ongoing_writes
       /\ pc[p] = "store_writes" => sum[p] = nb_writes[curr_sample[p]] + 1

\* A step of p in BpmpNext.
Step(p) ==
  \/ load_ongoing(p) \/ store_ongoing(p) \/ fetch_ongoing(p)
  \/ load_writes(p) \/ store_writes(p)
  \/ /\ \/ get_next_write_index(p) \/ take_index(p) \/ write_metadata(p)
        \/ write_quantity(p) \/ commit(p) \/ release(p) \/ out_of_sequence(p)
     /\ UNCHANGED sum

\* It holds at the start.
LEMMA InitSum == BpmpInit => SumInv
BY DEF BpmpInit, Init, SumInv, BpmpSteps, Steps, Errors

\* Every step of the only producer keeps it.
LEMMA SumStep ==
  ASSUME SumInv, NEW p \in Producers, Producers = {p}, Step(p)
  PROVE  SumInv'
<1> USE DEF SumInv, BpmpSteps, Steps, Errors, Goto, Return, shared, ctx, ghosts
<1>1. CASE load_ongoing(p)
  BY <1>1 DEF load_ongoing
<1>2. CASE store_ongoing(p)
  BY <1>2 DEF store_ongoing
<1>3. CASE fetch_ongoing(p)
  BY <1>3 DEF fetch_ongoing
<1>4. CASE load_writes(p)
  BY <1>4 DEF load_writes
<1>5. CASE store_writes(p)
  BY <1>5 DEF store_writes
<1>6. CASE get_next_write_index(p) /\ UNCHANGED sum
  BY <1>6 DEF get_next_write_index
<1>7. CASE take_index(p) /\ UNCHANGED sum
  BY <1>7 DEF take_index
<1>8. CASE write_metadata(p) /\ UNCHANGED sum
  BY <1>8 DEF write_metadata
<1>9. CASE write_quantity(p) /\ UNCHANGED sum
  BY <1>9 DEF write_quantity
<1>10. CASE commit(p) /\ UNCHANGED sum
  BY <1>10 DEF commit
<1>11. CASE release(p) /\ UNCHANGED sum
  BY <1>11 DEF release
<1>12. CASE out_of_sequence(p) /\ UNCHANGED sum
  BY <1>12 DEF out_of_sequence
<1> QED BY <1>1, <1>2, <1>3, <1>4, <1>5, <1>6, <1>7, <1>8, <1>9, <1>10, <1>11, <1>12 DEF Step

-----------------------------------------------------------------------------
(* The steps of the atomic specification *)

\* The state of ShdWrite, as Atomic has it.
Ongoing == IF \E p \in Producers : pc[p] = "store_ongoing"
           THEN nb_ongoing_writes + 1 ELSE nb_ongoing_writes

Pc == [p \in Producers |-> CASE Granting(p) -> "get_next_write_index"
                             [] Asking(p) /\ ~Granting(p) -> "idle"
                             [] pc[p] = "store_writes" -> "invalidate"
                             [] OTHER -> pc[p]]

Ret == [p \in Producers |-> IF Asking(p) /\ ~Granting(p)
                            THEN IF index[p] # -1 THEN "EALREADY" ELSE "EPERM" ELSE ret[p]]

Granted == IF \E p \in Producers : Granting(p) THEN sessions + 1 ELSE sessions

Payload == [p \in Producers |-> IF Granting(p) THEN sessions + 1 ELSE payload[p]]

\* The initial states are those of ShdWrite.
LEMMA InitAtomic == BpmpInit => Atomic!Init
<1> SUFFICES ASSUME BpmpInit PROVE Atomic!Init
  OBVIOUS
<1>1. /\ \A p \in Producers : pc[p] = "idle" /\ ~Asking(p) /\ ~Granting(p)
      /\ \A p \in Producers : ret[p] = "OK" /\ payload[p] = 0
  BY DEF BpmpInit, Init, Asking, Granting
<1>2. Ongoing = 0 /\ Granted = 0
  BY <1>1 DEF BpmpInit, Init, Ongoing, Granted
<1>3. Pc = [p \in Producers |-> "idle"]
  BY <1>1 DEF Pc
<1>4. Ret = [p \in Producers |-> "OK"] /\ Payload = [p \in Producers |-> 0]
  BY <1>1 DEF Ret, Payload
<1> QED BY <1>2, <1>3, <1>4 DEF BpmpInit, Init, Atomic!Init, Ongoing, Granted, Pc, Ret,
           Payload, Empty, Atomic!Empty, Slots, Atomic!Slots

\* The load takes or refuses the section.
LEMMA LoadAsks ==
  ASSUME SumInv, NEW p \in Producers, Producers = {p}, load_ongoing(p)
  PROVE  Atomic!start_write_session(p)
<1> USE DEF Goto, shared, ctx, ghosts
<1>1. /\ pc[p] = "idle" /\ pc' = [pc EXCEPT ![p] = "store_ongoing"]
      /\ sum' = [sum EXCEPT ![p] = nb_ongoing_writes + 1]
      /\ UNCHANGED <<shared, ctx, ret, curr_sample, ghosts>>
      /\ nb_ongoing_writes < MaxOngoing /\ sessions < MaxSessions
      /\ \E f \in Api \cap Starting : call' = [call EXCEPT ![p] = f]
  BY DEF load_ongoing
<1>2. /\ pc'[p] = "store_ongoing" /\ sum'[p] = nb_ongoing_writes + 1
      /\ ~Asking(p) /\ ~Granting(p)
      /\ Asking(p)' /\ (Granting(p)' <=> nb_ongoing_writes + 1 = 1)
  BY <1>1 DEF SumInv, Asking, Granting
<1>3. Ongoing = nb_ongoing_writes /\ Ongoing' = nb_ongoing_writes + 1
  BY <1>1, <1>2 DEF Ongoing
<1>4. Pc = [q \in Producers |-> "idle"] /\ Ret = ret /\ Granted = sessions /\ Payload = payload
  BY <1>1, <1>2 DEF Pc, Ret, Granted, Payload, SumInv
<1>5. CASE nb_ongoing_writes + 1 = 1
  <2>1. \A q \in Producers : pc'[q] = "store_ongoing" /\ sum'[q] = 1
    BY <1>2, <1>5
  <2>2. Pc' = [q \in Producers |-> "get_next_write_index"]
    BY <2>1 DEF Pc, Granting, Asking
  <2>3. Pc' = [Pc EXCEPT ![p] = "get_next_write_index"]
    BY <1>4, <2>2
  <2>4. Ret' = Ret
    BY <1>1, <1>4, <2>1 DEF Ret, SumInv, Granting, Asking
  <2>5. Granted' = Granted + 1
    BY <1>1, <1>4, <2>1 DEF Granted, Granting, Asking
  <2>6. Payload' = [q \in Producers |-> sessions + 1]
    BY <1>1, <2>1 DEF Payload, Granting, Asking
  <2>7. Payload' = [Payload EXCEPT ![p] = Granted + 1]
    BY <1>4, <2>6 DEF SumInv
  <2> QED BY <1>1, <1>3, <1>4, <1>5, <2>3, <2>4, <2>5, <2>7 DEF Atomic!start_write_session,
             Atomic!GrantSession, Atomic!Goto, Atomic!ctx, Starting, Atomic!Starting,
             Pc, Ret, Granted, Payload, Ongoing
<1>6. CASE nb_ongoing_writes + 1 # 1
  <2>1. \A q \in Producers : pc'[q] = "store_ongoing" /\ sum'[q] # 1
    BY <1>2, <1>6
  <2>2. Pc' = [q \in Producers |-> "idle"]
    BY <2>1 DEF Pc, Granting, Asking
  <2>3. Pc' = [Pc EXCEPT ![p] = "idle"]
    BY <1>4, <2>2
  <2>4. Ret' = [q \in Producers |-> IF index[q] # -1 THEN "EALREADY" ELSE "EPERM"]
    BY <1>1, <2>1 DEF Ret, Granting, Asking
  <2>5. Ret' = [Ret EXCEPT ![p] = IF index[p] # -1 THEN "EALREADY" ELSE "EPERM"]
    BY <1>4, <2>4 DEF SumInv
  <2>6. Granted' = Granted /\ Payload' = Payload
    BY <1>1, <1>4, <2>1 DEF Granted, Payload, SumInv, Granting, Asking
  <2> QED BY <1>1, <1>3, <1>4, <1>6, <2>3, <2>5, <2>6 DEF Atomic!start_write_session,
             Atomic!RefuseSession, Atomic!Return, Atomic!ctx, Starting, Atomic!Starting,
             Pc, Ret, Granted, Payload, Ongoing
<1> QED BY <1>5, <1>6

\* The store and the second load only carry it out.
LEMMA StoresAgree ==
  ASSUME SumInv, NEW p \in Producers, Producers = {p},
         store_ongoing(p) \/ fetch_ongoing(p) \/ load_writes(p)
  PROVE  UNCHANGED Atomic!vars
<1> USE DEF SumInv, BpmpSteps, Steps, Goto, Return, Asking, Granting, shared, ctx, ghosts,
        Atomic!vars, Atomic!shared, Atomic!ctx, Atomic!local, Atomic!ghosts
<1>1. CASE store_ongoing(p)
  BY <1>1 DEF store_ongoing
<1>2. CASE fetch_ongoing(p)
  BY <1>2 DEF fetch_ongoing
<1>3. CASE load_writes(p)
  BY <1>3 DEF load_writes
<1> QED BY <1>1, <1>2, <1>3

\* Outside the two increments the states are the same, but for the name of
\* the step that stores the count of a sample.
SameState(p) ==
  /\ Ongoing = nb_ongoing_writes /\ Ret = ret /\ Granted = sessions /\ Payload = payload
  /\ pc[p] # "store_writes" => Pc = pc
  /\ pc[p] = "store_writes" => Pc = [q \in Producers |-> "invalidate"]

\* It is so of every state.
LEMMA Elsewhere ==
  ASSUME NEW p \in Producers, Producers = {p}
  PROVE  /\ SumInv /\ ~Asking(p) => SameState(p)
         /\ (SumInv /\ ~Asking(p) => SameState(p))'
<1>1. SumInv /\ ~Asking(p) => SameState(p)
  <2> SUFFICES ASSUME SumInv, ~Asking(p) PROVE SameState(p)
    OBVIOUS
  <2>1. \A q \in Producers : ~Asking(q) /\ ~Granting(q) /\ pc[q] # "store_ongoing" /\ q = p
    BY DEF Asking, Granting
  <2>2. Ongoing = nb_ongoing_writes /\ Granted = sessions
    BY <2>1 DEF Ongoing, Granted
  <2>3. Ret = ret /\ Payload = payload
    BY <2>1 DEF Ret, Payload, SumInv
  <2>4. pc[p] # "store_writes" => Pc = pc
    BY <2>1 DEF Pc, SumInv
  <2>5. pc[p] = "store_writes" => Pc = [q \in Producers |-> "invalidate"]
    BY <2>1 DEF Pc
  <2> QED BY <2>2, <2>3, <2>4, <2>5 DEF SameState
<1> QED BY <1>1, PTL

\* The second store is the increment of nb_writes.
LEMMA StoreInvalidates ==
  ASSUME SumInv, SumInv', NEW p \in Producers, Producers = {p}, store_writes(p)
  PROVE  Atomic!invalidate(p)
<1> USE DEF Goto, shared, ctx, ghosts
<1>1. /\ pc[p] = "store_writes" /\ pc' = [pc EXCEPT ![p] = "take_index"]
      /\ nb_writes' = [nb_writes EXCEPT ![curr_sample[p]] = sum[p]]
      /\ UNCHANGED <<write_index, nb_ongoing_writes, samples, ctx, call, ret, curr_sample,
                     ghosts>>
  BY DEF store_writes
<1>2. sum[p] = nb_writes[curr_sample[p]] + 1 /\ pc'[p] = "take_index"
  BY <1>1 DEF SumInv
<1>3. ~Asking(p) /\ ~Asking(p)'
  BY <1>1, <1>2 DEF Asking
<1>4. Ongoing = nb_ongoing_writes /\ Ret = ret /\ Granted = sessions /\ Payload = payload
      /\ Pc = [q \in Producers |-> "invalidate"]
  BY <1>1, <1>3, Elsewhere DEF SameState
<1>5. Ongoing' = nb_ongoing_writes' /\ Ret' = ret' /\ Granted' = sessions'
      /\ Payload' = payload' /\ Pc' = pc'
  BY <1>2, <1>3, Elsewhere DEF SameState
<1>6. pc' = [q \in Producers |-> "take_index"]
  BY <1>1 DEF SumInv
<1>7. Pc' = [Pc EXCEPT ![p] = "take_index"]
  BY <1>4, <1>5, <1>6
<1>8. nb_writes' = [nb_writes EXCEPT ![curr_sample[p]] = @ + 1]
  BY <1>1, <1>2
<1>9. Ongoing' = Ongoing /\ Ret' = Ret /\ Granted' = Granted /\ Payload' = Payload
      /\ Pc[p] = "invalidate"
  BY <1>1, <1>4, <1>5
<1>10. UNCHANGED <<write_index, samples, index, prev_index, call, curr_sample, foreign>>
  BY <1>1
<1> QED BY <1>7, <1>8, <1>9, <1>10 DEF Atomic!invalidate, Atomic!Goto, Atomic!ctx,
           Atomic!ghosts, Pc, Ret, Granted, Payload, Ongoing

\* The other steps are those of ShdWrite.
Other(p) ==
  \/ get_next_write_index(p) \/ take_index(p) \/ write_metadata(p)
  \/ write_quantity(p) \/ commit(p) \/ release(p) \/ out_of_sequence(p)

\* They read and write what Atomic takes over as it is.
LEMMA OthersAgree ==
  ASSUME SumInv, SumInv', NEW p \in Producers, Producers = {p}, Other(p), UNCHANGED sum
  PROVE  Atomic!Proceed(p) \/ Atomic!out_of_sequence(p)
<1>1. /\ pc[p] \in Steps \ {"invalidate"} /\ pc'[p] \in Steps
  BY DEF Other, get_next_write_index, take_index, write_metadata, write_quantity, commit,
         release, out_of_sequence, Goto, Return, Reaches, SumInv, Steps
<1>2. /\ ~Asking(p) /\ ~Asking(p)' /\ pc[p] # "store_writes" /\ pc'[p] # "store_writes"
  BY <1>1 DEF Steps, Asking
<1>3. Ongoing = nb_ongoing_writes /\ Ret = ret /\ Granted = sessions /\ Payload = payload
      /\ Pc = pc
  BY <1>2, Elsewhere DEF SameState
<1>4. Ongoing' = nb_ongoing_writes' /\ Ret' = ret' /\ Granted' = sessions'
      /\ Payload' = payload' /\ Pc' = pc'
  BY <1>2, Elsewhere DEF SameState
<1>index. /\ \A i : Atomic!index_next(i) = index_next(i)
          /\ \A i, j : Atomic!unexpected_samples(i, j) = unexpected_samples(i, j)
          /\ Atomic!incremented_index(p) = incremented_index(p)
  BY DEF Atomic!index_next, index_next, Atomic!index_n_after, index_n_after,
         Atomic!unexpected_samples, unexpected_samples, Atomic!interval_between,
         interval_between, Atomic!incremented_index, incremented_index
<1> USE <1>3, <1>4 DEF Pc, Ret, Granted, Payload, Ongoing, shared, ctx, ghosts, Goto, Return,
        Atomic!shared, Atomic!ctx, Atomic!ghosts, Atomic!Goto, Atomic!Return
<1>5. CASE get_next_write_index(p)
  <2> Atomic!get_next_write_index(p)
    BY <1>5, <1>index DEF get_next_write_index, Atomic!get_next_write_index
  <2> QED BY DEF Atomic!Proceed
<1>6. CASE take_index(p)
  <2> Atomic!take_index(p)
    BY <1>6, <1>index DEF take_index, Atomic!take_index
  <2> QED BY DEF Atomic!Proceed
<1>7. CASE write_metadata(p)
  <2> Atomic!write_metadata(p)
    BY <1>7 DEF write_metadata, Atomic!write_metadata, store, Atomic!store
  <2> QED BY DEF Atomic!Proceed
<1>8. CASE write_quantity(p)
  <2> Atomic!write_quantity(p)
    BY <1>8 DEF write_quantity, Atomic!write_quantity, store, Atomic!store, Reaches, Atomic!Reaches
  <2> QED BY DEF Atomic!Proceed
<1>9. CASE commit(p)
  <2> Atomic!commit(p)
    BY <1>9 DEF commit, Atomic!commit, Reaches, Atomic!Reaches
  <2> QED BY DEF Atomic!Proceed
<1>10. CASE release(p)
  <2> Atomic!release(p)
    BY <1>10 DEF release, Atomic!release
  <2> QED BY DEF Atomic!Proceed
<1>11. CASE out_of_sequence(p)
  BY <1>11 DEF out_of_sequence, Atomic!out_of_sequence
<1> QED BY <1>5, <1>6, <1>7, <1>8, <1>9, <1>10, <1>11 DEF Other

\* Every step of the only producer is one of ShdWrite, or none.
LEMMA StepAtomic ==
  ASSUME SumInv, SumInv', [BpmpNext]_<<vars, sum>>, NEW sole \in Producers, Producers = {sole}
  PROVE  [Atomic!Next]_Atomic!vars
<1>1. CASE Step(sole)
  <2>1. CASE load_ongoing(sole)
    BY <2>1, LoadAsks DEF Atomic!Next
  <2>2. CASE store_ongoing(sole) \/ fetch_ongoing(sole) \/ load_writes(sole)
    BY <2>2, StoresAgree
  <2>3. CASE store_writes(sole)
    BY <2>3, StoreInvalidates DEF Atomic!Next, Atomic!Proceed
  <2>4. CASE Other(sole) /\ UNCHANGED sum
    BY <2>4, OthersAgree DEF Atomic!Next
  <2> QED BY <1>1, <2>1, <2>2, <2>3, <2>4 DEF Step, Other
<1>2. CASE UNCHANGED <<vars, sum>>
  BY <1>2 DEF vars, shared, ctx, local, ghosts, Asking, Granting, Atomic!vars, Atomic!shared,
              Atomic!ctx, Atomic!local, Atomic!ghosts
<1>3. CASE ClientsDone /\ UNCHANGED sum
  BY <1>2, <1>3 DEF ClientsDone
<1> QED BY <1>1, <1>2, <1>3 DEF BpmpNext, Step

\* A section with one producer, whatever the functions its client calls, is
\* safe with the two loads and the store of bpmp_add_and_fetch: everything
\* that ShdWrite promises holds of it, the atomic increment taking place at
\* the load.  (With two producers it is not: MCShdBpmp_two.)
THEOREM SoleProducerIsAtomic ==
  ASSUME NEW sole \in Producers, Producers = {sole}
  PROVE  BpmpSpec => ImplementsAtomic
<1>1. BpmpInit => SumInv /\ Atomic!Init
  BY InitSum, InitAtomic
<1>2. SumInv /\ [BpmpNext]_<<vars, sum>> => SumInv'
  <2> SUFFICES ASSUME SumInv, [BpmpNext]_<<vars, sum>> PROVE SumInv'
    OBVIOUS
  <2>1. CASE Step(sole)
    BY <2>1, SumStep
  <2>2. CASE UNCHANGED <<vars, sum>>
    BY <2>2 DEF SumInv, vars, shared, local, ghosts
  <2> QED BY <2>1, <2>2 DEF BpmpNext, Step, ClientsDone
<1>3. SumInv /\ SumInv' /\ [BpmpNext]_<<vars, sum>> => [Atomic!Next]_Atomic!vars
  BY StepAtomic
<1> QED BY <1>1, <1>2, <1>3, PTL DEF BpmpSpec, ImplementsAtomic, Atomic!Spec

=============================================================================
