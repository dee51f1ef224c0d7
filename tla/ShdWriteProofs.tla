--------------------------- MODULE ShdWriteProofs ---------------------------
(***************************************************************************)
(* What ShdWrite guarantees for every number of producers and slots, every *)
(* subset of the API and every bound: types, mutual exclusion, and the     *)
(* agreement of the two reads of write_index in a write.                   *)
(***************************************************************************)
EXTENDS ShdWrite, TLAPS

-----------------------------------------------------------------------------
(* The index arithmetic of shd_utils.h *)

\* The successor of a slot, and of "none", is a slot.
LEMMA IndexNext ==
  ASSUME NEW i \in Slots \cup {-1}
  PROVE  /\ index_next(i) \in Slots
         /\ index_next(i) = IF i = NbSamples - 1 THEN 0 ELSE i + 1
BY NbSamplesAssumption, SMT DEF index_next, index_n_after, Slots

\* -1, the code's "none", is not a slot.
LEMMA NoneIsNoSlot == -1 \notin Slots
BY NbSamplesAssumption DEF Slots

-----------------------------------------------------------------------------
(* Types *)

\* The initial state is well typed.
LEMMA InitTypeOK == Init => TypeOK
BY NbSamplesAssumption
DEF Init, TypeOK, Slots, Contents, Empty, Steps, Starting, Errors

\* A store leaves contents in the samples, whichever word it writes.
LEMMA StoreType ==
  ASSUME TypeOK, NEW p \in Producers, NEW word \in {"metadata", "blob"},
         store(p, word)
  PROVE  samples' \in [Slots -> Contents]
<1>1. payload[p] \in Nat /\ samples \in [Slots -> Contents]
  BY DEF TypeOK
<1>2. ASSUME NEW s \in Slots PROVE [samples[s] EXCEPT ![word] = payload[p]] \in Contents
  BY <1>1, <1>2 DEF Contents
<1> QED
  BY <1>1, <1>2 DEF store

\* Every step keeps types, one case per action.
LEMMA NextTypeOK == TypeOK /\ [Next]_vars => TypeOK'
<1> SUFFICES ASSUME TypeOK, [Next]_vars PROVE TypeOK'
  OBVIOUS
<1> USE DEF TypeOK, Contents, Steps, Starting, Errors, Goto, Return
<1>1. ASSUME NEW p \in Producers, start_write_session(p) PROVE TypeOK'
  <2>1. /\ call' \in [Producers -> Starting \cup {"none"}]
        /\ nb_ongoing_writes' \in Nat
    BY <1>1 DEF start_write_session
  <2>2. CASE GrantSession(p)
    BY <1>1, <2>1, <2>2 DEF start_write_session, GrantSession, ctx
  <2>3. CASE RefuseSession(p)
    BY <1>1, <2>1, <2>3 DEF start_write_session, RefuseSession, ctx
  <2> QED
    BY <1>1, <2>2, <2>3 DEF start_write_session
<1>2. ASSUME NEW p \in Producers, get_next_write_index(p) PROVE TypeOK'
  BY <1>2, IndexNext DEF get_next_write_index, shared, ctx, ghosts
<1>3. ASSUME NEW p \in Producers, invalidate(p) PROVE TypeOK'
  <2>1. nb_writes' \in [Slots -> Nat \cup {-1}]
    <3>1. \A s \in Slots : nb_writes[s] + 1 \in Nat \cup {-1}
      OBVIOUS
    <3>2. nb_writes' = [nb_writes EXCEPT ![curr_sample[p]] = nb_writes[curr_sample[p]] + 1]
      BY <1>3 DEF invalidate
    <3>3. nb_writes' = [s \in Slots |-> IF s = curr_sample[p] THEN nb_writes[s] + 1
                                                            ELSE nb_writes[s]]
      BY <3>2, Zenon
    <3> QED
      BY <3>1, <3>3
  <2> QED
    BY <1>3, <2>1 DEF invalidate, ctx, ghosts
<1>4. ASSUME NEW p \in Producers, take_index(p) PROVE TypeOK'
  BY <1>4, IndexNext DEF take_index, incremented_index, shared, ghosts
<1>5. ASSUME NEW p \in Producers, write_metadata(p) PROVE TypeOK'
  <2>1. samples' \in [Slots -> Contents]
    BY <1>5, StoreType DEF write_metadata
  <2> QED
    BY <1>5, <2>1 DEF write_metadata, ctx, ghosts
<1>6. ASSUME NEW p \in Producers, write_quantity(p) PROVE TypeOK'
  <2>1. samples' \in [Slots -> Contents]
    BY <1>6, StoreType DEF write_quantity
  <2> QED
    BY <1>6, <2>1 DEF write_quantity, ctx, ghosts
<1>7. ASSUME NEW p \in Producers, commit(p) PROVE TypeOK'
  BY <1>7 DEF commit, ctx
<1>8. ASSUME NEW p \in Producers, release(p) PROVE TypeOK'
  BY <1>8 DEF release, ghosts
<1>9. ASSUME NEW p \in Producers, out_of_sequence(p) PROVE TypeOK'
  BY <1>9 DEF out_of_sequence, shared, ctx, ghosts
<1>10. CASE UNCHANGED vars
  BY <1>10 DEF vars, shared, ctx, local, ghosts
<1> QED
  BY <1>1, <1>2, <1>3, <1>4, <1>5, <1>6, <1>7, <1>8, <1>9, <1>10
  DEF Next, Proceed, ClientsDone

\* Every variable keeps its type, whatever the producers do.
THEOREM TypeCorrect == Spec => []TypeOK
BY InitTypeOK, NextTypeOK, PTL DEF Spec

-----------------------------------------------------------------------------
(* Mutual exclusion.  OneWriter alone is not inductive: a grant shows that    *)
(* the counter was 0, and SectionHeld is what makes this mean that nobody     *)
(* holds the section; that a commit or a release is made by the holder is the *)
(* part of OneSlotPerWrite on pc and index.                                   *)

WriteInv == TypeOK /\ OneWriter /\ SectionHeld /\ OneSlotPerWrite

\* Nobody holds the section at the start.
LEMMA InitWriteInv == Init => WriteInv
<1> SUFFICES ASSUME Init PROVE WriteInv
  OBVIOUS
<1>1. TypeOK
  BY InitTypeOK
<1>2. \A p \in Producers : ~Holds(p)
  BY DEF Init, Holds, Starts
<1>3. OneSlotPerWrite
  BY DEF Init, OneSlotPerWrite, Starts, Passed
<1> QED
  BY <1>1, <1>2, <1>3 DEF WriteInv, OneWriter, SectionHeld, Init

\* Steps that leave the holder, the counter's sign and the slots alone.
LEMMA HoldersKept ==
  ASSUME WriteInv, UNCHANGED nb_ongoing_writes,
         \A q \in Producers : Holds(q)' <=> Holds(q)
  PROVE  OneWriter' /\ SectionHeld'
BY DEF WriteInv, OneWriter, SectionHeld

\* Every step keeps the invariant, one case per action.
LEMMA NextWriteInv == WriteInv /\ [Next]_vars => WriteInv'
<1> SUFFICES ASSUME WriteInv, [Next]_vars PROVE WriteInv'
  OBVIOUS
<1>0. TypeOK /\ TypeOK'
  BY NextTypeOK DEF WriteInv
<1> USE DEF Goto, Return
<1>1. ASSUME NEW p \in Producers, start_write_session(p)
      PROVE  OneWriter' /\ SectionHeld' /\ OneSlotPerWrite'
  <2>1. CASE GrantSession(p)
    <3>1. nb_ongoing_writes = 0
      BY <1>0, <2>1 DEF GrantSession, TypeOK
    <3>2. \A q \in Producers : ~Holds(q)
      BY <3>1 DEF WriteInv, SectionHeld
    <3>3. \A q \in Producers : Holds(q)' <=> q = p
      BY <1>0, <1>1, <2>1, <3>2
      DEF start_write_session, GrantSession, Holds, Starts, TypeOK, ctx
    <3>4. nb_ongoing_writes' > 0
      BY <1>1, <3>1 DEF start_write_session
    <3>5. OneSlotPerWrite'
      BY <1>0, <1>1, <2>1, <3>2
      DEF start_write_session, GrantSession, WriteInv, OneSlotPerWrite, Holds,
          Starts, Passed, TypeOK, ctx
    <3> QED
      BY <3>3, <3>4, <3>5 DEF OneWriter, SectionHeld
  <2>2. CASE RefuseSession(p)
    <3>1. nb_ongoing_writes > 0 /\ nb_ongoing_writes' > 0
      BY <1>0, <1>1, <2>2 DEF start_write_session, RefuseSession, TypeOK
    <3>2. /\ UNCHANGED <<pc, write_index, nb_writes, index, curr_sample>>
      BY <1>0, <1>1, <2>2 DEF start_write_session, RefuseSession, TypeOK, ctx
    <3> QED
      BY <3>1, <3>2 DEF WriteInv, OneWriter, SectionHeld, OneSlotPerWrite, Holds,
                        Starts, Passed
  <2> QED
    BY <1>1, <2>1, <2>2 DEF start_write_session
<1>2. ASSUME NEW p \in Producers, get_next_write_index(p)
      PROVE  OneWriter' /\ SectionHeld' /\ OneSlotPerWrite'
  <2>1. index[p] = -1
    BY <1>2 DEF get_next_write_index, WriteInv, OneSlotPerWrite, Starts
  <2>2. pc' = [pc EXCEPT ![p] = "invalidate"]
    BY <1>2, <2>1 DEF get_next_write_index
  <2>3. \A q \in Producers : Holds(q)' <=> Holds(q)
    BY <1>0, <1>2, <2>2 DEF get_next_write_index, Holds, Starts, TypeOK, ctx
  <2>4. OneSlotPerWrite'
    BY <1>0, <1>2, <2>1, <2>2
    DEF get_next_write_index, WriteInv, OneSlotPerWrite, Starts, Passed, TypeOK,
        shared, ctx
  <2> QED
    BY <1>2, <2>3, <2>4, HoldersKept DEF get_next_write_index, shared
<1>3. ASSUME NEW p \in Producers, invalidate(p)
      PROVE  OneWriter' /\ SectionHeld' /\ OneSlotPerWrite'
  <2>1. \A q \in Producers : Holds(q)' <=> Holds(q)
    BY <1>0, <1>3 DEF invalidate, Holds, Starts, TypeOK, ctx
  <2>2. /\ pc[p] = "invalidate" /\ pc' = [pc EXCEPT ![p] = "take_index"]
        /\ UNCHANGED <<write_index, index, curr_sample>>
    BY <1>3 DEF invalidate, ctx
  <2>3. curr_sample[p] \in Slots /\ curr_sample[p] = index_next(write_index)
    BY <1>0, <2>2, IndexNext DEF WriteInv, OneSlotPerWrite, TypeOK
  <2>4. /\ \A s \in Slots : nb_writes[s] >= 0 => nb_writes'[s] >= 0
        /\ nb_writes'[curr_sample[p]] >= 0
    BY <1>0, <1>3, <2>3 DEF invalidate, TypeOK
  <2>5. \A q \in Producers : index[q] # -1 => curr_sample[q] \in Slots
    BY <1>0 DEF WriteInv, OneSlotPerWrite, TypeOK
  <2>6. \A q \in Producers : pc[q] = "take_index" => curr_sample[q] \in Slots
    BY <1>0, IndexNext DEF WriteInv, OneSlotPerWrite, TypeOK
  <2>7. OneSlotPerWrite'
    BY <1>0, <2>2, <2>3, <2>4, <2>5, <2>6
    DEF WriteInv, OneSlotPerWrite, Starts, Passed, TypeOK
  <2> QED
    BY <1>3, <2>1, <2>7, HoldersKept DEF invalidate
<1>4. ASSUME NEW p \in Producers, take_index(p)
      PROVE  OneWriter' /\ SectionHeld' /\ OneSlotPerWrite'
  <2>1. index' = [index EXCEPT ![p] = index_next(write_index)]
    BY <1>4 DEF take_index, incremented_index
  <2>2. index_next(write_index) \in Slots /\ index_next(write_index) # -1
    BY <1>0, IndexNext, NoneIsNoSlot DEF TypeOK
  <2>3. pc' = [pc EXCEPT ![p] = "idle"] \/ pc' = [pc EXCEPT ![p] = "write_metadata"]
    BY <1>4 DEF take_index
  <2>4. \A q \in Producers : Holds(q)' <=> Holds(q)
    BY <1>0, <1>4, <2>1, <2>2, <2>3 DEF take_index, Holds, Starts, TypeOK
  <2>5. OneSlotPerWrite'
    BY <1>0, <1>4, <2>1, <2>2, <2>3
    DEF take_index, WriteInv, OneSlotPerWrite, Starts, Passed, TypeOK, shared
  <2> QED
    BY <1>4, <2>4, <2>5, HoldersKept DEF take_index, shared
<1>5. ASSUME NEW p \in Producers, write_metadata(p)
      PROVE  OneWriter' /\ SectionHeld' /\ OneSlotPerWrite'
  <2>1. pc' = [pc EXCEPT ![p] = "idle"] \/ pc' = [pc EXCEPT ![p] = "write_quantity"]
    BY <1>5 DEF write_metadata
  <2>2. \A q \in Producers : Holds(q)' <=> Holds(q)
    BY <1>0, <1>5, <2>1 DEF write_metadata, Holds, Starts, TypeOK, ctx
  <2>3. OneSlotPerWrite'
    BY <1>0, <1>5, <2>1
    DEF write_metadata, WriteInv, OneSlotPerWrite, Starts, Passed, TypeOK, ctx
  <2> QED
    BY <1>5, <2>2, <2>3, HoldersKept DEF write_metadata
<1>6. ASSUME NEW p \in Producers, write_quantity(p)
      PROVE  OneWriter' /\ SectionHeld' /\ OneSlotPerWrite'
  <2>1. pc' = [pc EXCEPT ![p] = "idle"] \/ pc' = [pc EXCEPT ![p] = "commit"]
    BY <1>6 DEF write_quantity
  <2>2. pc[p] \in {"idle", "write_quantity"} /\ index[p] # -1
    BY <1>6 DEF write_quantity, Reaches
  <2>3. \A q \in Producers : Holds(q)' <=> Holds(q)
    BY <1>0, <1>6, <2>1, <2>2 DEF write_quantity, Holds, Starts, TypeOK, ctx
  <2>4. OneSlotPerWrite'
    BY <1>0, <1>6, <2>1, <2>2
    DEF write_quantity, WriteInv, OneSlotPerWrite, Starts, Passed, TypeOK, ctx
  <2> QED
    BY <1>6, <2>3, <2>4, HoldersKept DEF write_quantity
<1>7. ASSUME NEW p \in Producers, commit(p)
      PROVE  OneWriter' /\ SectionHeld' /\ OneSlotPerWrite'
  <2>1. pc[p] \in {"idle", "commit"} /\ index[p] # -1
    BY <1>7 DEF commit, Reaches
  <2>2. \A q \in Producers : Holds(q)' <=> Holds(q)
    BY <1>0, <1>7, <2>1 DEF commit, Holds, Starts, TypeOK, ctx
  <2>3. \A q \in Producers : Holds(q) <=> q = p
    BY <2>1 DEF Holds, WriteInv, OneWriter
  <2>4. OneSlotPerWrite'
    BY <1>0, <1>7, <2>1, <2>3
    DEF commit, WriteInv, OneSlotPerWrite, Holds, Starts, Passed, TypeOK, ctx
  <2> QED
    BY <1>7, <2>2, <2>4, HoldersKept DEF commit
<1>8. ASSUME NEW p \in Producers, release(p)
      PROVE  OneWriter' /\ SectionHeld' /\ OneSlotPerWrite'
  <2>1. index[p] # -1
    BY <1>8 DEF release, WriteInv, OneSlotPerWrite
  <2>2. \A q \in Producers : Holds(q) <=> q = p
    BY <2>1 DEF Holds, WriteInv, OneWriter
  <2>3. \A q \in Producers : ~Holds(q)'
    BY <1>0, <1>8, <2>2 DEF release, Holds, Starts, TypeOK
  <2>4. OneSlotPerWrite'
    BY <1>0, <1>8, <2>2
    DEF release, WriteInv, OneSlotPerWrite, Holds, Starts, Passed, TypeOK
  <2> QED
    BY <1>8, <2>3, <2>4 DEF release, OneWriter, SectionHeld
<1>9. ASSUME NEW p \in Producers, out_of_sequence(p)
      PROVE  OneWriter' /\ SectionHeld' /\ OneSlotPerWrite'
  <2>1. UNCHANGED <<pc, write_index, nb_ongoing_writes, nb_writes, index, curr_sample>>
    BY <1>0, <1>9 DEF out_of_sequence, TypeOK, shared, ctx
  <2> QED
    BY <2>1 DEF WriteInv, OneWriter, SectionHeld, OneSlotPerWrite, Holds, Starts, Passed
<1>10. CASE UNCHANGED vars
  <2>1. UNCHANGED <<pc, write_index, nb_ongoing_writes, nb_writes, index, curr_sample>>
    BY <1>10 DEF vars, shared, ctx, local
  <2> QED
    BY <1>0, <2>1 DEF WriteInv, OneWriter, SectionHeld, OneSlotPerWrite, Holds, Starts, Passed
<1> QED
  BY <1>0, <1>1, <1>2, <1>3, <1>4, <1>5, <1>6, <1>7, <1>8, <1>9, <1>10
  DEF Next, Proceed, ClientsDone, WriteInv

\* The invariant holds in every state.
LEMMA WriteInvHolds == Spec => []WriteInv
BY InitWriteInv, NextWriteInv, PTL DEF Spec

\* At most one producer is inside the section, however many contexts call.
THEOREM MutualExclusion == Spec => []OneWriter
<1>1. WriteInv => OneWriter
  BY DEF WriteInv
<1> QED
  BY <1>1, WriteInvHolds, PTL

\* The counter is above 0 exactly while some producer holds the section.
THEOREM CounterTellsHolder == Spec => []SectionHeld
<1>1. WriteInv => SectionHeld
  BY DEF WriteInv
<1> QED
  BY <1>1, WriteInvHolds, PTL

\* The slot invalidated is the slot written and published.
THEOREM SlotAgreement == Spec => []OneSlotPerWrite
<1>1. WriteInv => OneSlotPerWrite
  BY DEF WriteInv
<1> QED
  BY <1>1, WriteInvHolds, PTL

-----------------------------------------------------------------------------
(* What is published is left alone *)

\* Only the slot after the last committed one is ever stored to.
LEMMA StoreNext ==
  ASSUME WriteInv, [Next]_vars, NEW s \in Slots, samples'[s] # samples[s]
  PROVE  s = index_next(write_index)
<1> TypeOK
  BY DEF WriteInv
<1>1. PICK p \in Producers : write_metadata(p) \/ write_quantity(p)
  BY DEF Next, Proceed, ClientsDone, vars, shared, start_write_session,
         get_next_write_index, invalidate, take_index, commit, release, out_of_sequence
<1>2. index[p] # -1 /\ pc[p] # "release"
  BY <1>1 DEF write_metadata, write_quantity, Reaches, WriteInv, OneSlotPerWrite, Passed
<1>3. index[p] = index_next(write_index)
  BY <1>2 DEF WriteInv, OneSlotPerWrite
<1>4. \/ samples' = [samples EXCEPT ![index[p]]["metadata"] = payload[p]]
      \/ samples' = [samples EXCEPT ![index[p]]["blob"] = payload[p]]
  BY <1>1 DEF write_metadata, write_quantity, store
<1> QED
  BY <1>3, <1>4 DEF TypeOK

\* No store into the samples touches a committed one, but for the oldest.
THEOREM PublishedStaysPut == Spec => PublishedStable
<1>1. WriteInv /\ [Next]_vars =>
        [\A s \in Slots : samples'[s] # samples[s] => s = index_next(write_index)]_vars
  BY StoreNext
<1> QED
  BY <1>1, WriteInvHolds, PTL DEF Spec, PublishedStable

=============================================================================
