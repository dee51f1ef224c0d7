------------------------- MODULE ShdWriteLapProofs -------------------------
(***************************************************************************)
(* Proofs about ShdWrite that rest on its mutual exclusion: the counters   *)
(* of the slots describe laps of the ring, a producer is told -EFAULT for  *)
(* what others really committed, and nothing is published after that.      *)
(* Where clients write whole blobs, each sample carries its rank, and the  *)
(* ring implements the log of ShdLog.                                      *)
(***************************************************************************)
EXTENDS ShdWriteProofs, FiniteSetTheorems, SequenceTheorems

-----------------------------------------------------------------------------
(* Laps *)

\* A step that leaves the counters, and the slot of the write in progress,
\* leaves the counters it settles to.
LEMMA SettledKept ==
  ASSUME nb_writes' = nb_writes,
         \A q \in Producers : /\ Writing(q)' <=> Writing(q)
                              /\ Writing(q) => curr_sample'[q] = curr_sample[q],
         NEW s \in Slots
  PROVE  settled(s)' = settled(s)
<1>1. (\E q \in Producers : Writing(q)' /\ curr_sample'[q] = s)
        <=> \E q \in Producers : Writing(q) /\ curr_sample[q] = s
  OBVIOUS
<1>2. CASE \E q \in Producers : Writing(q) /\ curr_sample[q] = s
  BY <1>1, <1>2 DEF settled
<1>3. CASE ~ \E q \in Producers : Writing(q) /\ curr_sample[q] = s
  BY <1>1, <1>3 DEF settled
<1> QED BY <1>2, <1>3

\* A producer that writes holds the section, alone.
LEMMA OneWriting ==
  ASSUME WriteInv, NEW p \in Producers, Writing(p)
  PROVE  /\ \A q \in Producers : Holds(q) <=> q = p
         /\ curr_sample[p] = index_next(write_index) /\ nb_writes[curr_sample[p]] >= 0
<1>1. Holds(p)
  BY DEF Writing, Holds, Starts
<1>2. \A q \in Producers : Holds(q) <=> q = p
  BY <1>1 DEF WriteInv, OneWriter
<1>3. curr_sample[p] = index_next(write_index) /\ nb_writes[curr_sample[p]] >= 0
  BY DEF Writing, WriteInv, OneSlotPerWrite
<1> QED BY <1>2, <1>3

\* The counters start equal.
LEMMA InitLap == Init => LapOrder
<1> SUFFICES ASSUME Init PROVE LapOrder
  OBVIOUS
<1>1. \A p \in Producers : ~Writing(p)
  BY DEF Init, Writing
<1>2. \A s \in Slots : settled(s) = -1
  BY <1>1 DEF Init, settled
<1>3. \A s \in Slots : ~(s <= write_index)
  BY DEF Init, Slots
<1> QED BY <1>2, <1>3 DEF LapOrder

\* The steps that leave the counters, the slots and write_index alone.
LEMMA LapKept ==
  ASSUME LapOrder, UNCHANGED <<write_index, nb_writes>>,
         \A q \in Producers : /\ Writing(q)' <=> Writing(q)
                              /\ Writing(q) => curr_sample'[q] = curr_sample[q]
  PROVE  LapOrder'
  BY SettledKept DEF LapOrder

\* Invalidating a slot counts a write that is in progress from then on.
LEMMA InvalidateLap ==
  ASSUME WriteInv, LapOrder, NEW p \in Producers, invalidate(p)
  PROVE  LapOrder'
<1>0. TypeOK
  BY DEF WriteInv
<1>1. /\ pc[p] = "invalidate" /\ pc' = [pc EXCEPT ![p] = "take_index"]
      /\ UNCHANGED <<write_index, index, curr_sample>>
      /\ nb_writes' = [nb_writes EXCEPT ![curr_sample[p]] = @ + 1]
  BY DEF invalidate, ctx, Goto
<1>2. \A q \in Producers : Holds(q) <=> q = p
  BY <1>1 DEF Holds, Starts, WriteInv, OneWriter
<1>3. \A q \in Producers : ~Writing(q)
  <2>1. index[p] = -1
    BY <1>1 DEF WriteInv, OneSlotPerWrite, Starts
  <2> QED BY <1>1, <1>2, <2>1 DEF Writing, Holds, Starts
<1>4. \A q \in Producers : Writing(q)' <=> q = p
  <2>1. Writing(p)'
    BY <1>0, <1>1 DEF Writing, TypeOK
  <2>2. ASSUME NEW q \in Producers, q # p PROVE ~Writing(q)'
    BY <1>0, <1>1, <1>3, <2>2 DEF Writing, TypeOK
  <2> QED BY <2>1, <2>2
<1>5. ASSUME NEW s \in Slots PROVE settled(s)' = settled(s)
  <2>1. settled(s) = nb_writes[s] /\ nb_writes[s] \in Int
    BY <1>0, <1>3 DEF settled, TypeOK
  <2>2. CASE curr_sample[p] = s
    <3>1. settled(s)' = nb_writes'[s] - 1
      BY <1>1, <1>4, <2>2 DEF settled
    <3>2. nb_writes'[s] = nb_writes[s] + 1
      BY <1>0, <1>1, <2>2 DEF TypeOK
    <3> QED BY <2>1, <3>1, <3>2
  <2>3. CASE curr_sample[p] # s
    <3>1. settled(s)' = nb_writes'[s]
      BY <1>1, <1>4, <2>3 DEF settled
    <3>2. nb_writes'[s] = nb_writes[s]
      BY <1>0, <1>1, <2>3 DEF TypeOK
    <3> QED BY <2>1, <3>1, <3>2
  <2> QED BY <2>2, <2>3
<1> QED BY <1>1, <1>5 DEF LapOrder

\* Committing it settles it, as write_index reaches its slot.
LEMMA CommitLap ==
  ASSUME WriteInv, LapOrder, NEW p \in Producers, commit(p)
  PROVE  LapOrder'
<1>0. TypeOK
  BY DEF WriteInv
<1>1. /\ pc[p] \in {"idle", "commit"} /\ index[p] # -1
      /\ pc' = [pc EXCEPT ![p] = "release"] /\ write_index' = index[p]
      /\ UNCHANGED <<nb_writes, index, curr_sample>>
  BY DEF commit, Reaches, ctx, Goto
<1>2. Writing(p)
  BY <1>1 DEF Writing
<1>3. \A q \in Producers : Writing(q) <=> q = p
  BY <1>2, OneWriting DEF Writing, Holds, Starts
<1>4. \A q \in Producers : ~Writing(q)'
  <2>1. ~Writing(p)'
    BY <1>0, <1>1 DEF Writing, TypeOK
  <2>2. ASSUME NEW q \in Producers, q # p PROVE ~Writing(q)'
    BY <1>0, <1>1, <1>3, <2>2 DEF Writing, TypeOK
  <2> QED BY <2>1, <2>2
<1>5. /\ index[p] = curr_sample[p] /\ curr_sample[p] = index_next(write_index)
      /\ index[p] \in Slots /\ write_index \in Slots \cup {-1}
      /\ index[p] = IF write_index = NbSamples - 1 THEN 0 ELSE write_index + 1
  BY <1>0, <1>1, <1>2, OneWriting, IndexNext
  DEF WriteInv, OneSlotPerWrite, TypeOK
<1>6. ASSUME NEW s \in Slots
      PROVE  /\ settled(s) \in Int
             /\ settled(s)' = settled(s) + (IF s = index[p] THEN 1 ELSE 0)
  <2>1. nb_writes[s] \in Int
    BY <1>0 DEF TypeOK
  <2>2. settled(s)' = nb_writes[s]
    BY <1>1, <1>4 DEF settled
  <2>3. settled(s) = IF s = index[p] THEN nb_writes[s] - 1 ELSE nb_writes[s]
    BY <1>3, <1>5 DEF settled
  <2> QED BY <2>1, <2>2, <2>3
<1> DEFINE i == index[p]
<1> SUFFICES ASSUME NEW s \in Slots, NEW t \in Slots, s <= t
             PROVE  settled(s)' - settled(t)' = IF s <= i /\ i < t THEN 1 ELSE 0
  BY <1>1 DEF LapOrder
<1>7. settled(s) - settled(t) = IF s <= write_index /\ write_index < t THEN 1 ELSE 0
  BY DEF LapOrder
<1>8. /\ settled(s)' = settled(s) + (IF s = i THEN 1 ELSE 0)
      /\ settled(t)' = settled(t) + (IF t = i THEN 1 ELSE 0)
      /\ settled(s) \in Int /\ settled(t) \in Int
  BY <1>6
<1>9. CASE write_index = NbSamples - 1
  BY <1>5, <1>7, <1>8, <1>9, NbSamplesAssumption DEF Slots
<1>10. CASE write_index # NbSamples - 1
  BY <1>5, <1>7, <1>8, <1>10, NbSamplesAssumption DEF Slots
<1> QED BY <1>9, <1>10

\* Hence every step keeps the laps.
LEMMA NextLap ==
  ASSUME WriteInv, LapOrder, [Next]_vars
  PROVE  LapOrder'
<1>0. TypeOK
  BY DEF WriteInv
<1> USE DEF Goto, Return, Writing
<1>1. ASSUME NEW p \in Producers, start_write_session(p) PROVE LapOrder'
  <2>1. CASE GrantSession(p)
    <3>1. \A q \in Producers : ~Holds(q)
      BY <1>0, <2>1 DEF GrantSession, TypeOK, WriteInv, SectionHeld
    <3> QED
      BY <1>0, <1>1, <2>1, <3>1, LapKept
      DEF start_write_session, GrantSession, Holds, TypeOK, ctx
  <2>2. CASE RefuseSession(p)
    BY <1>0, <1>1, <2>2, LapKept
    DEF start_write_session, RefuseSession, TypeOK, ctx
  <2> QED BY <1>1, <2>1, <2>2 DEF start_write_session
<1>2. ASSUME NEW p \in Producers, get_next_write_index(p) PROVE LapOrder'
  <2>1. index[p] = -1
    BY <1>2 DEF get_next_write_index, WriteInv, OneSlotPerWrite, Starts
  <2> QED
    BY <1>0, <1>2, <2>1, LapKept DEF get_next_write_index, TypeOK, shared, ctx
<1>3. ASSUME NEW p \in Producers, invalidate(p) PROVE LapOrder'
  BY <1>3, InvalidateLap
<1>4. ASSUME NEW p \in Producers, take_index(p) PROVE LapOrder'
  <2>1. index_next(write_index) # -1
    BY <1>0, IndexNext, NoneIsNoSlot DEF TypeOK
  <2> QED
    BY <1>0, <1>4, <2>1, LapKept
    DEF take_index, incremented_index, TypeOK, shared
<1>5. ASSUME NEW p \in Producers, write_metadata(p) PROVE LapOrder'
  BY <1>0, <1>5, LapKept DEF write_metadata, TypeOK, ctx
<1>6. ASSUME NEW p \in Producers, write_quantity(p) PROVE LapOrder'
  BY <1>0, <1>6, LapKept DEF write_quantity, Reaches, TypeOK, ctx
<1>7. ASSUME NEW p \in Producers, commit(p) PROVE LapOrder'
  BY <1>7, CommitLap
<1>8. ASSUME NEW p \in Producers, release(p) PROVE LapOrder'
  BY <1>0, <1>8, LapKept DEF release, TypeOK
<1>9. ASSUME NEW p \in Producers, out_of_sequence(p) PROVE LapOrder'
  BY <1>0, <1>9, LapKept DEF out_of_sequence, TypeOK, shared, ctx
<1>10. CASE UNCHANGED vars
  BY <1>10, LapKept DEF vars, shared, ctx, local
<1> QED
  BY <1>1, <1>2, <1>3, <1>4, <1>5, <1>6, <1>7, <1>8, <1>9, <1>10
  DEF Next, Proceed, ClientsDone

\* On any ring and with any producers, the counters tell one lap from the
\* next: what shd_end_read compares them for.
THEOREM LapsInOrder == Spec => []LapOrder
  BY InitLap, NextLap, WriteInvHolds, PTL DEF Spec

-----------------------------------------------------------------------------
(* Remainders *)

\* What the remainder by the size of the ring tells of a count.
LEMMA WholeLaps ==
  ASSUME NEW k \in Int, NEW a \in Nat, a = k * NbSamples
  PROVE  a % NbSamples = 0
  BY NbSamplesAssumption

\* The converse: a count of remainder 0 is one of whole laps.
LEMMA LapsOf ==
  ASSUME NEW a \in Nat, a % NbSamples = 0
  PROVE  \E m \in Int : a = m * NbSamples
<1>1. a = NbSamples * (a \div NbSamples) + (a % NbSamples) /\ a \div NbSamples \in Int
  BY NbSamplesAssumption
<1>2. a = (a \div NbSamples) * NbSamples
  BY <1>1, NbSamplesAssumption
<1> QED BY <1>1, <1>2

\* Two slots apart by whole laps are one.
LEMMA SameSlot ==
  ASSUME NEW s \in Slots, NEW t \in Slots, NEW j \in Int, NEW k \in Int,
         s + j * NbSamples = t + k * NbSamples
  PROVE  s = t
<1>1. (k - j) * NbSamples = k * NbSamples - j * NbSamples
  BY NbSamplesAssumption
<1>2. /\ (k - j) * NbSamples < NbSamples /\ (k - j) * NbSamples > -NbSamples
      /\ k * NbSamples \in Int /\ j * NbSamples \in Int
  BY <1>1, NbSamplesAssumption DEF Slots
<1>3. k - j = 0
  BY <1>2, NbSamplesAssumption
<1> QED BY <1>1, <1>3, <1>2, NbSamplesAssumption DEF Slots

\* One slot further, and perhaps one lap.
LEMMA NextSlot ==
  ASSUME NEW w \in Slots, NEW a \in Nat, NEW k \in Int, a = w + k * NbSamples
  PROVE  \E m \in Int : a + 1 = index_next(w) + m * NbSamples
<1>1. (k + 1) * NbSamples = k * NbSamples + NbSamples /\ k * NbSamples \in Int
  BY NbSamplesAssumption
<1>2. index_next(w) = IF w = NbSamples - 1 THEN 0 ELSE w + 1
  BY IndexNext
<1>3. CASE w = NbSamples - 1
  <2>1. a + 1 = index_next(w) + (k + 1) * NbSamples
    BY <1>1, <1>2, <1>3, NbSamplesAssumption
  <2> QED BY <2>1
<1>4. CASE w # NbSamples - 1
  <2>1. a + 1 = index_next(w) + k * NbSamples
    BY <1>1, <1>2, <1>4, NbSamplesAssumption DEF Slots
  <2> QED BY <2>1
<1> QED BY <1>3, <1>4

-----------------------------------------------------------------------------
(* Faults *)

\* write_index is where the last commit of p and those of the others since
\* have brought it: the ring remembers them, up to whole laps.
Follows(p) ==
  \E k \in Int : prev_index[p] + foreign[p] = write_index + k * NbSamples

\* What makes the check of take_index exact.
Accounted(p) ==
  /\ prev_index[p] # -1 => write_index # -1
  /\ pc[p] = "release" => foreign[p] = 0
  /\ prev_index[p] # -1 /\ pc[p] # "release" => Follows(p)
  /\ Passed(p) /\ prev_index[p] # -1 => foreign[p] % NbSamples = 0
  /\ Faulted(p) /\ ret[p] = "EFAULT" /\ NbSamples > 1 => foreign[p] % NbSamples # 0

FaultInv == \A p \in Producers : Accounted(p)

\* It holds before any write.
LEMMA InitFault == Init => FaultInv
  BY DEF Init, FaultInv, Accounted, Passed, Faulted

\* unexpected_samples is 0 exactly when the last commit was that of the
\* context, but on a ring of one slot.
LEMMA UnexpectedSamples ==
  ASSUME NEW prev \in Slots, NEW w \in Slots
  PROVE  /\ unexpected_samples(prev, index_next(w)) > 0 \/ prev = w
         /\ NbSamples > 1 /\ prev = w => ~(unexpected_samples(prev, index_next(w)) > 0)
<1> DEFINE n == interval_between(prev, index_next(w))
<1>1. index_next(w) = IF w = NbSamples - 1 THEN 0 ELSE w + 1
  BY IndexNext
<1>2. n \in 0 .. NbSamples - 1 /\ (n = 1 <=> NbSamples > 1 /\ prev = w)
  BY <1>1, NbSamplesAssumption DEF interval_between, Slots
<1>3. (0 - 1) % UintMod = UintMod - 1 /\ UintMod > 1
  BY UintModAssumption, NbSamplesAssumption
<1>4. CASE n = 0
  BY <1>2, <1>3, <1>4, NbSamplesAssumption, UintModAssumption DEF unexpected_samples
<1>5. CASE n > 0
  <2>1. (n - 1) % UintMod = n - 1
    BY <1>2, <1>5, UintModAssumption, NbSamplesAssumption
  <2> QED BY <1>2, <1>5, <2>1, NbSamplesAssumption DEF unexpected_samples
<1> QED BY <1>2, <1>4, <1>5

\* Hence a write that passes the check missed whole laps of the others, and a
\* write that does not missed something else.
LEMMA CheckedCount ==
  ASSUME TypeOK, NEW p \in Producers, prev_index[p] # -1, write_index # -1, Follows(p)
  PROVE  IF unexpected_samples(prev_index[p], index_next(write_index)) > 0
         THEN NbSamples > 1 => foreign[p] % NbSamples # 0
         ELSE foreign[p] % NbSamples = 0
<1>1. prev_index[p] \in Slots /\ write_index \in Slots /\ foreign[p] \in Nat
  BY DEF TypeOK
<1>2. PICK k \in Int : prev_index[p] + foreign[p] = write_index + k * NbSamples
  BY DEF Follows
<1>3. k * NbSamples \in Int
  BY <1>2, NbSamplesAssumption
<1>4. CASE unexpected_samples(prev_index[p], index_next(write_index)) > 0
  <2> SUFFICES ASSUME NbSamples > 1, foreign[p] % NbSamples = 0 PROVE FALSE
    BY <1>4
  <2>1. prev_index[p] # write_index
    BY <1>1, <1>4, UnexpectedSamples
  <2>2. PICK m \in Int : foreign[p] = m * NbSamples
    BY <1>1, LapsOf
  <2>3. prev_index[p] = write_index
    BY <1>1, <1>2, <2>2, SameSlot
  <2> QED BY <2>1, <2>3
<1>5. CASE ~(unexpected_samples(prev_index[p], index_next(write_index)) > 0)
  <2>1. prev_index[p] = write_index
    BY <1>1, <1>5, UnexpectedSamples
  <2>2. foreign[p] = k * NbSamples
    BY <1>1, <1>2, <1>3, <2>1 DEF Slots
  <2>3. foreign[p] % NbSamples = 0
    BY <1>1, <2>2, WholeLaps
  <2> QED BY <1>5, <2>3
<1> QED BY <1>4, <1>5

\* The steps that commit nothing, and neither pass the check nor fail it.
LEMMA AccountKept ==
  ASSUME FaultInv, UNCHANGED <<write_index, prev_index, foreign>>,
         \A q \in Producers :
           /\ pc'[q] = "release" <=> pc[q] = "release"
           /\ Passed(q)' => Passed(q)
           /\ Faulted(q)' /\ ret'[q] = "EFAULT" => Faulted(q) /\ ret[q] = "EFAULT"
  PROVE  FaultInv'
  BY DEF FaultInv, Accounted, Follows

\* A commit is one more of the others for every producer but one.
LEMMA CommitAccount ==
  ASSUME WriteInv, FaultInv, NEW p \in Producers, commit(p)
  PROVE  FaultInv'
<1>0. TypeOK
  BY DEF WriteInv
<1>1. /\ pc[p] \in {"idle", "commit"} /\ index[p] # -1
      /\ pc' = [pc EXCEPT ![p] = "release"] /\ write_index' = index[p]
      /\ foreign' = [q \in Producers |-> IF q = p THEN 0 ELSE foreign[q] + 1]
      /\ UNCHANGED <<ret, index, prev_index>>
  BY DEF commit, Reaches, ctx, Goto
<1>2. write_index' = index_next(write_index) /\ write_index' # -1
  BY <1>1 DEF WriteInv, OneSlotPerWrite
<1>3. Accounted(p)'
  BY <1>0, <1>1, <1>2 DEF Accounted, Passed, Faulted, TypeOK
<1>4. ASSUME NEW q \in Producers, q # p PROVE Accounted(q)'
  <2>1. ~Holds(q)
    BY <1>1, <1>4 DEF Holds, WriteInv, OneWriter
  <2>2. index[q] = -1 /\ pc[q] # "release" /\ ~Passed(q)
    BY <2>1 DEF Holds, WriteInv, OneSlotPerWrite
  <2>3. pc'[q] = pc[q] /\ foreign'[q] = foreign[q] + 1 /\ index'[q] = -1
    BY <1>0, <1>1, <1>4, <2>2 DEF TypeOK
  <2>4. ASSUME prev_index[q] # -1 PROVE Follows(q)'
    <3>1. Follows(q) /\ write_index \in Slots /\ prev_index[q] \in Slots
      BY <1>0, <2>2, <2>4 DEF FaultInv, Accounted, TypeOK
    <3>2. foreign[q] \in Nat /\ prev_index[q] + foreign[q] \in Nat
      BY <1>0, <3>1 DEF TypeOK, Slots
    <3>3. \E m \in Int :
            prev_index[q] + foreign[q] + 1 = index_next(write_index) + m * NbSamples
      BY <3>1, <3>2, NextSlot DEF Follows
    <3>4. prev_index'[q] + foreign'[q] = prev_index[q] + foreign[q] + 1
      BY <1>1, <2>3, <3>1, <3>2 DEF Slots
    <3> QED BY <1>2, <3>3, <3>4 DEF Follows
  <2> QED
    BY <1>1, <1>2, <2>2, <2>3, <2>4 DEF Accounted, Passed, Faulted
<1> QED BY <1>3, <1>4 DEF FaultInv

\* Releasing the section makes the commit the last one of its producer.
LEMMA ReleaseAccount ==
  ASSUME WriteInv, FaultInv, NEW p \in Producers, release(p)
  PROVE  FaultInv'
<1>0. TypeOK
  BY DEF WriteInv
<1>1. /\ pc[p] = "release" /\ pc' = [pc EXCEPT ![p] = "idle"]
      /\ ret' = [ret EXCEPT ![p] = "OK"]
      /\ prev_index' = [prev_index EXCEPT ![p] = index[p]]
      /\ index' = [index EXCEPT ![p] = -1]
      /\ UNCHANGED <<write_index, foreign>>
  BY DEF release, Return, ghosts
<1>2. index[p] # -1 /\ index[p] = write_index /\ foreign[p] = 0 /\ index[p] \in Slots
  BY <1>0, <1>1 DEF WriteInv, OneSlotPerWrite, FaultInv, Accounted, TypeOK
<1>3. Accounted(p)'
  <2>1. prev_index'[p] + foreign'[p] = write_index' + 0 * NbSamples
    BY <1>0, <1>1, <1>2, NbSamplesAssumption DEF TypeOK, Slots
  <2>2. Follows(p)'
    BY <2>1 DEF Follows
  <2> QED
    BY <1>0, <1>1, <1>2, <2>2 DEF Accounted, Passed, Faulted, TypeOK
<1>4. ASSUME NEW q \in Producers, q # p PROVE Accounted(q)'
  BY <1>0, <1>1, <1>4 DEF FaultInv, Accounted, Follows, Passed, Faulted, TypeOK
<1> QED BY <1>3, <1>4 DEF FaultInv

\* The check of take_index counts right.
LEMMA TakeAccount ==
  ASSUME WriteInv, FaultInv, NEW p \in Producers, take_index(p)
  PROVE  FaultInv'
<1>0. TypeOK
  BY DEF WriteInv
<1>1. pc[p] = "take_index" /\ UNCHANGED <<write_index, prev_index, foreign>>
  BY DEF take_index, shared, ghosts
<1>2. ASSUME NEW q \in Producers, q # p PROVE Accounted(q)'
  BY <1>0, <1>1, <1>2
  DEF take_index, Goto, Return, FaultInv, Accounted, Follows, Passed, Faulted, TypeOK
<1>3. CASE prev_index[p] = -1
  BY <1>0, <1>1, <1>2, <1>3
  DEF take_index, Goto, Return, FaultInv, Accounted, Passed, Faulted, TypeOK
<1>4. CASE prev_index[p] # -1
  <2>1. Follows(p) /\ write_index # -1
    BY <1>1, <1>4 DEF FaultInv, Accounted
  <2>2. Follows(p)'
    BY <1>1, <2>1 DEF Follows
  <2>3. IF unexpected_samples(prev_index[p], index_next(write_index)) > 0
        THEN /\ NbSamples > 1 => foreign[p] % NbSamples # 0
             /\ pc'[p] = "idle"
        ELSE foreign[p] % NbSamples = 0 /\ pc'[p] = "write_metadata"
    BY <1>0, <1>4, <2>1, CheckedCount
    DEF take_index, incremented_index, Goto, Return, TypeOK
  <2>4. Accounted(p)'
    BY <1>1, <2>1, <2>2, <2>3 DEF Accounted, Passed, Faulted
  <2> QED BY <1>2, <2>4 DEF FaultInv
<1> QED BY <1>3, <1>4

\* Every step keeps the account.
LEMMA NextFault ==
  ASSUME WriteInv, FaultInv, [Next]_vars
  PROVE  FaultInv'
<1>0. TypeOK
  BY DEF WriteInv
<1> USE DEF Goto, Return, Passed, Faulted
<1>1. ASSUME NEW p \in Producers, start_write_session(p) PROVE FaultInv'
  BY <1>0, <1>1, AccountKept
  DEF start_write_session, GrantSession, RefuseSession, TypeOK, ctx
<1>2. ASSUME NEW p \in Producers, get_next_write_index(p) PROVE FaultInv'
  BY <1>0, <1>2, AccountKept DEF get_next_write_index, TypeOK, shared, ctx, ghosts
<1>3. ASSUME NEW p \in Producers, invalidate(p) PROVE FaultInv'
  BY <1>0, <1>3, AccountKept DEF invalidate, TypeOK, ctx, ghosts
<1>4. ASSUME NEW p \in Producers, take_index(p) PROVE FaultInv'
  BY <1>4, TakeAccount
<1>5. ASSUME NEW p \in Producers, write_metadata(p) PROVE FaultInv'
  BY <1>0, <1>5, AccountKept DEF write_metadata, TypeOK, ctx, ghosts
<1>6. ASSUME NEW p \in Producers, write_quantity(p) PROVE FaultInv'
  BY <1>0, <1>6, AccountKept DEF write_quantity, Reaches, TypeOK, ctx, ghosts
<1>7. ASSUME NEW p \in Producers, commit(p) PROVE FaultInv'
  BY <1>7, CommitAccount
<1>8. ASSUME NEW p \in Producers, release(p) PROVE FaultInv'
  BY <1>8, ReleaseAccount
<1>9. ASSUME NEW p \in Producers, out_of_sequence(p) PROVE FaultInv'
  BY <1>0, <1>9, AccountKept DEF out_of_sequence, TypeOK, shared, ctx, ghosts
<1>10. CASE UNCHANGED vars
  BY <1>10, AccountKept DEF vars, shared, ctx, local, ghosts
<1> QED
  BY <1>1, <1>2, <1>3, <1>4, <1>5, <1>6, <1>7, <1>8, <1>9, <1>10
  DEF Next, Proceed, ClientsDone

\* On any ring and with any producers, a write that goes through missed whole
\* laps of the others, most often none.
THEOREM PassedMissedWholeLaps == Spec => []NoFaultMeansWholeLaps
<1>1. FaultInv => NoFaultMeansWholeLaps
  BY DEF FaultInv, Accounted, NoFaultMeansWholeLaps
<1> QED BY InitFault, NextFault, WriteInvHolds, <1>1, PTL DEF Spec

\* And one that is told -EFAULT missed commits of the others, on a ring of at
\* least two slots.
THEOREM FaultsAreForeign ==
  ASSUME NbSamples > 1 PROVE Spec => []FaultMeansForeignWrite
<1>1. FaultInv => FaultMeansForeignWrite
  BY DEF FaultInv, Accounted, FaultMeansForeignWrite
<1> QED BY InitFault, NextFault, WriteInvHolds, <1>1, PTL DEF Spec

\* Clients that write by shd_write_new_blob alone never publish again once one
\* of them is told -EFAULT, and are never granted the section again.
THEOREM FaultStopsAll ==
  ASSUME Api \cap {"shd_write_quantity", "shd_commit_sample"} = {}
  PROVE  Spec => FaultStopsTheRing
<1> DEFINE Stop == \A p \in Producers : Faulted(p) => Faulted(p)' /\ UNCHANGED write_index
<1>1. ASSUME WriteInv, [Next]_vars PROVE Stop
  <2> SUFFICES ASSUME NEW p \in Producers, Faulted(p)
               PROVE  Faulted(p)' /\ UNCHANGED write_index
    OBVIOUS
  <2>0. TypeOK
    BY <1>1 DEF WriteInv
  <2>1. pc[p] = "idle" /\ index[p] # -1
    BY DEF Faulted
  <2>2. \A q \in Producers : Holds(q) <=> q = p
    BY <1>1, <2>1 DEF Holds, WriteInv, OneWriter
  <2>3. \A q \in Producers : q # p => pc[q] = "idle" /\ index[q] = -1
    BY <1>1, <2>0, <2>2
    DEF Holds, Starts, WriteInv, OneSlotPerWrite, Passed, TypeOK, Steps
  <2>4. \A q \in Producers : pc[q] = "idle"
    BY <2>1, <2>3
  <2>5. nb_ongoing_writes > 0
    BY <1>1, <2>2 DEF WriteInv, SectionHeld
  <2>6. \A q \in Producers : ~Proceed(q)
    BY <2>4 DEF Proceed, get_next_write_index, invalidate, take_index,
                write_metadata, write_quantity, commit, release, Reaches
  <2>7. \A q \in Producers : ~out_of_sequence(q)
    BY DEF out_of_sequence
  <2>8. ASSUME NEW q \in Producers, start_write_session(q)
        PROVE  Faulted(p)' /\ UNCHANGED write_index
    <3>1. RefuseSession(q)
      BY <2>0, <2>5, <2>8 DEF start_write_session, GrantSession, TypeOK
    <3>2. pc' = [pc EXCEPT ![q] = "idle"] /\ UNCHANGED <<write_index, index>>
      BY <2>8, <3>1 DEF start_write_session, RefuseSession, Return, ctx
    <3> QED BY <2>0, <2>1, <3>2 DEF Faulted, TypeOK
  <2>9. CASE UNCHANGED vars
    BY <2>9 DEF vars, shared, ctx, local, Faulted
  <2> QED BY <1>1, <2>6, <2>7, <2>8, <2>9 DEF Next, ClientsDone
<1>2. Spec => [][Stop]_vars
  BY <1>1, WriteInvHolds, PTL DEF Spec
<1> QED BY <1>2 DEF FaultStopsTheRing

-----------------------------------------------------------------------------
(* The index arithmetic *)

\* Any offset from any position leads to a slot.
LEMMA Circular ==
  ASSUME NEW i \in Int, NEW n \in Int
  PROVE  index_n_before(i, n) \in Slots /\ index_n_after(i, n) \in Slots
BY NbSamplesAssumption, SMT DEF index_n_before, index_n_after, Slots

\* Going n back, or n on, from a slot, for less than a lap.
LEMMA Offsets ==
  ASSUME NEW i \in Slots, NEW n \in 0 .. NbSamples - 1
  PROVE  /\ index_n_before(i, n) = IF n <= i THEN i - n ELSE i + NbSamples - n
         /\ index_n_after(i, n) = IF i + n < NbSamples THEN i + n ELSE i + n - NbSamples
<1>1. NbSamples \in Nat \ {0} /\ i \in 0 .. NbSamples - 1
  BY NbSamplesAssumption DEF Slots
<1>2. i + NbSamples - n \in Int /\ i + n \in Int
  BY <1>1
<1>3. (i + NbSamples - n) % NbSamples = IF n <= i THEN i - n ELSE i + NbSamples - n
  BY <1>1, <1>2, SMT
<1>4. (i + n) % NbSamples = IF i + n < NbSamples THEN i + n ELSE i + n - NbSamples
  BY <1>1, <1>2, SMT
<1> QED BY <1>3, <1>4 DEF index_n_before, index_n_after

\* Two slots are less than a lap apart, either way.
LEMMA Intervals ==
  ASSUME NEW i \in Slots, NEW j \in Slots
  PROVE  /\ interval_between(i, j) \in 0 .. NbSamples - 1
         /\ interval_between(index_next(i), j) + interval_between(j, i) = NbSamples - 1
         /\ interval_between(index_next(i), j) \in 0 .. NbSamples - 1
BY NbSamplesAssumption, IndexNext, SMT DEF interval_between, Slots

\* Going there and back again.
LEMMA Back ==
  ASSUME NEW i \in Slots, NEW n \in 0 .. NbSamples - 1
  PROVE  /\ interval_between(index_n_before(i, n), i) = n
         /\ interval_between(i, index_n_after(i, n)) = n
<1>1. i \in 0 .. NbSamples - 1 /\ NbSamples \in Nat
  BY NbSamplesAssumption DEF Slots
<1> QED BY <1>1, Offsets DEF interval_between

\* Intervals add up, within a lap.
LEMMA Along ==
  ASSUME NEW i \in Slots, NEW j \in Slots, NEW k \in Slots,
         interval_between(i, j) + interval_between(j, k) <= NbSamples - 1
  PROVE  interval_between(i, k) = interval_between(i, j) + interval_between(j, k)
BY NbSamplesAssumption DEF interval_between, Slots

-----------------------------------------------------------------------------
(* What the producers never take back *)

\* Counters only grow, and the ring is never empty again.
LEMMA Growing ==
  ASSUME WriteInv, [Next]_vars
  PROVE  /\ \A s \in Slots : nb_writes[s] <= nb_writes'[s]
         /\ write_index # -1 => write_index' # -1
<1>1. TypeOK
  BY DEF WriteInv
<1>2. ASSUME NEW p \in Producers, invalidate(p) PROVE \A s \in Slots : nb_writes[s] <= nb_writes'[s]
  <2>1. nb_writes' = [nb_writes EXCEPT ![curr_sample[p]] = @ + 1]
    BY <1>2 DEF invalidate
  <2> QED BY <1>1, <2>1 DEF TypeOK
<1>3. ASSUME NEW p \in Producers, commit(p) PROVE write_index' # -1
  BY <1>3 DEF commit
<1>4. (\E p \in Producers : invalidate(p)) \/ UNCHANGED nb_writes
  BY DEF Next, Proceed, ClientsDone, vars, shared, start_write_session,
         get_next_write_index, take_index, write_metadata, write_quantity, commit,
         release, out_of_sequence
<1>5. (\E p \in Producers : commit(p)) \/ UNCHANGED write_index
  BY DEF Next, Proceed, ClientsDone, vars, shared, start_write_session,
         get_next_write_index, take_index, write_metadata, write_quantity, invalidate,
         release, out_of_sequence
<1>6. \A s \in Slots : nb_writes[s] <= nb_writes[s]
  BY <1>1 DEF TypeOK
<1> QED BY <1>2, <1>3, <1>4, <1>5, <1>6

\* The last committed slot is valid.
LastValid == write_index # -1 => nb_writes[write_index] # -1

\* It always is: a commit stores the slot whose counter was incremented.
LEMMA LastValidHolds == Spec => []LastValid
<1>1. Init => LastValid
  BY DEF Init, LastValid
<1>2. ASSUME WriteInv, LastValid, [Next]_vars PROVE LastValid'
  <2>1. TypeOK /\ TypeOK'
    BY <1>2, NextTypeOK DEF WriteInv
  <2>2. CASE UNCHANGED write_index
    BY <1>2, <2>1, <2>2, Growing DEF LastValid, TypeOK
  <2>3. ASSUME NEW p \in Producers, commit(p) PROVE LastValid'
    <3>1. index[p] # -1 /\ write_index' = index[p] /\ nb_writes' = nb_writes
      BY <2>3 DEF commit
    <3>2. index[p] = curr_sample[p] /\ nb_writes[curr_sample[p]] >= 0
      BY <1>2, <3>1 DEF WriteInv, OneSlotPerWrite
    <3> QED BY <3>1, <3>2 DEF LastValid
  <2> QED
    BY <1>2, <2>2, <2>3
    DEF Next, Proceed, ClientsDone, vars, shared, start_write_session,
        get_next_write_index, take_index, write_metadata, write_quantity, invalidate,
        release, out_of_sequence
<1> QED BY <1>1, <1>2, WriteInvHolds, PTL DEF Spec

-----------------------------------------------------------------------------
(* The ranks of the samples, when clients write with shd_write_new_blob: an  *)
(* invariant of the producers alone.                                         *)

\* The two words of a sample.
Word == {"metadata", "blob"}

\* A session is going on that has not published its sample.
Underway == \E p \in Producers : Holds(p) /\ pc[p] # "release"

\* The number of samples published.
Committed == IF Underway THEN sessions - 1 ELSE sessions

\* The slot was published once and is not being written again.
Whole(s) ==
  nb_writes[s] # -1 /\ (s = index_next(write_index) => \A p \in Producers : ~Writing(p))

\* The holder writes its rank; a whole slot has the rank its distance to the
\* latest tells, in both words, and all the slots since are valid.
RankInv ==
  /\ \A p \in Producers :
       /\ Holds(p) => payload[p] = sessions
       /\ pc[p] \in {"write_quantity", "commit"} => samples[index[p]].metadata = sessions
       /\ pc[p] = "commit" => samples[index[p]].blob = sessions
  /\ \A s \in Slots : Whole(s) =>
       /\ write_index # -1
       /\ samples[s].metadata = Committed - interval_between(s, write_index)
       /\ samples[s].blob = samples[s].metadata
       /\ \A t \in Slots :
            interval_between(t, write_index) <= interval_between(s, write_index)
              => nb_writes[t] # -1
  /\ \A s \in Slots : samples[s].metadata <= sessions /\ samples[s].blob <= sessions

\* No slot is valid at the start.
LEMMA InitRank == Init => RankInv
<1> SUFFICES ASSUME Init PROVE RankInv
  OBVIOUS
<1>1. \A s \in Slots : nb_writes[s] = -1 /\ samples[s] = Empty
  BY DEF Init
<1>2. \A p \in Producers : pc[p] = "idle" /\ ~Holds(p)
  BY DEF Init, Holds, Starts
<1> QED BY <1>1, <1>2 DEF Init, RankInv, Whole, Empty

\* A step that moves no index, no counter and no sample, and under which the
\* holders stay as they are.
LEMMA RankKept ==
  ASSUME RankInv, UNCHANGED <<write_index, nb_writes, samples, sessions, payload>>,
         \A q \in Producers :
           /\ Holds(q)' <=> Holds(q)
           /\ pc'[q] = "release" <=> pc[q] = "release"
           /\ Writing(q) => Writing(q)'
           /\ pc'[q] \in {"write_quantity", "commit"} => pc'[q] = pc[q] /\ index'[q] = index[q]
  PROVE  RankInv'
<1>1. Underway' <=> Underway
  BY DEF Underway
<1>2. Committed' = Committed
  BY <1>1 DEF Committed
<1>3. \A s \in Slots : Whole(s)' => Whole(s)
  BY DEF Whole
<1>4. \A q \in Producers :
        /\ (Holds(q) => payload[q] = sessions)'
        /\ (pc[q] \in {"write_quantity", "commit"} => samples[index[q]].metadata = sessions)'
        /\ (pc[q] = "commit" => samples[index[q]].blob = sessions)'
  BY DEF RankInv
<1> QED BY <1>2, <1>3, <1>4 DEF RankInv

\* A grant opens a session over a ring at rest.
LEMMA GrantRank ==
  ASSUME WriteInv, RankInv, NEW p \in Producers, start_write_session(p), GrantSession(p)
  PROVE  RankInv'
<1>0. TypeOK /\ UNCHANGED <<write_index, nb_writes, samples, index>>
  BY DEF WriteInv, start_write_session, ctx
<1>1. /\ nb_ongoing_writes = 0 /\ sessions' = sessions + 1 /\ pc[p] = "idle"
      /\ payload' = [payload EXCEPT ![p] = sessions + 1]
      /\ pc' = [pc EXCEPT ![p] = "get_next_write_index"]
  BY <1>0 DEF TypeOK, start_write_session, GrantSession, Goto
<1>2. \A q \in Producers : ~Holds(q)
  BY <1>1 DEF WriteInv, SectionHeld
<1>3. \A q \in Producers : pc[q] \notin {"write_quantity", "commit", "release"}
  BY <1>2 DEF WriteInv, OneSlotPerWrite, Passed, Holds
<1>4. \A q \in Producers : /\ Holds(q)' <=> q = p
                           /\ pc'[q] \notin {"write_quantity", "commit", "release"}
  BY <1>0, <1>1, <1>2, <1>3 DEF TypeOK, Holds, Starts
<1>5. \A q \in Producers : Writing(q)' <=> Writing(q)
  BY <1>0, <1>1, <1>2 DEF TypeOK, Writing, Holds, Starts
<1>6. ~Underway /\ Underway'
  BY <1>2, <1>4 DEF Underway
<1>7. Committed' = Committed
  BY <1>0, <1>1, <1>6 DEF Committed, TypeOK
<1>8. \A s \in Slots : Whole(s)' => Whole(s)
  BY <1>0, <1>5 DEF Whole
<1>9. \A s \in Slots : /\ samples[s].metadata <= sessions + 1
                       /\ samples[s].blob <= sessions + 1
  <2>1. \A s \in Slots : /\ samples[s].metadata \in Nat /\ samples[s].blob \in Nat
                         /\ samples[s].metadata <= sessions /\ samples[s].blob <= sessions
    BY <1>0 DEF TypeOK, Contents, RankInv
  <2> QED BY <1>0, <2>1 DEF TypeOK
<1>10. payload'[p] = sessions'
  BY <1>0, <1>1 DEF TypeOK
<1> QED BY <1>0, <1>1, <1>4, <1>7, <1>8, <1>9, <1>10 DEF RankInv

\* A store fills one word of the slot being written, which no reader counts on.
LEMMA StoreRank ==
  ASSUME WriteInv, RankInv, NEW p \in Producers, NEW word \in Word, store(p, word),
         UNCHANGED <<write_index, nb_writes, index, sessions, payload>>,
         NEW next \in {"write_quantity", "commit", "idle"},
         pc[p] = (IF word = "metadata" THEN "write_metadata" ELSE "write_quantity"),
         next = "write_quantity" => word = "metadata",
         next = "commit" => word = "blob",
         pc' = [pc EXCEPT ![p] = next]
  PROVE  RankInv'
<1>0. TypeOK /\ index[p] # -1 /\ index[p] \in Slots
  BY DEF WriteInv, OneSlotPerWrite, Passed, TypeOK
<1>1. Holds(p) /\ Writing(p) /\ pc[p] # "release"
  BY <1>0 DEF Holds, Writing
<1>2. \A q \in Producers : Holds(q) <=> q = p
  BY <1>1, OneWriting
<1>3. \A q \in Producers : Holds(q)' <=> Holds(q)
  BY <1>0, <1>1 DEF TypeOK, Holds, Starts
<1>4. Writing(p)' /\ \A q \in Producers : Writing(q) => q = p
  BY <1>0, <1>2 DEF TypeOK, Writing, Holds, Starts
<1>5. Underway' /\ Underway
  BY <1>0, <1>1, <1>3 DEF TypeOK, Underway
<1>6. Committed' = Committed
  BY <1>5 DEF Committed
<1>7. payload[p] = sessions /\ index[p] = index_next(write_index)
  BY <1>0, <1>1 DEF RankInv, WriteInv, OneSlotPerWrite
<1>8. /\ samples'[index[p]][word] = sessions
      /\ \A v \in Word \ {word} : samples'[index[p]][v] = samples[index[p]][v]
      /\ \A s \in Slots \ {index[p]} : samples'[s] = samples[s]
  BY <1>0, <1>7 DEF store, TypeOK, Contents, Word
<1>9. ASSUME NEW s \in Slots, Whole(s)' PROVE Whole(s) /\ s # index[p]
  BY <1>4, <1>7, <1>9 DEF Whole
<1>10. ASSUME NEW s \in Slots, Whole(s)'
       PROVE  /\ write_index # -1
              /\ samples'[s].metadata = Committed' - interval_between(s, write_index)
              /\ samples'[s].blob = samples'[s].metadata
              /\ \A t \in Slots :
                   interval_between(t, write_index) <= interval_between(s, write_index)
                     => nb_writes[t] # -1
  BY <1>6, <1>8, <1>9, <1>10 DEF RankInv
<1>11. ASSUME NEW s \in Slots
       PROVE  samples'[s].metadata <= sessions /\ samples'[s].blob <= sessions
  <2>1. samples[s].metadata <= sessions /\ samples[s].blob <= sessions /\ sessions <= sessions
    BY <1>0 DEF RankInv, TypeOK
  <2>2. CASE word = "metadata"
    BY <1>8, <2>1, <2>2 DEF Word
  <2>3. CASE word = "blob"
    BY <1>8, <2>1, <2>3 DEF Word
  <2> QED BY <2>2, <2>3 DEF Word
<1>12. ASSUME NEW q \in Producers
       PROVE  /\ Holds(q)' => payload[q] = sessions
              /\ pc'[q] \in {"write_quantity", "commit"} => samples'[index[q]].metadata = sessions
              /\ pc'[q] = "commit" => samples'[index[q]].blob = sessions
  <2>1. Holds(q)' => payload[q] = sessions
    BY <1>3 DEF RankInv
  <2>2. CASE q # p
    <3>1. pc'[q] \notin {"write_quantity", "commit"}
      BY <1>0, <1>2, <2>2 DEF TypeOK, WriteInv, OneSlotPerWrite, Passed, Holds
    <3> QED BY <2>1, <3>1
  <2>3. CASE q = p
    <3>1. pc'[p] = next
      BY <1>0 DEF TypeOK
    <3>2. CASE next = "write_quantity"
      BY <1>8, <2>1, <2>3, <3>1, <3>2
    <3>3. CASE next = "commit"
      <4>1. samples[index[p]].metadata = sessions
        BY <3>3 DEF RankInv
      <4> QED BY <1>8, <2>1, <2>3, <3>1, <3>3, <4>1 DEF Word
    <3> QED BY <2>1, <2>3, <3>1, <3>2, <3>3
  <2> QED BY <2>2, <2>3
<1> QED BY <1>10, <1>11, <1>12 DEF RankInv

\* The slot invalidated is not whole any more; the others stay valid.
LEMMA InvalidateRank ==
  ASSUME WriteInv, RankInv, NEW p \in Producers, invalidate(p)
  PROVE  RankInv'
<1>0. TypeOK /\ TypeOK'
  BY NextTypeOK DEF WriteInv, Next, Proceed
<1>1. /\ pc[p] = "invalidate" /\ pc' = [pc EXCEPT ![p] = "take_index"]
      /\ nb_writes' = [nb_writes EXCEPT ![curr_sample[p]] = @ + 1]
      /\ UNCHANGED <<write_index, samples, index, sessions, payload>>
      /\ curr_sample[p] = index_next(write_index)
  BY DEF invalidate, Goto, ctx, ghosts, WriteInv, OneSlotPerWrite
<1>2. \A q \in Producers : Holds(q)' <=> Holds(q)
  BY <1>0, <1>1 DEF TypeOK, Holds, Starts
<1>3. Writing(p)' /\ \A q \in Producers : pc'[q] = "release" <=> pc[q] = "release"
  BY <1>0, <1>1 DEF TypeOK, Writing
<1>4. Underway' <=> Underway
  BY <1>2, <1>3 DEF Underway
<1>5. Committed' = Committed
  BY <1>1, <1>4 DEF Committed
<1>6. \A s \in Slots : nb_writes[s] # -1 => nb_writes'[s] # -1
  <2>1. invalidate(p) => [Next]_vars
    BY DEF Next, Proceed
  <2> QED BY <1>0, <2>1, Growing DEF TypeOK
<1>7. ASSUME NEW s \in Slots, Whole(s)' PROVE Whole(s)
  <2>1. s # index_next(write_index)
    BY <1>1, <1>3, <1>7 DEF Whole
  <2>2. nb_writes'[s] = nb_writes[s]
    BY <1>0, <1>1, <2>1 DEF TypeOK
  <2> QED BY <1>7, <2>1, <2>2 DEF Whole
<1>8. \A q \in Producers : pc'[q] \in {"write_quantity", "commit"} => pc'[q] = pc[q]
  BY <1>0, <1>1 DEF TypeOK
<1> QED BY <1>1, <1>2, <1>5, <1>6, <1>7, <1>8 DEF RankInv

\* One more step away from the latest sample, on the same ring.
LEMMA OneFurther ==
  ASSUME NEW w \in Slots, NEW s \in Slots, s # index_next(w)
  PROVE  interval_between(s, index_next(w)) = interval_between(s, w) + 1
BY NbSamplesAssumption, IndexNext DEF interval_between, Slots

\* A commit publishes the rank of its session and puts the others one further.
LEMMA CommitRank ==
  ASSUME WriteInv, RankInv, NEW p \in Producers, commit(p), pc[p] = "commit"
  PROVE  RankInv'
<1>0. TypeOK /\ TypeOK'
  BY NextTypeOK DEF WriteInv, Next, Proceed
<1>1. /\ pc' = [pc EXCEPT ![p] = "release"] /\ write_index' = index[p]
      /\ UNCHANGED <<nb_writes, samples, index, sessions, payload>> /\ index[p] # -1
  BY DEF commit, Goto, ctx
<1>2. Holds(p) /\ Writing(p) /\ pc[p] # "release"
  BY <1>1 DEF Holds, Writing
<1>3. /\ \A q \in Producers : Holds(q) <=> q = p
      /\ index[p] = index_next(write_index) /\ index[p] \in Slots
      /\ nb_writes[index[p]] # -1
  <2>1. index[p] = curr_sample[p] /\ index[p] \in Slots
    BY <1>0, <1>1 DEF WriteInv, OneSlotPerWrite, TypeOK
  <2> QED BY <1>0, <1>2, <2>1, OneWriting DEF TypeOK
<1>4. \A q \in Producers : Holds(q)' <=> Holds(q)
  BY <1>0, <1>1, <1>2 DEF TypeOK, Holds, Starts
<1>5. \A q \in Producers : ~Writing(q)'
  BY <1>0, <1>1, <1>3 DEF TypeOK, Writing, Holds, Starts
<1>6. Underway /\ ~Underway'
  BY <1>0, <1>1, <1>2, <1>3, <1>4 DEF TypeOK, Underway
<1>7. Committed = sessions - 1 /\ Committed' = sessions /\ sessions \in Nat
  BY <1>0, <1>1, <1>6 DEF Committed, TypeOK
<1>8. samples[index[p]].metadata = sessions /\ samples[index[p]].blob = sessions
  BY DEF RankInv
<1> DEFINE w == index[p]
<1>9. /\ w \in Slots /\ write_index' = w /\ w = index_next(write_index)
      /\ interval_between(w, w) = 0
  BY <1>1, <1>3 DEF interval_between, Slots
<1>10. ASSUME NEW s \in Slots, s # w, Whole(s)'
       PROVE  /\ Whole(s) /\ write_index \in Slots
              /\ interval_between(s, w) = interval_between(s, write_index) + 1
  <2>1. Whole(s)
    BY <1>1, <1>9, <1>10 DEF Whole
  <2>2. write_index \in Slots
    BY <1>0, <2>1 DEF RankInv, TypeOK
  <2> QED BY <1>9, <1>10, <2>1, <2>2, OneFurther
<1>11. ASSUME NEW s \in Slots, Whole(s)'
       PROVE  /\ w # -1
              /\ samples[s].metadata = sessions - interval_between(s, w)
              /\ samples[s].blob = samples[s].metadata
              /\ \A t \in Slots :
                   interval_between(t, w) <= interval_between(s, w) => nb_writes[t] # -1
  <2>1. CASE s = w
    <3>1. ASSUME NEW t \in Slots, interval_between(t, w) <= 0 PROVE t = w
      BY <1>9, <3>1, NbSamplesAssumption DEF interval_between, Slots
    <3> QED BY <1>1, <1>3, <1>7, <1>8, <1>9, <2>1, <3>1
  <2>2. CASE s # w
    <3>1. /\ Whole(s) /\ write_index \in Slots
          /\ interval_between(s, w) = interval_between(s, write_index) + 1
      BY <1>10, <1>11, <2>2
    <3>2. interval_between(s, write_index) \in Nat
      BY <3>1, Intervals
    <3>3. /\ samples[s].metadata = sessions - 1 - interval_between(s, write_index)
          /\ samples[s].blob = samples[s].metadata
      BY <1>7, <3>1 DEF RankInv
    <3>4. ASSUME NEW t \in Slots, interval_between(t, w) <= interval_between(s, w), t # w
          PROVE  nb_writes[t] # -1
      <4>1. interval_between(t, w) = interval_between(t, write_index) + 1
        BY <1>9, <3>1, <3>4, OneFurther
      <4>2. interval_between(t, write_index) \in Nat
        BY <3>1, Intervals
      <4>3. interval_between(t, write_index) <= interval_between(s, write_index)
        BY <3>1, <3>2, <3>4, <4>1, <4>2
      <4> QED BY <3>1, <4>3 DEF RankInv
    <3> QED BY <1>1, <1>3, <1>7, <3>1, <3>2, <3>3, <3>4
  <2> QED BY <2>1, <2>2
<1>12. \A q \in Producers : pc'[q] \notin {"write_quantity", "commit"}
  <2>1. \A q \in Producers : q # p => pc[q] \notin {"write_quantity", "commit"}
    BY <1>3 DEF WriteInv, OneSlotPerWrite, Passed, Holds
  <2> QED BY <1>0, <1>1, <2>1 DEF TypeOK
<1> QED BY <1>1, <1>4, <1>7, <1>9, <1>11, <1>12 DEF RankInv

\* The end of a session leaves the ring as its commit made it.
LEMMA ReleaseRank ==
  ASSUME WriteInv, RankInv, NEW p \in Producers, release(p)
  PROVE  RankInv'
<1>0. TypeOK
  BY DEF WriteInv
<1>1. /\ pc[p] = "release" /\ pc' = [pc EXCEPT ![p] = "idle"]
      /\ index' = [index EXCEPT ![p] = -1]
      /\ UNCHANGED <<write_index, nb_writes, samples, sessions, payload>>
  BY DEF release, Return, ghosts
<1>2. Holds(p)
  BY <1>1 DEF WriteInv, OneSlotPerWrite, Holds
<1>3. \A q \in Producers : Holds(q) => q = p
  BY <1>2 DEF WriteInv, OneWriter
<1>4. \A q \in Producers : ~Holds(q)'
  BY <1>0, <1>1, <1>3 DEF TypeOK, Holds, Starts
<1>5. ~Underway /\ ~Underway'
  BY <1>1, <1>3, <1>4 DEF Underway
<1>6. Committed' = Committed
  BY <1>1, <1>5 DEF Committed
<1>7. \A q \in Producers : ~Writing(q)
  BY <1>1, <1>3 DEF Writing, Holds, Starts
<1>8. \A s \in Slots : Whole(s)' => Whole(s)
  BY <1>1, <1>7 DEF Whole
<1>9. \A q \in Producers : pc'[q] \notin {"write_quantity", "commit"}
  <2>1. \A q \in Producers : q # p => pc[q] \notin {"write_quantity", "commit"}
    BY <1>3 DEF WriteInv, OneSlotPerWrite, Passed, Holds
  <2> QED BY <1>0, <1>1, <2>1 DEF TypeOK
<1> QED BY <1>1, <1>4, <1>6, <1>8, <1>9 DEF RankInv

\* Every step of the producers keeps the ranks, as long as their clients call
\* shd_write_new_blob only: a client of the step-by-step functions may publish
\* a sample it has not filled.
LEMMA NextRank ==
  ASSUME Api \subseteq {"shd_write_new_blob"}, WriteInv, RankInv, [Next]_vars
  PROVE  RankInv'
<1>0. TypeOK
  BY DEF WriteInv
<1> USE DEF Goto, Return
<1>1. ASSUME NEW p \in Producers, start_write_session(p) PROVE RankInv'
  <2>1. CASE GrantSession(p)
    BY <1>1, <2>1, GrantRank
  <2>2. CASE RefuseSession(p)
    <3>1. /\ UNCHANGED <<write_index, nb_writes, samples, index, sessions, payload>>
          /\ pc[p] = "idle" /\ pc' = [pc EXCEPT ![p] = "idle"]
      BY <1>1, <2>2 DEF start_write_session, RefuseSession, ctx
    <3>2. pc' = pc
      BY <1>0, <3>1 DEF TypeOK
    <3>3. \A q \in Producers : (Holds(q)' <=> Holds(q)) /\ (Writing(q) => Writing(q)')
      BY <3>1, <3>2 DEF Holds, Starts, Writing
    <3> QED BY <1>0, <3>1, <3>2, <3>3, RankKept
  <2> QED BY <1>1, <2>1, <2>2 DEF start_write_session
<1>2. ASSUME NEW p \in Producers, get_next_write_index(p) PROVE RankInv'
  <2>1. /\ UNCHANGED <<write_index, nb_writes, samples, index, sessions, payload>>
        /\ pc[p] = "get_next_write_index" /\ index[p] = -1
        /\ pc' = [pc EXCEPT ![p] = "invalidate"]
    BY <1>2 DEF get_next_write_index, WriteInv, OneSlotPerWrite, Starts, shared, ctx, ghosts
  <2>2. \A q \in Producers : (Holds(q)' <=> Holds(q)) /\ (Writing(q) => Writing(q)')
    BY <1>0, <2>1 DEF TypeOK, Holds, Starts, Writing
  <2>3. \A q \in Producers :
          /\ pc'[q] = "release" <=> pc[q] = "release"
          /\ pc'[q] \in {"write_quantity", "commit"} => pc'[q] = pc[q] /\ index'[q] = index[q]
    BY <1>0, <2>1 DEF TypeOK
  <2> QED BY <2>1, <2>2, <2>3, RankKept
<1>3. ASSUME NEW p \in Producers, take_index(p) PROVE RankInv'
  <2>1. /\ UNCHANGED <<write_index, nb_writes, samples, sessions, payload>>
        /\ pc[p] = "take_index"
        /\ pc' = [pc EXCEPT ![p] = "idle"] \/ pc' = [pc EXCEPT ![p] = "write_metadata"]
        /\ index' = [index EXCEPT ![p] = index_next(write_index)]
    BY <1>3 DEF take_index, incremented_index, shared, ghosts
  <2>2. index_next(write_index) # -1
    BY <1>0, IndexNext, NoneIsNoSlot DEF TypeOK
  <2>3. \A q \in Producers : (Holds(q)' <=> Holds(q)) /\ (Writing(q) => Writing(q)')
    BY <1>0, <2>1, <2>2 DEF TypeOK, Holds, Starts, Writing
  <2>4. \A q \in Producers :
          /\ pc'[q] = "release" <=> pc[q] = "release"
          /\ pc'[q] \in {"write_quantity", "commit"} => pc'[q] = pc[q] /\ index'[q] = index[q]
    BY <1>0, <2>1 DEF TypeOK
  <2> QED BY <2>1, <2>3, <2>4, RankKept
<1>4. ASSUME NEW p \in Producers, write_metadata(p) PROVE RankInv'
  <2>1. /\ store(p, "metadata") /\ pc[p] = "write_metadata"
        /\ UNCHANGED <<write_index, nb_writes, index, sessions, payload>>
        /\ pc' = [pc EXCEPT ![p] = "write_quantity"] \/ pc' = [pc EXCEPT ![p] = "idle"]
    BY <1>4 DEF write_metadata, ctx, ghosts
  <2> QED BY <2>1, StoreRank DEF Word
<1>5. ASSUME NEW p \in Producers, write_quantity(p) PROVE RankInv'
  <2>1. pc[p] = "write_quantity"
    BY <1>5 DEF write_quantity, Reaches
  <2>2. /\ store(p, "blob") /\ pc' = [pc EXCEPT ![p] = "commit"]
        /\ UNCHANGED <<write_index, nb_writes, index, sessions, payload>>
    BY <1>5, <2>1 DEF write_quantity, ctx, ghosts
  <2> QED BY <2>1, <2>2, StoreRank DEF Word
<1>6. ASSUME NEW p \in Producers, commit(p) PROVE RankInv'
  <2>1. pc[p] = "commit"
    BY <1>6 DEF commit, Reaches
  <2> QED BY <1>6, <2>1, CommitRank
<1>7. CASE UNCHANGED vars
  <2>1. UNCHANGED <<write_index, nb_writes, samples, index, sessions, payload, pc>>
    BY <1>7 DEF vars, shared, ctx, local, ghosts
  <2>2. \A q \in Producers : (Holds(q)' <=> Holds(q)) /\ (Writing(q)' <=> Writing(q))
    BY <2>1 DEF Holds, Starts, Writing
  <2> QED BY <2>1, <2>2, RankKept
<1>8. \A p \in Producers : ~out_of_sequence(p)
  BY DEF out_of_sequence
<1> QED
  BY <1>1, <1>2, <1>3, <1>4, <1>5, <1>6, <1>7, <1>8, InvalidateRank, ReleaseRank
  DEF Next, Proceed, ClientsDone

\* It holds at all times when clients write whole blobs.
LEMMA RankHolds ==
  ASSUME Api \subseteq {"shd_write_new_blob"} PROVE Spec => []RankInv
<1>1. WriteInv /\ RankInv /\ [Next]_vars => RankInv'
  BY NextRank
<1> QED BY <1>1, InitRank, WriteInvHolds, PTL DEF Spec

-----------------------------------------------------------------------------
(* The ring implements the log *)

\* The slots but the next one written are valid up to the number of samples
\* published, counting back from the latest.
Counted ==
  /\ sessions <= MaxSessions /\ Committed \in Nat
  /\ write_index = -1 => Committed = 0
  /\ \A s \in Slots : s # index_next(write_index) =>
       (nb_writes[s] # -1
          <=> write_index # -1 /\ interval_between(s, write_index) < Committed)

\* The number of samples that readers may count on once k are published.
Kept(k) == IF k < NbSamples - 1 THEN k ELSE NbSamples - 1

\* The log that the ring stands for once k samples are published.
LogOf(k) == [i \in 1 .. Kept(k) |-> Log!Sample(k - Kept(k) + i)]

\* A step that neither begins nor commits a write publishes nothing.
LEMMA CommittedKept ==
  ASSUME UNCHANGED sessions,
         \A q \in Producers : /\ Holds(q)' <=> Holds(q)
                              /\ pc'[q] = "release" <=> pc[q] = "release"
  PROVE  Committed' = Committed
<1>1. Underway' <=> Underway
  BY DEF Underway
<1> QED BY <1>1 DEF Committed

\* A step that publishes nothing may change the counter of the next slot only.
LEMMA CountedKept ==
  ASSUME Counted, UNCHANGED write_index, Committed' = Committed,
         sessions' <= MaxSessions,
         \A s \in Slots : s # index_next(write_index) => nb_writes'[s] = nb_writes[s]
  PROVE  Counted'
BY DEF Counted

\* A commit adds one sample, and the others are one step further.
LEMMA CountCommit ==
  ASSUME WriteInv, Counted, NEW p \in Producers, commit(p)
  PROVE  Counted' /\ Committed' = Committed + 1 /\ Committed' <= MaxSessions
<1>0. TypeOK
  BY DEF WriteInv
<1>1. /\ pc' = [pc EXCEPT ![p] = "release"] /\ write_index' = index[p]
      /\ UNCHANGED <<nb_writes, index, sessions>> /\ index[p] # -1 /\ pc[p] # "release"
  BY DEF commit, Goto, ctx, Reaches
<1>2. Holds(p) /\ Writing(p)
  BY <1>1 DEF Holds, Writing
<1> DEFINE w == index[p]
<1>3. /\ \A q \in Producers : Holds(q) <=> q = p
      /\ w = index_next(write_index) /\ w \in Slots /\ nb_writes[w] # -1
  <2>1. index[p] = curr_sample[p] /\ index[p] \in Slots
    BY <1>0, <1>1 DEF WriteInv, OneSlotPerWrite, TypeOK
  <2> QED BY <1>0, <1>2, <2>1, OneWriting DEF TypeOK
<1>4. \A q \in Producers : Holds(q)' <=> Holds(q)
  BY <1>0, <1>1, <1>2 DEF TypeOK, Holds, Starts
<1>5. Underway /\ ~Underway'
  BY <1>0, <1>1, <1>2, <1>3, <1>4 DEF TypeOK, Underway
<1>6. /\ Committed = sessions - 1 /\ Committed' = sessions /\ sessions \in Nat
      /\ sessions <= MaxSessions /\ Committed \in Nat
  BY <1>0, <1>1, <1>5 DEF Committed, TypeOK, Counted
<1>7. Committed' = Committed + 1
  BY <1>6
<1> HIDE DEF w
<1>8. w # -1 /\ interval_between(w, w) = 0 /\ w \in Slots
  BY <1>1, <1>3 DEF interval_between, Slots, w
<1>9. ASSUME NEW s \in Slots, s # index_next(w)
      PROVE  nb_writes[s] # -1 <=> interval_between(s, w) < Committed'
  <2>1. CASE s = w
    BY <1>3, <1>6, <1>7, <1>8, <2>1
  <2>2. CASE s # w /\ write_index = -1
    <3>1. nb_writes[s] = -1 /\ Committed = 0
      BY <1>3, <2>2 DEF Counted
    <3>2. interval_between(s, w) \in Nat /\ interval_between(s, w) # 0
      BY <1>8, <2>2, Intervals, NbSamplesAssumption DEF interval_between, Slots
    <3> QED BY <1>7, <3>1, <3>2
  <2>3. CASE s # w /\ write_index # -1
    <3>1. write_index \in Slots
      BY <1>0, <2>3 DEF TypeOK
    <3>2. interval_between(s, w) = interval_between(s, write_index) + 1
      BY <1>3, <2>3, <3>1, OneFurther
    <3>3. nb_writes[s] # -1 <=> interval_between(s, write_index) < Committed
      BY <1>3, <2>3 DEF Counted
    <3>4. interval_between(s, write_index) \in Nat
      BY <3>1, Intervals
    <3> QED BY <1>6, <1>7, <3>2, <3>3, <3>4
  <2> QED BY <2>1, <2>2, <2>3
<1>10. write_index' = w /\ nb_writes' = nb_writes /\ sessions' = sessions
  BY <1>1 DEF w
<1> QED BY <1>6, <1>7, <1>8, <1>9, <1>10 DEF Counted

\* Every other step leaves the number of samples published, and their latest.
LEMMA CountStep ==
  ASSUME WriteInv, Counted, [Next]_vars
  PROVE  /\ Counted'
         /\ \/ Committed' = Committed /\ UNCHANGED write_index
            \/ /\ Committed' = Committed + 1 /\ Committed' <= MaxSessions
               /\ write_index' = index_next(write_index)
<1>0. TypeOK /\ TypeOK' /\ sessions <= MaxSessions
  BY NextTypeOK DEF WriteInv, Counted
<1> USE DEF Goto, Return
<1>1. ASSUME NEW p \in Producers, start_write_session(p)
      PROVE  Counted' /\ Committed' = Committed /\ UNCHANGED write_index
  <2>0. UNCHANGED <<write_index, nb_writes, index>>
    BY <1>1 DEF start_write_session, ctx
  <2>1. CASE GrantSession(p)
    <3>1. /\ nb_ongoing_writes = 0 /\ sessions' = sessions + 1 /\ sessions < MaxSessions
          /\ pc[p] = "idle" /\ pc' = [pc EXCEPT ![p] = "get_next_write_index"]
      <4>1. /\ nb_ongoing_writes + 1 = 1 /\ sessions' = sessions + 1
            /\ sessions < MaxSessions
            /\ pc[p] = "idle" /\ pc' = [pc EXCEPT ![p] = "get_next_write_index"]
        BY <1>1, <2>1 DEF start_write_session, GrantSession
      <4>2. nb_ongoing_writes = 0
        BY <1>0, <4>1 DEF TypeOK
      <4> QED BY <4>1, <4>2
    <3>2. \A q \in Producers : ~Holds(q)
      BY <3>1 DEF WriteInv, SectionHeld
    <3>3. Holds(p)' /\ pc'[p] # "release"
      BY <1>0, <3>1 DEF TypeOK, Holds, Starts
    <3>4. ~Underway /\ Underway'
      BY <3>2, <3>3 DEF Underway
    <3>5. Committed' = Committed /\ sessions' <= MaxSessions
      BY <1>0, <3>1, <3>4, BoundsAssumption DEF Committed, TypeOK
    <3> QED BY <2>0, <3>5, CountedKept
  <2>2. CASE RefuseSession(p)
    <3>1. pc[p] = "idle" /\ pc' = [pc EXCEPT ![p] = "idle"] /\ UNCHANGED sessions
      BY <1>1, <2>2 DEF start_write_session, RefuseSession
    <3>2. pc' = pc
      BY <1>0, <3>1 DEF TypeOK
    <3>3. \A q \in Producers : Holds(q)' <=> Holds(q)
      BY <2>0, <3>2 DEF Holds, Starts
    <3>4. Committed' = Committed
      BY <3>1, <3>2, <3>3, CommittedKept
    <3> QED BY <1>0, <2>0, <3>1, <3>4, CountedKept
  <2> QED BY <1>1, <2>1, <2>2 DEF start_write_session
<1>2. ASSUME NEW p \in Producers,
             \/ get_next_write_index(p) \/ take_index(p)
             \/ write_metadata(p) \/ write_quantity(p)
      PROVE  Counted' /\ Committed' = Committed /\ UNCHANGED write_index
  <2>1. UNCHANGED <<write_index, nb_writes, sessions>>
    BY <1>2 DEF get_next_write_index, take_index, write_metadata, write_quantity,
                shared, ghosts
  <2>2. \A q \in Producers : Holds(q)' <=> Holds(q)
    <3>1. CASE get_next_write_index(p)
      <4>1. /\ index[p] = -1 /\ pc' = [pc EXCEPT ![p] = "invalidate"] /\ UNCHANGED index
            /\ pc[p] = "get_next_write_index"
        BY <3>1 DEF get_next_write_index, WriteInv, OneSlotPerWrite, Starts, ctx
      <4> QED BY <1>0, <4>1 DEF TypeOK, Holds, Starts
    <3>2. CASE take_index(p)
      <4>1. /\ pc[p] = "take_index" /\ index' = [index EXCEPT ![p] = index_next(write_index)]
            /\ pc' = [pc EXCEPT ![p] = "idle"] \/ pc' = [pc EXCEPT ![p] = "write_metadata"]
        BY <3>2 DEF take_index, incremented_index
      <4>2. index_next(write_index) # -1
        BY <1>0, IndexNext, NoneIsNoSlot DEF TypeOK
      <4> QED BY <1>0, <4>1, <4>2 DEF TypeOK, Holds, Starts
    <3>3. CASE write_metadata(p) \/ write_quantity(p)
      <4>1. index[p] # -1 /\ UNCHANGED index
        BY <3>3 DEF write_metadata, write_quantity, WriteInv, OneSlotPerWrite, Passed, ctx
      <4>2. \E label \in Steps \ {"release"} : pc' = [pc EXCEPT ![p] = label]
        BY <3>3 DEF write_metadata, write_quantity, Steps
      <4>3. ~Starts(p)
        BY <4>1 DEF WriteInv, OneSlotPerWrite
      <4> QED BY <1>0, <4>1, <4>2, <4>3 DEF TypeOK, Holds, Starts
    <3> QED BY <1>2, <3>1, <3>2, <3>3
  <2>3. \A q \in Producers : pc'[q] = "release" <=> pc[q] = "release"
    <3>1. pc[p] # "release"
      BY <1>2 DEF get_next_write_index, take_index, write_metadata, write_quantity, Reaches
    <3>2. \E label \in Steps \ {"release"} : pc' = [pc EXCEPT ![p] = label]
      BY <1>2 DEF get_next_write_index, take_index, write_metadata, write_quantity, Steps
    <3> QED BY <1>0, <3>1, <3>2 DEF TypeOK
  <2>4. Committed' = Committed
    BY <2>1, <2>2, <2>3, CommittedKept
  <2> QED BY <1>0, <2>1, <2>4, CountedKept
<1>3. ASSUME NEW p \in Producers, invalidate(p)
      PROVE  Counted' /\ Committed' = Committed /\ UNCHANGED write_index
  <2>1. /\ pc[p] = "invalidate" /\ pc' = [pc EXCEPT ![p] = "take_index"]
        /\ nb_writes' = [nb_writes EXCEPT ![curr_sample[p]] = @ + 1]
        /\ UNCHANGED <<write_index, index, sessions>>
        /\ curr_sample[p] = index_next(write_index)
    BY <1>3 DEF invalidate, ctx, ghosts, WriteInv, OneSlotPerWrite
  <2>2. \A q \in Producers : /\ Holds(q)' <=> Holds(q)
                             /\ pc'[q] = "release" <=> pc[q] = "release"
    BY <1>0, <2>1 DEF TypeOK, Holds, Starts
  <2>3. Committed' = Committed
    BY <2>1, <2>2, CommittedKept
  <2>4. \A s \in Slots : s # index_next(write_index) => nb_writes'[s] = nb_writes[s]
    BY <1>0, <2>1 DEF TypeOK
  <2> QED BY <1>0, <2>1, <2>3, <2>4, CountedKept
<1>4. ASSUME NEW p \in Producers, release(p)
      PROVE  Counted' /\ Committed' = Committed /\ UNCHANGED write_index
  <2>1. /\ pc[p] = "release" /\ pc' = [pc EXCEPT ![p] = "idle"]
        /\ index' = [index EXCEPT ![p] = -1]
        /\ UNCHANGED <<write_index, nb_writes, sessions>>
    BY <1>4 DEF release, ghosts
  <2>2. Holds(p)
    BY <2>1 DEF WriteInv, OneSlotPerWrite, Holds
  <2>3. \A q \in Producers : Holds(q) => q = p
    BY <2>2 DEF WriteInv, OneWriter
  <2>4. \A q \in Producers : ~Holds(q)'
    BY <1>0, <2>1, <2>3 DEF TypeOK, Holds, Starts
  <2>5. Committed' = Committed
    BY <2>1, <2>3, <2>4 DEF Underway, Committed
  <2> QED BY <1>0, <2>1, <2>5, CountedKept
<1>5. CASE UNCHANGED <<write_index, nb_writes, sessions, index, pc>>
  <2>1. Committed' = Committed
    BY <1>5, CommittedKept DEF Holds, Starts
  <2> QED BY <1>0, <1>5, <2>1, CountedKept
<1>6. ASSUME NEW p \in Producers, out_of_sequence(p)
      PROVE  UNCHANGED <<write_index, nb_writes, sessions, index, pc>>
  BY <1>0, <1>6 DEF out_of_sequence, shared, ctx, ghosts, TypeOK
<1>7. ASSUME NEW p \in Producers, commit(p)
      PROVE  /\ Counted' /\ Committed' = Committed + 1 /\ Committed' <= MaxSessions
             /\ write_index' = index_next(write_index)
  <2>1. write_index' = index[p] /\ index[p] # -1 /\ pc[p] # "release"
    BY <1>7 DEF commit, Reaches
  <2>2. index[p] = index_next(write_index)
    BY <2>1 DEF WriteInv, OneSlotPerWrite
  <2> QED BY <1>7, <2>1, <2>2, CountCommit
<1>8. UNCHANGED vars => UNCHANGED <<write_index, nb_writes, sessions, index, pc>>
  BY DEF vars, shared, ctx, local, ghosts
<1>9. \/ \E p \in Producers : start_write_session(p)
      \/ \E p \in Producers : \/ get_next_write_index(p) \/ take_index(p)
                              \/ write_metadata(p) \/ write_quantity(p)
      \/ \E p \in Producers : invalidate(p)
      \/ \E p \in Producers : commit(p)
      \/ \E p \in Producers : release(p)
      \/ \E p \in Producers : out_of_sequence(p)
      \/ UNCHANGED vars
  BY DEF Next, Proceed, ClientsDone
<1> QED BY <1>1, <1>2, <1>3, <1>4, <1>5, <1>6, <1>7, <1>8, <1>9


\* Nothing is published at the start.
LEMMA InitCounted == Init => Counted
<1> SUFFICES ASSUME Init PROVE Counted
  OBVIOUS
<1>1. \A p \in Producers : ~Holds(p)
  BY DEF Init, Holds, Starts
<1>2. Committed = 0
  BY <1>1 DEF Init, Underway, Committed
<1> QED BY <1>2, BoundsAssumption DEF Init, Counted

\* The counters and the samples published agree at all times.
LEMMA CountedHolds == Spec => []Counted
<1>1. WriteInv /\ Counted /\ [Next]_vars => Counted'
  BY CountStep
<1> QED BY <1>1, InitCounted, WriteInvHolds, PTL DEF Spec

\* What readers are promised is the log of the samples published so far.
LEMMA PublishedIsLog ==
  ASSUME NbSamples > 1, TypeOK, RankInv, Counted
  PROVE  published = LogOf(Committed)
<1> DEFINE back(n) == index_n_before(write_index, n)
           valid   == {n \in 0 .. NbSamples - 2 : nb_writes[back(n)] # -1}
<1>0. NbSamples \in Nat /\ Committed \in Nat
  BY NbSamplesAssumption DEF Counted
<1>1. CASE write_index = -1
  <2>1. Kept(Committed) = 0
    BY <1>0, <1>1 DEF Counted, Kept
  <2>2. published = [i \in 1 .. 0 |-> samples[back(0 - i)]]
    BY <1>1 DEF published
  <2> HIDE DEF back
  <2> QED BY <2>1, <2>2 DEF LogOf
<1>2. CASE write_index # -1
  <2>1. write_index \in Slots
    BY <1>2 DEF TypeOK
  <2>2. ASSUME NEW n \in 0 .. NbSamples - 2
        PROVE  /\ back(n) \in Slots /\ interval_between(back(n), write_index) = n
               /\ back(n) # index_next(write_index)
               /\ nb_writes[back(n)] # -1 <=> n < Committed
    <3>1. n \in 0 .. NbSamples - 1 /\ n \in Int /\ write_index \in Int
      BY <1>0, <2>1 DEF Slots
    <3>2. back(n) \in Slots /\ interval_between(back(n), write_index) = n
      BY <2>1, <3>1, Circular, Back
    <3>3. /\ index_next(write_index) \in Slots
          /\ interval_between(index_next(write_index), write_index)
               + interval_between(write_index, write_index) = NbSamples - 1
          /\ interval_between(write_index, write_index) = 0
      BY <2>1, IndexNext, Intervals DEF interval_between, Slots
    <3>4. interval_between(index_next(write_index), write_index) \in Nat
      BY <2>1, <3>3, Intervals
    <3> HIDE DEF back
    <3>5. back(n) # index_next(write_index)
      BY <1>0, <2>2, <3>2, <3>3, <3>4
    <3> QED BY <1>2, <3>2, <3>5 DEF Counted
  <2> DEFINE len == Cardinality(valid)
  <2>3. valid = 0 .. Kept(Committed) - 1
    <3> HIDE DEF back
    <3> QED BY <1>0, <2>2 DEF Kept
  <2>4. Kept(Committed) \in 0 .. NbSamples - 1 /\ Kept(Committed) <= Committed
    BY <1>0 DEF Kept
  <2>5. len = Kept(Committed)
    <3> HIDE DEF valid
    <3>1. len = IF 0 > Kept(Committed) - 1 THEN 0 ELSE Kept(Committed) - 1 - 0 + 1
      BY <2>3, <2>4, FS_Interval
    <3> QED BY <1>0, <2>4, <3>1
  <2>6. published = [i \in 1 .. len |-> samples[back(len - i)]]
    BY <1>2 DEF published
  <2>7. ASSUME NEW i \in 1 .. Kept(Committed)
        PROVE  samples[back(Kept(Committed) - i)]
                 = Log!Sample(Committed - Kept(Committed) + i)
    <3> DEFINE n == Kept(Committed) - i
    <3>1. n \in 0 .. NbSamples - 2 /\ n < Committed
          /\ Committed - n = Committed - Kept(Committed) + i
      BY <1>0, <2>4
    <3> HIDE DEF n
    <3>2. /\ back(n) \in Slots /\ interval_between(back(n), write_index) = n
          /\ back(n) # index_next(write_index) /\ nb_writes[back(n)] # -1
      BY <2>2, <3>1
    <3> HIDE DEF back
    <3>3. /\ samples[back(n)].metadata = Committed - n
          /\ samples[back(n)].blob = Committed - n
      BY <3>2 DEF RankInv, Whole
    <3>4. samples[back(n)] \in [metadata : Nat, blob : Nat]
      BY <3>2 DEF TypeOK, Contents
    <3>5. samples[back(n)] = [metadata |-> Committed - n, blob |-> Committed - n]
      BY <3>3, <3>4
    <3> QED BY <3>1, <3>5 DEF Log!Sample, n
  <2> HIDE DEF back, len
  <2> QED BY <2>5, <2>6, <2>7 DEF LogOf
<1> QED BY <1>1, <1>2

\* One more sample, and no more than are kept.
LEMMA LogGrows ==
  ASSUME NbSamples > 1, NEW k \in Nat
  PROVE  LogOf(k + 1) = Log!Newest(Append(LogOf(k), Log!Sample(k + 1)))
<1> DEFINE D    == NbSamples - 1
           len  == Kept(k)
           item(i) == Log!Sample(k - len + i)
           q    == [i \in 1 .. len + 1 |-> item(i)]
           S    == {item(i) : i \in 1 .. len + 1}
<1>0. D \in Nat \ {0} /\ len \in 0 .. D /\ len <= k /\ len \in Nat
  BY NbSamplesAssumption DEF Kept
<1>1. LogOf(k) = [i \in 1 .. len |-> item(i)]
  BY DEF LogOf
<1>2. item(len + 1) = Log!Sample(k + 1)
  BY <1>0 DEF Log!Sample
<1> HIDE DEF item, len
<1>3. /\ LogOf(k) \in Seq(S) /\ Len(LogOf(k)) = len
      /\ q \in Seq(S) /\ Len(q) = len + 1 /\ item(len + 1) \in S
  BY <1>0, <1>1
<1>4. Append(LogOf(k), item(len + 1)) = q
  <2> DEFINE a == Append(LogOf(k), item(len + 1))
  <2>1. /\ a \in Seq(S) /\ Len(a) = len + 1 /\ a[len + 1] = item(len + 1)
        /\ \A i \in 1 .. len : a[i] = LogOf(k)[i]
    BY <1>3, AppendProperties
  <2> HIDE DEF a, S
  <2>2. \A i \in 1 .. len + 1 : a[i] = q[i]
    BY <1>0, <1>1, <2>1
  <2> HIDE DEF q
  <2>3. a = q
    BY <1>3, <2>1, <2>2, SeqEqual
  <2> QED BY <2>3 DEF a
<1>5. ASSUME NEW s, NEW a, NEW b, Len(s) = b,
             Len(s) > D => Len(s) - D + 1 = a, ~(Len(s) > D) => a = 1
      PROVE  Log!Newest(s) = SubSeq(s, a, b)
  BY <1>5 DEF Log!Newest
<1>6. CASE len + 1 > D
  <2>1. len = D /\ Kept(k + 1) = D /\ len + 1 - D + 1 = 2
    BY <1>0, <1>6, NbSamplesAssumption DEF Kept, len
  <2>2. LogOf(k + 1) = [i \in 1 .. D |-> Log!Sample(k + 1 - D + i)]
    BY <2>1 DEF LogOf
  <2>3. \A i \in 1 .. D : q[i + 1] = Log!Sample(k + 1 - D + i)
    <3>1. \A i \in 1 .. D : i + 1 \in 1 .. len + 1 /\ k - len + (i + 1) = k + 1 - D + i
      BY <1>0, <2>1
    <3>2. \A i \in 1 .. D : q[i + 1] = Log!Sample(k - len + (i + 1))
      BY <3>1 DEF item
    <3> QED BY <3>1, <3>2
  <2>4. SubSeq(q, 2, D + 1) = [i \in 1 .. D |-> q[i + 1]]
    <3> HIDE DEF q, S
    <3>1. \A i \in 2 .. D + 1 : q[i] \in S
      BY <1>3, <2>1, ElementOfSeq
    <3>2. /\ SubSeq(q, 2, D + 1) \in Seq(S) /\ Len(SubSeq(q, 2, D + 1)) = D
          /\ \A i \in 1 .. D : SubSeq(q, 2, D + 1)[i] = q[i + 1]
      <4>1. /\ SubSeq(q, 2, D + 1) \in Seq(S)
            /\ Len(SubSeq(q, 2, D + 1)) = IF 2 <= D + 1 THEN D + 1 - 2 + 1 ELSE 0
            /\ \A i \in 1 .. D + 1 - 2 + 1 : SubSeq(q, 2, D + 1)[i] = q[2 + i - 1]
        BY <1>0, <3>1, SubSeqProperties
      <4>2. ASSUME NEW d \in Nat \ {0}
            PROVE  d + 1 - 2 + 1 = d /\ 2 <= d + 1 /\ \A i \in 1 .. d : 2 + i - 1 = i + 1
        OBVIOUS
      <4>3. D + 1 - 2 + 1 = D /\ 2 <= D + 1 /\ \A i \in 1 .. D : 2 + i - 1 = i + 1
        <5> HIDE DEF D
        <5> QED BY <1>0, <4>2, Zenon
      <4> QED BY <4>1, <4>3
    <3>3. SubSeq(q, 2, D + 1) = [i \in 1 .. Len(SubSeq(q, 2, D + 1)) |-> SubSeq(q, 2, D + 1)[i]]
      BY <3>2, LenProperties
    <3> QED BY <3>2, <3>3
  <2>5. Log!Newest(q) = SubSeq(q, 2, D + 1)
    <3> HIDE DEF q
    <3>1. Len(q) = D + 1 /\ Len(q) > D /\ Len(q) - D + 1 = 2
      BY <1>0, <1>3, <2>1
    <3> QED BY <1>5, <3>1
  <2> HIDE DEF q
  <2>6. LogOf(k + 1) = SubSeq(q, 2, D + 1)
    BY <2>2, <2>3, <2>4
  <2> QED BY <1>2, <1>4, <2>5, <2>6
<1>7. CASE ~(len + 1 > D)
  <2>1. len = k /\ Kept(k + 1) = len + 1
    BY <1>0, <1>7, NbSamplesAssumption DEF Kept, len
  <2>2. LogOf(k + 1) = q
    <3>1. LogOf(k + 1) = [i \in 1 .. len + 1 |-> Log!Sample(k + 1 - (len + 1) + i)]
      BY <2>1 DEF LogOf
    <3>2. \A i \in 1 .. len + 1 : item(i) = Log!Sample(k + 1 - (len + 1) + i)
      <4>1. k - len = k + 1 - (len + 1)
        BY <1>0
      <4> QED BY <4>1 DEF item
    <3> QED BY <3>1, <3>2
  <2>3. SubSeq(q, 1, len + 1) = q
    <3> HIDE DEF q, S
    <3> QED BY <1>3, SubSeqFull
  <2>4. Log!Newest(q) = SubSeq(q, 1, len + 1)
    <3> HIDE DEF q
    <3>1. Len(q) = len + 1 /\ ~(Len(q) > D)
      BY <1>3, <1>7
    <3> QED BY <1>5, <3>1
  <2> QED BY <1>2, <1>4, <2>2, <2>3, <2>4
<1> QED BY <1>6, <1>7

\* The ring, its counters and its producers implement the log that readers are
\* promised: a committed sample is whole, newer than all before it, and stays
\* until N - 1 others are committed; on a ring of at least two slots whose
\* clients write whole blobs.
THEOREM RingImplementsLog ==
  ASSUME NbSamples > 1, Api \subseteq {"shd_write_new_blob"}
  PROVE  Spec => ImplementsLog
<1> DEFINE Logged == published = LogOf(Committed)
<1>1. Init => Log!Init
  BY DEF Init, Log!Init, published
<1>2. WriteInv /\ RankInv /\ Counted => Logged
  BY PublishedIsLog DEF WriteInv
<1>3. ASSUME WriteInv, Counted, Logged, Logged', [Next]_vars
      PROVE  [Log!Next]_published
  <2>1. CASE Committed' = Committed
    <3>1. LogOf(Committed)' = LogOf(Committed)
      BY <2>1 DEF LogOf
    <3> QED BY <1>3, <3>1
  <2>2. CASE Committed' = Committed + 1 /\ Committed' <= MaxSessions
    <3> DEFINE t == Committed + 1
    <3>1. Committed \in Nat /\ t \in 1 .. MaxSessions
      BY <1>3, <2>2, BoundsAssumption DEF Counted
    <3>2. published' = LogOf(t)
      <4>1. LogOf(Committed)' = LogOf(Committed')
        BY DEF LogOf
      <4> QED BY <1>3, <2>2, <4>1
    <3>3. published' = Log!Newest(Append(published, Log!Sample(t)))
      BY <1>3, <3>1, <3>2, LogGrows
    <3>4. \A i \in DOMAIN published : published[i].metadata < t
      <4>1. Kept(Committed) \in Nat /\ Kept(Committed) <= Committed
        BY <3>1, NbSamplesAssumption DEF Kept
      <4>2. /\ DOMAIN published = 1 .. Kept(Committed)
            /\ \A i \in 1 .. Kept(Committed) :
                 published[i].metadata = Committed - Kept(Committed) + i
        BY <1>3 DEF LogOf, Log!Sample
      <4> QED BY <3>1, <4>1, <4>2
    <3> HIDE DEF t
    <3>5. Log!Publish(t)
      BY <3>3, <3>4 DEF Log!Publish
    <3> QED BY <3>1, <3>5 DEF Log!Next
  <2> QED BY <1>3, <2>1, <2>2, CountStep
<1>4. WriteInv /\ Counted /\ [Next]_vars => Counted'
  BY CountStep
<1>5. WriteInv /\ Counted /\ Logged /\ Logged' /\ [Next]_vars => [Log!Next]_published
  BY <1>3
<1> HIDE DEF Logged
<1> QED BY <1>1, <1>2, <1>4, <1>5, InitCounted, WriteInvHolds, RankHolds, PTL
        DEF Spec, ImplementsLog, Log!Spec

=============================================================================
