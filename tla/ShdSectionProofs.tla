-------------------------- MODULE ShdSectionProofs --------------------------
(***************************************************************************)
(* Proofs about ShdSection, for any producers, formats and numbers of      *)
(* creations.                                                              *)
(*                                                                         *)
(* First the lock: it keeps creations apart, and until a producer dies     *)
(* between the two updates of the revision number, it is odd exactly while *)
(* one of them fills the section.  Neither invariant is inductive alone:   *)
(* OneCreator needs to know that the producers inside are those the lock   *)
(* names (LockTellsCreator), and OddWhileUpdating that only one of them is *)
(* inside.                                                                 *)
(*                                                                         *)
(* Then what a section holds: its layout, for any format and any sizes of  *)
(* the two structures, its types, the room a producer has for what it      *)
(* writes, and the contents behind an even revision number.                *)
(***************************************************************************)
EXTENDS ShdSection, TLAPS

\* The steps of shd_create made with the lock.
Locked == Update \cup {"resize", "invalidate", "unlock"}

ProducerTypes ==
  /\ pc \in [Producers -> Steps]
  /\ first \in [Producers -> BOOLEAN]
  /\ nb_creations \in Nat /\ interrupted \in Nat
  /\ lock \subseteq Producers

\* In a file, the lock is held by the one producer between section_lock and
\* the unlock, and by nobody when there is none.
LockTellsCreator ==
  /\ backend.locks => \A p \in Producers : p \in lock <=> pc[p] \in Locked
  /\ \A p, q \in lock : p = q
  /\ ~backend.locks => lock = {}

LockInv == ProducerTypes /\ LockTellsCreator

\* No producer has a lock at the start.
LEMMA InitLockInv == Init => LockInv
  BY DEF Init, LockInv, ProducerTypes, LockTellsCreator, Locked, Update, Steps,
         Gone

\* A step of producer p that moves it from a step of the lock's range to one
\* of the same side keeps the invariant if the lock does not change.
LEMMA MoveKeepsLock ==
  ASSUME LockInv, NEW p \in Producers, NEW l \in Steps,
         pc' = [pc EXCEPT ![p] = l], pc[p] \in Locked <=> l \in Locked,
         UNCHANGED <<backend, lock, interrupted>>, nb_creations' \in Nat,
         first' \in [Producers -> BOOLEAN]
  PROVE  LockInv'
  BY DEF LockInv, ProducerTypes, LockTellsCreator

\* A step of p that ends with the lock not its own, and p outside.
LEMMA LeaveKeepsLock ==
  ASSUME LockInv, NEW p \in Producers, NEW l \in Steps \ Locked,
         pc' = [pc EXCEPT ![p] = l], lock' = lock \ {p},
         nb_creations' \in Nat, interrupted' \in Nat, UNCHANGED <<backend, first>>
  PROVE  LockInv'
  BY DEF LockInv, ProducerTypes, LockTellsCreator

\* Each step of a producer keeps the invariant, by one of the two lemmas.
LEMMA ProduceLockInv ==
  ASSUME LockInv, NEW p \in Producers, Produce(p)
  PROVE  LockInv'
<1> USE DEF Steps, Locked, Update, Gone
<1> pc \in [Producers -> Steps] /\ nb_creations \in Nat
    /\ first \in [Producers -> BOOLEAN] /\ interrupted \in Nat
  BY DEF LockInv, ProducerTypes
<1>1. CASE section_create(p)
  BY <1>1, MoveKeepsLock DEF section_create, shared
<1>2. CASE section_lock(p)
  <2>1. CASE ~backend.locks /\ lock = {}
    BY <1>2, <2>1 DEF section_lock, history, Goto, shared, LockInv, ProducerTypes,
       LockTellsCreator
  <2>2. CASE backend.locks /\ lock = {}
    BY <1>2, <2>2 DEF section_lock, history, Goto, shared, LockInv, ProducerTypes,
       LockTellsCreator
  <2>3. CASE lock # {}
    BY <1>2, <2>3, MoveKeepsLock DEF section_lock, history, Goto, shared, LockInv,
       LockTellsCreator
  <2> QED BY <2>1, <2>2, <2>3
<1>3. CASE section_resize(p)
  BY <1>3, MoveKeepsLock DEF section_resize, history, Goto, shared
<1>4. CASE invalidate_section(p)
  <2> nb_creations' \in Nat
    BY <1>4 DEF invalidate_section, history, invalidated
  <2> QED BY <1>4, MoveKeepsLock DEF invalidate_section, history, Goto, file
<1>5. CASE hdr_write_info(p)
  BY <1>5, MoveKeepsLock DEF hdr_write_info, history, Goto, file
<1>6. CASE hdr_write_magic(p)
  BY <1>6, MoveKeepsLock DEF hdr_write_magic, history, Goto, file
<1>7. CASE mdata_hdr_write(p)
  BY <1>7, MoveKeepsLock DEF mdata_hdr_write, history, Goto, file
<1>8. CASE clear_section(p)
  BY <1>8, MoveKeepsLock DEF clear_section, history, Goto, file
<1>9. CASE update_global_revision_nb(p)
  <2> nb_creations' \in Nat /\ UNCHANGED <<first, interrupted>>
    BY <1>9 DEF update_global_revision_nb
  <2>1. CASE (nb_creations + 1) % 2 # 0
    BY <1>9, <2>1, LeaveKeepsLock DEF update_global_revision_nb, Goto
  <2>2. CASE (nb_creations + 1) % 2 = 0
    BY <1>9, <2>2, MoveKeepsLock DEF update_global_revision_nb, Goto
  <2> QED BY <2>1, <2>2
<1>10. CASE section_unlock(p)
  BY <1>10, LeaveKeepsLock DEF section_unlock, history, Goto, shared
<1>11. CASE start_write_session(p)
  <2>1. CASE nb_ongoing_writes + 1 = 1
    BY <1>11, <2>1, MoveKeepsLock DEF start_write_session, history, file
  <2>2. CASE nb_ongoing_writes + 1 # 1
    BY <1>11, <2>2, MoveKeepsLock DEF start_write_session, history, file
  <2> QED BY <2>1, <2>2
<1>12. CASE write_sample(p)
  <2> nb_creations' \in Nat /\ UNCHANGED <<backend, first, interrupted>>
    BY <1>12 DEF write_sample, history
  <2>1. CASE Goto(p, "write", "commit") /\ UNCHANGED lock
    BY <2>1, MoveKeepsLock DEF Goto
  <2>2. CASE Goto(p, "write", "killed") /\ lock' = lock \ {p}
    BY <2>2, LeaveKeepsLock DEF Goto
  <2> QED BY <1>12, <2>1, <2>2 DEF write_sample, history
<1>13. CASE end_write_session(p)
  BY <1>13, MoveKeepsLock DEF end_write_session, history, Goto, file
<1>14. CASE producer_close(p)
  BY <1>14, MoveKeepsLock DEF producer_close, history, Goto, file, shared
<1>15. CASE crash(p)
  <2> interrupted' \in Nat /\ nb_creations' \in Nat
    BY <1>15 DEF crash, shared
  <2> QED BY <1>15, LeaveKeepsLock DEF crash
<1> QED
  BY <1>1, <1>2, <1>3, <1>4, <1>5, <1>6, <1>7, <1>8, <1>9, <1>10, <1>11,
     <1>12, <1>13, <1>14, <1>15 DEF Produce, Proceed

\* The consumer writes nothing that producers read.
LEMMA ConsumerWritesNothing ==
  ASSUME Open \/ Consume \/ consumer_close
  PROVE  UNCHANGED Producing
  BY DEF Open, Consume, section_open, hdr_read_magic, hdr_read_info,
         section_desc_new, revision_tested, update_local_revision_nb,
         read_data, end_read, read_section_hdr, copy_hdr,
         read_blob_metadata_hdr, check_mdata, copy_mdata, consumer_close

\* Hence every step does.
LEMMA NextLockInv ==
  ASSUME LockInv, [Next]_vars
  PROVE  LockInv'
<1>1. CASE \E p \in Producers : Produce(p)
  BY <1>1, ProduceLockInv
<1>2. CASE UNCHANGED Producing
  BY <1>2 DEF Producing, file, shared, local, history, LockInv,
     ProducerTypes, LockTellsCreator
<1> QED
  BY <1>1, <1>2, ConsumerWritesNothing DEF Next, vars, Producing

\* The lock names the creator in every state.
LEMMA LockInvHolds == Spec => []LockInv
  BY InitLockInv, NextLockInv, PTL DEF Spec

\* No two producers are at the steps made with the lock, thanks to the lock or
\* to being alone.
LEMMA OneInside ==
  ASSUME LockInv, Exclusive, NEW p \in Producers, NEW q \in Producers,
         pc[p] \in Locked, pc[q] \in Locked
  PROVE  p = q
<1>1. CASE backend.locks
  BY <1>1 DEF LockInv, LockTellsCreator
<1>2. CASE \E r \in Producers : Producers = {r}
  BY <1>2
<1> QED BY <1>1, <1>2 DEF Exclusive

\* A section stays where it is.
LEMMA BackendStays ==
  ASSUME NEW p \in Producers, Produce(p)
  PROVE  backend' = backend
  BY DEF Produce, Proceed, section_create, section_lock, section_resize,
     invalidate_section, hdr_write_info, hdr_write_magic, mdata_hdr_write,
     clear_section, update_global_revision_nb, section_unlock,
     start_write_session, write_sample, end_write_session, producer_close,
     crash, file

\* At any time at most one producer resizes, fills or completes the section:
\* what flock is for in shd_create, with any number of crashes; without a
\* lock, if there is only one.
THEOREM CreationsExclude == Spec => []OneCreator
<1>1. LockInv => OneCreator
  BY OneInside DEF OneCreator, Locked
<1> QED BY <1>1, LockInvHolds, PTL

-----------------------------------------------------------------------------
\* The revision number is odd exactly while a producer fills the section, until
\* one dies at that: what shd_open tests, and what a consumer that keeps a
\* revision number relies on.
LEMMA InitOdd == Init => OddWhileUpdating
  BY DEF Init, OddWhileUpdating, Updating, Update

\* Where the producers are and the revision number decide it.
LEMMA SameUpdating ==
  ASSUME ProducerTypes, OddWhileUpdating, NEW p \in Producers, NEW l \in Steps,
         pc' = [pc EXCEPT ![p] = l], pc[p] \in Update <=> l \in Update,
         UNCHANGED <<backend, nb_creations, interrupted>>
  PROVE  OddWhileUpdating'
<1>1. Updating' = Updating
  BY DEF Updating, ProducerTypes
<1> QED BY <1>1 DEF OddWhileUpdating, Exclusive

\* The two updates change the parity and the number of those inside together;
\* a death there lifts the promise, and other steps change neither.
LEMMA ProduceOdd ==
  ASSUME LockInv, OddWhileUpdating, NEW p \in Producers, Produce(p)
  PROVE  OddWhileUpdating'
<1> USE DEF Steps, Update, Gone
<1> pc \in [Producers -> Steps] /\ nb_creations \in Nat /\ ProducerTypes
    /\ interrupted \in Nat
  BY DEF LockInv, ProducerTypes
<1>0. backend' = backend
  BY BackendStays
<1> SUFFICES ASSUME Exclusive PROVE OddWhileUpdating'
  BY <1>0 DEF OddWhileUpdating, Exclusive
<1>1. CASE section_create(p)
  BY <1>1, <1>0, SameUpdating DEF section_create, shared
<1>2. CASE section_lock(p)
  <2>1. CASE Goto(p, "lock", "resize")
    BY <1>2, <2>1, <1>0, SameUpdating DEF section_lock, history, Goto, shared
  <2>2. CASE Goto(p, "lock", "failed")
    BY <1>2, <2>2, <1>0, SameUpdating DEF section_lock, history, Goto, shared
  <2> QED BY <1>2, <2>1, <2>2 DEF section_lock, history
<1>3. CASE section_resize(p)
  BY <1>3, <1>0, SameUpdating DEF section_resize, history, Goto, shared
<1>4. CASE invalidate_section(p)
  <2>1. Updating = {}
    BY <1>4, OneInside DEF invalidate_section, Goto, Locked, Updating
  <2>2. p \in Updating'
    BY <1>4 DEF invalidate_section, history, Goto, Updating
  <2>3. interrupted = 0 => nb_creations' % 2 = 1
    BY <1>4, <2>1 DEF invalidate_section, history, invalidated, OddWhileUpdating
  <2> QED
    BY <1>4, <2>2, <2>3 DEF invalidate_section, history, OddWhileUpdating
<1>5. CASE hdr_write_info(p)
  BY <1>5, <1>0, SameUpdating DEF hdr_write_info, history, Goto
<1>6. CASE hdr_write_magic(p)
  BY <1>6, <1>0, SameUpdating DEF hdr_write_magic, history, Goto
<1>7. CASE mdata_hdr_write(p)
  BY <1>7, <1>0, SameUpdating DEF mdata_hdr_write, history, Goto
<1>8. CASE clear_section(p)
  BY <1>8, <1>0, SameUpdating DEF clear_section, history, Goto
<1>9. CASE update_global_revision_nb(p)
  <2>1. pc[p] = "update" /\ nb_creations' = nb_creations + 1
    BY <1>9 DEF update_global_revision_nb, Goto
  <2>0. CASE interrupted # 0
    BY <1>9, <2>0 DEF update_global_revision_nb, OddWhileUpdating
  <2> SUFFICES ASSUME interrupted = 0 PROVE OddWhileUpdating'
    BY <2>0
  <2>2. nb_creations % 2 = 1
    BY <2>1 DEF OddWhileUpdating, Updating
  <2>3. (nb_creations + 1) % 2 = 0
    BY <2>2
  <2>4. pc' = [pc EXCEPT ![p] = "unlock"]
    BY <1>9, <2>3 DEF update_global_revision_nb, Goto
  <2>5. \A q \in Producers \ {p} : pc[q] \notin Update
    BY <2>1, OneInside DEF Locked
  <2>6. Updating' = {}
    BY <2>4, <2>5 DEF Updating
  <2> QED BY <2>1, <2>3, <2>6 DEF OddWhileUpdating
<1>10. CASE section_unlock(p)
  BY <1>10, <1>0, SameUpdating DEF section_unlock, history, Goto, shared
<1>11. CASE start_write_session(p)
  <2>1. CASE nb_ongoing_writes + 1 = 1
    BY <1>11, <2>1, <1>0, SameUpdating DEF start_write_session, history
  <2>2. CASE nb_ongoing_writes + 1 # 1
    BY <1>11, <2>2, <1>0, SameUpdating DEF start_write_session, history
  <2> QED BY <2>1, <2>2
<1>12. CASE write_sample(p)
  <2>1. CASE Goto(p, "write", "commit")
    BY <1>12, <2>1, <1>0, SameUpdating DEF write_sample, history, Goto
  <2>2. CASE Goto(p, "write", "killed")
    BY <1>12, <2>2, <1>0, SameUpdating DEF write_sample, history, Goto
  <2> QED BY <1>12, <2>1, <2>2 DEF write_sample, history
<1>13. CASE end_write_session(p)
  BY <1>13, <1>0, SameUpdating DEF end_write_session, history, Goto
<1>14. CASE producer_close(p)
  BY <1>14, <1>0, SameUpdating DEF producer_close, history, Goto, shared
<1>15. CASE crash(p)
  <2>1. CASE pc[p] \in Update
    BY <1>15, <2>1 DEF crash, OddWhileUpdating
  <2>2. CASE pc[p] \notin Update
    BY <1>15, <2>2, <1>0, SameUpdating DEF crash, shared
  <2> QED BY <2>1, <2>2
<1> QED
  BY <1>1, <1>2, <1>3, <1>4, <1>5, <1>6, <1>7, <1>8, <1>9, <1>10, <1>11,
     <1>12, <1>13, <1>14, <1>15 DEF Produce, Proceed

\* Hence every step keeps the parity right.
LEMMA NextOdd ==
  ASSUME LockInv, OddWhileUpdating, [Next]_vars
  PROVE  OddWhileUpdating'
<1>1. CASE \E p \in Producers : Produce(p)
  BY <1>1, ProduceOdd
<1>2. CASE UNCHANGED Producing
  BY <1>2 DEF Producing, file, shared, local, history, OddWhileUpdating, Updating,
     Exclusive
<1> QED
  BY <1>1, <1>2, ConsumerWritesNothing DEF Next, vars, Producing

\* An odd revision number means that the section is being rewritten, and the
\* converse, in every state before such a death.
THEOREM RevisionParity == Spec => []OddWhileUpdating
<1>1. LockInv /\ OddWhileUpdating /\ [Next]_vars => OddWhileUpdating'
  BY NextOdd
<1> QED BY <1>1, InitOdd, LockInvHolds, PTL DEF Spec

-----------------------------------------------------------------------------
\* The only refusals are the lock of another and an incoherent revision: with
\* a single producer, however often it restarts, shd_create never fails.
LEMMA ProduceSucceeds ==
  ASSUME NEW p \in Producers, Producers = {p}, LockInv, OddWhileUpdating,
         RestartSucceeds, Produce(p)
  PROVE  RestartSucceeds'
<1> pc \in [Producers -> Steps] /\ interrupted \in Nat
  BY DEF LockInv, ProducerTypes
<1>0. interrupted' = 0 => interrupted = 0
  BY DEF Produce, Proceed, crash, section_create, section_lock, section_resize,
     invalidate_section, hdr_write_info, hdr_write_magic, mdata_hdr_write,
     clear_section, update_global_revision_nb, section_unlock,
     start_write_session, write_sample, end_write_session, producer_close,
     history
<1> SUFFICES ASSUME interrupted = 0 PROVE pc'[p] # "failed"
  BY <1>0 DEF RestartSucceeds, ProducerAlwaysSucceeds
<1>1. CASE section_lock(p)
  <2>1. pc[p] = "lock"
    BY <1>1 DEF section_lock, Goto
  <2>2. lock = {}
    <3>1. CASE backend.locks
      BY <2>1, <3>1 DEF LockInv, LockTellsCreator, ProducerTypes, Locked, Update
    <3>2. CASE ~backend.locks
      BY <3>2 DEF LockInv, LockTellsCreator
    <3> QED BY <3>1, <3>2
  <2> QED BY <1>1, <2>2 DEF section_lock, Goto
<1>2. CASE update_global_revision_nb(p)
  <2>1. pc[p] = "update" /\ nb_creations \in Nat
    BY <1>2 DEF update_global_revision_nb, Goto, LockInv, ProducerTypes
  <2>2. nb_creations % 2 = 1
    BY <2>1 DEF OddWhileUpdating, Updating, Update, Exclusive
  <2>3. (nb_creations + 1) % 2 = 0
    BY <2>1, <2>2
  <2> QED BY <1>2, <2>3 DEF update_global_revision_nb, Goto
<1>3. CASE start_write_session(p)
  BY <1>3 DEF start_write_session, RestartSucceeds, ProducerAlwaysSucceeds
<1>4. CASE Produce(p) /\ ~ section_lock(p) /\ ~ update_global_revision_nb(p)
           /\ ~ start_write_session(p)
  BY <1>4 DEF Produce, Proceed, Goto, section_create, section_resize,
     invalidate_section, hdr_write_info, hdr_write_magic, mdata_hdr_write,
     clear_section, section_unlock, write_sample, end_write_session,
     producer_close, crash
<1> QED BY <1>1, <1>2, <1>3, <1>4

\* The only producer of a section always gets it back, however often it is
\* closed or killed, until it dies between the two updates.
THEOREM SoleProducerSucceeds ==
  ASSUME NEW p, Producers = {p}
  PROVE  Spec => []RestartSucceeds
<1>1. Init => RestartSucceeds
  BY DEF Init, RestartSucceeds, ProducerAlwaysSucceeds
<1>2. ASSUME LockInv, OddWhileUpdating, RestartSucceeds, [Next]_vars
      PROVE  RestartSucceeds'
  <2>1. CASE Produce(p)
    BY <1>2, <2>1, ProduceSucceeds
  <2>2. CASE UNCHANGED Producing
    BY <1>2, <2>2
    DEF Producing, local, history, RestartSucceeds, ProducerAlwaysSucceeds
  <2> QED BY <1>2, <2>1, <2>2, ConsumerWritesNothing DEF Next, vars, Producing
<1>3. LockInv /\ OddWhileUpdating /\ RestartSucceeds /\ [Next]_vars
        => RestartSucceeds'
  BY <1>2
<1>4. Spec => []OddWhileUpdating
  BY RevisionParity
<1> QED BY <1>1, <1>3, <1>4, LockInvHolds, PTL DEF Spec

-----------------------------------------------------------------------------
(* The layout of a section (ShdLayout) *)

\* ALIGN_UP gives the first multiple of 4 that is large enough.
LEMMA AlignUp ==
  ASSUME NEW x \in Nat
  PROVE  /\ ALIGN_UP(x) \in Nat /\ ALIGN_UP(x) % 4 = 0
         /\ x <= ALIGN_UP(x) /\ ALIGN_UP(x) < x + 4
  BY DEF ALIGN_UP

\* Aligning a sum whose first term is aligned aligns the second.
LEMMA AlignSum ==
  ASSUME NEW x \in Nat, NEW y \in Nat, x % 4 = 0
  PROVE  ALIGN_UP(x + y) = x + ALIGN_UP(y)
<1>1. x = 4 * (x \div 4)
  OBVIOUS
<1>2. x \div 4 \in Nat
  OBVIOUS
<1>3. (x + y + 3) \div 4 = (x \div 4) + ((y + 3) \div 4)
  BY <1>1, <1>2
<1> QED BY <1>1, <1>2, <1>3 DEF ALIGN_UP

\* The size of each part is a number of bytes.
LEMMA LayoutTypes ==
  ASSUME NEW u \in UserInfo
  PROVE  /\ metadata_offset \in Nat /\ data_offset(u) \in Nat
         /\ shd_sample_get_size(u) \in Nat
         /\ shd_data_get_total_size(u) \in Nat /\ mapping_size(u) \in Nat
<1> HdrSize \in Nat /\ BlobOffset \in Nat
  BY LayoutAssumption
<1> /\ u.blob_size \in Nat /\ u.max_nb_samples \in Nat
    /\ u.blob_metadata_hdr_size \in Nat
  BY DEF UserInfo
<1>1. metadata_offset \in Nat
  BY AlignUp DEF metadata_offset
<1>2. data_offset(u) \in Nat
  BY <1>1, AlignUp DEF data_offset
<1>3. shd_sample_get_size(u) \in Nat
  BY AlignUp DEF shd_sample_get_size
<1>4. \A m, n \in Nat : m * n \in Nat
  OBVIOUS
<1> QED
  BY <1>1, <1>2, <1>3, <1>4 DEF shd_data_get_total_size, mapping_size

\* The length shd_section_resize gives to the file is the length that is
\* mapped, though one aligns the sum and the other the term.
THEOREM FileIsMapped ==
  ASSUME NEW u \in UserInfo
  PROVE  shd_section_get_total_size(u) = mapping_size(u)
<1>1. /\ HdrSize \in Nat /\ u.blob_metadata_hdr_size \in Nat
  BY LayoutAssumption DEF UserInfo
<1>2. ALIGN_UP(ALIGN_UP(HdrSize) + u.blob_metadata_hdr_size)
        = ALIGN_UP(HdrSize) + ALIGN_UP(u.blob_metadata_hdr_size)
  BY <1>1, AlignUp, AlignSum
<1> QED
  BY <1>2 DEF shd_section_get_total_size, mapping_size, data_offset,
              metadata_offset

\* Everything a producer writes lies within the mapping, and a sample ends
\* before the next starts.
THEOREM PartsFit ==
  ASSUME NEW u \in UserInfo, NEW length \in Nat, mapping_size(u) <= length
  PROVE  Fits(u, length)
<1>1. /\ HdrSize \in Nat /\ BlobOffset \in Nat /\ u.blob_size \in Nat
      /\ u.blob_metadata_hdr_size \in Nat /\ u.max_nb_samples \in Nat \ {0}
  BY LayoutAssumption DEF UserInfo
<1>2. HdrSize <= metadata_offset /\ metadata_offset \in Nat
  BY <1>1, AlignUp DEF metadata_offset
<1>3. metadata_offset + u.blob_metadata_hdr_size <= data_offset(u)
  BY <1>1, <1>2, AlignUp DEF data_offset
<1>4. ASSUME NEW i \in 0 .. u.max_nb_samples - 1
      PROVE  sample_end(u, i) <= IF i + 1 < u.max_nb_samples
                                 THEN sample_ptr(u, i + 1) ELSE length
  <2> DEFINE s == shd_sample_get_size(u)
             n == u.max_nb_samples
  <2>1. BlobOffset + u.blob_size <= s /\ s \in Nat
    <3>1. BlobOffset + u.blob_size \in Nat
      BY <1>1
    <3> QED BY <3>1, AlignUp DEF shd_sample_get_size
  <2>2. data_offset(u) \in Nat /\ mapping_size(u) = data_offset(u) + n * s
    BY LayoutTypes DEF mapping_size, shd_data_get_total_size
  <2>3. (i + 1) * s = i * s + s /\ i * s \in Nat
    BY <2>1
  <2>4. sample_end(u, i) <= data_offset(u) + (i + 1) * s
    BY <1>1, <2>1, <2>2, <2>3 DEF sample_end, sample_ptr
  <2>5. CASE i + 1 < n
    BY <2>4, <2>5 DEF sample_ptr
  <2>6. CASE ~(i + 1 < n)
    <3>1. i + 1 = n
      BY <1>1, <2>6
    <3>2. (i + 1) * s \in Nat
      BY <2>1
    <3> QED
      BY <1>1, <2>1, <2>2, <2>3, <2>4, <2>6, <3>1, <3>2
      DEF sample_end, sample_ptr
  <2> QED BY <2>5, <2>6
<1> QED BY <1>2, <1>3, <1>4 DEF Fits

-----------------------------------------------------------------------------
(* Types *)

\* A producer inside a call, or with a context, has a creation.
Asking == \A p \in Producers : pc[p] \notin Gone => creation[p] # 0

TypeInv == TypeOK /\ Asking

\* It asked for a format.
LEMMA AskedIsInfo ==
  ASSUME TypeInv, NEW p \in Producers, pc[p] \notin Gone
  PROVE  asked(p) \in Infos /\ asked(p) \in UserInfo
<1>1. creation[p] \in 1 .. Len(infos) /\ infos \in Seq(Infos)
  BY DEF TypeInv, TypeOK, Asking, Creations
<1>2. asked(p) \in Infos
  BY <1>1 DEF asked
<1> QED BY <1>2, InfosAssumption

\* The types hold at the start.
LEMMA InitTypeInv == Init => TypeInv
<1> SUFFICES ASSUME Init PROVE TypeInv
  OBVIOUS
<1>1. MemorySize \in Nat
  BY MemorySizeAssumption
<1>2. size \in Nat
  BY <1>1 DEF Init
<1>3. exists \in BOOLEAN /\ magic_number \in BOOLEAN
  BY Zenon DEF Init
<1>4. /\ nb_creations \in Nat /\ {completed, interrupted} \subseteq Nat
      /\ nb_ongoing_writes \in Nat /\ lock \subseteq Producers /\ backend \in Lookup
  BY DEF Init
<1>5. infos \in Seq(Infos) /\ Creations = {0}
  BY DEF Init, Creations
<1>6. c \in [pc : ConsumerSteps, map : Creations \cup {-1}, desc : Creations,
             rev : Nat, got : Creations, ret : Results, settled : BOOLEAN]
  BY <1>5 DEF Init, NoContext, ConsumerSteps, Results
<1>7. /\ pc \in [Producers -> Steps] /\ creation \in [Producers -> Creations]
      /\ first \in [Producers -> BOOLEAN]
      /\ {user_info, metadata_hdr, data} \subseteq Creations
  BY <1>5 DEF Init, Steps, Gone
<1>8. Asking
  BY DEF Init, Asking, Gone
<1> QED
  BY <1>2, <1>3, <1>4, <1>5, <1>6, <1>7, <1>8 DEF TypeInv, TypeOK

\* A new creation adds one to those that variables may name.
LEMMA CreateTypeInv ==
  ASSUME TypeInv, NEW p \in Producers, section_create(p)
  PROVE  TypeInv'
<1> PICK info \in Infos : infos' = Append(infos, info)
  BY DEF section_create
<1>1. infos' \in Seq(Infos) /\ Len(infos) \in Nat /\ Len(infos') = Len(infos) + 1
  BY DEF TypeInv, TypeOK
<1>2. Creations \subseteq Creations' /\ Len(infos) + 1 \in Creations'
  BY <1>1 DEF Creations
<1>3. c' \in [pc : ConsumerSteps, map : (Creations \cup {-1})', desc : Creations',
              rev : Nat, got : Creations', ret : Results, settled : BOOLEAN]
  <2>1. c' = c /\ c \in [pc : ConsumerSteps, map : Creations \cup {-1},
          desc : Creations, rev : Nat, got : Creations, ret : Results,
          settled : BOOLEAN]
    BY DEF section_create, TypeInv, TypeOK
  <2> QED BY <2>1, <1>2
<1>4. /\ creation' \in [Producers -> Creations']
      /\ {user_info, metadata_hdr, data}' \subseteq Creations'
  BY <1>1, <1>2 DEF section_create, shared, TypeInv, TypeOK
<1>5. Asking'
  BY <1>1 DEF section_create, TypeInv, TypeOK, Asking
<1>6. /\ pc' \in [Producers -> Steps] /\ first' \in [Producers -> BOOLEAN]
      /\ lock' \subseteq Producers /\ exists' \in BOOLEAN
      /\ backend' \in Lookup /\ size' \in Nat /\ nb_creations' \in Nat
      /\ magic_number' \in BOOLEAN /\ nb_ongoing_writes' \in Nat
      /\ {completed', interrupted'} \subseteq Nat
  BY DEF section_create, shared, TypeInv, TypeOK, Steps
<1> QED BY <1>1, <1>3, <1>4, <1>5, <1>6 DEF TypeInv, TypeOK

\* The other steps of a producer.
LEMMA ProduceTypeInv ==
  ASSUME TypeInv, NEW p \in Producers, Produce(p)
  PROVE  TypeInv'
<1> USE DEF Steps, Update, Gone, Goto
<1>0. CASE section_create(p)
  BY <1>0, CreateTypeInv
<1> SUFFICES ASSUME ~section_create(p) PROVE TypeInv'
  BY <1>0
<1>1. UNCHANGED <<c, infos, creation, first>>
  BY DEF Produce, Proceed, section_lock, section_resize, invalidate_section,
     hdr_write_info, hdr_write_magic, mdata_hdr_write, clear_section,
     update_global_revision_nb, section_unlock, start_write_session,
     write_sample, end_write_session, producer_close, crash, history
<1>2. /\ c' \in [pc : ConsumerSteps, map : (Creations \cup {-1})',
                 desc : Creations', rev : Nat, got : Creations', ret : Results,
                 settled : BOOLEAN]
      /\ Creations' = Creations /\ infos' \in Seq(Infos)
      /\ creation' \in [Producers -> Creations']
      /\ first' \in [Producers -> BOOLEAN]
  BY <1>1 DEF TypeInv, TypeOK, Creations
<1>3. pc' \in [Producers -> Steps]
  BY DEF TypeInv, TypeOK, Produce, Proceed, section_lock, section_resize,
     invalidate_section, hdr_write_info, hdr_write_magic, mdata_hdr_write,
     clear_section, update_global_revision_nb, section_unlock,
     start_write_session, write_sample, end_write_session, producer_close, crash
<1>4. Asking'
  BY <1>1 DEF Asking, TypeInv, TypeOK, Produce, Proceed, section_lock,
     section_resize, invalidate_section, hdr_write_info, hdr_write_magic,
     mdata_hdr_write, clear_section, update_global_revision_nb,
     section_unlock, start_write_session, write_sample, end_write_session,
     producer_close, crash
<1>5. backend' \in Lookup /\ exists' \in BOOLEAN /\ lock' \subseteq Producers
  BY DEF TypeInv, TypeOK, Produce, Proceed, section_lock, section_resize,
     invalidate_section, hdr_write_info, hdr_write_magic, mdata_hdr_write,
     clear_section, update_global_revision_nb, section_unlock,
     start_write_session, write_sample, end_write_session, producer_close,
     crash, file
<1>6. size' \in Nat
  <2>1. CASE section_resize(p)
    <3>1. shd_section_get_total_size(asked(p)) \in Nat
      BY <2>1, AskedIsInfo, FileIsMapped, LayoutTypes DEF section_resize
    <3> QED BY <2>1, <3>1 DEF section_resize, TypeInv, TypeOK
  <2>2. CASE ~section_resize(p)
    BY <2>2 DEF TypeInv, TypeOK, Produce, Proceed, section_lock,
       invalidate_section, hdr_write_info, hdr_write_magic, mdata_hdr_write,
       clear_section, update_global_revision_nb, section_unlock,
       start_write_session, write_sample, end_write_session, producer_close,
       crash, file
  <2> QED BY <2>1, <2>2
<1>7. {user_info, metadata_hdr, data}' \subseteq Creations'
  BY <1>2 DEF TypeInv, TypeOK, Produce, Proceed, section_lock, section_resize,
     invalidate_section, hdr_write_info, hdr_write_magic, mdata_hdr_write,
     clear_section, update_global_revision_nb, section_unlock,
     start_write_session, write_sample, end_write_session, producer_close,
     crash, shared
<1>8. magic_number' \in BOOLEAN
  BY DEF TypeInv, TypeOK, Produce, Proceed, section_lock, section_resize,
     invalidate_section, hdr_write_info, hdr_write_magic, mdata_hdr_write,
     clear_section, update_global_revision_nb, section_unlock,
     start_write_session, write_sample, end_write_session, producer_close,
     crash, shared
<1>9. nb_creations' \in Nat /\ nb_ongoing_writes' \in Nat
  BY DEF TypeInv, TypeOK, Produce, Proceed, section_lock, section_resize,
     invalidate_section, invalidated, hdr_write_info, hdr_write_magic,
     mdata_hdr_write, clear_section, update_global_revision_nb,
     section_unlock, start_write_session, write_sample, end_write_session,
     producer_close, crash, shared
<1>10. {completed', interrupted'} \subseteq Nat
  BY DEF TypeInv, TypeOK, Produce, Proceed, section_lock, section_resize,
     invalidate_section, hdr_write_info, hdr_write_magic, mdata_hdr_write,
     clear_section, update_global_revision_nb, section_unlock,
     start_write_session, write_sample, end_write_session, producer_close,
     crash, history
<1> QED
  BY <1>2, <1>3, <1>4, <1>5, <1>6, <1>7, <1>8, <1>9, <1>10
  DEF TypeInv, TypeOK

\* The steps of the consumer.
LEMMA ConsumerTypeInv ==
  ASSUME TypeInv, Open \/ Consume \/ consumer_close
  PROVE  TypeInv'
<1>1. UNCHANGED Producing
  BY ConsumerWritesNothing
<1>2. Creations' = Creations
  BY <1>1 DEF Producing, history, Creations
<1> DEFINE Contexts == [pc : ConsumerSteps, map : Creations \cup {-1},
                        desc : Creations, rev : Nat, got : Creations,
                        ret : Results, settled : BOOLEAN]
<1>3. c \in Contexts /\ 0 \in Creations /\ nb_creations \in Nat
      /\ {user_info, metadata_hdr, data} \subseteq Creations
  BY DEF TypeInv, TypeOK, Creations
<1>4. c' \in Contexts
  <2> USE <1>3 DEF ConsumerSteps, Opening, Results, Killed, NoContext
  <2>0. [NoContext EXCEPT !.ret = "NULL"] \in Contexts
        /\ [NoContext EXCEPT !.pc = "hdr_magic"] \in Contexts
    OBVIOUS
  <2>1. CASE section_open
    BY <2>0, <2>1 DEF section_open, OpenFails
  <2>2. CASE hdr_read_magic
    <3>1. \/ c' = [c EXCEPT !.pc = "hdr_info"]
          \/ c' = [NoContext EXCEPT !.ret = "NULL"]
          \/ c' = [c EXCEPT !.pc = "desc", !.map = -1]
      BY <2>2 DEF hdr_read_magic, OpenFails
    <3>2. CASE c' = [c EXCEPT !.pc = "hdr_info"]
      BY <3>2
    <3>3. CASE c' = [NoContext EXCEPT !.ret = "NULL"]
      BY <2>0, <3>3
    <3>4. CASE c' = [c EXCEPT !.pc = "desc", !.map = -1]
      BY <3>4
    <3> QED BY <3>1, <3>2, <3>3, <3>4
  <2>3. CASE hdr_read_info
    BY <2>3 DEF hdr_read_info
  <2>4. CASE section_desc_new
    <3>1. \/ c' = [c EXCEPT !.pc = "killed"]
          \/ c' = [c EXCEPT !.pc = "revision", !.desc = user_info]
      BY <2>4 DEF section_desc_new
    <3>2. CASE c' = [c EXCEPT !.pc = "killed"]
      BY <3>2
    <3>3. CASE c' = [c EXCEPT !.pc = "revision", !.desc = user_info]
      BY <3>3
    <3> QED BY <3>1, <3>2, <3>3
  <2>5. CASE revision_tested
    BY <2>0, <2>5 DEF revision_tested, OpenFails
  <2>6. CASE update_local_revision_nb
    BY <2>6 DEF update_local_revision_nb
  <2>7. CASE read_data
    BY <2>7 DEF read_data
  <2>8. CASE end_read
    BY <2>8 DEF end_read
  <2>9. CASE read_section_hdr
    BY <2>9 DEF read_section_hdr
  <2>10. CASE copy_hdr
    BY <2>10 DEF copy_hdr
  <2>11. CASE read_blob_metadata_hdr
    BY <2>11 DEF read_blob_metadata_hdr
  <2>12. CASE check_mdata
    BY <2>12 DEF check_mdata
  <2>13. CASE copy_mdata
    BY <2>13 DEF copy_mdata
  <2>14. CASE consumer_close
    BY <2>14 DEF consumer_close
  <2> QED
    BY <2>1, <2>2, <2>3, <2>4, <2>5, <2>6, <2>7,
       <2>8, <2>9, <2>10, <2>11, <2>12, <2>13, <2>14 DEF Open, Consume
<1> QED
  BY <1>1, <1>2, <1>4
  DEF Producing, file, shared, local, history, TypeInv, TypeOK, Asking

\* Hence every step keeps the types.
LEMMA NextTypeInv ==
  ASSUME TypeInv, [Next]_vars
  PROVE  TypeInv'
<1>1. CASE UNCHANGED vars
  BY <1>1
  DEF vars, file, shared, local, history, TypeInv, TypeOK, Asking, Creations
<1> QED BY <1>1, ProduceTypeInv, ConsumerTypeInv DEF Next

\* The types hold in every state.
LEMMA TypeInvHolds == Spec => []TypeInv
  BY InitTypeInv, NextTypeInv, PTL DEF Spec

\* The variables have their types: among others, every mark of a creation left
\* in the section or in a consumer is that of a creation that was started.
THEOREM SectionTypes == Spec => []TypeOK
<1>1. TypeInv => TypeOK
  BY DEF TypeInv
<1> QED BY <1>1, TypeInvHolds, PTL

-----------------------------------------------------------------------------
\* A producer past section_resize has room for what it asked for.
Sized == Update \cup {"invalidate", "unlock"}

RoomInv ==
  /\ ~backend.in_file => size = MemorySize
  /\ Exclusive =>
       \A p \in Producers : pc[p] \in Sized => mapping_size(asked(p)) <= size

\* No producer is there at the start, and fixed memory has its size.
LEMMA InitRoom == Init => RoomInv
  BY DEF Init, RoomInv, Sized, Update

\* The file takes the size asked for, while nobody else is there to have asked
\* for another; other steps leave the size, and what was asked for.
LEMMA ProduceRoom ==
  ASSUME TypeInv, LockInv, RoomInv, NEW p \in Producers, Produce(p)
  PROVE  RoomInv'
<1> USE DEF Sized, Update, Gone, Goto
<1> pc \in [Producers -> Steps]
  BY DEF TypeInv, TypeOK
<1>0. backend' = backend
  BY BackendStays
<1>1. CASE section_resize(p)
  <2>1. asked(p) \in Infos /\ asked(p) \in UserInfo /\ pc[p] = "resize"
    BY <1>1, AskedIsInfo DEF section_resize
  <2>2. mapping_size(asked(p)) <= size' /\ (~backend.in_file => size' = size)
    <3>1. CASE backend.in_file
      BY <1>1, <2>1, <3>1, FileIsMapped, LayoutTypes DEF section_resize
    <3>2. CASE ~backend.in_file
      BY <1>1, <2>1, <3>2, MemorySizeAssumption DEF section_resize, RoomInv
    <3> QED BY <3>1, <3>2
  <2>3. \A q \in Producers : asked(q)' = asked(q)
    BY <1>1 DEF section_resize, asked, history
  <2>4. ASSUME Exclusive, NEW q \in Producers, pc'[q] \in Sized PROVE q = p
    <3>1. CASE pc[q] \in Locked
      BY <2>1, <2>4, <3>1, OneInside DEF Locked
    <3>2. CASE pc[q] \notin Locked
      BY <1>1, <2>4, <3>2 DEF section_resize, Locked
    <3> QED BY <3>1, <3>2
  <2> QED BY <1>0, <2>2, <2>3, <2>4 DEF RoomInv, Exclusive
<1>2. CASE section_create(p)
  <2>1. ASSUME NEW q \in Producers, pc'[q] \in Sized
        PROVE  q # p /\ pc[q] \in Sized /\ asked(q)' = asked(q)
    <3>1. q # p /\ pc[q] \in Sized
      BY <1>2, <2>1 DEF section_create
    <3>6. creation[q] # 0 /\ creation[q] \in Creations /\ infos \in Seq(Infos)
      BY <3>1 DEF TypeInv, TypeOK, Asking, Sized, Gone, Update
    <3>2. creation[q] \in 1 .. Len(infos) /\ infos \in Seq(Infos)
      BY <3>6 DEF Creations
    <3>3. PICK info \in Infos : infos' = Append(infos, info)
      BY <1>2 DEF section_create
    <3>4. creation'[q] = creation[q]
      BY <1>2, <3>1 DEF section_create, TypeInv, TypeOK
    <3>5. infos'[creation[q]] = infos[creation[q]]
      BY <3>2, <3>3
    <3> QED BY <3>1, <3>4, <3>5 DEF asked
  <2>2. size' = size
    BY <1>2 DEF section_create
  <2> QED BY <1>0, <2>1, <2>2 DEF RoomInv, Exclusive
<1>3. CASE ~section_resize(p) /\ ~section_create(p)
  <2>1. UNCHANGED <<size, creation, infos>>
    BY <1>3 DEF Produce, Proceed, section_lock, invalidate_section,
       hdr_write_info, hdr_write_magic, mdata_hdr_write, clear_section,
       update_global_revision_nb, section_unlock, start_write_session,
       write_sample, end_write_session, producer_close, crash, file, history
  <2>2. \A q \in Producers : pc'[q] \in Sized => pc[q] \in Sized
    BY <1>3 DEF Produce, Proceed, section_lock, invalidate_section,
       hdr_write_info, hdr_write_magic, mdata_hdr_write, clear_section,
       update_global_revision_nb, section_unlock, start_write_session,
       write_sample, end_write_session, producer_close, crash
  <2>3. \A q \in Producers : asked(q)' = asked(q)
    BY <2>1 DEF asked
  <2> QED BY <1>0, <2>1, <2>2, <2>3 DEF RoomInv, Exclusive
<1> QED BY <1>1, <1>2, <1>3

\* Hence every step keeps the room.
LEMMA NextRoom ==
  ASSUME TypeInv, LockInv, RoomInv, [Next]_vars
  PROVE  RoomInv'
<1>1. CASE \E p \in Producers : Produce(p)
  BY <1>1, ProduceRoom
<1>2. CASE UNCHANGED Producing
  BY <1>2
  DEF Producing, file, shared, local, history, RoomInv, Exclusive, asked, Sized
<1> QED
  BY <1>1, <1>2, ConsumerWritesNothing DEF Next, vars, Producing

\* All that a producer writes as it fills the section, and the samples it lays
\* out, is within the file or the memory, for any formats asked by any others
\* at the same time.
THEOREM RoomForCreator == Spec => []CreatorFitsSection
<1>1. TypeInv /\ RoomInv => CreatorFitsSection
  <2> SUFFICES ASSUME TypeInv, RoomInv, Exclusive, NEW p \in Producers,
                      pc[p] \in Update
               PROVE  Fits(asked(p), size)
    BY DEF CreatorFitsSection
  <2>1. asked(p) \in UserInfo
    BY AskedIsInfo DEF Update, Gone
  <2>2. mapping_size(asked(p)) <= size /\ size \in Nat
    BY DEF RoomInv, Sized, TypeInv, TypeOK
  <2> QED BY <2>1, <2>2, PartsFit
<1>2. TypeInv /\ LockInv /\ RoomInv /\ [Next]_vars => RoomInv'
  BY NextRoom
<1> QED BY <1>1, <1>2, InitRoom, TypeInvHolds, LockInvHolds, PTL DEF Spec

-----------------------------------------------------------------------------
\* Where a format has been written: behind the magic number, and in what the
\* consumer took.
Mapped == {"desc", "revision", "local_revision", "open", "end_read",
           "copy_hdr", "check_mdata", "copy_mdata"}

FormatInv ==
  /\ magic_number => user_info # 0
  /\ \A p \in Producers : pc[p] = "hdr_magic" => user_info # 0
  /\ c.pc = "hdr_info" => magic_number
  /\ c.pc \in Mapped => user_info # 0 /\ c.map # 0
  /\ c.pc \in Mapped \ {"desc"} => c.desc # 0

\* user_info is never again the zeros of a new file.
LEMMA ProduceFormat ==
  ASSUME TypeInv, FormatInv, NEW p \in Producers, Produce(p)
  PROVE  FormatInv'
<1> USE DEF Goto, Gone
<1> pc \in [Producers -> Steps]
  BY DEF TypeInv, TypeOK
<1>1. c' = c
  BY DEF Produce, Proceed, section_create, section_lock, section_resize,
     invalidate_section, hdr_write_info, hdr_write_magic, mdata_hdr_write,
     clear_section, update_global_revision_nb, section_unlock,
     start_write_session, write_sample, end_write_session, producer_close,
     crash
<1>2. CASE hdr_write_info(p)
  <2>1. creation[p] # 0
    BY <1>2 DEF hdr_write_info, TypeInv, Asking
  <2> QED BY <1>1, <1>2, <2>1 DEF hdr_write_info, FormatInv
<1>3. CASE hdr_write_magic(p)
  BY <1>1, <1>3 DEF hdr_write_magic, FormatInv
<1>4. CASE ~hdr_write_info(p) /\ ~hdr_write_magic(p)
  <2>1. UNCHANGED <<magic_number, user_info>>
    BY <1>4 DEF Produce, Proceed, section_create, section_lock, section_resize,
       invalidate_section, mdata_hdr_write, clear_section,
       update_global_revision_nb, section_unlock, start_write_session,
       write_sample, end_write_session, producer_close, crash, shared
  <2>2. \A q \in Producers : pc'[q] = "hdr_magic" => pc[q] = "hdr_magic"
    BY <1>4 DEF Produce, Proceed, section_create, section_lock, section_resize,
       invalidate_section, mdata_hdr_write, clear_section,
       update_global_revision_nb, section_unlock, start_write_session,
       write_sample, end_write_session, producer_close, crash
  <2> QED BY <1>1, <2>1, <2>2 DEF FormatInv
<1> QED BY <1>2, <1>3, <1>4

\* The consumer goes past hdr_magic only when it finds the magic number.
LEMMA ConsumerFormat ==
  ASSUME TypeInv, FormatInv, ~Leftover, Open \/ Consume \/ consumer_close
  PROVE  FormatInv'
<1>1. UNCHANGED <<magic_number, user_info, pc>>
  BY ConsumerWritesNothing DEF Producing, shared, local
<1>2. c \in [pc : ConsumerSteps, map : Creations \cup {-1}, desc : Creations,
             rev : Nat, got : Creations, ret : Results, settled : BOOLEAN]
  BY DEF TypeInv, TypeOK
<1>3. /\ c'.pc = "hdr_info" => magic_number
      /\ c'.pc \in Mapped => user_info # 0 /\ c'.map # 0
      /\ c'.pc \in Mapped \ {"desc"} => c'.desc # 0
  <2> USE <1>2 DEF Mapped, FormatInv, OpenFails, Killed, NoContext
  <2>1. CASE section_open
    BY <2>1 DEF section_open
  <2>2. CASE hdr_read_magic
    BY <2>2 DEF hdr_read_magic
  <2>3. CASE hdr_read_info
    BY <2>3 DEF hdr_read_info
  <2>4. CASE section_desc_new
    BY <2>4 DEF section_desc_new
  <2>5. CASE revision_tested \/ update_local_revision_nb
    BY <2>5 DEF revision_tested, update_local_revision_nb
  <2>6. CASE Consume
    BY <2>6 DEF Consume, read_data, end_read, read_section_hdr, copy_hdr,
       read_blob_metadata_hdr, check_mdata, copy_mdata
  <2>7. CASE consumer_close
    BY <2>7 DEF consumer_close
  <2> QED BY <2>1, <2>2, <2>3, <2>4, <2>5, <2>6, <2>7 DEF Open
<1> QED BY <1>1, <1>3 DEF FormatInv

\* A consumer whose stack holds no header of another section never opens one
\* on the zeros of a new file, however many producers create it meanwhile.
THEOREM OpensOnAFormat ==
  ASSUME ~Leftover
  PROVE  Spec => []OpenedOnAFormat
<1>1. Init => FormatInv
  BY DEF Init, FormatInv, NoContext, Mapped
<1>2. ASSUME TypeInv, FormatInv, [Next]_vars PROVE FormatInv'
  <2>1. CASE UNCHANGED vars
    BY <1>2, <2>1 DEF vars, shared, local, FormatInv
  <2> QED BY <1>2, <2>1, ProduceFormat, ConsumerFormat DEF Next
<1>3. TypeInv /\ FormatInv /\ [Next]_vars => FormatInv'
  BY <1>2
<1>4. FormatInv => OpenedOnAFormat
  BY DEF FormatInv, OpenedOnAFormat, Mapped
<1> QED BY <1>1, <1>3, <1>4, TypeInvHolds, PTL DEF Spec

=============================================================================
