------------------------ MODULE ShdSectionSoleProofs ------------------------
(***************************************************************************)
(* Proofs about a section of ShdSection with a single producer, which may  *)
(* close it, die and create it again at any time, with any backend: what   *)
(* an even revision number, and one that has not changed, tell readers.    *)
(*                                                                         *)
(* SoleInv is about the producer: together the revision number and the     *)
(* deaths tell whether it is between the two updates, and each step of     *)
(* shd_create leaves its mark.  ReaderInv is about a consumer: until the   *)
(* revision number moves, what it opened is whole.                         *)
(***************************************************************************)
EXTENDS ShdSectionProofs

CONSTANT sole    \* the producer

Alone == Producers = {sole}

\* The section is all from creation g.
WholeOf(g) == user_info = g /\ metadata_hdr = g /\ data = g

Before == {"lock", "resize", "invalidate"}

SoleInv ==
  /\ ~exists =>
       pc[sole] \in Gone /\ nb_creations = 0 /\ interrupted = 0 /\ completed = 0
  /\ pc[sole] \in Before /\ first[sole] =>
       nb_creations = 0 /\ interrupted = 0 /\ completed = 0
  /\ (nb_creations + interrupted) % 2 = 1 <=> pc[sole] \in Update
  /\ interrupted = 0 =>
       nb_creations = 2 * completed + (IF pc[sole] \in Update THEN 1 ELSE 0)
  /\ pc[sole] \in Before \cup {"hdr_info"} => user_info < creation[sole]
  /\ pc[sole] \in {"hdr_magic", "mdata_hdr", "clear", "update"} =>
       user_info = creation[sole]
  /\ pc[sole] \in {"clear", "update"} => metadata_hdr = creation[sole]
  /\ pc[sole] = "update" => data = creation[sole]
  /\ pc[sole] \in {"unlock", "open", "write", "commit"} => WholeOf(creation[sole])
  /\ pc[sole] \in {"mdata_hdr", "clear", "update", "unlock", "open"} =>
       nb_ongoing_writes = 0
  /\ pc[sole] \notin Update /\ interrupted <= 1 /\ nb_creations % 2 = 0 => Whole

Holding == {"open", "end_read", "copy_hdr", "check_mdata", "copy_mdata", "killed"}

\* What the consumer holds is the header of a creation that is whole, or being
\* created again after a death; then it stands until the revision moves.
ReaderInv ==
  /\ pc[sole] \in Before \cup {"hdr_info"} => c.desc < creation[sole]
  /\ c.pc = "local_revision" /\ interrupted <= 1 /\ c.desc = user_info =>
       Whole \/ (interrupted = 1 /\ pc[sole] \in Update)
  /\ c.settled => c.pc \in Holding
  /\ c.settled /\ interrupted <= 1 =>
       /\ c.rev <= nb_creations
       /\ c.rev = nb_creations => pc[sole] \notin Update /\ WholeOf(c.desc)
       /\ c.pc = "end_read" /\ c.rev = nb_creations => c.got = c.desc
       /\ c.ret = "read" => c.got = c.desc
       /\ c.ret \in {"hdr", "mdata"} /\ c.rev = nb_creations => c.got = c.desc

-----------------------------------------------------------------------------
\* What the proofs below draw from the types.
LEMMA SoleTypes ==
  ASSUME TypeInv, Alone
  PROVE  /\ pc \in [Producers -> Steps] /\ sole \in Producers
         /\ creation \in [Producers -> Nat] /\ creation[sole] \in Nat
         /\ {nb_creations, interrupted, completed, nb_ongoing_writes} \subseteq Nat
         /\ {user_info, metadata_hdr, data} \subseteq Nat
         /\ c.desc \in Nat /\ c.rev \in Nat
<1>1. Creations \subseteq Nat
  BY DEF Creations
<1> QED BY <1>1 DEF TypeInv, TypeOK, Alone

\* At the start nothing is written, and the fixed memory may look interrupted.
LEMMA InitSole ==
  ASSUME Init, Alone
  PROVE  SoleInv /\ ReaderInv
<1>1. nb_creations \in {0, 1} /\ interrupted = nb_creations /\ completed = 0
  BY DEF Init
<1>2. pc[sole] = "none" /\ c = NoContext
  BY DEF Init, Alone
<1>3. ~exists => nb_creations = 0
  BY DEF Init
<1>4. Whole
  BY DEF Init, Whole
<1> QED
  BY <1>1, <1>2, <1>3, <1>4
  DEF SoleInv, ReaderInv, Before, Update, Gone, NoContext

\* Each step of the producer keeps SoleInv.
LEMMA ProduceSole ==
  ASSUME TypeInv, Alone, SoleInv, Produce(sole)
  PROVE  SoleInv'
<1> USE SoleTypes
    DEF Before, Update, Gone, Goto, Whole, WholeOf, file, shared, history, SoleInv
<1>1. CASE section_create(sole)
  <2>1. user_info < Len(infos) + 1 /\ Len(infos) + 1 \in Nat
    BY DEF TypeInv, TypeOK, Creations
  <2>2. pc'[sole] = "lock" /\ creation'[sole] = Len(infos) + 1 /\ pc[sole] \in Gone
    BY <1>1 DEF section_create
  <2>3. /\ exists' = TRUE /\ first'[sole] = ~exists
        /\ UNCHANGED <<nb_creations, interrupted, completed, user_info,
                       metadata_hdr, data>>
    BY <1>1 DEF section_create, TypeInv, TypeOK
  <2>4. ~exists => nb_creations = 0 /\ interrupted = 0 /\ completed = 0
    OBVIOUS
  <2> QED BY <2>1, <2>2, <2>3, <2>4
<1>2. CASE section_lock(sole)
  BY <1>2 DEF section_lock
<1>3. CASE section_resize(sole)
  BY <1>3 DEF section_resize
<1>4. CASE invalidate_section(sole)
  <2>1. nb_creations' = nb_creations + 1
    BY <1>4 DEF invalidate_section, invalidated
  <2>2. /\ pc[sole] = "invalidate" /\ pc'[sole] = "hdr_info"
        /\ UNCHANGED <<exists, interrupted, completed, user_info, creation>>
    BY <1>4 DEF invalidate_section
  <2>3. (nb_creations' + interrupted') % 2 = 1
    BY <2>1, <2>2
  <2> QED BY <2>1, <2>2, <2>3
<1>5. CASE hdr_write_info(sole)
  BY <1>5 DEF hdr_write_info
<1>6. CASE hdr_write_magic(sole)
  BY <1>6 DEF hdr_write_magic
<1>7. CASE mdata_hdr_write(sole)
  BY <1>7 DEF mdata_hdr_write
<1>8. CASE clear_section(sole)
  BY <1>8 DEF clear_section
<1>9. CASE update_global_revision_nb(sole)
  BY <1>9 DEF update_global_revision_nb
<1>10. CASE section_unlock(sole)
  BY <1>10 DEF section_unlock
<1>11. CASE start_write_session(sole)
  BY <1>11 DEF start_write_session
<1>12. CASE write_sample(sole)
  BY <1>12 DEF write_sample
<1>13. CASE end_write_session(sole)
  BY <1>13 DEF end_write_session
<1>14. CASE producer_close(sole)
  BY <1>14 DEF producer_close
<1>15. CASE crash(sole)
  <2>1. /\ pc'[sole] = "killed"
        /\ UNCHANGED <<exists, nb_creations, completed, user_info,
                       metadata_hdr, data>>
    BY <1>15 DEF crash
  <2>2. pc[sole] \in Update => exists
    OBVIOUS
  <2>3. CASE pc[sole] \in Update
    <3>1. interrupted' = interrupted + 1
      BY <1>15, <2>3 DEF crash
    <3>2. (nb_creations' + interrupted') % 2 = 0
      BY <2>1, <2>3, <3>1
    <3> QED BY <2>1, <2>2, <3>1, <3>2
  <2>4. CASE pc[sole] \notin Update
    BY <1>15, <2>1, <2>2, <2>4 DEF crash
  <2> QED BY <2>3, <2>4
<1> QED
  BY <1>1, <1>2, <1>3, <1>4, <1>5, <1>6, <1>7, <1>8, <1>9, <1>10, <1>11,
     <1>12, <1>13, <1>14, <1>15 DEF Produce, Proceed

\* The producer never takes the revision number back, nor a death.
LEMMA OnlyForward ==
  ASSUME TypeInv, Alone, SoleInv, Produce(sole)
  PROVE  nb_creations <= nb_creations' /\ interrupted <= interrupted' /\ c' = c
<1> USE SoleTypes DEF SoleInv, Before, Goto
<1> QED
  BY DEF Produce, Proceed, section_create, section_lock, section_resize,
     invalidate_section, invalidated, hdr_write_info, hdr_write_magic,
     mdata_hdr_write, clear_section, update_global_revision_nb,
     section_unlock, start_write_session, write_sample, end_write_session,
     producer_close, crash, shared, history

\* Each of its steps keeps ReaderInv: those that change what consumers read
\* come after the revision number has moved.
LEMMA ProduceReader ==
  ASSUME TypeInv, Alone, SoleInv, ReaderInv, Produce(sole)
  PROVE  ReaderInv'
<1> USE SoleTypes, OnlyForward
    DEF Before, Update, Gone, Goto, Whole, WholeOf, file, shared, history,
        SoleInv, ReaderInv
<1>1. CASE section_create(sole)
  <2>1. c.desc < Len(infos) + 1
    BY DEF TypeInv, TypeOK, Creations
  <2>2. /\ pc'[sole] = "lock" /\ creation'[sole] = Len(infos) + 1
        /\ pc[sole] \in Gone
        /\ UNCHANGED <<nb_creations, interrupted, user_info, metadata_hdr,
                       data, c>>
    BY <1>1 DEF section_create
  <2> QED BY <2>1, <2>2
<1>2. CASE section_lock(sole)
  BY <1>2 DEF section_lock
<1>3. CASE section_resize(sole)
  BY <1>3 DEF section_resize
<1>4. CASE invalidate_section(sole)
  <2>1. nb_creations' = nb_creations + 1
    BY <1>4 DEF invalidate_section, invalidated
  <2>2. /\ pc[sole] = "invalidate" /\ pc'[sole] = "hdr_info"
        /\ UNCHANGED <<interrupted, user_info, metadata_hdr, data, creation, c>>
    BY <1>4 DEF invalidate_section
  <2> QED BY <2>1, <2>2
<1>5. CASE hdr_write_info(sole)
  BY <1>5 DEF hdr_write_info
<1>6. CASE hdr_write_magic(sole)
  BY <1>6 DEF hdr_write_magic
<1>7. CASE mdata_hdr_write(sole)
  BY <1>7 DEF mdata_hdr_write
<1>8. CASE clear_section(sole)
  BY <1>8 DEF clear_section
<1>9. CASE update_global_revision_nb(sole)
  BY <1>9 DEF update_global_revision_nb
<1>10. CASE section_unlock(sole)
  BY <1>10 DEF section_unlock
<1>11. CASE start_write_session(sole)
  BY <1>11 DEF start_write_session
<1>12. CASE write_sample(sole)
  BY <1>12 DEF write_sample
<1>13. CASE end_write_session(sole)
  BY <1>13 DEF end_write_session
<1>14. CASE producer_close(sole)
  BY <1>14 DEF producer_close
<1>15. CASE crash(sole)
  BY <1>15 DEF crash
<1> QED
  BY <1>1, <1>2, <1>3, <1>4, <1>5, <1>6, <1>7, <1>8, <1>9, <1>10, <1>11,
     <1>12, <1>13, <1>14, <1>15 DEF Produce, Proceed

\* Each step of the consumer keeps it too.
LEMMA ConsumerReader ==
  ASSUME TypeInv, Alone, SoleInv, ReaderInv, Open \/ Consume \/ consumer_close
  PROVE  ReaderInv'
<1>1. UNCHANGED <<pc, creation, nb_creations, interrupted, user_info,
                  metadata_hdr, data>>
  BY ConsumerWritesNothing DEF Producing, shared, local, history
<1>2. c \in [pc : ConsumerSteps, map : Creations \cup {-1}, desc : Creations,
             rev : Nat, got : Creations, ret : Results, settled : BOOLEAN]
  BY DEF TypeInv, TypeOK
<1>3. pc[sole] \in Before \cup {"hdr_info"} => 0 < creation[sole]
  BY SoleTypes DEF TypeInv, Asking, Alone, Before, Gone
<1> USE SoleTypes, <1>1, <1>2, <1>3
    DEF ReaderInv, Whole, WholeOf, Holding, Killed, OpenFails, NoContext
<1>4. CASE section_open
  BY <1>4 DEF section_open
<1>5. CASE hdr_read_magic
  BY <1>5 DEF hdr_read_magic
<1>6. CASE hdr_read_info
  BY <1>6 DEF hdr_read_info
<1>7. CASE section_desc_new
  BY <1>7 DEF section_desc_new, SoleInv
<1>8. CASE revision_tested
  <2>1. CASE nb_creations % 2 = 1
    BY <1>8, <2>1 DEF revision_tested
  <2>2. CASE nb_creations % 2 # 1
    <3>1. interrupted <= 1 => Whole \/ (interrupted = 1 /\ pc[sole] \in Update)
      <4>1. CASE pc[sole] \in Update
        BY <2>2, <4>1 DEF SoleInv
      <4>2. CASE pc[sole] \notin Update
        BY <2>2, <4>2 DEF SoleInv
      <4> QED BY <4>1, <4>2
    <3>2. c' = [c EXCEPT !.pc = "local_revision"]
      BY <1>8, <2>2 DEF revision_tested
    <3> QED BY <1>8, <3>1, <3>2 DEF revision_tested
  <2> QED BY <2>1, <2>2
<1>9. CASE update_local_revision_nb
  BY <1>9 DEF update_local_revision_nb, Updating, Alone, SoleInv
<1>10. CASE read_data
  BY <1>10 DEF read_data
<1>11. CASE end_read
  <2>1. CASE revision_unchanged
    <3>1. c' = [c EXCEPT !.pc = "open", !.ret = "read"]
      BY <1>11, <2>1 DEF end_read
    <3> QED BY <1>11, <2>1, <3>1 DEF end_read, revision_unchanged
  <2>2. CASE ~revision_unchanged
    <3>1. c' = [c EXCEPT !.pc = "open", !.ret = "ENODEV"]
      BY <1>11, <2>2 DEF end_read
    <3> QED BY <1>11, <3>1 DEF end_read
  <2> QED BY <2>1, <2>2
<1>12. CASE read_section_hdr
  <2>1. CASE revision_unchanged
    <3>1. c' = [c EXCEPT !.pc = "copy_hdr", !.ret = "none"]
      BY <1>12, <2>1 DEF read_section_hdr
    <3> QED BY <1>12, <2>1, <3>1 DEF read_section_hdr, revision_unchanged
  <2>2. CASE ~revision_unchanged
    <3>1. c' = [c EXCEPT !.ret = "ENODEV"]
      BY <1>12, <2>2 DEF read_section_hdr
    <3> QED BY <1>12, <3>1 DEF read_section_hdr
  <2> QED BY <2>1, <2>2
<1>13. CASE copy_hdr
  BY <1>13 DEF copy_hdr
<1>14. CASE read_blob_metadata_hdr
  <2>1. CASE mdata_size(c.desc) = mdata_size(user_info)
    <3>1. c' = [c EXCEPT !.pc = "check_mdata", !.ret = "none"]
      BY <1>14, <2>1 DEF read_blob_metadata_hdr
    <3> QED BY <1>14, <3>1 DEF read_blob_metadata_hdr
  <2>2. CASE mdata_size(c.desc) # mdata_size(user_info)
    <3>1. c' = [c EXCEPT !.ret = "ENOMEM"]
      BY <1>14, <2>2 DEF read_blob_metadata_hdr
    <3> QED BY <1>14, <3>1 DEF read_blob_metadata_hdr
  <2> QED BY <2>1, <2>2
<1>15. CASE check_mdata
  <2>1. CASE revision_unchanged
    <3>1. c' = [c EXCEPT !.pc = "copy_mdata"]
      BY <1>15, <2>1 DEF check_mdata
    <3> QED BY <1>15, <2>1, <3>1 DEF check_mdata, revision_unchanged
  <2>2. CASE ~revision_unchanged
    <3>1. c' = [c EXCEPT !.pc = "open", !.ret = "ENODEV"]
      BY <1>15, <2>2 DEF check_mdata
    <3> QED BY <1>15, <3>1 DEF check_mdata
  <2> QED BY <2>1, <2>2
<1>16. CASE copy_mdata
  BY <1>16 DEF copy_mdata
<1>17. CASE consumer_close
  BY <1>17 DEF consumer_close
<1> QED
  BY <1>4, <1>5, <1>6, <1>7, <1>8, <1>9, <1>10, <1>11, <1>12, <1>13, <1>14,
     <1>15, <1>16, <1>17 DEF Open, Consume

\* Hence every step keeps both.
LEMMA NextSole ==
  ASSUME TypeInv, Alone, SoleInv, ReaderInv, [Next]_vars
  PROVE  SoleInv' /\ ReaderInv'
<1>1. CASE \E p \in Producers : Produce(p)
  BY <1>1, ProduceSole, ProduceReader DEF Alone
<1>2. CASE Open \/ Consume \/ consumer_close
  <2>1. SoleInv'
    BY <1>2, ConsumerWritesNothing
    DEF Producing, file, shared, local, history, SoleInv, Whole, WholeOf
  <2> QED BY <1>2, <2>1, ConsumerReader
<1>3. CASE UNCHANGED vars
  BY <1>3
  DEF vars, file, shared, local, history, SoleInv, ReaderInv, Whole, WholeOf
<1> QED BY <1>1, <1>2, <1>3 DEF Next

\* They hold in every state.
LEMMA SoleInvHolds == ASSUME Alone PROVE Spec => [](SoleInv /\ ReaderInv)
<1>1. Init => SoleInv /\ ReaderInv
  BY InitSole
<1>2. TypeInv /\ SoleInv /\ ReaderInv /\ [Next]_vars => SoleInv' /\ ReaderInv'
  BY NextSole
<1> QED BY <1>1, <1>2, TypeInvHolds, PTL DEF Spec

-----------------------------------------------------------------------------
\* The revision number counts the creations that were completed, twice, as
\* long as none was interrupted.
THEOREM SoleRevisionCounts == ASSUME Alone PROVE Spec => []EvenCountsCreations
<1>1. TypeInv /\ SoleInv => EvenCountsCreations
  BY SoleTypes DEF SoleInv, EvenCountsCreations
<1> QED BY <1>1, SoleInvHolds, TypeInvHolds, PTL

\* Its producer is never refused the section for a write that a former life
\* of its left unfinished.
THEOREM SoleIsGrantedWrites == ASSUME Alone PROVE Spec => []RestartIsGrantedWrites
<1>1. SoleInv => RestartIsGrantedWrites
  BY DEF SoleInv, RestartIsGrantedWrites, Alone
<1> QED BY <1>1, SoleInvHolds, PTL

\* An even revision number says that the section is whole, until the producer
\* dies between the two updates; after one such death it says that the section
\* is being filled again, and is odd at any other time.
THEOREM SoleDeathInverts == ASSUME Alone PROVE Spec => []DeathInvertsRevision
<1>1. TypeInv /\ SoleInv => DeathInvertsRevision
  <2> SUFFICES ASSUME TypeInv, SoleInv PROVE DeathInvertsRevision
    OBVIOUS
  <2>1. Updating # {} <=> pc[sole] \in Update
    BY DEF Updating, Alone
  <2>2. nb_creations \in Nat /\ interrupted \in Nat
    BY SoleTypes
  <2>3. (nb_creations + interrupted) % 2 = 1 <=> pc[sole] \in Update
    BY DEF SoleInv
  <2>4. interrupted = 0 /\ nb_creations % 2 = 0 => pc[sole] \notin Update
    BY <2>2, <2>3
  <2>5. interrupted = 0 /\ nb_creations % 2 = 0 => Whole
    BY <2>4 DEF SoleInv
  <2>6. interrupted = 1 => (nb_creations % 2 = 0 <=> pc[sole] \in Update)
    BY <2>2, <2>3
  <2> QED BY <2>1, <2>4, <2>5, <2>6 DEF DeathInvertsRevision
<1> QED BY <1>1, SoleInvHolds, TypeInvHolds, PTL

\* What shd_end_read accepts is from the creation that was opened, for any
\* number of restarts and one death during a creation.
THEOREM SoleReadsOneCreation == ASSUME Alone PROVE Spec => []SettledReadIsOfItsCreation
<1>1. ReaderInv => SettledReadIsOfItsCreation
  BY DEF ReaderInv, SettledReadIsOfItsCreation
<1> QED BY <1>1, SoleInvHolds, PTL

\* So is what the header calls copied, while the revision number stands.
THEOREM SoleHeaderStands == ASSUME Alone PROVE Spec => []HeaderStandsWithRevision
<1>1. ReaderInv => HeaderStandsWithRevision
  BY DEF ReaderInv, HeaderStandsWithRevision
<1> QED BY <1>1, SoleInvHolds, PTL

=============================================================================
