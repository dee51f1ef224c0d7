------------------------------ MODULE ShdWrite ------------------------------
(***************************************************************************)
(* The producer side of libshdata on one mapped data section: the calls    *)
(* shd_new_sample, shd_write_quantity, shd_commit_sample and               *)
(* shd_write_new_blob of src/src/shd.c, down to every access to the shared *)
(* memory in shd_data.c and shd_sync.c.  Several contexts write to the     *)
(* same section, which the library does not prevent but tries to detect.   *)
(*                                                                         *)
(* One action is one access to shared memory, with the local code up to    *)
(* the next one.  Memory is sequentially consistent.  The section exists,  *)
(* every context is open on it and none re-creates it (ShdSection).        *)
(*                                                                         *)
(* The content of a sample is two words, its metadata (time stamp          *)
(* included) and its blob.  The client is taken to write an increasing     *)
(* time stamp, so the rank of the write session stands for the metadata    *)
(* and the blob written in it.                                             *)
(***************************************************************************)
EXTENDS ShdIndex, FiniteSets

CONSTANTS
  Producers,     \* the contexts that write (struct shd_ctx of shd_create)
  Api,           \* the functions their clients call
  UintMod,       \* 2^32 in the code: modulus of the type uint32_t
  MaxSessions,   \* bound: number of write sessions granted
  MaxOngoing     \* bound: value of nb_ongoing_writes (refused calls pile up)

Starting == {"shd_new_sample", "shd_write_new_blob"}
Functions == Starting \cup {"shd_write_quantity", "shd_commit_sample"}

ASSUME ApiAssumption     == Api \subseteq Functions
ASSUME UintModAssumption == UintMod \in Nat /\ UintMod > NbSamples
ASSUME BoundsAssumption  == MaxSessions \in Nat /\ MaxOngoing \in Nat

VARIABLES
  \* struct shd_sync_hdr, in shared memory
  write_index,        \* last committed slot, -1 when none is
  nb_ongoing_writes,  \* sessions asked for since the last one ended
  \* struct shd_sample, in shared memory, one per slot
  nb_writes,          \* number of writes started, -1 for an invalid sample
  samples,            \* content: metadata and blob
  \* struct shd_sync_ctx, one per producer
  index,              \* slot being written, -1 when none is
  prev_index,         \* slot last committed by this context, -1 when none is
  \* execution of each producer
  pc, call,           \* the next access, and the API function it belongs to
  curr_sample,        \* local of shd_data_reserve_write
  ret,                \* value returned by the last call
  \* history, read by no guard but the bound
  sessions,           \* write sessions granted so far
  payload,            \* rank of the session each producer was last granted
  foreign             \* commits by the others since this producer's last one

shared == <<write_index, nb_ongoing_writes, nb_writes, samples>>
ctx    == <<index, prev_index>>
local  == <<pc, call, curr_sample, ret>>
ghosts == <<sessions, payload, foreign>>
vars   == <<shared, ctx, local, ghosts>>

Empty == [metadata |-> 0, blob |-> 0]     \* memset by shd_data_clear_section
Errors == {"EALREADY", "EPERM", "EFAULT"}

\* State after shd_sync_hdr_init, shd_data_clear_section and shd_sync_ctx_new.
Init ==
  /\ write_index = -1
  /\ nb_ongoing_writes = 0
  /\ nb_writes = [s \in Slots |-> -1]
  /\ samples = [s \in Slots |-> Empty]
  /\ index = [p \in Producers |-> -1]
  /\ prev_index = [p \in Producers |-> -1]
  /\ pc = [p \in Producers |-> "idle"]
  /\ call = [p \in Producers |-> "none"]
  /\ curr_sample = [p \in Producers |-> -1]
  /\ ret = [p \in Producers |-> "OK"]
  /\ sessions = 0
  /\ payload = [p \in Producers |-> 0]
  /\ foreign = [p \in Producers |-> 0]

-----------------------------------------------------------------------------

Goto(p, label) == pc' = [pc EXCEPT ![p] = label] /\ UNCHANGED ret

\* The call in progress returns r to the client.
Return(p, r) == pc' = [pc EXCEPT ![p] = "idle"] /\ ret' = [ret EXCEPT ![p] = r]

\* A step of shd_write_new_blob when it has got so far, or a call of f.
Reaches(p, label, f) == pc[p] = label \/ (pc[p] = "idle" /\ f \in Api)

\* shd_sync_start_write_session: atomic add_and_fetch, which is not undone
\* when the session is refused.
\* Slip for mutation: the new value of the counter is not compared to 1.
GrantSession_unchecked(p) ==
  /\ sessions < MaxSessions
  /\ sessions' = sessions + 1
  /\ payload' = [payload EXCEPT ![p] = sessions + 1]
  /\ Goto(p, "get_next_write_index")

GrantSession(p) ==
  /\ nb_ongoing_writes + 1 = 1
  /\ sessions < MaxSessions
  /\ sessions' = sessions + 1
  /\ payload' = [payload EXCEPT ![p] = sessions + 1]
  /\ Goto(p, "get_next_write_index")

RefuseSession(p) ==
  /\ nb_ongoing_writes + 1 # 1
  /\ Return(p, IF index[p] # -1 THEN "EALREADY" ELSE "EPERM")
  /\ UNCHANGED <<sessions, payload>>

start_write_session(p) ==
  /\ pc[p] = "idle"
  /\ nb_ongoing_writes < MaxOngoing
  /\ \E f \in Api \cap Starting : call' = [call EXCEPT ![p] = f]
  /\ nb_ongoing_writes' = nb_ongoing_writes + 1
  /\ GrantSession(p) \/ RefuseSession(p)
  /\ UNCHANGED <<write_index, nb_writes, samples, ctx, curr_sample, foreign>>

\* The first of the two reads of hdr->write_index by shd_data_reserve_write,
\* and the argument check of shd_sync_start_sample_write.
get_next_write_index(p) ==
  /\ pc[p] = "get_next_write_index"
  /\ curr_sample' = [curr_sample EXCEPT ![p] = index_next(write_index)]
  /\ IF index[p] # -1 THEN Return(p, "EALREADY") ELSE Goto(p, "invalidate")
  /\ UNCHANGED <<shared, ctx, call, ghosts>>

\* shd_sync_start_sample_write: "Invalidate sample".
invalidate(p) ==
  /\ pc[p] = "invalidate"
  /\ nb_writes' = [nb_writes EXCEPT ![curr_sample[p]] = @ + 1]
  /\ Goto(p, "take_index")
  /\ UNCHANGED <<write_index, nb_ongoing_writes, samples, ctx, call,
                 curr_sample, ghosts>>

\* shd_sync_start_sample_write: uint32_t unexpected_samples.
\* Slips for mutation: the write of the context itself is counted as
\* unexpected; one unexpected write is tolerated.
unexpected_with_own(prev, idx) == interval_between(prev, idx)

unexpected_but_one(prev, idx) ==
  IF interval_between(prev, idx) <= 2 THEN 0 ELSE interval_between(prev, idx) - 1

unexpected_samples(prev, idx) == (interval_between(prev, idx) - 1) % UintMod

\* index_increment_from(&ctx->index, &hdr->write_index).
\* Slip for mutation: the context counts from its own last write.
index_after_own(p) == index_next(prev_index[p])

incremented_index(p) == index_next(write_index)

\* shd_sync_start_sample_write: second read of hdr->write_index; an error
\* leaves ctx->index set and the session open.
take_index(p) ==
  /\ pc[p] = "take_index"
  /\ LET idx == incremented_index(p) IN
     /\ index' = [index EXCEPT ![p] = idx]
     /\ IF prev_index[p] # -1 /\ unexpected_samples(prev_index[p], idx) > 0
        THEN Return(p, "EFAULT")
        ELSE Goto(p, "write_metadata")
  /\ UNCHANGED <<shared, prev_index, call, curr_sample, ghosts>>

\* shd_sample_write: memcpy into the slot the context writes.
\* Slip for mutation: into the next one.
store_ahead(p, word) ==
  samples' = [samples EXCEPT ![index_next(index[p])][word] = payload[p]]

store(p, word) == samples' = [samples EXCEPT ![index[p]][word] = payload[p]]

\* shd_data_write_metadata, which ends shd_new_sample.
write_metadata(p) ==
  /\ pc[p] = "write_metadata"
  /\ store(p, "metadata")
  /\ IF call[p] = "shd_write_new_blob" THEN Goto(p, "write_quantity")
                                       ELSE Return(p, "OK")
  /\ UNCHANGED <<write_index, nb_ongoing_writes, nb_writes, ctx, call,
                 curr_sample, ghosts>>

\* shd_data_write_quantity.
write_quantity(p) ==
  /\ Reaches(p, "write_quantity", "shd_write_quantity")
  /\ index[p] # -1
  /\ store(p, "blob")
  /\ IF pc[p] = "write_quantity" THEN Goto(p, "commit") ELSE Return(p, "OK")
  /\ UNCHANGED <<write_index, nb_ongoing_writes, nb_writes, ctx, call,
                 curr_sample, ghosts>>

\* shd_data_end_write and the first store of shd_sync_end_write_session.
commit(p) ==
  /\ Reaches(p, "commit", "shd_commit_sample")
  /\ index[p] # -1
  /\ write_index' = index[p]
  /\ foreign' = [q \in Producers |-> IF q = p THEN 0 ELSE foreign[q] + 1]
  /\ Goto(p, "release")
  /\ UNCHANGED <<nb_ongoing_writes, nb_writes, samples, ctx, call,
                 curr_sample, sessions, payload>>

\* Slips for mutation: the counter is decremented; ctx->index is kept.
release_decrements(p) ==
  /\ pc[p] = "release"
  /\ nb_ongoing_writes' = nb_ongoing_writes - 1
  /\ prev_index' = [prev_index EXCEPT ![p] = index[p]]
  /\ index' = [index EXCEPT ![p] = -1]
  /\ Return(p, "OK")
  /\ UNCHANGED <<write_index, nb_writes, samples, call, curr_sample, ghosts>>

release_keeps_index(p) ==
  /\ pc[p] = "release"
  /\ nb_ongoing_writes' = 0
  /\ prev_index' = [prev_index EXCEPT ![p] = index[p]]
  /\ Return(p, "OK")
  /\ UNCHANGED <<write_index, nb_writes, samples, index, call, curr_sample, ghosts>>

\* The second store of shd_sync_end_write_session, and its local updates.
release(p) ==
  /\ pc[p] = "release"
  /\ nb_ongoing_writes' = 0
  /\ prev_index' = [prev_index EXCEPT ![p] = index[p]]
  /\ index' = [index EXCEPT ![p] = -1]
  /\ Return(p, "OK")
  /\ UNCHANGED <<write_index, nb_writes, samples, call, curr_sample, ghosts>>

\* shd_data_write_quantity and shd_data_end_write called out of sequence.
out_of_sequence(p) ==
  /\ pc[p] = "idle"
  /\ index[p] = -1
  /\ Api \cap {"shd_write_quantity", "shd_commit_sample"} # {}
  /\ Return(p, "EPERM")
  /\ UNCHANGED <<shared, ctx, call, curr_sample, ghosts>>

\* What a producer does once its call is accepted, up to the return.
Proceed(p) ==
  \/ get_next_write_index(p) \/ invalidate(p) \/ take_index(p)
  \/ write_metadata(p) \/ write_quantity(p) \/ commit(p) \/ release(p)

\* No client is inside a call: they may all stop here.
ClientsDone == (\A p \in Producers : pc[p] = "idle") /\ UNCHANGED vars

Next ==
  \/ \E p \in Producers :
       start_write_session(p) \/ Proceed(p) \/ out_of_sequence(p)
  \/ ClientsDone

Spec == Init /\ [][Next]_vars

\* A thread inside a call keeps running, and a client that opened a sample
\* with shd_new_sample ends up committing it (the @post of that function).
Fairness == \A p \in Producers : WF_vars(Proceed(p)) /\ WF_vars(commit(p))

FairSpec == Spec /\ Fairness

-----------------------------------------------------------------------------
(* Where each producer is in a write. *)

\* The session is granted and ctx->index not yet taken.
Starts(p) == pc[p] \in {"get_next_write_index", "invalidate", "take_index"}

\* p has been granted the section and has not given it back.
Holds(p) == Starts(p) \/ index[p] # -1

\* p has counted its write in nb_writes and not published it.
Writing(p) == pc[p] = "take_index" \/ (index[p] # -1 /\ pc[p] # "release")

\* p was told -EFAULT by shd_write_new_blob, and holds the section since.
Faulted(p) == pc[p] = "idle" /\ index[p] # -1

\* The write of p went through the check of take_index.
Passed(p) == pc[p] \in {"write_metadata", "write_quantity", "commit"}

Steps == {"idle", "get_next_write_index", "invalidate", "take_index",
          "write_metadata", "write_quantity", "commit", "release"}

Contents == [metadata : Nat, blob : Nat]

\* Every variable keeps its type, and the local indexes stay in the ring.
TypeOK ==
  /\ write_index \in Slots \cup {-1}
  /\ nb_ongoing_writes \in Nat
  /\ nb_writes \in [Slots -> Nat \cup {-1}]
  /\ samples \in [Slots -> Contents]
  /\ index \in [Producers -> Slots \cup {-1}]
  /\ prev_index \in [Producers -> Slots \cup {-1}]
  /\ pc \in [Producers -> Steps]
  /\ call \in [Producers -> Starting \cup {"none"}]
  /\ curr_sample \in [Producers -> Slots \cup {-1}]
  /\ ret \in [Producers -> Errors \cup {"OK"}]
  /\ sessions \in Nat
  /\ payload \in [Producers -> Nat]
  /\ foreign \in [Producers -> Nat]

-----------------------------------------------------------------------------
(* Safety *)

\* The counter nb_ongoing_writes lets one producer at a time into the
\* section, however the refused calls of the others move it.
OneWriter == \A p, q \in Producers : Holds(p) /\ Holds(q) => p = q

\* The counter tells whether the section is held: it is above 0 from the
\* grant of a session to its end, and the increments of refused calls never
\* outlive the session that refused them.
SectionHeld == nb_ongoing_writes > 0 <=> \E p \in Producers : Holds(p)

\* A write reads write_index twice: the slot whose nb_writes it increments
\* comes from the first read, the slot it fills and publishes from the second.
\* They are one and the same, the successor of the last committed slot, from
\* the first read to the publication, and its counter is then that of a
\* valid sample.
OneSlotPerWrite ==
  \A p \in Producers :
    /\ Starts(p) => index[p] = -1
    /\ Passed(p) \/ pc[p] = "release" => index[p] # -1
    /\ pc[p] \in {"invalidate", "take_index"} => curr_sample[p] = index_next(write_index)
    /\ index[p] # -1 => index[p] = curr_sample[p]
    /\ index[p] # -1 => index[p] = (IF pc[p] = "release" THEN write_index
                                                         ELSE index_next(write_index))
    /\ pc[p] = "take_index" \/ index[p] # -1 => nb_writes[curr_sample[p]] >= 0

\* Once the write in progress is set aside, the counters nb_writes describe
\* laps of the ring: equal on both sides of write_index, and one more up to
\* it than beyond it.  Readers rely on a counter to tell one lap from another.
settled(s) ==
  IF \E p \in Producers : Writing(p) /\ curr_sample[p] = s
  THEN nb_writes[s] - 1 ELSE nb_writes[s]

LapOrder ==
  \A s, t \in Slots : s <= t =>
    settled(s) - settled(t) = (IF s <= write_index /\ write_index < t THEN 1 ELSE 0)

\* A producer told -EFAULT has really been overtaken: the others committed
\* since its last commit, and not a whole number of laps.  (Not on a ring of
\* one slot, where unexpected_samples wraps and every write but the first is
\* told -EFAULT.)
FaultMeansForeignWrite ==
  \A p \in Producers :
    Faulted(p) /\ ret[p] = "EFAULT" => foreign[p] % NbSamples # 0

\* Conversely a write that goes through missed no foreign commit, unless they
\* went round the ring or this context had never committed.
NoFaultMeansWholeLaps ==
  \A p \in Producers :
    Passed(p) /\ prev_index[p] # -1 => foreign[p] % NbSamples = 0

\* Stores into samples never reach a published one but the oldest, which is
\* the next to be written.
PublishedStable ==
  [][\A s \in Slots : samples'[s] # samples[s] => s = index_next(write_index)]_vars

\* The fault is "unrecoverable" for everyone (libshdata.h): nothing is
\* published after one client of shd_write_new_blob is told -EFAULT.
FaultStopsTheRing ==
  [][\A p \in Producers : Faulted(p) => Faulted(p)' /\ UNCHANGED write_index]_vars

\* A granted session ends with the section given back, or in -EFAULT.
SessionsEnd == \A p \in Producers : Starts(p) ~> (~Holds(p) \/ ret[p] = "EFAULT")

-----------------------------------------------------------------------------
(* What readers are promised (ShdLog): the slots up to write_index, but for *)
(* the one after it.                                                        *)

published ==
  LET back(n) == index_n_before(write_index, n)
      len == IF write_index = -1 THEN 0
             ELSE Cardinality({n \in 0 .. NbSamples - 2 : nb_writes[back(n)] # -1})
  IN  [i \in 1 .. len |-> samples[back(len - i)]]

Log == INSTANCE ShdLog WITH Depth <- NbSamples - 1, Times <- 1 .. MaxSessions,
                            log <- published

\* A committed sample is whole, newer than all before it, and stays readable
\* until N - 1 others are committed.
ImplementsLog == Log!Spec

=============================================================================
