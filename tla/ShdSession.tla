----------------------------- MODULE ShdSession -----------------------------
(***************************************************************************)
(* The protocol of the read calls on one consumer context: the client may  *)
(* call shd_select_samples, shd_read_from_sample, shd_read_quantity,       *)
(* shd_end_read, shd_close and shd_open in any order, while the producer   *)
(* commits samples and creates the section again.  What the module follows *)
(* is the state that outlives a call: the window, the counter noted for    *)
(* it, the revision, and the block of metadata the context points to.      *)
(*                                                                         *)
(* One action is one call of src/src/shd.c.  What producers do during a    *)
(* call is the subject of ShdRead; here it may make any search fail with   *)
(* -EFAULT, and otherwise happens between the calls.  The window of a      *)
(* request is computed in the widths of the code: sums and remainders in   *)
(* uint32_t, the arguments of min() in int.                                *)
(***************************************************************************)
EXTENDS ShdIndex, Sequences, FiniteSets

CONSTANTS
  Searches,       \* struct shd_sample_search: the searches the client asks for
  UintMod,        \* 2^32 in the code: modulus of the type uint32_t
  MaxWrites,      \* bound: samples committed
  MaxCreations,   \* bound: number of creations of the section
  MaxBlocks       \* bound: blocks of metadata allocated

Uint == 0 .. UintMod - 1

\* LATEST, OLDEST, and the three methods with a date as one.
Methods == {"LATEST", "OLDEST", "DATED"}

Search == [method : Methods, before : Uint, after : Uint]

ASSUME UintModAssumption == UintMod \in Nat /\ UintMod > 2 * NbSamples
ASSUME SearchesAssumption == Searches \subseteq Search
ASSUME BoundsAssumption == {MaxWrites, MaxCreations, MaxBlocks} \subseteq Nat

VARIABLES
  \* in shared memory
  write_index, nb_writes, nb_creations,
  \* struct shd_ctx: window, sync_ctx->nb_writes, metadata (0 for NULL), and
  \* the struct shd_revision of shd_open
  ctx,
  result,   \* the last call, what it returned, and for shd_select_samples the
            \* request and struct shd_search_result
  freed,    \* per block allocated so far, how often it was freed (2: or more)
  \* history
  writes,   \* samples committed so far
  job       \* the last search that succeeded

shared == <<write_index, nb_writes, nb_creations>>
vars   == <<shared, ctx, result, freed, writes, job>>

NoWindow == [start |-> -1, ref |-> -1, end |-> -1, nb_matches |-> -1]

\* shd_ctx_new: metadata is NULL and the window reset.
NewContext(rev) ==
  [open |-> TRUE, window |-> NoWindow, nb_writes |-> 0, metadata |-> 0, rev |-> rev]

Closed == [NewContext(0) EXCEPT !.open = FALSE]

\* job.block is the block the search allocated, 0 if none; job.ended tells
\* whether shd_end_read ended it; job.intact that neither the slot at the
\* start of its window nor the section was written since; job.faulted that
\* shd_end_read answered -EFAULT.  owed are the blocks of the jobs given up
\* before they ended, bare whether a job without a block was ever ended.
NoJob == [block |-> 0, ended |-> TRUE, intact |-> FALSE, faulted |-> FALSE,
          owed |-> {}, bare |-> FALSE]

Answered(f, value) ==
  [call |-> f, ret |-> value, asked |-> 0, nb_matches |-> 0, r_sample_idx |-> 0]

Answer(f, value) == result' = Answered(f, value)

Init ==
  /\ write_index = -1 /\ nb_writes = [s \in Slots |-> -1] /\ nb_creations = 2
  /\ ctx = NewContext(2)
  /\ result = Answered("shd_open", "OK")
  /\ freed = <<>> /\ writes = 0 /\ job = NoJob

-----------------------------------------------------------------------------
(* The producer, between two calls *)

\* A sample committed (ShdWrite).
produce ==
  /\ writes < MaxWrites
  /\ writes' = writes + 1
  /\ write_index' = index_next(write_index)
  /\ nb_writes' = [nb_writes EXCEPT ![write_index'] = @ + 1]
  /\ job' = [job EXCEPT !.intact = @ /\ (job.ended \/ ctx.window.start # write_index')]
  /\ UNCHANGED <<nb_creations, ctx, result, freed>>

\* shd_create on the same section (ShdSection), with the same format.
create_again ==
  /\ nb_creations < 2 * MaxCreations
  /\ nb_creations' = nb_creations + 2
  /\ write_index' = -1
  /\ nb_writes' = [s \in Slots |-> -1]
  /\ job' = [job EXCEPT !.intact = @ /\ job.ended]
  /\ UNCHANGED <<ctx, result, freed, writes>>

-----------------------------------------------------------------------------
(* shd_data_find: the window of a search *)

\* Slip for mutation: the sum is compared to what the type can hold.
too_many_for_uint(s) == s.after + s.before + 1 > UintMod

too_many(s) == (s.after + s.before + 1) % UintMod > NbSamples

\* The conversion of an uint32_t to the int of min().
to_int(x) == IF 2 * x >= UintMod THEN x - UintMod ELSE x

Lesser(a, b) == IF a < b THEN a ELSE b

\* index_n_before and index_n_after, for an n of any sign.
before(idx, n) == ((idx + NbSamples - n) % UintMod) % NbSamples

\* Slip for mutation: the remainder of an int, which keeps the sign.
after_signed(idx, n) ==
  IF idx + n >= 0 THEN (idx + n) % NbSamples ELSE 0 - ((0 - idx - n) % NbSamples)

after(idx, n) == ((idx + n) % UintMod) % NbSamples

Valid == {s \in Slots : nb_writes[s] # -1}

\* The oldest sample, with a margin once the ring is full.
oldest ==
  IF Valid = Slots THEN index_n_after(write_index, 2)
                   ELSE index_n_before(write_index, Cardinality(Valid) - 1)

\* What the search itself may find (ShdRead): with a date, any sample, or the
\* slot after the latest, written or not.
references(s) ==
  IF s.method = "LATEST" THEN {write_index}
  ELSE IF s.method = "OLDEST" THEN {oldest}
  ELSE Valid \cup {index_next(write_index)}

\* The end of shd_window_set, for reference sample r.
window_of(s, r) ==
  LET nb_more_recent == interval_between(r, write_index)
      nb_older       == interval_between(index_next(write_index), r)
      start == before(r, Lesser(nb_older, to_int(s.before)))
      end   == after(r, Lesser(nb_more_recent, to_int(s.after)))
  IN  [start |-> start, ref |-> r, end |-> end,
       nb_matches |-> 1 + interval_between(start, end)]

\* shd_sync_start_read_session: the counter noted for window w.
noted(w) == nb_writes[w.start]

\* shd_data_find.  -EAGAIN and -EINVAL leave the window of the job before;
\* later errors have reset it; success opens the read session.
find(s) ==
  IF write_index = -1 THEN {[ret |-> "EAGAIN", ctx |-> ctx]}
  ELSE IF too_many(s) THEN {[ret |-> "EINVAL", ctx |-> ctx]}
  ELSE LET errors == IF s.method = "DATED" THEN {"EFAULT", "ENOENT"} ELSE {"EFAULT"}
           found  == {window_of(s, r) : r \in references(s)}
       IN  {[ret |-> e, ctx |-> [ctx EXCEPT !.window = NoWindow]] : e \in errors}
           \cup {[ret |-> "OK", ctx |-> [ctx EXCEPT !.window = w,
                                                    !.nb_writes = noted(w)]] : w \in found}

\* History: the job before is given up, with its block if it was not ended.
GivenUp == IF job.ended \/ job.block = 0 THEN job.owed ELSE job.owed \cup {job.block}

NextJob(block) ==
  [block |-> block, ended |-> FALSE, intact |-> TRUE,
   faulted |-> FALSE, owed |-> GivenUp, bare |-> job.bare]

\* A search that fails starts no job; if it reset the window, it ends one.
NotFound(f, s) ==
  \E outcome \in find(s) :
    /\ outcome.ret # "OK"
    /\ ctx' = outcome.ctx
    /\ Answer(f, outcome.ret)
    /\ job' = IF outcome.ret \in {"EAGAIN", "EINVAL"} THEN job
              ELSE [job EXCEPT !.ended = TRUE, !.owed = GivenUp]
    /\ UNCHANGED <<shared, freed, writes>>

-----------------------------------------------------------------------------
(* The calls *)

\* shd_select_samples: the search, then shd_data_read_metadata, whose block
\* takes the place of the one ctx->metadata points to.
select_found(s) ==
  /\ Len(freed) < MaxBlocks
  /\ \E outcome \in find(s) :
       LET w == outcome.ctx.window IN
       /\ outcome.ret = "OK"
       /\ ctx' = [outcome.ctx EXCEPT !.metadata = Len(freed) + 1]
       /\ result' = [call |-> "shd_select_samples", ret |-> "OK",
                     asked |-> s.before + s.after + 1, nb_matches |-> w.nb_matches,
                     r_sample_idx |-> interval_between(w.start, w.ref)]
  /\ freed' = Append(freed, 0)
  /\ job' = NextJob(Len(freed) + 1)
  /\ UNCHANGED <<shared, writes>>

\* The block cannot be allocated: the window and its session stay open.
select_no_memory(s) ==
  /\ \E outcome \in find(s) :
       /\ outcome.ret = "OK"
       /\ ctx' = outcome.ctx
       /\ Answer("shd_select_samples", "ENOMEM")
  /\ job' = NextJob(0)
  /\ UNCHANGED <<shared, freed, writes>>

shd_select_samples ==
  \E s \in Searches :
    select_found(s) \/ select_no_memory(s) \/ NotFound("shd_select_samples", s)

\* shd_read_from_sample: the search and the copies.  It takes no sample before
\* or after the reference, and allocates nothing.
read_from_found(s) ==
  /\ \E outcome \in find(s) :
       /\ outcome.ret = "OK"
       /\ ctx' = outcome.ctx
       /\ Answer("shd_read_from_sample",
                 IF outcome.ctx.window.nb_matches = 1 THEN "OK" ELSE "EINVAL")
  /\ job' = NextJob(0)
  /\ UNCHANGED <<shared, freed, writes>>

shd_read_from_sample ==
  \E s \in Searches :
    /\ s.before = 0 /\ s.after = 0
    /\ read_from_found(s) \/ NotFound("shd_read_from_sample", s)

\* shd_read_quantity, with room for n samples in the destination.
shd_read_quantity ==
  /\ \E n \in 0 .. NbSamples :
       Answer("shd_read_quantity", IF ctx.window.nb_matches < 0 THEN "EPERM"
                                   ELSE IF ctx.window.nb_matches > n THEN "EINVAL"
                                   ELSE "OK")
  /\ UNCHANGED <<shared, ctx, freed, writes, job>>

\* shd_sync_check_revision_nb.  Slip for mutation: any revision will do.
revision_ignored == TRUE

revision_unchanged == ctx.rev = nb_creations

\* What is left of sync_ctx->nb_writes after shd_sync_end_read_session.
after_session == -1

\* shd_window_reset.  Slip for mutation: the number of matches is left.
reset_but_matches(w) == [NoWindow EXCEPT !.nb_matches = w.nb_matches]

reset(w) == NoWindow

\* free(ctx->metadata), which a NULL pointer makes nothing of.
\* Slip for mutation: a change of revision ends the job without it.
free_if_current ==
  IF ctx.metadata = 0 \/ ~revision_unchanged THEN freed
  ELSE [freed EXCEPT ![ctx.metadata] = Lesser(@ + 1, 2)]

free == IF ctx.metadata = 0 THEN freed
        ELSE [freed EXCEPT ![ctx.metadata] = Lesser(@ + 1, 2)]

\* shd_end_read without a window: out of sequence.
end_read_early ==
  /\ ctx.window.start < 0
  /\ Answer("shd_end_read", "EPERM")
  /\ UNCHANGED <<shared, ctx, freed, writes, job>>

\* The counter has moved: -EFAULT, and the job is not ended.
\* Slip for mutation: its metadata is freed.
end_read_overwritten_freeing ==
  /\ ctx.window.start >= 0
  /\ nb_writes[ctx.window.start] # ctx.nb_writes
  /\ ctx' = [ctx EXCEPT !.nb_writes = after_session]
  /\ Answer("shd_end_read", "EFAULT")
  /\ freed' = free
  /\ job' = [job EXCEPT !.faulted = TRUE]
  /\ UNCHANGED <<shared, writes>>

end_read_overwritten ==
  /\ ctx.window.start >= 0
  /\ nb_writes[ctx.window.start] # ctx.nb_writes
  /\ ctx' = [ctx EXCEPT !.nb_writes = after_session]
  /\ Answer("shd_end_read", "EFAULT")
  /\ job' = [job EXCEPT !.faulted = TRUE]
  /\ UNCHANGED <<shared, freed, writes>>

\* It has not: shd_data_end_read, whatever the revision number.
end_read ==
  /\ ctx.window.start >= 0
  /\ nb_writes[ctx.window.start] = ctx.nb_writes
  /\ ctx' = [ctx EXCEPT !.nb_writes = after_session, !.window = reset(@)]
  /\ Answer("shd_end_read", IF revision_unchanged THEN "OK" ELSE "ENODEV")
  /\ freed' = free
  /\ job' = [job EXCEPT !.ended = TRUE, !.bare = @ \/ job.block = 0]
  /\ UNCHANGED <<shared, writes>>

\* shd_close frees the context, but no metadata.
shd_close ==
  /\ ctx' = Closed
  /\ Answer("shd_close", "OK")
  /\ job' = [job EXCEPT !.ended = TRUE, !.owed = GivenUp]
  /\ UNCHANGED <<shared, freed, writes>>

shd_open ==
  /\ ctx' = NewContext(nb_creations)
  /\ Answer("shd_open", "OK")
  /\ UNCHANGED <<shared, freed, writes, job>>

Call ==
  \/ shd_select_samples \/ shd_read_from_sample \/ shd_read_quantity
  \/ end_read_early \/ end_read_overwritten \/ end_read \/ shd_close

Next ==
  \/ produce \/ create_again
  \/ ctx.open /\ Call
  \/ ~ctx.open /\ shd_open

Spec == Init /\ [][Next]_vars

-----------------------------------------------------------------------------
(* Safety *)

Blocks == 1 .. Len(freed)

Window ==
  [start : Slots, ref : Slots, end : Slots, nb_matches : 1 .. NbSamples]

\* Whatever numbers of samples the client asks for, those whose sum wraps and
\* those past the range of int included, the window has 1 to N samples, all
\* in the ring: what the caller's buffers and calloc are sized by.
TypeOK ==
  /\ write_index \in Slots \cup {-1}
  /\ nb_writes \in [Slots -> Nat \cup {-1}]
  /\ nb_creations \in Nat /\ writes \in Nat /\ freed \in Seq(Nat)
  /\ ctx \in [open : BOOLEAN, window : Window \cup {NoWindow},
               nb_writes : Nat \cup {-1}, metadata : Blocks \cup {0}, rev : Nat]
  /\ job \in [block : Blocks \cup {0}, ended : BOOLEAN, intact : BOOLEAN,
               faulted : BOOLEAN, owed : SUBSET Blocks, bare : BOOLEAN]

Ended(answer) == result.call = "shd_end_read" /\ result.ret = answer

\* When shd_end_read returns 0, neither the first slot of the window nor the
\* section was written since the search that set the window, whatever calls
\* that failed or other jobs came in between, and the client was never told
\* of this job that it was overwritten.
ValidatedSpansJob == Ended("OK") => job.intact /\ ~job.faulted

\* Samples are copied only for a job that has not ended, been replaced or
\* been dropped.
ReadsOnlyInJob == result.call = "shd_read_quantity" /\ result.ret = "OK" => ~job.ended

\* The request whose sum does not wrap gets what it asked for at most, and
\* r_sample_idx is the "index of the reference sample in all the arrays".
ReferenceInWindow ==
  result.asked \in 1 .. UintMod - 1 =>
    /\ result.r_sample_idx < result.nb_matches
    /\ result.nb_matches <= result.asked

\* A client that reads by shd_select_samples only, and is given memory, never
\* has a block freed twice: it takes a job that allocated none.
FreedTwiceOnlyByBareJob == ~job.bare => \A b \in Blocks : freed[b] <= 1

\* A block that nothing will free is that of a job given up before
\* shd_end_read ended it (-EFAULT does not end it).
LeakOnlyOfGivenUpJob ==
  \A b \in Blocks : freed[b] = 0 /\ ctx.metadata # b => b \in job.owed

\* shd_data.h on shd_data_end_read: "Free all data associated to last read
\* session", not that of an earlier one again.
MetadataFreedOnce == \A b \in Blocks : freed[b] <= 1

=============================================================================
