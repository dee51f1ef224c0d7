------------------------------- MODULE ShdRead -------------------------------
(***************************************************************************)
(* A consumer of the section written by ShdWrite: one read job, from       *)
(* shd_select_samples or shd_read_from_sample through the reads of the     *)
(* samples to shd_end_read.  Consumers write nothing to shared memory, so  *)
(* one is enough: several do not see each other.                           *)
(*                                                                         *)
(* One action is one access to shared memory (a counter, an index, the     *)
(* metadata or the blob of one sample) with the local code up to the next  *)
(* one.  Dates are time stamps; the revision of the section does not       *)
(* change here (ShdSection).                                               *)
(***************************************************************************)
EXTENDS ShdWrite, Sequences

CONSTANTS
  Searches,     \* struct shd_sample_search: the searches clients ask for
  ReadApi,      \* "shd_select_samples", "shd_read_from_sample" or both
  Hints         \* ctx->hint, set by the environment: "NAIVE", "BINARY"

Methods == {"LATEST", "CLOSEST", "FIRST_AFTER", "FIRST_BEFORE", "OLDEST"}

Search == [method : Methods, date : Nat, before : Nat, after : Nat]

ASSUME SearchesAssumption == Searches \subseteq Search
ASSUME HintsAssumption == Hints \subseteq {"NAIVE", "BINARY"}

VARIABLE c      \* the consumer: its context and the locals of its call

NoWindow == [start |-> -1, ref |-> -1, end |-> -1, nb_matches |-> -1]

\* The time stamp of a sample: the spacing leaves room for dates in between.
ts(s) == 4 * samples[s].metadata

\* c.t_index and c.nb_writes_top are struct search_ctx; imin .. res are the
\* locals of the binary search; c.nb_writes is ctx->nb_writes; c.todo lists
\* the words still to be read and c.got those read.  History: t_rank and
\* w_rank are the rank of the latest sample when the search began and ended;
\* at the start of the read session, words holds what c.todo lists and intact
\* tells whether it is a window of samples.
Start(f, s, hint) ==
  [pc |-> "find", api |-> f, search |-> s, hint |-> hint, t_index |-> -1,
   nb_writes_top |-> -1, depth |-> 0, m_index |-> -1,
   imin |-> 0, imax |-> 0, imid |-> 0, res |-> 0, ts_before |-> 0,
   t_index_new |-> -1, ref_idx |-> -1, window |-> NoWindow, nb_writes |-> -1,
   todo |-> <<>>, got |-> <<>>, ret |-> "none",
   t_rank |-> 0, w_rank |-> 0, intact |-> FALSE, words |-> <<>>]

AnySearch == [method |-> "LATEST", date |-> 0, before |-> 0, after |-> 0]

ReadInit ==
  Init /\ c = [Start("shd_select_samples", AnySearch, "NAIVE") EXCEPT !.pc = "done"]

Fail(error) == c' = [c EXCEPT !.pc = "done", !.ret = error]

-----------------------------------------------------------------------------
(* shd_data_find and the start of shd_window_set *)

\* shd_read_from_sample accepts no value before or after the reference.  Each
\* job starts afresh, so that a change of hint is a change of consumer.
call_find ==
  /\ c.pc = "done"
  /\ \E f \in ReadApi, s \in Searches, hint \in Hints :
       /\ f = "shd_read_from_sample" => s.before = 0 /\ s.after = 0
       /\ c' = Start(f, s, hint)

\* The argument check is made in uint32_t.
too_many(s) == (s.after + s.before + 1) % UintMod > NbSamples

find ==
  /\ c.pc = "find"
  /\ \/ write_index = -1 /\ Fail("EAGAIN")
     \/ write_index # -1 /\ too_many(c.search) /\ Fail("EINVAL")
     \/ /\ write_index # -1 /\ ~too_many(c.search)
        /\ c' = [c EXCEPT !.pc = "search_start"]

\* shd_search_start: two separate reads.
search_start ==
  /\ c.pc = "search_start"
  /\ c' = [c EXCEPT !.pc = "search_top", !.t_index = write_index,
                    !.t_rank = samples[write_index].metadata]

\* shd_search_oldest.  Slip for mutation: the oldest of a full ring, no margin.
oldest_unspared(d) == index_n_before(c.t_index, d - 1)

oldest(d) == IF d = NbSamples THEN index_n_after(c.t_index, 2)
                              ELSE index_n_before(c.t_index, d - 1)

\* The state in which the search itself starts, once max_depth is d.
SearchFrom(d) ==
  IF c.search.method = "OLDEST"
  THEN [c EXCEPT !.pc = "search_end", !.depth = d, !.ref_idx = oldest(d)]
  ELSE IF c.hint = "BINARY"
  THEN [c EXCEPT !.pc = "binary", !.depth = d, !.imax = d - 1]
  ELSE [c EXCEPT !.pc = "naive", !.depth = d, !.m_index = c.t_index]

\* The second read, and the test of nb_writes_top by shd_search_get_max_depth.
search_top ==
  /\ c.pc = "search_top"
  /\ LET top  == nb_writes[c.t_index]
         next == IF c.search.method = "LATEST"
                 THEN [c EXCEPT !.pc = "search_end", !.ref_idx = c.t_index]
                 ELSE IF top > 0 THEN SearchFrom(NbSamples)
                                 ELSE [c EXCEPT !.pc = "max_depth"]
     IN  c' = [next EXCEPT !.nb_writes_top = top]

\* shd_search_get_max_depth: the loop has another turn after depth d.
\* Slip for mutation: one too many.
more_turns_by_one(d) == d < NbSamples

more_turns(d) == d + 1 < NbSamples

max_depth ==
  /\ c.pc = "max_depth"
  /\ LET valid == nb_writes[index_n_before(c.t_index, c.depth)] # -1
         more  == valid /\ more_turns(c.depth)
         d     == IF valid THEN c.depth + 1 ELSE c.depth
     IN  c' = IF more THEN [c EXCEPT !.depth = d] ELSE SearchFrom(d)

-----------------------------------------------------------------------------
(* search_reference_sample, and what the methods make of its answer *)

\* The reference sample m was found, or none was.
Found(m) ==
  \/ /\ c.search.method = "FIRST_BEFORE"
     /\ c' = [c EXCEPT !.pc = "search_end", !.ref_idx = m]
  \/ /\ c.search.method = "FIRST_AFTER"
     /\ IF m = c.t_index THEN Fail("ENOENT")
        ELSE c' = [c EXCEPT !.pc = "search_end", !.ref_idx = index_next(m)]
  \/ /\ c.search.method = "CLOSEST"
     /\ c' = IF m = c.t_index THEN [c EXCEPT !.pc = "search_end", !.ref_idx = m]
                              ELSE [c EXCEPT !.pc = "closest_before", !.m_index = m]

NotFound ==
  IF c.search.method = "FIRST_BEFORE" THEN Fail("ENOENT")
  ELSE c' = [c EXCEPT !.pc = "search_end", !.ref_idx = index_next(c.t_index)]

precedes(s) == ts(s) < c.search.date

\* search_reference_sample_naive: one turn of the loop.  c.depth counts down
\* the samples left to search.
naive ==
  /\ c.pc = "naive"
  /\ IF precedes(c.m_index) THEN Found(c.m_index)
     ELSE IF c.depth > 1
     THEN c' = [c EXCEPT !.m_index = index_n_before(@, 1), !.depth = @ - 1]
     ELSE NotFound

\* search_reference_sample_binary: position i of the window searched.
at(i) == index_n_before(c.t_index, c.depth - 1 - i)

\* shd_sample_timestamp_cmp(curr, *date).
\* Slip for mutation: a sample of the very date counts as before it.
cmp_or_equal(s) == IF ts(s) <= c.search.date THEN -1 ELSE 1

cmp(s) ==
  IF ts(s) < c.search.date THEN -1 ELSE IF ts(s) = c.search.date THEN 0 ELSE 1

\* imin once the sample at imid is found before the date.
\* Slip for mutation: the half searched does not shrink.
upper_half_with(mid) == mid

upper_half(mid) == mid + 1

\* One turn of the loop.
binary ==
  /\ c.pc = "binary"
  /\ c.imin < c.imax
  /\ LET mid == (c.imin + c.imax) \div 2
         r   == cmp(at(mid))
     IN  c' = [c EXCEPT !.imid = mid, !.m_index = at(mid), !.res = r,
                        !.imin = IF r < 0 THEN upper_half(mid) ELSE @,
                        !.imax = IF r < 0 THEN @ ELSE mid]

\* After the loop: imin is looked at, unless it was the last one seen.
binary_end ==
  /\ c.pc = "binary"
  /\ c.imin >= c.imax
  /\ LET m == IF c.imin # c.imid THEN at(c.imin) ELSE c.m_index
         r == IF c.imin # c.imid THEN cmp(m) ELSE c.res
     IN  IF r < 0 THEN Found(m)
         ELSE IF c.imin > 0 THEN Found(index_n_before(m, 1)) ELSE NotFound

\* shd_sample_closest_timestamp: the time stamps of the two neighbours.
closest_before ==
  /\ c.pc = "closest_before"
  /\ c' = [c EXCEPT !.pc = "closest_after",
                    !.ts_before = ts(c.m_index)]

closest_after ==
  /\ c.pc = "closest_after"
  /\ LET a_index == index_next(c.m_index)
         before  == c.search.date - c.ts_before
         after   == ts(a_index) - c.search.date
     IN  c' = [c EXCEPT !.pc = "search_end",
                 !.ref_idx = IF before < 0 \/ after < 0 \/ after < before
                             THEN a_index ELSE c.m_index]

-----------------------------------------------------------------------------
(* The end of shd_window_set, and shd_search_end *)

nb_more_recent == interval_between(c.ref_idx, c.t_index)

\* Slip for mutation: counted from the latest sample.
nb_older_from_latest == interval_between(c.t_index, c.ref_idx)

nb_older == interval_between(index_next(c.t_index), c.ref_idx)

Lesser(a, b) == IF a < b THEN a ELSE b

\* Slip for mutation: the window is not cut at the oldest sample.
w_start_uncut == index_n_before(c.ref_idx, c.search.before)

w_start_idx == index_n_before(c.ref_idx, Lesser(nb_older, c.search.before))

w_end_idx == index_n_after(c.ref_idx, Lesser(nb_more_recent, c.search.after))

\* The first read: t_index_new.
search_end_index ==
  /\ c.pc = "search_end"
  /\ c' = [c EXCEPT !.pc = "search_end_writes", !.t_index_new = write_index,
                    !.w_rank = samples[write_index].metadata]

\* The second: nb_writes_start.
\* Slips for mutation: the comparison of the counters is strict; it is the
\* only one.
overwritten_if_more(nb_writes_start) ==
  LET margin == interval_between(index_next(c.t_index), w_start_idx)
      nb_new_samples == interval_between(c.t_index, c.t_index_new)
  IN  margin < nb_new_samples /\ nb_writes_start > c.nb_writes_top

overwritten_by_counter(nb_writes_start) == nb_writes_start >= c.nb_writes_top

overwritten(nb_writes_start) ==
  LET margin == interval_between(index_next(c.t_index), w_start_idx)
      nb_new_samples == interval_between(c.t_index, c.t_index_new)
  IN  /\ nb_new_samples > 0
      /\ margin < nb_new_samples
      /\ nb_writes_start >= c.nb_writes_top

search_end_writes ==
  /\ c.pc = "search_end_writes"
  /\ IF overwritten(nb_writes[w_start_idx])
     THEN Fail("EFAULT")
     ELSE c' = [c EXCEPT !.pc = "start_read",
                  !.window = [start |-> w_start_idx, ref |-> c.ref_idx,
                              end |-> w_end_idx,
                              nb_matches |->
                                1 + interval_between(w_start_idx, w_end_idx)]]

-----------------------------------------------------------------------------
(* The read session *)

\* The slot of the i-th sample of window w.
\* Slip for mutation: off by one.
slot_of_next(w, i) == index_n_after(w.start, i)

slot_of(w, i) == index_n_after(w.start, i - 1)

\* shd_data_read_metadata and shd_data_read_blob go through the window with
\* shd_window_read; shd_data_read_quantity_sample reads the blob first.
Words(w) ==
  LET each(word) == [i \in 1 .. w.nb_matches |-> <<slot_of(w, i), word>>]
  IN  IF c.api = "shd_select_samples" THEN each("metadata") \o each("blob")
      ELSE <<<<w.ref, "blob">>, <<w.ref, "metadata">>>>

\* The window holds published samples, in order, that no one is writing.
Intact(w) ==
  LET age == interval_between(index_next(write_index), w.start) IN
  /\ age + w.nb_matches <= NbSamples
  /\ nb_writes[w.start] # -1
  /\ age = 0 => \A p \in Producers : ~Writing(p)

\* The slot whose counter covers window w, for shd_data_find and
\* shd_data_check_validity.  Slip for mutation: its last one.
wlast(w) == w.end

wstart(w) == w.start

\* shd_sync_start_read_session, on the start of the window.
start_read_session ==
  /\ c.pc = "start_read"
  /\ LET todo == Words(c.window) IN
     c' = [c EXCEPT !.pc = "read", !.nb_writes = nb_writes[wstart(c.window)],
                    !.todo = todo, !.intact = Intact(c.window),
                    !.words = [i \in DOMAIN todo |->
                                 samples[todo[i][1]][todo[i][2]]]]

\* shd_sample_read: memcpy of one word.
read_sample ==
  /\ c.pc = "read"
  /\ c.todo # <<>>
  /\ LET next == Head(c.todo) IN
     c' = [c EXCEPT !.todo = Tail(@), !.got = Append(@, samples[next[1]][next[2]])]

\* shd_end_read: shd_data_check_validity, and the end of the job.
end_read ==
  /\ c.pc = "read"
  /\ c.todo = <<>>
  /\ Fail(IF nb_writes[wstart(c.window)] = c.nb_writes THEN "OK" ELSE "EFAULT")

-----------------------------------------------------------------------------

\* What the consumer does once its job has begun.
Read ==
  \/ find \/ search_start \/ search_top \/ max_depth
  \/ naive \/ binary \/ binary_end \/ closest_before \/ closest_after
  \/ search_end_index \/ search_end_writes
  \/ start_read_session \/ read_sample \/ end_read

ReadNext ==
  \/ Next /\ UNCHANGED c
  \/ call_find /\ UNCHANGED vars
  \/ Read /\ UNCHANGED vars

ReadSpec == ReadInit /\ [][ReadNext]_<<vars, c>>

\* The thread of the consumer runs until the end of its job.
FairReadSpec == ReadSpec /\ WF_<<vars, c>>(Read /\ UNCHANGED vars)

-----------------------------------------------------------------------------
(* Safety *)

Local == Slots \cup {-1}

ReadTypeOK ==
  /\ c.pc \in {"done", "find", "search_start", "search_top", "max_depth", "naive",
              "binary", "closest_before", "closest_after", "search_end",
              "search_end_writes", "start_read", "read"}
  /\ c.ret \in {"none", "OK", "EAGAIN", "EINVAL", "ENOENT", "EFAULT"}
  /\ c.search \in Searches \cup {AnySearch}
  /\ {c.t_index, c.m_index, c.ref_idx, c.t_index_new} \subseteq Local
  /\ {c.window.start, c.window.ref, c.window.end} \subseteq Local
  /\ c.window.nb_matches \in 0 .. NbSamples \cup {-1}
  /\ c.depth \in 0 .. NbSamples
  /\ {c.imin, c.imid} \subseteq 0 .. NbSamples - 1
  /\ Len(c.todo) + Len(c.got) = Len(c.words)

Validated == c.pc = "done" /\ c.ret = "OK"

\* The words read are samples whole, consecutive and oldest first.
Consecutive(w) ==
  IF c.api = "shd_select_samples"
  THEN LET n == c.window.nb_matches IN
       \A i \in 1 .. n : w[i] = w[1] + i - 1 /\ w[n + i] = w[i]
  ELSE w[1] = w[2]

\* Checking one counter, that of the first slot of the window, is enough for
\* all of it: if the window was intact when the read session began and
\* shd_end_read returns 0, what was read is the window as it then was,
\* whatever the producers did meanwhile.
ValidatedReadIsTheWindow ==
  Validated /\ c.intact => c.got = c.words /\ Consecutive(c.got)

\* The window given to the client holds the slot of the reference sample, no
\* more slots than asked for on either side, and does not go past t_index, the
\* latest sample when the search began.  (It says where the window lies: by the
\* time it is given, a slot of it may have been written again.)
WindowAroundReference ==
  c.pc \in {"start_read", "read"} =>
    LET before == interval_between(c.window.start, c.window.ref)
        after  == interval_between(c.window.ref, c.window.end)
    IN  /\ before <= c.search.before /\ after <= c.search.after
        /\ c.window.nb_matches = before + after + 1
        /\ interval_between(c.window.start, c.t_index) + 1 >= c.window.nb_matches

\* What each method must find, among the samples of the ring (no write going
\* on), according to libshdata.h.
Valid == {s \in Slots : nb_writes[s] # -1}

Older(d) == {s \in Valid : ts(s) < d}

First(S) == {s \in S : \A t \in S : ts(s) <= ts(t)}

Last_(S) == {s \in S : \A t \in S : ts(t) <= ts(s)}

distance(s, d) == IF ts(s) < d THEN d - ts(s) ELSE ts(s) - d

Right(search) ==
  CASE search.method = "LATEST"       -> Last_(Valid)
    [] search.method = "FIRST_BEFORE" -> Last_(Older(search.date))
    [] search.method = "FIRST_AFTER"  -> First(Valid \ Older(search.date))
    [] search.method = "CLOSEST"      ->
         {s \in Valid : \A t \in Valid :
                          distance(s, search.date) <= distance(t, search.date)}
    [] search.method = "OLDEST"       ->
         IF Valid = Slots /\ NbSamples > 1 THEN First(Valid \ First(Valid))
                                           ELSE First(Valid)

\* No write began since the search did, and none was going on then.
Quiet == sessions = c.t_rank

SearchedRight ==
  /\ c.pc = "search_end" => c.ref_idx \in Right(c.search)
  /\ c.pc = "done" /\ c.ret = "ENOENT" => Right(c.search) = {}

\* Of a single sample, the binary search compares none.
Blind(hint) == hint = "BINARY" /\ Cardinality(Valid) = 1

\* LATEST and OLDEST compare no date.  The others are right when a sample
\* precedes the date and is looked at, or when none does and the slot after the
\* latest is the oldest sample, as on a full ring, or is not asked for.
Answerable(search, hint) ==
  \/ search.method \in {"LATEST", "OLDEST"}
  \/ Older(search.date) # {} /\ ~Blind(hint)
  \/ Older(search.date) = {} /\ (Valid = Slots \/ search.method = "FIRST_BEFORE")

\* What they do otherwise: SHD_FIRST_BEFORE is told -ENOENT, though the only
\* sample precedes its date; SHD_FIRST_AFTER and SHD_CLOSEST get the slot after
\* the latest, which no one ever wrote if the ring is not full.
FallsBack ==
  /\ c.pc = "search_end" =>
       c.search.method # "FIRST_BEFORE" /\ c.ref_idx = index_next(c.t_index)
  /\ c.pc = "done" /\ c.ret = "ENOENT" => c.search.method = "FIRST_BEFORE"

\* What a search that no write disturbs answers, whatever the ring holds, the
\* method, the date and the hint: the sample that libshdata.h defines, or
\* -ENOENT as there is none, but for the two slips that Answerable sets apart,
\* the single sample of a binary search and the dates before all samples of a
\* ring that is not full.
QuietSearchIsRight ==
  Quiet => IF Answerable(c.search, c.hint) THEN SearchedRight ELSE FallsBack

\* The slot at the start of the window had been committed again when the
\* search ended; the first has the rank of what it held when it began.
start_rank == c.t_rank - interval_between(w_start_idx, c.t_index)

StartRewritten == c.w_rank >= start_rank + NbSamples

\* shd_search_end answers right to a consumer that saw fewer than N - 1
\* commits since it read t_index.
SearchEndIsExact ==
  c.pc = "search_end_writes" /\ c.w_rank - c.t_rank <= NbSamples - 2 =>
    (overwritten(nb_writes[w_start_idx]) <=> StartRewritten)

\* A job is told -EFAULT by shd_search_end or by shd_end_read only if a write
\* was going on when its search began, or began since.
NoFalseAlarm == c.pc = "done" /\ c.ret = "EFAULT" => c.t_rank < sessions

\* Between the search and the read session a window stays intact for as many
\* writes as its first sample is away from the oldest slot of the search.
WindowLasts ==
  /\ c.pc = "start_read"
  /\ sessions - c.t_rank <= interval_between(index_next(c.t_index), c.window.start)
  /\ nb_writes[c.window.start] # -1
  => Intact(c.window)

\* SHD_OLDEST has "a little security margin": never the next slot written.
OldestHasMargin ==
  c.search.method = "OLDEST" /\ c.ref_idx # -1 => c.ref_idx # index_next(c.t_index)

\* SHD_LATEST never returns a sample, or a part of one, older than the latest
\* when the search began.
LatestIsFresh ==
  Validated /\ c.search.method = "LATEST" /\ c.search.before = 0 =>
    \A i \in DOMAIN c.got : c.got[i] >= c.t_rank

\* libshdata.h on shd_end_read: "0 if reading process was valid", "-EFAULT if
\* read sample(s) was/were overwritten during last reading sequence".
ValidatedIsWhole ==
  Validated /\ c.api = "shd_read_from_sample" => c.got[1] = c.got[2]

\* A read job ends, however fast the producers write.
ReadReturns == c.pc # "done" ~> c.pc = "done"

=============================================================================
