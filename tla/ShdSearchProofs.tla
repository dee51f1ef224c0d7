--------------------------- MODULE ShdSearchProofs ---------------------------
(***************************************************************************)
(* Proofs about the searches of ShdRead, against any number of producers,  *)
(* on a ring of any size: what shd_search_end makes of the commits since   *)
(* t_index was read, what an undisturbed search finds, when a job may be   *)
(* told -EFAULT, how long the window found stays whole, and how many       *)
(* accesses to the section a job can make.                                 *)
(***************************************************************************)
EXTENDS ShdReadProofs

-----------------------------------------------------------------------------
(* The ring since t_index was read *)

\* One step further from a slot, short of a lap.
LEMMA OneOn ==
  ASSUME NEW i \in Slots, NEW w \in Slots, interval_between(i, w) < NbSamples - 1
  PROVE  interval_between(i, index_next(w)) = interval_between(i, w) + 1
BY NbSamplesAssumption, IndexNext DEF interval_between, Slots

\* The latest sample, on a ring of more than one slot, has its rank.
LEMMA LatestRank ==
  ASSUME NbSamples > 1, WriteInv, LastValid, RankInv, write_index # -1
  PROVE  samples[write_index].metadata = Committed /\ Committed \in Nat
<1>1. write_index \in Slots /\ nb_writes[write_index] # -1
  BY DEF LastValid, WriteInv, TypeOK
<1>2. write_index # index_next(write_index)
  BY <1>1, IndexNext, NbSamplesAssumption DEF Slots
<1>3. Whole(write_index)
  BY <1>1, <1>2 DEF Whole
<1>4. samples[write_index].metadata = Committed - interval_between(write_index, write_index)
  BY <1>1, <1>3 DEF RankInv
<1>5. interval_between(write_index, write_index) = 0
  BY <1>1, NbSamplesAssumption DEF interval_between, Slots
<1>6. samples[write_index].metadata \in Nat
  BY <1>1 DEF WriteInv, TypeOK, Contents
<1>7. Committed \in Int
  BY DEF Committed, WriteInv, TypeOK
<1> QED BY <1>4, <1>5, <1>6, <1>7

\* The job has read t_index, and may still answer about its search.
Begun ==
  \/ c.pc \notin {"find", "search_start", "done"}
  \/ c.pc = "done" /\ c.ret = "ENOENT"

\* Less than a lap later, write_index is as far from t_index as there were
\* commits since.
Since ==
  Begun =>
    /\ c.t_index \in Slots /\ write_index \in Slots
    /\ c.t_rank <= samples[c.t_index].metadata
    /\ NbSamples > 1 =>
         /\ c.t_rank <= Committed
         /\ Committed - c.t_rank < NbSamples =>
              interval_between(c.t_index, write_index) = Committed - c.t_rank

\* The counter of t_index is no less than when it was read.
Topped ==
  c.pc \in Searching \ {"search_top"} => c.nb_writes_top <= nb_writes[c.t_index]

\* The same of t_index_new; and a slot that was committed again since has been
\* counted at least as often as t_index had.
Ended ==
  c.pc = "search_end_writes" =>
    LET commits == c.w_rank - c.t_rank IN
    /\ c.t_index_new \in Slots /\ commits >= 0
    /\ NbSamples > 1 /\ commits < NbSamples =>
         interval_between(c.t_index, c.t_index_new) = commits
    /\ NbSamples > 1 /\ commits <= NbSamples - 2 =>
         \A s \in Slots : NbSamples - interval_between(s, c.t_index) <= commits =>
           c.nb_writes_top <= nb_writes[s]

Elapsed == Since /\ Topped /\ Ended

\* The producers take the ring further.
LEMMA ElapsedProducers ==
  ASSUME WriteInv, RankInv, Counted, ConsumerInv, Elapsed, [Next]_vars, UNCHANGED c
  PROVE  Elapsed'
<1>0. /\ TypeOK /\ TypeOK' /\ Committed \in Nat /\ c.t_rank \in Int
      /\ c.nb_writes_top \in Int /\ NbSamples \in Nat \ {0}
  <2>1. TypeOK /\ TypeOK'
    BY NextTypeOK DEF WriteInv
  <2>2. Committed \in Nat
    BY DEF Counted
  <2>3. c.t_rank \in Int /\ c.nb_writes_top \in Int
    BY DEF ConsumerInv, Consumer
  <2> QED BY <2>1, <2>2, <2>3, NbSamplesAssumption
<1>1. \A s \in Slots : /\ nb_writes[s] <= nb_writes'[s]
                       /\ nb_writes[s] \in Int /\ nb_writes'[s] \in Int
  BY <1>0, Growing DEF TypeOK
<1>2. Since'
  <2> SUFFICES ASSUME Begun
               PROVE  /\ c.t_index \in Slots /\ write_index' \in Slots
                      /\ c.t_rank <= samples'[c.t_index].metadata
                      /\ NbSamples > 1 =>
                           /\ c.t_rank <= Committed'
                           /\ Committed' - c.t_rank < NbSamples =>
                                interval_between(c.t_index, write_index') = Committed' - c.t_rank
    BY DEF Since, Begun
  <2>1. /\ c.t_index \in Slots /\ write_index \in Slots
        /\ c.t_rank <= samples[c.t_index].metadata
    BY DEF Elapsed, Since
  <2>2. PICK t \in Slots : t = c.t_index
    BY <2>1
  <2>3. c.t_rank <= samples'[t].metadata
    <3>1. samples[t].metadata <= samples'[t].metadata
      BY Rising
    <3>2. samples[t].metadata \in Int /\ samples'[t].metadata \in Int
      BY <1>0 DEF TypeOK, Contents
    <3> QED BY <1>0, <2>1, <2>2, <3>1, <3>2
  <2>4. CASE Committed' = Committed /\ UNCHANGED write_index
    BY <2>1, <2>2, <2>3, <2>4 DEF Elapsed, Since
  <2>5. CASE Committed' = Committed + 1 /\ write_index' = index_next(write_index)
    <3> DEFINE between == interval_between(t, write_index)
    <3>1. write_index' \in Slots
      BY <2>1, <2>5, IndexNext
    <3>2. ASSUME NbSamples > 1
          PROVE  /\ c.t_rank <= Committed
                 /\ Committed - c.t_rank < NbSamples => between = Committed - c.t_rank
      BY <2>2, <3>2 DEF Elapsed, Since
    <3>3. between < NbSamples - 1 =>
            interval_between(t, index_next(write_index)) = between + 1
      BY <2>1, OneOn
    <3> HIDE DEF between
    <3>4. ASSUME NbSamples > 1
          PROVE  /\ c.t_rank <= Committed'
                 /\ Committed' - c.t_rank < NbSamples =>
                      interval_between(t, index_next(write_index)) = Committed' - c.t_rank
      BY <1>0, <2>5, <3>2, <3>3, <3>4
    <3> QED BY <2>2, <2>3, <2>5, <3>1, <3>4
  <2> QED BY <2>4, <2>5, CountStep
<1>3. Topped'
  <2> SUFFICES ASSUME c.pc \in Searching \ {"search_top"}
               PROVE  c.nb_writes_top <= nb_writes'[c.t_index]
    BY DEF Topped
  <2>1. PICK s \in Slots : s = c.t_index
    BY DEF ConsumerInv, StepInv
  <2>2. c.nb_writes_top <= nb_writes[s]
    BY <2>1 DEF Elapsed, Topped
  <2> QED BY <1>0, <1>1, <2>1, <2>2
<1>4. Ended'
  <2>1. \A s \in Slots : c.nb_writes_top <= nb_writes[s] => c.nb_writes_top <= nb_writes'[s]
    BY <1>0, <1>1
  <2> QED BY <2>1 DEF Elapsed, Ended
<1> QED BY <1>2, <1>3, <1>4 DEF Elapsed

\* What a search keeps, once t_index is read, and which step may follow.
LEMMA JobKept ==
  ASSUME ConsumerInv, Read, c.pc \notin {"find", "search_start"}
  PROVE  /\ c'.t_index = c.t_index /\ c'.t_rank = c.t_rank /\ c'.search = c.search
         /\ c'.pc \notin {"find", "search_start", "search_top"}
         /\ c'.pc \in Searching => c.pc \in Searching
         /\ c'.pc = "search_end_writes" => search_end_index
         /\ c.pc # "search_top" => c'.nb_writes_top = c.nb_writes_top
<1> DEFINE SameJob(r) == /\ r.t_index = c.t_index /\ r.t_rank = c.t_rank
                         /\ r.search = c.search /\ DOMAIN r = Fields
           GoesOn(r) == r.pc \in {"max_depth", "naive", "binary", "search_end"}
<1>0. DOMAIN c = Fields
  BY DEF ConsumerInv, Consumer
<1>1. ASSUME NEW d, NEW from, from = SearchFrom(d)
      PROVE  SameJob(from) /\ GoesOn(from) /\ from.nb_writes_top = c.nb_writes_top
  BY <1>0, <1>1 DEF SearchFrom, Fields
<1>2. CASE search_top
  <2>1. PICK next : /\ c' = [next EXCEPT !.nb_writes_top = nb_writes[c.t_index]]
                    /\ \/ next = [c EXCEPT !.pc = "search_end", !.ref_idx = c.t_index]
                       \/ next = SearchFrom(NbSamples)
                       \/ next = [c EXCEPT !.pc = "max_depth"]
    BY <1>2 DEF search_top
  <2>2. SameJob(next) /\ GoesOn(next)
    <3>1. CASE next = SearchFrom(NbSamples)
      BY <1>1, <3>1
    <3>2. CASE next # SearchFrom(NbSamples)
      BY <1>0, <2>1, <3>2 DEF Fields
    <3> QED BY <3>1, <3>2
  <2>3. c.pc = "search_top"
    BY <1>2 DEF search_top
  <2> QED BY <2>1, <2>2, <2>3 DEF Searching, Fields
<1>3. CASE max_depth
  <2>1. PICK d : c' = [c EXCEPT !.depth = d] \/ c' = SearchFrom(d)
    BY <1>3 DEF max_depth
  <2>2. c.pc = "max_depth"
    BY <1>3 DEF max_depth
  <2>3. CASE c' = [c EXCEPT !.depth = d]
    BY <1>0, <2>2, <2>3 DEF Searching, Fields
  <2>4. CASE c' = SearchFrom(d)
    BY <1>1, <2>2, <2>4 DEF Searching
  <2> QED BY <2>1, <2>3, <2>4
<1>4. CASE naive \/ binary_end
  <2>1. c.pc \in {"naive", "binary"}
    BY <1>4 DEF naive, binary_end
  <2>2. \/ \E m : Found(m)
        \/ NotFound
        \/ \E i, d : c' = [c EXCEPT !.m_index = i, !.depth = d]
    <3>1. CASE naive
      <4>1. \/ Found(c.m_index) \/ NotFound
            \/ c' = [c EXCEPT !.m_index = index_n_before(@, 1), !.depth = @ - 1]
        BY <3>1 DEF naive
      <4> QED BY <4>1
    <3>2. CASE binary_end
      BY <3>2 DEF binary_end
    <3> QED BY <1>4, <3>1, <3>2
  <2>3. ASSUME NEW m, Found(m)
        PROVE  SameJob(c') /\ c'.nb_writes_top = c.nb_writes_top
               /\ c'.pc \in {"done", "search_end", "closest_before"}
    <3>1. \/ \E i : c' = [c EXCEPT !.pc = "search_end", !.ref_idx = i]
          \/ c' = [c EXCEPT !.pc = "done", !.ret = "ENOENT"]
          \/ c' = [c EXCEPT !.pc = "closest_before", !.m_index = m]
      BY <2>3 DEF Found, Fail
    <3> QED BY <1>0, <3>1 DEF Fields
  <2>4. CASE NotFound
    <3>1. \/ \E i : c' = [c EXCEPT !.pc = "search_end", !.ref_idx = i]
          \/ c' = [c EXCEPT !.pc = "done", !.ret = "ENOENT"]
      BY <2>4 DEF NotFound, Fail
    <3>2. CASE \E i : c' = [c EXCEPT !.pc = "search_end", !.ref_idx = i]
      BY <1>0, <2>1, <3>2 DEF Fields, Searching
    <3>3. CASE c' = [c EXCEPT !.pc = "done", !.ret = "ENOENT"]
      BY <1>0, <2>1, <3>3 DEF Fields, Searching
    <3> QED BY <3>1, <3>2, <3>3
  <2>5. CASE \E i, d : c' = [c EXCEPT !.m_index = i, !.depth = d]
    <3>1. PICK i, d : c' = [c EXCEPT !.m_index = i, !.depth = d]
      BY <2>5
    <3> QED BY <1>0, <2>1, <3>1 DEF Fields, Searching
  <2> QED BY <2>1, <2>2, <2>3, <2>4, <2>5 DEF Searching
<1>5. CASE binary
  <2>1. \E i, m, r, a, b : c' = [c EXCEPT !.imid = i, !.m_index = m, !.res = r,
                                         !.imin = a, !.imax = b]
    BY <1>5 DEF binary
  <2>2. c.pc = "binary"
    BY <1>5 DEF binary
  <2> QED BY <1>0, <2>1, <2>2 DEF Fields, Searching
<1>6. CASE closest_before \/ closest_after \/ search_end_index
  <2>1. CASE closest_before
    BY <1>0, <2>1 DEF closest_before, Fields, Searching
  <2>3. CASE closest_after
    BY <1>0, <2>3 DEF closest_after, Fields, Searching
  <2>2. CASE search_end_index
    BY <1>0, <2>2 DEF search_end_index, Fields, Searching
  <2> QED BY <1>6, <2>1, <2>2, <2>3
<1>8. CASE search_end_writes
  <2>1. \/ c' = [c EXCEPT !.pc = "done", !.ret = "EFAULT"]
        \/ \E w : c' = [c EXCEPT !.pc = "start_read", !.window = w]
    BY <1>8 DEF search_end_writes, Fail
  <2>2. c.pc = "search_end_writes"
    BY <1>8 DEF search_end_writes
  <2>3. CASE c' = [c EXCEPT !.pc = "done", !.ret = "EFAULT"]
    BY <1>0, <2>2, <2>3 DEF Fields, Searching
  <2>4. CASE \E w : c' = [c EXCEPT !.pc = "start_read", !.window = w]
    <3>1. PICK w : c' = [c EXCEPT !.pc = "start_read", !.window = w]
      BY <2>4
    <3> QED BY <1>0, <2>2, <3>1 DEF Fields, Searching
  <2> QED BY <2>1, <2>3, <2>4
<1>9. CASE start_read_session
  <2>1. \E n, t, i, w : c' = [c EXCEPT !.pc = "read", !.nb_writes = n, !.todo = t,
                                      !.intact = i, !.words = w]
    BY <1>9 DEF start_read_session
  <2> QED BY <1>0, <1>9, <2>1 DEF start_read_session, Fields, Searching
<1>10. CASE read_sample
  <2>1. \E t, g : c' = [c EXCEPT !.todo = t, !.got = g]
    BY <1>10 DEF read_sample
  <2> QED BY <1>0, <1>10, <2>1 DEF read_sample, Fields, Searching
<1>11. CASE end_read
  <2>1. \E r : c' = [c EXCEPT !.pc = "done", !.ret = r]
    BY <1>11 DEF end_read, Fail
  <2> QED BY <1>0, <1>11, <2>1 DEF end_read, Fields, Searching
<1>7. ~find /\ ~search_start
  BY DEF find, search_start
<1> QED BY <1>2, <1>3, <1>4, <1>5, <1>6, <1>7, <1>8, <1>9, <1>10, <1>11 DEF Read

\* Up to write_index, a newer sample was counted at least as often as an older.
LEMMA NewerCountsMore ==
  ASSUME WriteInv, LapOrder, write_index \in Slots, NEW s \in Slots, NEW t \in Slots,
         interval_between(s, write_index) <= interval_between(t, write_index),
         t # index_next(write_index)
  PROVE  nb_writes[t] <= nb_writes[s]
<1>0. TypeOK /\ nb_writes[s] \in Int /\ nb_writes[t] \in Int
  BY DEF WriteInv, TypeOK
<1>1. \A p \in Producers : Writing(p) => curr_sample[p] # t
  BY OneWriting DEF WriteInv
<1>2. settled(t) = nb_writes[t]
  BY <1>1 DEF settled
<1>3. settled(s) \in {nb_writes[s], nb_writes[s] - 1}
  BY DEF settled
<1>4. CASE s <= t
  <2>1. settled(s) - settled(t) \in {0, 1}
    BY <1>4 DEF LapOrder
  <2> QED BY <1>0, <1>2, <1>3, <2>1
<1>5. CASE t < s
  <2>1. ~(t <= write_index /\ write_index < s)
    BY <1>5, NbSamplesAssumption DEF interval_between, Slots
  <2>2. settled(t) - settled(s) = 0
    <3>1. t <= s
      BY <1>5 DEF Slots
    <3> QED BY <2>1, <3>1 DEF LapOrder
  <2> QED BY <1>0, <1>2, <1>3, <2>2
<1> QED BY <1>4, <1>5 DEF Slots

\* The search starts at the latest sample.
LEMMA ElapsedStart ==
  ASSUME WriteInv, LastValid, RankInv, ConsumerInv, UNCHANGED vars, search_start
  PROVE  Elapsed'
<1>1. /\ c.pc = "search_start" /\ DOMAIN c = Fields
      /\ c' = [c EXCEPT !.pc = "search_top", !.t_index = write_index,
                        !.t_rank = samples[write_index].metadata]
  BY DEF search_start, ConsumerInv, Consumer
<1>2. write_index \in Slots /\ samples[write_index].metadata \in Nat
  BY <1>1 DEF ConsumerInv, StepInv, WriteInv, TypeOK, Contents
<1>3. /\ c'.pc = "search_top" /\ c'.t_index = write_index
      /\ c'.t_rank = samples[write_index].metadata
  BY <1>1 DEF Fields
<1>4. interval_between(write_index, write_index) = 0
  BY <1>2, NbSamplesAssumption DEF interval_between, Slots
<1>5. samples' = samples /\ write_index' = write_index /\ Committed' = Committed
  BY DEF vars, shared, ctx, local, ghosts, Committed, Underway, Holds, Starts
<1>6. NbSamples > 1 => samples[write_index].metadata = Committed /\ Committed \in Nat
  BY <1>2, LatestRank, NoneIsNoSlot
<1>7. Since'
  <2> DEFINE rank == samples[write_index].metadata
  <2>1. rank <= rank /\ (NbSamples > 1 => rank <= Committed /\ Committed - rank = 0)
    BY <1>2, <1>6
  <2> QED BY <1>2, <1>3, <1>4, <1>5, <2>1 DEF Since
<1> QED BY <1>3, <1>7 DEF Elapsed, Topped, Ended

\* t_index_new is read: it is the latest sample of its time.
LEMMA ElapsedEnd ==
  ASSUME WriteInv, LastValid, RankInv, LapOrder, ConsumerInv, Since, Topped,
         UNCHANGED vars, search_end_index
  PROVE  Ended'
<1>0. /\ c.pc = "search_end" /\ DOMAIN c = Fields /\ c.t_rank \in Int
      /\ c.nb_writes_top \in Int /\ NbSamples \in Nat \ {0} /\ TypeOK
      /\ c' = [c EXCEPT !.pc = "search_end_writes", !.t_index_new = write_index,
                        !.w_rank = samples[write_index].metadata]
  <2>1. DOMAIN c = Fields /\ c.t_rank \in Int /\ c.nb_writes_top \in Int
    BY DEF ConsumerInv, Consumer
  <2>2. c.pc = "search_end" /\ c' = [c EXCEPT !.pc = "search_end_writes",
                                   !.t_index_new = write_index,
                                   !.w_rank = samples[write_index].metadata]
    BY DEF search_end_index
  <2> QED BY <2>1, <2>2, NbSamplesAssumption DEF WriteInv
<1>1. PICK t \in Slots : t = c.t_index
  BY <1>0 DEF ConsumerInv, StepInv, Searching
<1>2. /\ c'.t_index = t /\ c'.t_rank = c.t_rank /\ c'.nb_writes_top = c.nb_writes_top
      /\ c'.t_index_new = write_index /\ c'.w_rank = samples[write_index].metadata
  BY <1>0, <1>1 DEF Fields
<1>3. /\ write_index \in Slots /\ c.t_rank <= samples[t].metadata
      /\ NbSamples > 1 =>
           /\ c.t_rank <= Committed
           /\ Committed - c.t_rank < NbSamples =>
                interval_between(t, write_index) = Committed - c.t_rank
  BY <1>0, <1>1 DEF Since, Begun
<1>4. c.nb_writes_top <= nb_writes[t]
  BY <1>0, <1>1 DEF Topped, Searching
<1>5. CASE NbSamples > 1
  <2>1. samples[write_index].metadata = Committed /\ Committed \in Nat
    BY <1>3, <1>5, LatestRank, NoneIsNoSlot
  <2>2. ASSUME Committed - c.t_rank <= NbSamples - 2, NEW s \in Slots,
               NbSamples - interval_between(s, t) <= Committed - c.t_rank
        PROVE  c.nb_writes_top <= nb_writes[s]
    <3>1. interval_between(t, write_index) = Committed - c.t_rank
      BY <1>0, <1>3, <1>5, <2>1, <2>2
    <3>2. interval_between(t, write_index) <= NbSamples - 2
      BY <2>2, <3>1
    <3>3. t # index_next(write_index)
      BY <1>3, <3>2, IndexNext, NbSamplesAssumption DEF interval_between, Slots
    <3>4. NbSamples - interval_between(s, t) <= interval_between(t, write_index)
      BY <2>2, <3>1
    <3>5. interval_between(s, write_index) <= interval_between(t, write_index)
      BY <1>3, <3>4, NbSamplesAssumption DEF interval_between, Slots
    <3>6. nb_writes[t] <= nb_writes[s]
      BY <1>3, <3>3, <3>5, NewerCountsMore
    <3>7. nb_writes[t] \in Int /\ nb_writes[s] \in Int
      BY <1>0 DEF TypeOK
    <3> QED BY <1>0, <1>4, <3>6, <3>7
  <2>3. nb_writes' = nb_writes
    BY DEF vars, shared
  <2>4. Committed - c.t_rank >= 0
    BY <1>0, <1>3, <1>5, <2>1
  <2> QED BY <1>2, <1>3, <1>5, <2>1, <2>2, <2>3, <2>4 DEF Ended
<1>6. CASE ~(NbSamples > 1)
  <2>1. NbSamples = 1
    BY <1>0, <1>6
  <2>2. t = write_index
    BY <1>3, <2>1 DEF Slots
  <2>3. samples[write_index].metadata \in Int
    BY <1>0, <1>3 DEF TypeOK, Contents
  <2>4. samples[write_index].metadata - c.t_rank >= 0
    BY <1>0, <1>3, <2>2, <2>3
  <2> QED BY <1>2, <1>3, <1>6, <2>4 DEF Ended
<1> QED BY <1>5, <1>6

\* No step of the job disturbs what it knows of the ring.
LEMMA ElapsedJob ==
  ASSUME WriteInv, LastValid, RankInv, LapOrder, ConsumerInv, Elapsed, UNCHANGED vars,
         call_find \/ Read
  PROVE  Elapsed'
<1>0. /\ DOMAIN c = Fields /\ UNCHANGED <<write_index, nb_writes, samples>>
      /\ Committed' = Committed /\ TypeOK
  BY DEF ConsumerInv, Consumer, WriteInv, vars, shared, ctx, local, ghosts, Committed,
         Underway, Holds, Starts
<1>1. CASE call_find \/ find
  <2>1. c'.pc \in {"find", "search_start"} \/ (c'.pc = "done" /\ c'.ret # "ENOENT")
    <3>1. CASE call_find
      BY <3>1, StartType DEF call_find
    <3>2. CASE find
      BY <1>0, <3>2 DEF find, Fail, Fields
    <3> QED BY <1>1, <3>1, <3>2
  <2> QED BY <2>1 DEF Elapsed, Since, Begun, Topped, Ended, Searching
<1>2. CASE search_start
  BY <1>2, ElapsedStart
<1>3. CASE Read /\ ~find /\ ~search_start
  <2>1. c.pc \notin {"find", "search_start", "done"}
    BY <1>3 DEF Read, search_top, max_depth, naive, binary, binary_end, closest_before,
       closest_after, search_end_index, search_end_writes, start_read_session,
       read_sample, end_read
  <2>2. /\ c'.t_index = c.t_index /\ c'.t_rank = c.t_rank
        /\ c'.pc \in Searching => c.pc \in Searching
        /\ c'.pc = "search_end_writes" => search_end_index
        /\ c.pc # "search_top" => c'.nb_writes_top = c.nb_writes_top
    BY <1>3, <2>1, JobKept
  <2>3. Begun
    BY <2>1 DEF Begun
  <2>4. Since'
    BY <1>0, <2>2, <2>3 DEF Elapsed, Since
  <2>5. Topped'
    <3>1. CASE c.pc = "search_top"
      <4>1. search_top
        BY <1>3, <3>1 DEF Read, max_depth, naive, binary, binary_end, closest_before,
           closest_after, search_end_index, search_end_writes, start_read_session,
           read_sample, end_read
      <4>2. \E next : c' = [next EXCEPT !.nb_writes_top = nb_writes[c.t_index]]
        BY <4>1 DEF search_top
      <4>3. "nb_writes_top" \in DOMAIN c'
        BY <4>1, SearchSteps DEF ConsumerInv, Consumer, Fields
      <4>4. c'.nb_writes_top = nb_writes[c.t_index]
        BY <4>2, <4>3
      <4>5. nb_writes[c.t_index] \in Int
        BY <1>0, <3>1 DEF TypeOK, ConsumerInv, StepInv, Searching
      <4> QED BY <1>0, <2>2, <4>4, <4>5 DEF Topped
    <3>2. CASE c.pc # "search_top"
      BY <1>0, <2>2, <3>2 DEF Elapsed, Topped
    <3> QED BY <3>1, <3>2
  <2>6. Ended'
    <3>1. CASE search_end_index
      BY <3>1, ElapsedEnd DEF Elapsed
    <3>2. CASE ~search_end_index
      BY <2>2, <3>2 DEF Ended
    <3> QED BY <3>1, <3>2
  <2> QED BY <2>4, <2>5, <2>6 DEF Elapsed
<1> QED BY <1>1, <1>2, <1>3 DEF Read

\* It all holds along every job.
LEMMA ElapsedHolds ==
  ASSUME Api \subseteq {"shd_write_new_blob"}
  PROVE  ReadSpec => []Elapsed
<1>1. ReadInit => Elapsed
  <2> SUFFICES ASSUME ReadInit PROVE Elapsed
    OBVIOUS
  <2> DEFINE job == Start("shd_select_samples", AnySearch, "NAIVE")
  <2>1. Consumer(job) /\ job.ret = "none"
    BY StartType DEF Start
  <2> HIDE DEF job
  <2>2. c = [job EXCEPT !.pc = "done"]
    BY DEF ReadInit, job
  <2>3. c.pc = "done" /\ c.ret = "none"
    BY <2>1, <2>2 DEF Consumer, Fields
  <2> QED BY <2>3 DEF Elapsed, Since, Begun, Topped, Ended, Searching
<1>2. ASSUME WriteInv, LastValid, LapOrder, RankInv, Counted, ConsumerInv, Elapsed,
             [ReadNext]_<<vars, c>>
      PROVE  Elapsed'
  <2>1. CASE UNCHANGED c /\ [Next]_vars
    BY <1>2, <2>1, ElapsedProducers
  <2>2. CASE (call_find \/ Read) /\ UNCHANGED vars
    BY <1>2, <2>2, ElapsedJob
  <2> QED BY <1>2, <2>1, <2>2 DEF ReadNext
<1>3. WriteInv /\ LastValid /\ LapOrder /\ RankInv /\ Counted /\ (ConsumerInv /\ Framed)
        /\ Elapsed /\ [ReadNext]_<<vars, c>> => Elapsed'
  BY <1>2
<1> QED BY <1>1, <1>3, ProducersRun, WriteInvHolds, LastValidHolds, LapsInOrder, RankHolds,
           CountedHolds, ConsumerHolds, PTL DEF ReadSpec

-----------------------------------------------------------------------------
(* shd_search_end *)

\* Up to N - 2 commits after t_index was read, shd_search_end refuses the
\* windows whose first sample was overwritten, and no other, of any size and
\* for any method, from two reads that producers may come between.
THEOREM SearchEndAnswers ==
  ASSUME Api \subseteq {"shd_write_new_blob"}
  PROVE  ReadSpec => []SearchEndIsExact
<1>1. ConsumerInv /\ Elapsed => SearchEndIsExact
  <2> SUFFICES ASSUME ConsumerInv, Elapsed, c.pc = "search_end_writes",
                      c.w_rank - c.t_rank <= NbSamples - 2
               PROVE  overwritten(nb_writes[w_start_idx]) <=> StartRewritten
    BY DEF SearchEndIsExact
  <2> DEFINE commits == c.w_rank - c.t_rank
             age     == interval_between(w_start_idx, c.t_index)
  <2>1. /\ c.t_index \in Slots /\ c.ref_idx \in Slots /\ c.t_index_new \in Slots
        /\ c.t_rank \in Nat /\ c.w_rank \in Nat /\ c.search.before \in Nat
        /\ NbSamples \in Nat \ {0} /\ commits \in Nat /\ NbSamples > 1
    <3>1. commits >= 0 /\ c.t_index_new \in Slots
      BY DEF Elapsed, Ended
    <3>2. c.t_rank \in Nat /\ c.w_rank \in Nat /\ c.t_index \in Slots /\ c.ref_idx \in Slots
      BY DEF ConsumerInv, Consumer, StepInv, Searching
    <3> QED BY <3>1, <3>2, SearchType, NbSamplesAssumption
  <2>2. w_start_idx \in Slots
    <3>1. nb_older \in Int
      <4>1. index_next(c.t_index) \in Slots
        BY <2>1, IndexNext
      <4> QED BY <2>1, <4>1, Intervals DEF nb_older, Slots
    <3>2. Lesser(nb_older, c.search.before) \in Int /\ c.ref_idx \in Int
      BY <2>1, <3>1 DEF Lesser, Slots
    <3> QED BY <3>2, Circular DEF w_start_idx
  <2>3. /\ age \in 0 .. NbSamples - 1
        /\ interval_between(index_next(c.t_index), w_start_idx) = NbSamples - 1 - age
    <3>1. PICK s \in Slots : s = w_start_idx
      BY <2>2
    <3>2. /\ interval_between(s, c.t_index) \in 0 .. NbSamples - 1
          /\ interval_between(index_next(c.t_index), s) \in 0 .. NbSamples - 1
          /\ interval_between(index_next(c.t_index), s) + interval_between(s, c.t_index)
               = NbSamples - 1
      BY <2>1, Intervals
    <3> QED BY <2>1, <3>1, <3>2
  <2>4. interval_between(c.t_index, c.t_index_new) = commits
    BY <2>1 DEF Elapsed, Ended
  <2>5. StartRewritten <=> NbSamples - age <= commits
    <3> HIDE DEF age
    <3>1. c.w_rank >= c.t_rank - age + NbSamples <=> NbSamples - age <= c.w_rank - c.t_rank
      BY <2>1, <2>3
    <3> QED BY <3>1 DEF StartRewritten, start_rank, age
  <2>6. NbSamples - age <= commits => nb_writes[w_start_idx] >= c.nb_writes_top
    <3>1. NbSamples - age <= commits => c.nb_writes_top <= nb_writes[w_start_idx]
      BY <2>1, <2>2 DEF Elapsed, Ended
    <3> QED BY <3>1
  <2>7. overwritten(nb_writes[w_start_idx])
          <=> /\ commits > 0 /\ NbSamples - 1 - age < commits
              /\ nb_writes[w_start_idx] >= c.nb_writes_top
    BY <2>3, <2>4 DEF overwritten
  <2> HIDE DEF age, commits
  <2>8. NbSamples - age <= commits <=> commits > 0 /\ NbSamples - 1 - age < commits
    BY <2>1, <2>3
  <2> QED BY <2>5, <2>6, <2>7, <2>8
<1> QED BY <1>1, ElapsedHolds, ConsumerHolds, PTL

-----------------------------------------------------------------------------
(* A ring at rest *)

\* The valid samples go back from slot w without a gap, and their time stamps
\* with them, from that of rank T.
Resting(w, T) ==
  /\ w \in Valid /\ T \in Int
  /\ \A s \in Valid : ts(s) = 4 * (T - interval_between(s, w)) /\ ts(s) \in Nat
  /\ \A s \in Valid, t \in Slots :
       interval_between(t, w) <= interval_between(s, w) => t \in Valid

\* Two slots as far from a third are one.
LEMMA SameInterval ==
  ASSUME NEW w \in Slots, NEW s \in Slots, NEW t \in Slots,
         interval_between(s, w) = interval_between(t, w)
  PROVE  s = t
BY NbSamplesAssumption DEF interval_between, Slots

\* The successor of a slot is one nearer to the latest.
LEMMA OneNearer ==
  ASSUME NEW w \in Slots, NEW s \in Slots, s # w
  PROVE  /\ index_next(s) \in Slots
         /\ interval_between(index_next(s), w) = interval_between(s, w) - 1
         /\ interval_between(s, w) > 0
BY NbSamplesAssumption, IndexNext DEF interval_between, Slots

\* At rest the nearer to the latest is the newer.
LEMMA RestingOrder ==
  ASSUME NEW w \in Slots, NEW T, Resting(w, T), NEW s \in Valid, NEW t \in Valid
  PROVE  /\ ts(s) \in Nat /\ ts(t) \in Nat /\ s \in Slots
         /\ ts(s) < ts(t) <=> interval_between(t, w) < interval_between(s, w)
         /\ ts(s) <= ts(t) <=> interval_between(t, w) <= interval_between(s, w)
<1>1. s \in Slots /\ t \in Slots
  BY DEF Valid
<1>2. interval_between(s, w) \in Int /\ interval_between(t, w) \in Int
  BY <1>1, Intervals
<1>3. /\ ts(s) \in Nat /\ ts(t) \in Nat /\ T \in Int
      /\ ts(s) = 4 * (T - interval_between(s, w))
      /\ ts(t) = 4 * (T - interval_between(t, w))
  BY DEF Resting
<1>4. ASSUME NEW a \in Int, NEW b \in Int
      PROVE  /\ 4 * (T - a) < 4 * (T - b) <=> b < a
             /\ 4 * (T - a) <= 4 * (T - b) <=> b <= a
  BY <1>3
<1> QED BY <1>1, <1>2, <1>3, <1>4

\* The sample after which the date comes is the last one before it; the next
\* one, if there is one, is the first at or after it.
LEMMA LastBefore ==
  ASSUME NEW w \in Slots, NEW T, Resting(w, T), NEW d \in Nat, NEW m \in Valid,
         ts(m) < d, m # w => ~(ts(index_next(m)) < d)
  PROVE  /\ m \in Last_(Older(d))
         /\ m = w => First(Valid \ Older(d)) = {}
         /\ m # w => /\ index_next(m) \in First(Valid \ Older(d))
                     /\ index_next(m) \in Valid
                     /\ \A s \in Valid : ts(s) <= ts(m) \/ ts(index_next(m)) <= ts(s)
         /\ m = w => \A s \in Valid : ts(s) <= ts(m)
<1>1. m \in Slots /\ \A s \in Valid : s \in Slots /\ interval_between(s, w) \in Nat
  BY Intervals DEF Valid
<1>2. m \in Older(d)
  BY DEF Older
<1>3. CASE m = w
  <2>1. interval_between(m, w) = 0
    BY <1>1, <1>3, NbSamplesAssumption DEF interval_between, Slots
  <2>2. ASSUME NEW s \in Valid PROVE ts(s) <= ts(m) /\ ts(s) < d
    <3>1. ts(s) <= ts(m) /\ ts(s) \in Nat /\ ts(m) \in Nat
      BY <1>1, <2>1, RestingOrder
    <3> QED BY <3>1
  <2>3. Valid \ Older(d) = {}
    BY <2>2 DEF Older
  <2> QED BY <1>2, <1>3, <2>2, <2>3 DEF Last_, First, Older
<1>4. CASE m # w
  <2> DEFINE a == index_next(m)
  <2>1. /\ a \in Slots /\ interval_between(a, w) = interval_between(m, w) - 1
        /\ interval_between(m, w) \in Nat /\ interval_between(a, w) \in Int
    BY <1>1, <1>4, OneNearer, Intervals
  <2> HIDE DEF a
  <2>2. a \in Valid
    <3>1. interval_between(a, w) <= interval_between(m, w)
      BY <2>1
    <3> QED BY <2>1, <3>1 DEF Resting
  <2>3. ts(a) \in Nat /\ ts(m) \in Nat /\ ~(ts(a) < d)
    BY <1>4, <2>2, RestingOrder DEF a
  <2>4. ASSUME NEW s \in Valid PROVE ts(s) \in Nat /\ (ts(s) <= ts(m) \/ ts(a) <= ts(s))
    <3>1. interval_between(s, w) \in Nat
      BY <1>1
    <3>2. interval_between(m, w) <= interval_between(s, w)
            \/ interval_between(s, w) <= interval_between(a, w)
      BY <2>1, <3>1
    <3> QED BY <2>2, <3>2, RestingOrder
  <2>5. \A s \in Older(d) : ts(s) <= ts(m)
    <3> SUFFICES ASSUME NEW s \in Valid, ts(s) < d PROVE ts(s) <= ts(m)
      BY DEF Older
    <3> QED BY <2>3, <2>4
  <2>6. \A s \in Valid \ Older(d) : ts(a) <= ts(s)
    <3> SUFFICES ASSUME NEW s \in Valid, ~(ts(s) < d) PROVE ts(a) <= ts(s)
      BY DEF Older
    <3> QED BY <2>3, <2>4
  <2>7. a \in Valid \ Older(d)
    BY <2>2, <2>3 DEF Older
  <2> QED BY <1>2, <1>4, <2>2, <2>4, <2>5, <2>6, <2>7 DEF a, First, Last_
<1> QED BY <1>3, <1>4

\* Between two samples the closest to the date is one of them, and after the
\* latest it is the latest.
LEMMA ClosestOf ==
  ASSUME NEW w \in Slots, NEW T, Resting(w, T), NEW d \in Nat, NEW m \in Valid,
         ts(m) < d, m # w => ~(ts(index_next(m)) < d)
  PROVE  LET closest == {s \in Valid : \A t \in Valid : distance(s, d) <= distance(t, d)}
             a       == index_next(m)
         IN  /\ m = w => m \in closest
             /\ m # w => (IF d - ts(m) < 0 \/ ts(a) - d < 0 \/ ts(a) - d < d - ts(m)
                          THEN a ELSE m) \in closest
<1> DEFINE closest == {s \in Valid : \A t \in Valid : distance(s, d) <= distance(t, d)}
           a       == index_next(m)
<1>1. \A s \in Valid : ts(s) \in Nat
  BY DEF Resting
<1>2. distance(m, d) = d - ts(m)
  BY DEF distance
<1>3. CASE m = w
  <2>1. ASSUME NEW t \in Valid PROVE distance(m, d) <= distance(t, d)
    <3>1. ts(t) <= ts(m) /\ ts(t) \in Nat /\ ts(m) \in Nat
      BY <1>1, <1>3, LastBefore
    <3>2. distance(t, d) = d - ts(t)
      BY <3>1 DEF distance
    <3> QED BY <1>2, <3>1, <3>2
  <2> QED BY <1>3, <2>1
<1>4. CASE m # w
  <2>1. a \in Valid /\ \A s \in Valid : ts(s) <= ts(m) \/ ts(a) <= ts(s)
    BY <1>4, LastBefore
  <2>2. ts(a) \in Nat /\ ts(m) \in Nat /\ ~(ts(a) < d)
    BY <1>1, <1>4, <2>1
  <2> HIDE DEF a
  <2>3. distance(a, d) = ts(a) - d
    BY <2>2 DEF distance
  <2>4. ASSUME NEW t \in Valid
        PROVE  distance(m, d) <= distance(t, d) \/ distance(a, d) <= distance(t, d)
    <3>1. ts(t) \in Nat
      BY <1>1
    <3>2. CASE ts(t) <= ts(m)
      <4>1. distance(t, d) = d - ts(t)
        BY <2>2, <3>1, <3>2 DEF distance
      <4> QED BY <1>2, <2>2, <3>1, <3>2, <4>1
    <3>3. CASE ts(a) <= ts(t)
      <4>1. distance(t, d) = ts(t) - d
        BY <2>2, <3>1, <3>3 DEF distance
      <4> QED BY <2>2, <2>3, <3>1, <3>3, <4>1
    <3> QED BY <2>1, <3>2, <3>3
  <2>5. \A t \in Valid : distance(t, d) \in Int
    BY <1>1 DEF distance
  <2>6. CASE ts(a) - d < d - ts(m)
    <3>1. distance(a, d) <= distance(m, d)
      BY <1>2, <2>2, <2>3, <2>6
    <3>2. \A t \in Valid : distance(a, d) <= distance(t, d)
      BY <2>1, <2>4, <2>5, <3>1
    <3> QED BY <1>4, <2>1, <2>6, <3>2 DEF a
  <2>7. CASE ~(ts(a) - d < d - ts(m))
    <3>1. distance(m, d) <= distance(a, d)
      BY <1>2, <2>2, <2>3, <2>7
    <3>2. \A t \in Valid : distance(m, d) <= distance(t, d)
      BY <2>1, <2>4, <2>5, <3>1
    <3>3. ~(d - ts(m) < 0 \/ ts(a) - d < 0)
      BY <2>2
    <3> QED BY <1>4, <2>7, <3>2, <3>3 DEF a
  <2> QED BY <2>6, <2>7
<1> QED BY <1>3, <1>4

\* The latest sample is the slot they go back from.
LEMMA LatestOf ==
  ASSUME NEW w \in Slots, NEW T, Resting(w, T)
  PROVE  w \in Last_(Valid) /\ interval_between(w, w) = 0
<1>1. interval_between(w, w) = 0
  BY NbSamplesAssumption DEF interval_between, Slots
<1>2. w \in Valid
  BY DEF Resting
<1>3. ASSUME NEW s \in Valid PROVE ts(s) <= ts(w)
  <2>1. interval_between(s, w) \in Nat
    BY Intervals DEF Valid
  <2>2. interval_between(w, w) <= interval_between(s, w)
    BY <1>1, <2>1
  <2> QED BY <1>2, <2>2, RestingOrder
<1> QED BY <1>1, <1>2, <1>3 DEF Last_

\* The predecessor of a slot is one further from the latest.
LEMMA OneOlder ==
  ASSUME NEW w \in Slots, NEW s \in Slots, interval_between(s, w) < NbSamples - 1
  PROVE  /\ index_n_before(s, 1) \in Slots /\ index_n_before(s, 1) # w
         /\ interval_between(index_n_before(s, 1), w) = interval_between(s, w) + 1
         /\ index_next(index_n_before(s, 1)) = s
<1>1. NbSamples > 1
  BY Intervals, NbSamplesAssumption
<1>2. index_n_before(s, 1) = IF 1 <= s THEN s - 1 ELSE s + NbSamples - 1
  BY <1>1, Offsets, NbSamplesAssumption
<1>3. index_n_before(s, 1) \in Slots
  BY <1>1, <1>2, NbSamplesAssumption DEF Slots
<1>4. index_next(index_n_before(s, 1)) = s
  BY <1>1, <1>2, <1>3, IndexNext, NbSamplesAssumption DEF Slots
<1>5. index_n_before(s, 1) # w
        /\ interval_between(index_n_before(s, 1), w) = interval_between(s, w) + 1
  BY <1>1, <1>2, NbSamplesAssumption DEF interval_between, Slots
<1> QED BY <1>3, <1>4, <1>5

\* The valid samples are the D latest.
Extent(w, D) == \A s \in Slots : s \in Valid <=> interval_between(s, w) < D

\* The oldest of them; and the one after it, once the ring is full.
LEMMA OldestOf ==
  ASSUME NEW w \in Slots, w = c.t_index, NEW T, Resting(w, T),
         NEW D \in 1 .. NbSamples, Extent(w, D), NEW search, search.method = "OLDEST"
  PROVE  oldest(D) \in Right(search)
<1>0. NbSamples \in Nat /\ D \in Nat
  BY NbSamplesAssumption
<1>1. \A s \in Slots : interval_between(s, w) \in 0 .. NbSamples - 1
  BY Intervals
<1>2. CASE D < NbSamples
  <2> DEFINE o == index_n_before(w, D - 1)
  <2>1. o \in Slots /\ interval_between(o, w) = D - 1
    <3>1. D - 1 \in 0 .. NbSamples - 1 /\ D - 1 \in Int /\ w \in Int
      BY <1>0 DEF Slots
    <3>2. interval_between(index_n_before(w, D - 1), w) = D - 1
      BY <3>1, Back
    <3>3. index_n_before(w, D - 1) \in Slots
      BY <3>1, Circular
    <3> QED BY <3>2, <3>3
  <2> HIDE DEF o
  <2>2. o \in Valid
    BY <1>0, <2>1 DEF Extent
  <2>3. ASSUME NEW s \in Valid PROVE ts(o) <= ts(s)
    <3>1. s \in Slots /\ interval_between(s, w) < D
      BY DEF Extent, Valid
    <3>2. interval_between(s, w) <= interval_between(o, w)
      BY <1>0, <1>1, <2>1, <3>1
    <3> QED BY <2>2, <3>2, RestingOrder
  <2>4. o \in First(Valid)
    BY <2>2, <2>3 DEF First
  <2>5. Valid # Slots
    <3>1. D \in 0 .. NbSamples - 1 /\ D \in Int /\ w \in Int
      BY <1>0, <1>2 DEF Slots
    <3>2. index_n_before(w, D) \in Slots /\ interval_between(index_n_before(w, D), w) = D
      <4>1. interval_between(index_n_before(w, D), w) = D
        BY <3>1, Back
      <4>2. index_n_before(w, D) \in Slots
        BY <3>1, Circular
      <4> QED BY <4>1, <4>2
    <3>3. index_n_before(w, D) \notin Valid
      BY <1>0, <3>2 DEF Extent
    <3> QED BY <3>2, <3>3
  <2>6. Right(search) = First(Valid)
    BY <2>5 DEF Right
  <2>7. oldest(D) = o
    BY <1>0, <1>2 DEF oldest, o
  <2> QED BY <2>4, <2>6, <2>7
<1>3. CASE D = NbSamples /\ NbSamples > 1
  <2> DEFINE first == index_next(w)
             o     == index_n_after(w, 2)
  <2>1. first \in Slots /\ interval_between(first, w) = NbSamples - 1
    <3>1. interval_between(index_next(w), w) + interval_between(w, w) = NbSamples - 1
      BY Intervals
    <3>2. index_next(w) \in Slots /\ interval_between(w, w) = 0
      BY LatestOf, IndexNext
    <3>3. interval_between(index_next(w), w) \in Int
      BY <1>1, <3>2
    <3> QED BY <1>0, <3>1, <3>2, <3>3
  <2>2. o \in Slots /\ interval_between(o, w) = NbSamples - 2
    <3>1. o = index_next(index_next(w))
      <4>1. (w + 2) % NbSamples = IF w + 2 < NbSamples THEN w + 2 ELSE w + 2 - NbSamples
        BY <1>0, <1>3, SMT DEF Slots
      <4> QED BY <1>0, <2>1, <4>1, IndexNext DEF index_n_after, Slots
    <3>2. first # w
      BY LatestOf, <1>0, <1>3, <2>1
    <3>3. /\ index_next(first) \in Slots
          /\ interval_between(index_next(first), w) = interval_between(first, w) - 1
      BY <2>1, <3>2, OneNearer
    <3> QED BY <1>0, <2>1, <3>1, <3>3
  <2> HIDE DEF first, o
  <2>3. Valid = Slots
    <3>1. \A s \in Slots : s \in Valid
      BY <1>0, <1>1, <1>3 DEF Extent
    <3> QED BY <3>1 DEF Valid
  <2>4. First(Valid) = {first}
    <3>1. ASSUME NEW s \in Valid PROVE ts(first) <= ts(s) /\ (s # first => ~(ts(s) <= ts(first)))
      <4>1. interval_between(s, w) <= interval_between(first, w)
        BY <1>0, <1>1, <2>1, <2>3
      <4>2. ts(first) <= ts(s)
        BY <2>1, <2>3, <4>1, RestingOrder
      <4>3. ASSUME s # first PROVE ~(ts(s) <= ts(first))
        <5>1. interval_between(s, w) # interval_between(first, w)
          BY <2>1, <2>3, <4>3, SameInterval
        <5>2. ~(interval_between(first, w) <= interval_between(s, w))
          BY <1>0, <1>1, <2>1, <2>3, <4>1, <5>1
        <5> QED BY <2>1, <2>3, <5>2, RestingOrder
      <4> QED BY <4>2, <4>3
    <3> QED BY <2>1, <2>3, <3>1 DEF First
  <2>5. ASSUME NEW s \in Valid \ {first} PROVE ts(o) <= ts(s)
    <3>1. interval_between(s, w) # interval_between(first, w)
      BY <2>1, <2>3, SameInterval
    <3>2. interval_between(s, w) <= interval_between(o, w)
      BY <1>0, <1>1, <2>1, <2>2, <2>3, <3>1
    <3> QED BY <2>2, <2>3, <3>2, RestingOrder
  <2>6. o # first
    BY <1>0, <2>1, <2>2
  <2>7. o \in First(Valid \ First(Valid))
    BY <2>2, <2>3, <2>4, <2>5, <2>6 DEF First
  <2>8. Right(search) = First(Valid \ First(Valid))
    BY <1>3, <2>3 DEF Right
  <2>9. oldest(D) = o
    BY <1>3 DEF oldest, o
  <2> QED BY <2>7, <2>8, <2>9
<1>4. CASE NbSamples = 1
  <2>1. Slots = {0} /\ w = 0 /\ Valid = {0}
    BY <1>4 DEF Slots, Resting, Valid
  <2>2. Right(search) = First(Valid)
    BY <1>4 DEF Right
  <2>3. ts(0) \in Nat
    BY <2>1 DEF Resting
  <2>4. oldest(D) \in Slots
    <3>1. w \in Int /\ 2 \in Int /\ D - 1 \in Int
      BY <1>0 DEF Slots
    <3> QED BY <3>1, Circular DEF oldest
  <2> QED BY <2>1, <2>2, <2>3, <2>4 DEF First
<1> QED BY <1>0, <1>2, <1>3, <1>4

\* No sample is before the date: on a full ring, the oldest is the first after
\* it and the closest to it.
LEMMA NoneBefore ==
  ASSUME NEW w \in Slots, NEW T, Resting(w, T), NEW d \in Nat, Older(d) = {}
  PROVE  /\ Last_(Older(d)) = {}
         /\ Valid = Slots =>
              /\ index_next(w) \in First(Valid \ Older(d))
              /\ index_next(w) \in
                   {s \in Valid : \A t \in Valid : distance(s, d) <= distance(t, d)}
<1>1. Last_(Older(d)) = {}
  BY DEF Last_
<1>2. ASSUME Valid = Slots
      PROVE  /\ index_next(w) \in First(Valid \ Older(d))
             /\ index_next(w) \in
                  {s \in Valid : \A t \in Valid : distance(s, d) <= distance(t, d)}
  <2> DEFINE first == index_next(w)
  <2>1. first \in Valid
    BY <1>2, IndexNext
  <2>2. ASSUME NEW s \in Valid
        PROVE  /\ ts(first) <= ts(s) /\ ~(ts(s) < d) /\ ts(s) \in Nat
               /\ distance(s, d) = ts(s) - d
    <3>1. interval_between(index_next(w), w) + interval_between(w, w) = NbSamples - 1
      BY Intervals
    <3>2. interval_between(w, w) = 0 /\ index_next(w) \in Slots
      BY LatestOf, IndexNext
    <3>3. interval_between(s, w) \in 0 .. NbSamples - 1
      BY <1>2, Intervals
    <3>4. interval_between(index_next(w), w) \in 0 .. NbSamples - 1
      BY <3>2, Intervals
    <3>5. interval_between(s, w) <= interval_between(index_next(w), w)
      BY <3>1, <3>2, <3>3, <3>4, NbSamplesAssumption
    <3>6. ts(first) <= ts(s)
      BY <2>1, <3>5, RestingOrder
    <3>7. ~(ts(s) < d) /\ ts(s) \in Nat
      BY DEF Older, Resting
    <3> QED BY <3>6, <3>7 DEF distance
  <2> HIDE DEF first
  <2>3. \A s \in Valid : distance(first, d) <= distance(s, d)
    <3> SUFFICES ASSUME NEW s \in Valid PROVE distance(first, d) <= distance(s, d)
      OBVIOUS
    <3>1. /\ ts(first) <= ts(s) /\ ts(s) \in Nat /\ distance(s, d) = ts(s) - d
          /\ ts(first) \in Nat /\ distance(first, d) = ts(first) - d
      BY <2>1, <2>2
    <3> QED BY <3>1
  <2> QED BY <2>1, <2>2, <2>3 DEF first, First
<1> QED BY <1>1, <1>2

\* There is a single valid sample when the latest is the only one.
LEMMA SingleSample ==
  ASSUME NEW w \in Slots, NEW D \in 1 .. NbSamples, Extent(w, D)
  PROVE  Cardinality(Valid) = 1 <=> D = 1
<1>0. NbSamples \in Nat /\ D \in Nat /\ D <= NbSamples /\ interval_between(w, w) = 0
  BY NbSamplesAssumption DEF interval_between, Slots
<1>1. IsFiniteSet(Valid)
  <2>1. IsFiniteSet(Slots)
    BY <1>0, FS_Interval DEF Slots
  <2> QED BY <2>1, FS_Subset DEF Valid
<1>2. w \in Valid
  BY <1>0 DEF Extent
<1>3. CASE D = 1
  <2>1. ASSUME NEW s \in Valid PROVE s = w
    <3>1. s \in Slots /\ interval_between(s, w) < 1
      BY <1>3 DEF Extent, Valid
    <3>2. interval_between(s, w) = 0
      BY <3>1, Intervals
    <3> QED BY <1>0, <3>1, <3>2, SameInterval
  <2>2. Valid = {w}
    BY <1>2, <2>1
  <2> QED BY <1>3, <2>2, FS_Singleton
<1>4. CASE D # 1
  <2> DEFINE older == index_n_before(w, 1)
  <2>1. older \in Slots /\ older # w /\ interval_between(older, w) = 1
    BY <1>0, <1>4, OneOlder
  <2> HIDE DEF older
  <2>2. older \in Valid
    BY <1>0, <1>4, <2>1 DEF Extent
  <2>3. ~\E x : Valid = {x}
    BY <1>2, <2>1, <2>2
  <2> QED BY <1>1, <1>4, <2>3, FS_Singleton
<1> QED BY <1>3, <1>4

-----------------------------------------------------------------------------
(* What an undisturbed search has seen *)

\* The sample m is the last before the date among those it can go on from.
Bracketed(w, d, m) ==
  m \in Valid /\ ts(m) < d /\ (m # w => ~(ts(index_next(m)) < d))

\* The slots that naive search passed are not before the date, and those it
\* has left are the other valid ones.
NaiveSees(w, d, m, left) ==
  /\ left > 0 /\ left + interval_between(m, w) <= NbSamples
  /\ Extent(w, left + interval_between(m, w))
  /\ \A s \in Slots : interval_between(s, w) < interval_between(m, w) => ~(ts(s) < d)

\* Position i of a binary search over the D latest samples.
place(w, D, i) == index_n_before(w, D - 1 - i)

\* Below imin the samples are before the date, from imax they are not.
BinarySees(w, d, r) ==
  /\ r.depth > 0 /\ r.depth <= NbSamples /\ Extent(w, r.depth)
  /\ \A s \in Valid : interval_between(s, w) > r.depth - 1 - r.imin => ts(s) < d
  /\ r.imax < r.depth - 1 => ~(ts(place(w, r.depth, r.imax)) < d)
  /\ \/ r.imin = 0 /\ r.imax = r.depth - 1 /\ r.imid = 0 /\ r.res = 0
     \/ /\ r.depth > 1 /\ r.m_index = place(w, r.depth, r.imid)
        /\ r.res < 0 <=> ts(place(w, r.depth, r.imid)) < d

\* The answer is right, or is what the search falls back on.
Answered(r) ==
  IF Answerable(r.search, r.hint)
  THEN /\ r.pc = "search_end" => r.ref_idx \in Right(r.search)
       /\ r.pc = "done" /\ r.ret = "ENOENT" => Right(r.search) = {}
  ELSE /\ r.pc = "search_end" =>
            r.search.method # "FIRST_BEFORE" /\ r.ref_idx = index_next(r.t_index)
       /\ r.pc = "done" /\ r.ret = "ENOENT" => r.search.method = "FIRST_BEFORE"

\* What consumer r knows.
Sees(r) ==
  /\ r.pc = "max_depth" =>
       \A s \in Slots : interval_between(s, r.t_index) < r.depth => s \in Valid
  /\ r.pc = "naive" =>
       r.hint # "BINARY" /\ NaiveSees(r.t_index, r.search.date, r.m_index, r.depth)
  /\ r.pc = "binary" => r.hint = "BINARY" /\ BinarySees(r.t_index, r.search.date, r)
  /\ r.pc \in {"closest_before", "closest_after"} =>
       /\ r.search.method = "CLOSEST" /\ r.m_index # r.t_index /\ ~Blind(r.hint)
       /\ Bracketed(r.t_index, r.search.date, r.m_index)
  /\ r.pc = "closest_after" => r.ts_before = ts(r.m_index)
  /\ Answered(r)

\* A search at work over a ring at rest.
AtRest == ConsumerInv /\ c.t_index \in Slots /\ Resting(c.t_index, c.t_rank)

\* The method, once the sample after which the date comes is known.
LEMMA FoundSees ==
  ASSUME AtRest, ~Blind(c.hint), NEW m, Bracketed(c.t_index, c.search.date, m), Found(m)
  PROVE  Sees(c')
<1> DEFINE d == c.search.date
<1>0. /\ DOMAIN c = Fields /\ d \in Nat
      /\ c.t_index \in Slots /\ Resting(c.t_index, c.t_rank)
  BY SearchType DEF AtRest, ConsumerInv, Consumer
<1>1. m \in Valid /\ ts(m) < d /\ (m # c.t_index => ~(ts(index_next(m)) < d))
  BY DEF Bracketed
<1>2. /\ m \in Last_(Older(d))
      /\ m = c.t_index => First(Valid \ Older(d)) = {}
      /\ m # c.t_index => index_next(m) \in First(Valid \ Older(d))
  BY <1>0, <1>1, LastBefore
<1>3. m = c.t_index =>
        m \in {s \in Valid : \A t \in Valid : distance(s, d) <= distance(t, d)}
  BY <1>0, <1>1, ClosestOf
<1>a. Answerable(c.search, c.hint)
  BY <1>1 DEF Answerable, Older
<1>4. CASE /\ c.search.method = "FIRST_BEFORE"
           /\ c' = [c EXCEPT !.pc = "search_end", !.ref_idx = m]
  <2>1. c'.pc = "search_end" /\ c'.ref_idx = m /\ c'.search = c.search /\ c'.hint = c.hint
    BY <1>0, <1>4 DEF Fields
  <2>2. Right(c.search) = Last_(Older(d))
    BY <1>4 DEF Right
  <2> QED BY <1>a, <1>2, <2>1, <2>2 DEF Sees, Answered
<1>5. CASE c.search.method = "FIRST_AFTER" /\ m = c.t_index /\ Fail("ENOENT")
  <2>1. c'.pc = "done" /\ c'.search = c.search /\ c'.hint = c.hint
    BY <1>0, <1>5 DEF Fields, Fail
  <2>2. Right(c.search) = First(Valid \ Older(d))
    BY <1>5 DEF Right
  <2> QED BY <1>a, <1>2, <1>5, <2>1, <2>2 DEF Sees, Answered
<1>6. CASE /\ c.search.method = "FIRST_AFTER" /\ m # c.t_index
           /\ c' = [c EXCEPT !.pc = "search_end", !.ref_idx = index_next(m)]
  <2>1. c'.pc = "search_end" /\ c'.ref_idx = index_next(m) /\ c'.search = c.search /\ c'.hint = c.hint
    BY <1>0, <1>6 DEF Fields
  <2>2. Right(c.search) = First(Valid \ Older(d))
    BY <1>6 DEF Right
  <2> QED BY <1>a, <1>2, <1>6, <2>1, <2>2 DEF Sees, Answered
<1>7. CASE /\ c.search.method = "CLOSEST" /\ m = c.t_index
           /\ c' = [c EXCEPT !.pc = "search_end", !.ref_idx = m]
  <2>1. c'.pc = "search_end" /\ c'.ref_idx = m /\ c'.search = c.search /\ c'.hint = c.hint
    BY <1>0, <1>7 DEF Fields
  <2>2. Right(c.search) = {s \in Valid : \A t \in Valid : distance(s, d) <= distance(t, d)}
    BY <1>7 DEF Right
  <2> QED BY <1>a, <1>3, <1>7, <2>1, <2>2 DEF Sees, Answered
<1>8. CASE /\ c.search.method = "CLOSEST" /\ m # c.t_index
           /\ c' = [c EXCEPT !.pc = "closest_before", !.m_index = m]
  <2>1. /\ c'.pc = "closest_before" /\ c'.m_index = m /\ c'.search = c.search
        /\ c'.t_index = c.t_index /\ c'.hint = c.hint
    BY <1>0, <1>8 DEF Fields
  <2> QED BY <1>8, <2>1 DEF Sees, Answered
<1> QED BY <1>4, <1>5, <1>6, <1>7, <1>8 DEF Found

\* And when there is none, or the only one was not looked at.
LEMMA NotFoundSees ==
  ASSUME AtRest, Older(c.search.date) = {} \/ Blind(c.hint), NotFound,
         c.search.method \in {"CLOSEST", "FIRST_AFTER", "FIRST_BEFORE"}
  PROVE  Sees(c')
<1> DEFINE d == c.search.date
<1>0. /\ DOMAIN c = Fields /\ d \in Nat
      /\ c.t_index \in Slots /\ Resting(c.t_index, c.t_rank)
  BY SearchType DEF AtRest, ConsumerInv, Consumer
<1>1. ASSUME Older(d) = {}
      PROVE  /\ Last_(Older(d)) = {}
             /\ Valid = Slots =>
                  /\ index_next(c.t_index) \in First(Valid \ Older(d))
                  /\ index_next(c.t_index) \in
                       {s \in Valid : \A t \in Valid : distance(s, d) <= distance(t, d)}
  BY <1>0, <1>1, NoneBefore
<1>2. CASE c.search.method = "FIRST_BEFORE"
  <2>1. c'.pc = "done" /\ c'.search = c.search
    BY <1>0, <1>2 DEF Fields, Fail, NotFound
  <2>2. ASSUME Answerable(c.search, c.hint) PROVE Last_(Older(d)) = {}
    BY <1>1, <1>2, <2>2 DEF Answerable
  <2>3. c'.hint = c.hint
    BY <1>0, <1>2 DEF Fields, Fail, NotFound
  <2>4. Right(c.search) = Last_(Older(d))
    BY <1>2 DEF Right
  <2> QED BY <1>2, <2>1, <2>2, <2>3, <2>4 DEF Sees, Answered
<1>3. CASE c.search.method # "FIRST_BEFORE"
  <2>1. /\ c'.pc = "search_end" /\ c'.ref_idx = index_next(c.t_index)
        /\ c'.search = c.search /\ c'.hint = c.hint /\ c'.t_index = c.t_index
    BY <1>0, <1>3 DEF Fields, NotFound
  <2>2. ASSUME Answerable(c.search, c.hint) PROVE Older(d) = {} /\ Valid = Slots
    BY <1>3, <2>2 DEF Answerable
  <2>3. \/ Right(c.search) = First(Valid \ Older(d))
        \/ Right(c.search) =
             {s \in Valid : \A t \in Valid : distance(s, d) <= distance(t, d)}
    BY <1>3 DEF Right
  <2>4. ASSUME Answerable(c.search, c.hint) PROVE index_next(c.t_index) \in Right(c.search)
    BY <1>1, <2>2, <2>3, <2>4
  <2> QED BY <1>3, <2>1, <2>4 DEF Sees, Answered
<1> QED BY <1>2, <1>3

\* The search proper starts, once the number of valid samples is known.
LEMMA FromSees ==
  ASSUME AtRest, NEW D \in 1 .. NbSamples, Extent(c.t_index, D),
         c.search.method # "LATEST", c.imin = 0, c.imid = 0, c.res = 0,
         NEW from, from = SearchFrom(D),
         c' = from \/ \E top : c' = [from EXCEPT !.nb_writes_top = top]
  PROVE  Sees(c')
<1>0. /\ DOMAIN c = Fields /\ NbSamples \in Nat \ {0}
      /\ c.t_index \in Slots /\ Resting(c.t_index, c.t_rank)
  BY NbSamplesAssumption DEF AtRest, ConsumerInv, Consumer
<1>1. D > 0 /\ D <= NbSamples /\ D \in Nat
  BY <1>0
<1>2. DOMAIN from = Fields /\ from.search = c.search /\ from.t_index = c.t_index
        /\ from.imin = 0 /\ from.imid = 0 /\ from.res = 0 /\ from.depth = D
        /\ from.hint = c.hint
  BY <1>0 DEF SearchFrom, Fields
<1>3. /\ c'.pc = from.pc /\ c'.search = c.search /\ c'.t_index = c.t_index /\ c'.imin = 0
      /\ c'.depth = D /\ c'.ref_idx = from.ref_idx /\ c'.m_index = from.m_index
      /\ c'.imax = from.imax /\ c'.imid = 0 /\ c'.res = 0 /\ c'.hint = c.hint
  <2>1. CASE c' = from
    BY <1>2, <2>1
  <2>2. CASE \E top : c' = [from EXCEPT !.nb_writes_top = top]
    BY <1>2, <2>2 DEF Fields
  <2> QED BY <2>1, <2>2
<1>4. CASE c.search.method = "OLDEST"
  <2>1. c'.pc = "search_end" /\ c'.ref_idx = oldest(D)
    BY <1>0, <1>3, <1>4 DEF SearchFrom, Fields
  <2>2. oldest(D) \in Right(c.search)
    BY <1>0, <1>1, <1>4, OldestOf
  <2>3. Answerable(c.search, c.hint)
    BY <1>4 DEF Answerable
  <2> QED BY <1>3, <2>1, <2>2, <2>3 DEF Sees, Answered
<1>5. CASE c.search.method # "OLDEST" /\ c.hint = "BINARY"
  <2>1. c'.pc = "binary" /\ c'.imax = D - 1
    BY <1>0, <1>3, <1>5 DEF SearchFrom, Fields
  <2>2. \A s \in Valid : ~(interval_between(s, c.t_index) > D - 1 - 0)
    <3> SUFFICES ASSUME NEW s \in Valid PROVE ~(interval_between(s, c.t_index) > D - 1 - 0)
      OBVIOUS
    <3>1. s \in Slots /\ interval_between(s, c.t_index) < D
      BY DEF Extent, Valid
    <3>2. interval_between(s, c.t_index) \in Int
      BY <1>0, <3>1, Intervals
    <3> QED BY <3>1, <3>2
  <2>3. BinarySees(c.t_index, c.search.date, c')
    BY <1>1, <1>3, <2>1, <2>2 DEF BinarySees
  <2> QED BY <1>3, <1>5, <2>1, <2>3 DEF Sees, Answered
<1>6. CASE c.search.method # "OLDEST" /\ c.hint # "BINARY"
  <2>1. c'.pc = "naive" /\ c'.m_index = c.t_index
    BY <1>0, <1>3, <1>6 DEF SearchFrom, Fields
  <2>2. interval_between(c.t_index, c.t_index) = 0
    BY <1>0, LatestOf
  <2>3. \A s \in Slots : ~(interval_between(s, c.t_index) < 0)
    BY <1>0, Intervals
  <2>4. NaiveSees(c.t_index, c.search.date, c.t_index, D)
    BY <1>1, <2>2, <2>3 DEF NaiveSees
  <2> QED BY <1>3, <1>6, <2>1, <2>4 DEF Sees, Answered
<1> QED BY <1>4, <1>5, <1>6

\* search_top: a slot written twice tells that all are valid.
LEMMA TopSees ==
  ASSUME AtRest, TypeOK, LapOrder, search_top,
         NbSamples > 1 => write_index = c.t_index /\ \A p \in Producers : ~Writing(p)
  PROVE  Sees(c')
<1>0. /\ DOMAIN c = Fields /\ NbSamples \in Nat \ {0} /\ c.pc = "search_top" /\ c.depth = 0
      /\ c.imin = 0 /\ c.imid = 0 /\ c.res = 0
      /\ c.t_index \in Slots /\ Resting(c.t_index, c.t_rank)
  BY NbSamplesAssumption DEF AtRest, ConsumerInv, Consumer, StepInv, search_top
<1> DEFINE top == nb_writes[c.t_index]
<1>1. CASE /\ c.search.method = "LATEST"
           /\ c' = [[c EXCEPT !.pc = "search_end", !.ref_idx = c.t_index]
                       EXCEPT !.nb_writes_top = top]
  <2>1. c'.pc = "search_end" /\ c'.ref_idx = c.t_index /\ c'.search = c.search
          /\ c'.hint = c.hint
    BY <1>0, <1>1 DEF Fields
  <2>2. c.t_index \in Last_(Valid)
    BY <1>0, LatestOf
  <2>3. Right(c.search) = Last_(Valid)
    BY <1>1 DEF Right
  <2>4. Answerable(c.search, c.hint)
    BY <1>1 DEF Answerable
  <2> QED BY <2>1, <2>2, <2>3, <2>4 DEF Sees, Answered
<1>2. CASE /\ c.search.method # "LATEST" /\ top > 0
           /\ c' = [SearchFrom(NbSamples) EXCEPT !.nb_writes_top = top]
  <2>1. ASSUME NEW s \in Slots PROVE s \in Valid
    <3>1. nb_writes[s] \in Int /\ nb_writes[c.t_index] \in Int
      BY <1>0 DEF TypeOK
    <3>2. CASE NbSamples = 1
      <4>1. s = c.t_index
        BY <1>0, <3>2 DEF Slots
      <4> QED BY <1>2, <3>1, <4>1 DEF Valid
    <3>3. CASE NbSamples > 1
      <4>1. settled(s) = nb_writes[s] /\ settled(c.t_index) = nb_writes[c.t_index]
        BY <3>3 DEF settled
      <4>2. settled(c.t_index) - settled(s) \in {0, 1} \/ settled(s) - settled(c.t_index) = 0
        <5>1. CASE s <= c.t_index
          BY <1>0, <3>3, <5>1 DEF LapOrder, Slots
        <5>2. CASE c.t_index <= s
          BY <1>0, <3>3, <5>2 DEF LapOrder, Slots
        <5> QED BY <1>0, <5>1, <5>2 DEF Slots
      <4>3. nb_writes[s] # -1
        BY <1>2, <3>1, <4>1, <4>2
      <4> QED BY <4>3 DEF Valid
    <3> QED BY <1>0, <3>2, <3>3
  <2>2. Extent(c.t_index, NbSamples)
    BY <1>0, <2>1, Intervals DEF Extent
  <2>3. NbSamples \in 1 .. NbSamples
    BY <1>0
  <2> HIDE DEF top
  <2> QED BY <1>0, <1>2, <2>2, <2>3, FromSees
<1>3. CASE c' = [[c EXCEPT !.pc = "max_depth"] EXCEPT !.nb_writes_top = top]
  <2>1. c'.pc = "max_depth" /\ c'.depth = 0 /\ c'.t_index = c.t_index
    BY <1>0, <1>3 DEF Fields
  <2>2. \A s \in Slots : ~(interval_between(s, c.t_index) < 0)
    BY <1>0, Intervals
  <2> QED BY <2>1, <2>2 DEF Sees, Answered
<1> QED BY <1>1, <1>2, <1>3 DEF search_top

\* max_depth: the loop stops at the first slot that is not valid, or beyond
\* which there is none.
LEMMA DepthSees ==
  ASSUME AtRest, Sees(c), max_depth
  PROVE  Sees(c')
<1>0. /\ DOMAIN c = Fields /\ NbSamples \in Nat /\ c.pc = "max_depth"
      /\ c.depth \in 0 .. NbSamples - 1 /\ c.search.method # "LATEST"
      /\ c.imin = 0 /\ c.imid = 0 /\ c.res = 0
      /\ c.t_index \in Slots /\ Resting(c.t_index, c.t_rank)
  BY NbSamplesAssumption DEF AtRest, ConsumerInv, Consumer, StepInv, max_depth
<1> DEFINE next == index_n_before(c.t_index, c.depth)
<1>1. /\ next \in Slots /\ interval_between(next, c.t_index) = c.depth
  <2>1. c.t_index \in Int /\ c.depth \in Int
    BY <1>0 DEF Slots
  <2>2. index_n_before(c.t_index, c.depth) \in Slots
    BY <2>1, Circular
  <2>3. interval_between(index_n_before(c.t_index, c.depth), c.t_index) = c.depth
    BY <1>0, Back
  <2> QED BY <2>2, <2>3
<1>2. \A s \in Slots : interval_between(s, c.t_index) < c.depth => s \in Valid
  BY <1>0 DEF Sees
<1>3. \A s \in Slots : interval_between(s, c.t_index) \in 0 .. NbSamples - 1
  BY <1>0, Intervals
<1>4. ASSUME nb_writes[next] # -1, NEW s \in Slots, interval_between(s, c.t_index) < c.depth + 1
      PROVE  s \in Valid
  <2>1. CASE interval_between(s, c.t_index) < c.depth
    BY <1>2, <2>1
  <2>2. CASE interval_between(s, c.t_index) = c.depth
    <3>1. s = next
      BY <1>0, <1>1, <2>2, SameInterval
    <3> QED BY <1>4, <3>1 DEF Valid
  <2> QED BY <1>0, <1>3, <1>4, <2>1, <2>2
<1>5. CASE nb_writes[next] # -1 /\ more_turns(c.depth)
  <2>1. c' = [c EXCEPT !.depth = c.depth + 1]
    BY <1>5 DEF max_depth
  <2>2. c'.pc = "max_depth" /\ c'.depth = c.depth + 1 /\ c'.t_index = c.t_index
    BY <1>0, <2>1 DEF Fields
  <2> QED BY <1>4, <1>5, <2>2 DEF Sees, Answered
<1>6. CASE nb_writes[next] # -1 /\ ~more_turns(c.depth)
  <2>1. c' = SearchFrom(c.depth + 1)
    BY <1>6 DEF max_depth
  <2>2. c.depth + 1 = NbSamples /\ c.depth + 1 \in 1 .. NbSamples
    BY <1>0, <1>6 DEF more_turns
  <2>3. Extent(c.t_index, c.depth + 1)
    BY <1>3, <1>4, <1>6, <2>2 DEF Extent
  <2> QED BY <1>0, <2>1, <2>2, <2>3, FromSees
<1>7. CASE nb_writes[next] = -1
  <2>1. c' = SearchFrom(c.depth)
    BY <1>7 DEF max_depth
  <2>2. ASSUME NEW s \in Valid PROVE interval_between(s, c.t_index) < c.depth
    <3>1. s \in Slots
      BY DEF Valid
    <3>2. next \notin Valid
      BY <1>7 DEF Valid
    <3>3. ~(interval_between(next, c.t_index) <= interval_between(s, c.t_index))
      BY <1>0, <1>1, <3>2 DEF Resting
    <3> QED BY <1>0, <1>1, <1>3, <3>1, <3>3
  <2>3. Extent(c.t_index, c.depth)
    BY <1>2, <2>2 DEF Extent
  <2>4. c.depth \in 1 .. NbSamples
    <3>1. c.t_index \in Valid /\ interval_between(c.t_index, c.t_index) = 0
      BY <1>0, LatestOf DEF Resting
    <3> QED BY <1>0, <2>2, <3>1
  <2> QED BY <1>0, <2>1, <2>3, <2>4, FromSees
<1> QED BY <1>5, <1>6, <1>7

\* A turn of the naive search.
LEMMA NaiveStepSees ==
  ASSUME AtRest, Sees(c), naive
  PROVE  Sees(c')
<1> DEFINE w == c.t_index
           d == c.search.date
           m == c.m_index
           age(s) == interval_between(s, c.t_index)
<1>0. /\ DOMAIN c = Fields /\ NbSamples \in Nat /\ c.pc = "naive" /\ m \in Slots
      /\ c.depth \in 0 .. NbSamples /\ w \in Slots /\ Resting(w, c.t_rank) /\ d \in Nat
      /\ c.search.method \in {"CLOSEST", "FIRST_AFTER", "FIRST_BEFORE"}
  BY NbSamplesAssumption, SearchType DEF AtRest, ConsumerInv, Consumer, StepInv, naive
<1>a. c.hint # "BINARY"
  BY <1>0 DEF Sees
<1>1. \A s \in Slots : age(s) \in 0 .. NbSamples - 1
  BY <1>0, Intervals
<1>2. /\ c.depth > 0 /\ c.depth + age(m) <= NbSamples
      /\ \A s \in Slots : s \in Valid <=> age(s) < c.depth + age(m)
      /\ \A s \in Slots : age(s) < age(m) => ~(ts(s) < d)
  BY <1>0 DEF Sees, NaiveSees, Extent
<1>3. CASE precedes(m)
  <2>1. m \in Valid
    BY <1>0, <1>1, <1>2
  <2>2. ASSUME m # w PROVE ~(ts(index_next(m)) < d)
    <3>1. index_next(m) \in Slots /\ age(index_next(m)) = age(m) - 1
      BY <1>0, <2>2, OneNearer
    <3>2. age(m) - 1 < age(m)
      BY <1>0, <1>1
    <3> QED BY <1>2, <3>1, <3>2
  <2>3. Bracketed(w, d, m)
    BY <1>3, <2>1, <2>2 DEF Bracketed, precedes
  <2>4. Found(m)
    BY <1>3 DEF naive
  <2> QED BY <1>a, <2>3, <2>4, FoundSees DEF Blind
<1>4. CASE ~precedes(m) /\ c.depth > 1
  <2>1. age(m) < NbSamples - 1
    BY <1>0, <1>1, <1>2, <1>4
  <2> DEFINE b == index_n_before(m, 1)
  <2>2. b \in Slots /\ age(b) = age(m) + 1
    BY <1>0, <2>1, OneOlder
  <2>3. c' = [c EXCEPT !.m_index = b, !.depth = c.depth - 1]
    BY <1>4 DEF naive
  <2> HIDE DEF b
  <2>4. /\ c'.pc = "naive" /\ c'.m_index = b /\ c'.depth = c.depth - 1
        /\ c'.t_index = w /\ c'.search = c.search /\ c'.hint = c.hint
    BY <1>0, <2>3 DEF Fields
  <2>5. c.depth - 1 > 0 /\ c.depth - 1 + age(b) = c.depth + age(m)
    BY <1>0, <1>1, <1>4, <2>2
  <2>6. ASSUME NEW s \in Slots, age(s) < age(b) PROVE ~(ts(s) < d)
    <3>1. CASE age(s) < age(m)
      BY <1>2, <3>1
    <3>2. CASE age(s) = age(m)
      <4>1. s = m
        BY <1>0, <3>2, SameInterval
      <4> QED BY <1>4, <4>1 DEF precedes
    <3> QED BY <1>0, <1>1, <2>2, <2>6, <3>1, <3>2
  <2>7. NaiveSees(w, d, b, c.depth - 1)
    BY <1>2, <2>5, <2>6 DEF NaiveSees, Extent
  <2> QED BY <1>a, <2>4, <2>7 DEF Sees, Answered
<1>5. CASE ~precedes(m) /\ ~(c.depth > 1)
  <2>1. c.depth = 1
    BY <1>0, <1>2, <1>5
  <2>2. ASSUME NEW s \in Valid PROVE ~(ts(s) < d)
    <3>0. s \in Slots /\ age(s) < 1 + age(m)
      BY <1>2, <2>1 DEF Valid
    <3>1. CASE age(s) < age(m)
      BY <1>2, <3>0, <3>1
    <3>2. CASE age(s) = age(m)
      <4>1. s = m
        BY <1>0, <3>0, <3>2, SameInterval
      <4> QED BY <1>5, <4>1 DEF precedes
    <3> QED BY <1>0, <1>1, <3>0, <3>1, <3>2
  <2>3. Older(d) = {}
    BY <2>2 DEF Older
  <2>4. NotFound
    BY <1>5 DEF naive
  <2> QED BY <1>0, <2>3, <2>4, NotFoundSees
<1> QED BY <1>3, <1>4, <1>5

\* Where position i of a binary search is.
LEMMA PlaceAge ==
  ASSUME NEW w \in Slots, NEW D \in 1 .. NbSamples, NEW i \in 0 .. D - 1
  PROVE  /\ place(w, D, i) \in Slots
         /\ interval_between(place(w, D, i), w) = D - 1 - i
<1>1. /\ D - 1 - i \in 0 .. NbSamples - 1 /\ D - 1 - i \in Int /\ w \in Int
  BY NbSamplesAssumption DEF Slots
<1>2. index_n_before(w, D - 1 - i) \in Slots
  BY <1>1, Circular
<1>3. interval_between(index_n_before(w, D - 1 - i), w) = D - 1 - i
  BY <1>1, Back
<1> QED BY <1>2, <1>3 DEF place

\* A turn of the binary search.
LEMMA BinaryStepSees ==
  ASSUME AtRest, Sees(c), binary
  PROVE  Sees(c')
<1> DEFINE w == c.t_index
           d == c.search.date
           D == c.depth
           mid == (c.imin + c.imax) \div 2
           age(s) == interval_between(s, c.t_index)
<1>0. /\ DOMAIN c = Fields /\ NbSamples \in Nat /\ c.pc = "binary"
      /\ w \in Slots /\ Resting(w, c.t_rank) /\ d \in Nat
      /\ c.imin \in Nat /\ c.imax \in Nat /\ c.imin < c.imax /\ c.imax < D
      /\ D \in 1 .. NbSamples
  <2>1. c.depth \in 0 .. NbSamples /\ c.imin \in 0 .. NbSamples - 1
          /\ c.imax \in 0 .. NbSamples - 1
    BY DEF AtRest, ConsumerInv, Consumer
  <2>2. c.pc = "binary" /\ c.imin < c.imax /\ c.imax < c.depth
    BY DEF AtRest, ConsumerInv, StepInv, binary
  <2>3. w \in Slots /\ Resting(w, c.t_rank) /\ ConsumerInv
    BY DEF AtRest
  <2>4. DOMAIN c = Fields /\ d \in Nat
    BY <2>3, SearchType DEF ConsumerInv, Consumer
  <2> HIDE DEF w, d
  <2> QED BY <2>1, <2>2, <2>3, <2>4, NbSamplesAssumption
<1>1. BinarySees(w, d, c) /\ c.hint = "BINARY"
  BY <1>0 DEF Sees
<1>2. mid \in Nat /\ c.imin <= mid /\ mid < c.imax /\ mid \in 0 .. D - 1
  BY <1>0
<1> HIDE DEF mid
<1>3. place(w, D, mid) \in Slots /\ age(place(w, D, mid)) = D - 1 - mid
  BY <1>0, <1>2, PlaceAge
<1>4. at(mid) = place(w, D, mid)
  BY DEF at, place
<1> DEFINE r == cmp(at(mid))
<1>5. r < 0 <=> ts(place(w, D, mid)) < d
  BY <1>4 DEF cmp
<1>6. place(w, D, mid) \in Valid
  BY <1>0, <1>1, <1>2, <1>3 DEF BinarySees, Extent
<1>7. c' = [c EXCEPT !.imid = mid, !.m_index = at(mid), !.res = r,
                     !.imin = IF r < 0 THEN mid + 1 ELSE @,
                     !.imax = IF r < 0 THEN @ ELSE mid]
  BY DEF binary, mid, upper_half
<1> HIDE DEF r
<1>8. /\ c'.pc = "binary" /\ c'.hint = c.hint /\ c'.t_index = w /\ c'.search = c.search /\ c'.depth = D
      /\ c'.imid = mid /\ c'.m_index = place(w, D, mid) /\ c'.res = r
      /\ c'.imin = (IF r < 0 THEN mid + 1 ELSE c.imin)
      /\ c'.imax = (IF r < 0 THEN c.imax ELSE mid)
  BY <1>0, <1>4, <1>7 DEF Fields
<1>9. ASSUME NEW s \in Valid, age(s) > D - 1 - c'.imin PROVE ts(s) < d
  <2>0. s \in Slots /\ age(s) \in Int
    BY <1>0, Intervals DEF Valid
  <2>1. CASE r < 0
    <3>1. age(place(w, D, mid)) <= age(s)
      BY <1>0, <1>2, <1>3, <1>8, <1>9, <2>0, <2>1
    <3>2. ts(s) <= ts(place(w, D, mid)) /\ ts(s) \in Nat /\ ts(place(w, D, mid)) \in Nat
      BY <1>0, <1>6, <3>1, RestingOrder
    <3> QED BY <1>0, <1>5, <2>1, <3>2
  <2>2. CASE ~(r < 0)
    BY <1>1, <1>8, <1>9, <2>2 DEF BinarySees
  <2> QED BY <2>1, <2>2
<1>10. c'.imax < D - 1 => ~(ts(place(w, D, c'.imax)) < d)
  BY <1>1, <1>5, <1>8 DEF BinarySees
<1>11. BinarySees(w, d, c')
  BY <1>0, <1>1, <1>5, <1>8, <1>9, <1>10 DEF BinarySees
<1> QED BY <1>1, <1>8, <1>11 DEF Sees, Answered

\* And its end: imin is the first that is not before the date, if there is one.
LEMMA BinaryEndSees ==
  ASSUME AtRest, Sees(c), binary_end
  PROVE  Sees(c')
<1> DEFINE w == c.t_index
           d == c.search.date
           D == c.depth
           m == place(c.t_index, c.depth, c.imin)
           age(s) == interval_between(s, c.t_index)
<1>0. /\ NbSamples \in Nat /\ c.pc = "binary"
      /\ w \in Slots /\ Resting(w, c.t_rank) /\ d \in Nat
      /\ c.imin \in Nat /\ c.imax = c.imin /\ c.imin < D
      /\ D \in 1 .. NbSamples /\ c.imin \in 0 .. D - 1
      /\ c.search.method \in {"CLOSEST", "FIRST_AFTER", "FIRST_BEFORE"}
  <2>1. c.depth \in 0 .. NbSamples /\ c.imin \in 0 .. NbSamples - 1
          /\ c.imax \in 0 .. NbSamples - 1
    BY DEF AtRest, ConsumerInv, Consumer
  <2>2. /\ c.pc = "binary" /\ c.imin <= c.imax /\ c.imin >= c.imax /\ c.imax < c.depth
        /\ c.search.method \in {"CLOSEST", "FIRST_AFTER", "FIRST_BEFORE"}
    BY DEF AtRest, ConsumerInv, StepInv, binary_end
  <2>3. w \in Slots /\ Resting(w, c.t_rank)
    BY DEF AtRest
  <2>4. d \in Nat
    BY SearchType DEF AtRest
  <2> QED BY <2>1, <2>2, <2>3, <2>4, NbSamplesAssumption
<1>1. BinarySees(w, d, c) /\ c.hint = "BINARY"
  BY <1>0 DEF Sees
<1>2. m \in Slots /\ age(m) = D - 1 - c.imin
  BY <1>0, PlaceAge
<1>3. m \in Valid
  BY <1>0, <1>1, <1>2 DEF BinarySees, Extent
<1>a. Blind(c.hint) <=> D = 1
  <2>1. Extent(w, D)
    BY <1>1 DEF BinarySees
  <2>2. Cardinality(Valid) = 1 <=> D = 1
    BY <1>0, <2>1, SingleSample
  <2> QED BY <1>1, <2>2 DEF Blind
<1>4. ASSUME D # 1
      PROVE  IF ts(m) < d THEN Found(m)
             ELSE IF c.imin > 0 THEN Found(index_n_before(m, 1)) ELSE NotFound
  <2>1. at(c.imin) = m
    BY DEF at, place
  <2>2. cmp(m) < 0 <=> ts(m) < d
    BY DEF cmp
  <2>3. CASE c.imin # c.imid
    BY <2>1, <2>2, <2>3 DEF binary_end
  <2>4. CASE c.imin = c.imid
    <3>1. ~(c.imin = 0 /\ c.imax = c.depth - 1)
      BY <1>0, <1>4
    <3>2. c.m_index = m /\ (c.res < 0 <=> ts(m) < d)
      BY <1>1, <2>4, <3>1 DEF BinarySees
    <3> QED BY <2>4, <3>2 DEF binary_end
  <2> QED BY <2>3, <2>4
<1>b. CASE D = 1
  <2>1. c.imin = 0 /\ c.imid = 0 /\ c.res = 0
    BY <1>0, <1>1, <1>b DEF BinarySees
  <2>2. NotFound
    BY <2>1 DEF binary_end
  <2> QED BY <1>0, <1>a, <1>b, <2>2, NotFoundSees
<1>5. CASE D # 1 /\ ts(m) < d
  <2>1. ~(c.imin < D - 1)
    BY <1>0, <1>1, <1>5 DEF BinarySees
  <2>2. age(m) = 0
    BY <1>0, <1>2, <2>1
  <2>3. m = w
    BY <1>0, <1>2, <2>2, LatestOf, SameInterval
  <2>4. Bracketed(w, d, m)
    BY <1>3, <1>5, <2>3 DEF Bracketed
  <2>5. Found(m)
    BY <1>4, <1>5
  <2> QED BY <1>5, <1>a, <2>4, <2>5, FoundSees
<1>6. CASE D # 1 /\ ~(ts(m) < d) /\ c.imin > 0
  <2> DEFINE b == index_n_before(m, 1)
  <2>1. age(m) < NbSamples - 1
    BY <1>0, <1>2, <1>6
  <2>2. b \in Slots /\ age(b) = age(m) + 1 /\ index_next(b) = m
    BY <1>0, <1>2, <2>1, OneOlder
  <2> HIDE DEF b
  <2>3. b \in Valid
    BY <1>0, <1>1, <1>2, <1>6, <2>2 DEF BinarySees, Extent
  <2>4. age(b) > D - 1 - c.imin
    BY <1>0, <1>2, <2>2
  <2>5. Bracketed(w, d, b)
    BY <1>1, <1>6, <2>2, <2>3, <2>4 DEF Bracketed, BinarySees
  <2>6. Found(b)
    BY <1>4, <1>6 DEF b
  <2> QED BY <1>6, <1>a, <2>5, <2>6, FoundSees
<1>7. CASE D # 1 /\ ~(ts(m) < d) /\ ~(c.imin > 0)
  <2>1. ASSUME NEW s \in Valid PROVE ~(ts(s) < d)
    <3>1. s \in Slots /\ age(s) \in Int /\ age(s) < D
      BY <1>0, <1>1, Intervals DEF BinarySees, Extent, Valid
    <3>2. age(s) <= age(m)
      BY <1>0, <1>2, <1>7, <3>1
    <3>3. ts(m) <= ts(s) /\ ts(m) \in Nat /\ ts(s) \in Nat
      BY <1>0, <1>3, <3>2, RestingOrder
    <3> QED BY <1>0, <1>7, <3>3
  <2>2. Older(d) = {}
    BY <2>1 DEF Older
  <2>3. NotFound
    BY <1>4, <1>7
  <2> QED BY <1>0, <2>2, <2>3, NotFoundSees
<1> QED BY <1>b, <1>5, <1>6, <1>7

\* The comparison of the two neighbours.
LEMMA ClosestSees ==
  ASSUME AtRest, Sees(c), closest_before \/ closest_after
  PROVE  Sees(c')
<1> DEFINE w == c.t_index
           d == c.search.date
           m == c.m_index
           a == index_next(c.m_index)
<1>0. /\ DOMAIN c = Fields /\ w \in Slots /\ Resting(w, c.t_rank) /\ d \in Nat
      /\ c.pc \in {"closest_before", "closest_after"}
  BY SearchType DEF AtRest, ConsumerInv, Consumer, closest_before, closest_after
<1>1. c.search.method = "CLOSEST" /\ m # w /\ Bracketed(w, d, m)
        /\ ~Blind(c.hint)
  BY <1>0 DEF Sees
<1>2. CASE closest_before
  <2>1. /\ c'.pc = "closest_after" /\ c'.ts_before = ts(m) /\ c'.m_index = m
        /\ c'.t_index = w /\ c'.search = c.search /\ c'.hint = c.hint
    BY <1>0, <1>2 DEF Fields, closest_before
  <2> QED BY <1>1, <2>1 DEF Sees, Answered
<1>3. CASE closest_after
  <2>1. c.ts_before = ts(m)
    BY <1>3 DEF Sees, closest_after
  <2> DEFINE ref == IF d - ts(m) < 0 \/ ts(a) - d < 0 \/ ts(a) - d < d - ts(m)
                    THEN a ELSE m
  <2>2. c' = [c EXCEPT !.pc = "search_end", !.ref_idx = ref]
    BY <1>3, <2>1 DEF closest_after
  <2>3. ref \in {s \in Valid : \A t \in Valid : distance(s, d) <= distance(t, d)}
    <3>1. m \in Valid /\ ts(m) < d /\ ~(ts(index_next(m)) < d)
      BY <1>1 DEF Bracketed
    <3> QED BY <1>0, <1>1, <3>1, ClosestOf
  <2> HIDE DEF ref
  <2>4. c'.pc = "search_end" /\ c'.ref_idx = ref /\ c'.search = c.search
          /\ c'.hint = c.hint
    BY <1>0, <2>2 DEF Fields
  <2>5. Right(c.search) = {s \in Valid : \A t \in Valid : distance(s, d) <= distance(t, d)}
    BY <1>1 DEF Right
  <2>6. Answerable(c.search, c.hint)
    BY <1>1 DEF Answerable, Bracketed, Older
  <2> QED BY <2>3, <2>4, <2>5, <2>6 DEF Sees, Answered
<1> QED BY <1>2, <1>3

\* What it knows is of the slots, which it does not write.
LEMMA SeesKept ==
  ASSUME Valid' = Valid, \A s \in Slots : samples'[s].metadata = samples[s].metadata,
         Consumer(c'), Sees(c')
  PROVE  Sees(c)'
<1>0. /\ {c'.t_index, c'.m_index} \subseteq Slots \cup {-1} /\ Valid \subseteq Slots
      /\ \A s \in Slots : index_next(s) \in Slots
      /\ place(c'.t_index, c'.depth, c'.imax) \in Slots
      /\ place(c'.t_index, c'.depth, c'.imid) \in Slots
  <2>1. /\ {c'.t_index, c'.m_index} \subseteq Slots \cup {-1}
        /\ {c'.depth, c'.imax, c'.imid} \subseteq Int
    BY NbSamplesAssumption DEF Consumer, Local
  <2>2. /\ c'.t_index \in Int
        /\ c'.depth - 1 - c'.imax \in Int /\ c'.depth - 1 - c'.imid \in Int
    BY <2>1, NbSamplesAssumption DEF Slots
  <2> QED BY <2>1, <2>2, Circular, IndexNext DEF place, Valid
<1>1. \A s \in Slots : ts(s)' = ts(s)
  BY DEF ts
<1>2. \A s \in Slots : \A d : distance(s, d)' = distance(s, d)
  BY <1>1 DEF distance
<1>3. \A d : Older(d)' = Older(d) /\ Older(d) \subseteq Valid
  BY <1>0, <1>1 DEF Older
<1>4. \A S \in SUBSET Slots :
        First(S)' = First(S) /\ Last_(S)' = Last_(S) /\ First(S) \subseteq S
  BY <1>1 DEF First, Last_
<1>5. \A s : Right(s)' = Right(s)
  <2> SUFFICES ASSUME NEW s PROVE Right(s)' = Right(s)
    OBVIOUS
  <2>1. Last_(Valid)' = Last_(Valid) /\ First(Valid)' = First(Valid)
          /\ First(Valid) \subseteq Slots
    BY <1>0, <1>4
  <2>2. First(Valid \ First(Valid))' = First(Valid \ First(Valid))
    BY <1>0, <1>4, <2>1
  <2>3. Last_(Older(s.date))' = Last_(Older(s.date))
    BY <1>0, <1>3, <1>4
  <2>4. First(Valid \ Older(s.date))' = First(Valid \ Older(s.date))
    BY <1>0, <1>3, <1>4
  <2>5. {t \in Valid : \A u \in Valid : distance(t, s.date) <= distance(u, s.date)}'
          = {t \in Valid : \A u \in Valid : distance(t, s.date) <= distance(u, s.date)}
    BY <1>0, <1>2
  <2> QED BY <2>1, <2>2, <2>3, <2>4, <2>5 DEF Right
<1>6. \A w, D : Extent(w, D)' = Extent(w, D)
  BY DEF Extent
<1>7. \A w, d, m, n : NaiveSees(w, d, m, n)' = NaiveSees(w, d, m, n)
  BY <1>1, <1>6 DEF NaiveSees
<1>8. \A w, d, m : Bracketed(w, d, m)' = Bracketed(w, d, m)
  BY <1>0, <1>1 DEF Bracketed
<1>9. \A s, h : Answerable(s, h)' = Answerable(s, h) /\ Blind(h)' = Blind(h)
  BY <1>3 DEF Answerable, Blind
<1>10. Answered(c)'
  BY <1>5, <1>9 DEF Sees, Answered
<1>11. ASSUME NEW r, NEW w, NEW d,
              place(w, r.depth, r.imax) \in Slots, place(w, r.depth, r.imid) \in Slots
       PROVE  BinarySees(w, d, r)' = BinarySees(w, d, r)
  <2>1. /\ ts(place(w, r.depth, r.imax))' = ts(place(w, r.depth, r.imax))
        /\ ts(place(w, r.depth, r.imid))' = ts(place(w, r.depth, r.imid))
    BY <1>1, <1>11
  <2>2. (\A s \in Valid : interval_between(s, w) > r.depth - 1 - r.imin => ts(s) < d)'
          = \A s \in Valid : interval_between(s, w) > r.depth - 1 - r.imin => ts(s) < d
    BY <1>0, <1>1
  <2>3. Extent(w, r.depth)' = Extent(w, r.depth)
    BY <1>6
  <2> QED BY <2>1, <2>2, <2>3 DEF BinarySees
<1>12. (c.pc = "binary" =>
          c.hint = "BINARY" /\ BinarySees(c.t_index, c.search.date, c))'
  BY <1>0, <1>11 DEF Sees
<1>13. ASSUME c'.pc \in {"closest_before", "closest_after"}
       PROVE  /\ c'.search.method = "CLOSEST" /\ c'.m_index # c'.t_index
              /\ (~Blind(c.hint))' /\ Bracketed(c.t_index, c.search.date, c.m_index)'
              /\ (c.pc = "closest_after" => c.ts_before = ts(c.m_index))'
  <2>1. /\ c'.search.method = "CLOSEST" /\ c'.m_index # c'.t_index
        /\ ~Blind(c'.hint) /\ Bracketed(c'.t_index, c'.search.date, c'.m_index)
        /\ c'.pc = "closest_after" => c'.ts_before = ts(c'.m_index)
    BY <1>13 DEF Sees
  <2>2. c'.m_index \in Slots
    BY <1>0, <2>1 DEF Bracketed
  <2> QED BY <1>1, <1>8, <1>9, <2>1, <2>2
<1>14. (c.pc = "max_depth" =>
          \A s \in Slots : interval_between(s, c.t_index) < c.depth => s \in Valid)'
  BY DEF Sees
<1>15. (c.pc = "naive" =>
          c.hint # "BINARY" /\ NaiveSees(c.t_index, c.search.date, c.m_index, c.depth))'
  BY <1>7 DEF Sees
<1> QED BY <1>10, <1>12, <1>13, <1>14, <1>15 DEF Sees

-----------------------------------------------------------------------------
(* A search that no write disturbs *)

\* No write began since the search did: none is going on, and the ring is as
\* when t_index was read.
LEMMA QuietRing ==
  ASSUME WriteInv, LastValid, RankInv, ConsumerInv, Since, Begun, Quiet, NbSamples > 1
  PROVE  /\ ~Underway /\ write_index = c.t_index /\ c.t_index \in Slots
         /\ Resting(c.t_index, c.t_rank) /\ \A p \in Producers : ~Writing(p)
<1>1. PICK t \in Slots : t = c.t_index
  BY DEF Since
<1>2. /\ write_index \in Slots /\ c.t_rank <= Committed /\ sessions = c.t_rank
      /\ Committed - c.t_rank < NbSamples =>
           interval_between(t, write_index) = Committed - c.t_rank
  BY <1>1 DEF Since, Quiet
<1>3. sessions \in Nat /\ TypeOK
  BY DEF WriteInv, TypeOK
<1>4. ~Underway /\ Committed = sessions
  BY <1>2, <1>3 DEF Committed
<1>5. interval_between(t, write_index) = 0
  BY <1>2, <1>3, <1>4, NbSamplesAssumption
<1>6. write_index = t
  BY <1>2, <1>5, NbSamplesAssumption DEF interval_between, Slots
<1>7. \A p \in Producers : ~Writing(p)
  BY <1>4 DEF Underway, Writing, Holds, Starts
<1>8. Resting(t, c.t_rank)
  <2>1. t \in Valid
    BY <1>6 DEF LastValid, WriteInv, Valid, TypeOK, Slots
  <2>2. ASSUME NEW s \in Valid
        PROVE  /\ ts(s) = 4 * (c.t_rank - interval_between(s, t)) /\ ts(s) \in Nat
               /\ \A u \in Slots : interval_between(u, t) <= interval_between(s, t) => u \in Valid
    <3>1. s \in Slots /\ Whole(s)
      BY <1>7 DEF Valid, Whole
    <3>2. /\ samples[s].metadata = Committed - interval_between(s, write_index)
          /\ \A u \in Slots :
               interval_between(u, write_index) <= interval_between(s, write_index)
                 => nb_writes[u] # -1
      BY <3>1 DEF RankInv
    <3>3. samples[s].metadata \in Nat
      BY <1>3, <3>1 DEF TypeOK, Contents
    <3>4. ts(s) = 4 * samples[s].metadata /\ 4 * samples[s].metadata \in Nat
      BY <3>3 DEF ts
    <3> QED BY <1>2, <1>4, <1>6, <3>2, <3>4 DEF Valid
  <2> QED BY <1>2, <1>3, <2>1, <2>2 DEF Resting
<1> QED BY <1>1, <1>4, <1>6, <1>7, <1>8

\* On a ring of one slot, which is the latest, the oldest and the next.
LEMMA OneSlot ==
  ASSUME WriteInv, LastValid, RankInv, ConsumerInv, Since, Begun, NbSamples = 1
  PROVE  /\ Slots = {0} /\ c.t_index = 0 /\ Valid = {0} /\ nb_writes[0] \in Nat
         /\ {c.t_rank, samples[0].metadata, sessions} \subseteq Nat
         /\ c.t_rank <= samples[0].metadata /\ samples[0].metadata <= sessions
<1>1. Slots = {0}
  BY DEF Slots
<1>2. c.t_index = 0 /\ write_index = 0 /\ c.t_rank <= samples[0].metadata
  <2>1. c.t_index \in Slots /\ write_index \in Slots
          /\ c.t_rank <= samples[c.t_index].metadata
    BY DEF Since
  <2> QED BY <1>1, <2>1
<1>3. nb_writes[0] \in Nat /\ Valid = {0}
  <2>1. nb_writes[0] \in Nat \cup {-1} /\ nb_writes[0] # -1
    BY <1>1, <1>2 DEF LastValid, WriteInv, TypeOK
  <2> QED BY <1>1, <2>1 DEF Valid
<1>4. {c.t_rank, samples[0].metadata, sessions} \subseteq Nat
  <2>1. c.t_rank \in Nat
    BY DEF ConsumerInv, Consumer
  <2>2. sessions \in Nat /\ samples[0] \in Contents
    BY <1>1 DEF WriteInv, TypeOK
  <2> QED BY <2>1, <2>2 DEF Contents
<1>5. samples[0].metadata <= sessions
  BY <1>1 DEF RankInv
<1> QED BY <1>1, <1>2, <1>3, <1>4, <1>5

\* On a ring of any size its valid slots are as when t_index was read.
LEMMA QuietRests ==
  ASSUME WriteInv, LastValid, RankInv, ConsumerInv, Since, Begun, Quiet
  PROVE  c.t_index \in Slots /\ Resting(c.t_index, c.t_rank)
<1>1. CASE NbSamples > 1
  BY <1>1, QuietRing
<1>2. CASE NbSamples = 1
  <2>1. /\ Slots = {0} /\ c.t_index = 0 /\ Valid = {0}
        /\ {c.t_rank, samples[0].metadata, sessions} \subseteq Nat
        /\ c.t_rank <= samples[0].metadata /\ samples[0].metadata <= sessions
    BY <1>2, OneSlot
  <2>2. samples[0].metadata = c.t_rank
    BY <2>1 DEF Quiet
  <2>3. interval_between(0, 0) = 0
    BY <1>2 DEF interval_between
  <2>4. ts(0) = 4 * (c.t_rank - interval_between(0, 0)) /\ ts(0) \in Nat
    BY <2>1, <2>2, <2>3 DEF ts
  <2>5. Resting(0, c.t_rank)
    BY <2>1, <2>4 DEF Resting
  <2> QED BY <2>1, <2>5
<1> QED BY <1>1, <1>2, NbSamplesAssumption

\* What no one would notice began no write before either, and changes no sample.
LEMMA QuietStep ==
  ASSUME NbSamples > 1, WriteInv, LastValid, RankInv, ConsumerInv, Since, Begun,
         sessions' = c.t_rank, [Next]_vars
  PROVE  Quiet /\ UNCHANGED <<nb_writes, samples>>
<1>0. TypeOK /\ c.t_rank \in Int
  BY DEF WriteInv, ConsumerInv, Consumer
<1>1. Quiet
  <2>1. sessions' \in {sessions, sessions + 1}
    BY DEF Next, Proceed, vars, ghosts, shared, ctx, local, start_write_session, GrantSession,
       RefuseSession, get_next_write_index, invalidate, take_index, write_metadata,
       write_quantity, commit, release, out_of_sequence, ClientsDone
  <2>2. c.t_rank <= Committed
    BY DEF Since
  <2>3. Committed <= sessions /\ sessions \in Int
    BY <1>0 DEF Committed, TypeOK
  <2>4. Committed \in Int
    BY <1>0 DEF Committed, TypeOK
  <2> QED BY <1>0, <2>1, <2>2, <2>3, <2>4 DEF Quiet
<1>2. ~Underway
  BY <1>1, QuietRing
<1>3. \A p \in Producers : ~Starts(p) /\ (index[p] = -1 \/ pc[p] = "release")
  BY <1>2 DEF Underway, Holds, Starts
<1>4. ASSUME NEW p \in Producers, start_write_session(p) \/ Proceed(p) \/ out_of_sequence(p)
      PROVE  UNCHANGED <<nb_writes, samples>>
  <2>1. CASE start_write_session(p) \/ release(p) \/ out_of_sequence(p)
    BY <2>1 DEF start_write_session, release, out_of_sequence, shared
  <2>2. ~(get_next_write_index(p) \/ invalidate(p) \/ take_index(p))
    BY <1>3 DEF get_next_write_index, invalidate, take_index, Starts
  <2>3. CASE write_metadata(p)
    <3>1. pc[p] = "write_metadata" /\ index[p] # -1
      BY <2>3 DEF write_metadata, WriteInv, OneSlotPerWrite, Passed
    <3> QED BY <1>3, <3>1
  <2>4. CASE write_quantity(p)
    BY <1>3, <2>4 DEF write_quantity, Reaches
  <2>5. CASE commit(p)
    BY <2>5 DEF commit
  <2> QED BY <1>4, <2>1, <2>2, <2>3, <2>4, <2>5 DEF Proceed
<1>5. UNCHANGED <<nb_writes, samples>>
  BY <1>4 DEF Next, ClientsDone, vars, shared
<1> QED BY <1>1, <1>5

\* On a ring of any size it changes neither the valid slots nor their dates.
LEMMA QuietDates ==
  ASSUME Api \subseteq {"shd_write_new_blob"}, WriteInv, LastValid, RankInv, ConsumerInv,
         Since, Begun, sessions' = c.t_rank, [Next]_vars
  PROVE  /\ Quiet /\ Valid' = Valid
         /\ \A s \in Slots : samples'[s].metadata = samples[s].metadata
<1>1. CASE NbSamples > 1
  <2>1. Quiet /\ UNCHANGED <<nb_writes, samples>>
    BY <1>1, QuietStep
  <2> QED BY <2>1 DEF Valid
<1>2. CASE NbSamples = 1
  <2>1. /\ Slots = {0} /\ Valid = {0} /\ nb_writes[0] \in Nat
        /\ {c.t_rank, samples[0].metadata, sessions} \subseteq Nat
        /\ c.t_rank <= samples[0].metadata /\ samples[0].metadata <= sessions
    BY <1>2, OneSlot
  <2>2. TypeOK' /\ RankInv' /\ sessions \in {sessions', sessions' - 1}
    <3>1. sessions' \in {sessions, sessions + 1}
      BY DEF Next, Proceed, vars, ghosts, shared, ctx, local, start_write_session,
         GrantSession, RefuseSession, get_next_write_index, invalidate, take_index,
         write_metadata, write_quantity, commit, release, out_of_sequence, ClientsDone
    <3> QED BY <2>1, <3>1, NextRank, NextTypeOK DEF WriteInv
  <2>3. /\ samples[0].metadata <= samples'[0].metadata
        /\ samples'[0].metadata <= sessions' /\ samples'[0].metadata \in Nat
    BY <2>1, <2>2, Rising DEF RankInv, TypeOK, Contents
  <2>4. sessions = c.t_rank /\ samples'[0].metadata = samples[0].metadata
    BY <2>1, <2>2, <2>3
  <2>5. nb_writes[0] <= nb_writes'[0] /\ nb_writes'[0] \in Nat \cup {-1}
    BY <2>1, <2>2, Growing DEF TypeOK
  <2>6. nb_writes'[0] # -1
    BY <2>1, <2>5
  <2> QED BY <2>1, <2>4, <2>6 DEF Quiet, Valid
<1> QED BY <1>1, <1>2, NbSamplesAssumption

\* What an undisturbed search has seen is the case.
Sighted == Begun /\ Quiet => Sees(c)

\* A step of the producers that no one would notice leaves it so.
LEMMA QuietProducers ==
  ASSUME Api \subseteq {"shd_write_new_blob"}, WriteInv, LastValid, RankInv, ConsumerInv,
         Since, Sighted, [Next]_vars, UNCHANGED c
  PROVE  Sighted'
<1> SUFFICES ASSUME Begun, sessions' = c.t_rank PROVE Sees(c)'
  BY DEF Sighted, Begun, Quiet
<1>1. /\ Quiet /\ Valid' = Valid
      /\ \A s \in Slots : samples'[s].metadata = samples[s].metadata
  BY QuietDates
<1>2. Sees(c)
  BY <1>1 DEF Sighted
<1>3. Sees(c') /\ Consumer(c')
  BY <1>2 DEF ConsumerInv
<1> QED BY <1>1, <1>3, SeesKept

\* Outside the search proper there is nothing to know.
LEMMA NothingToSee ==
  ASSUME ConsumerInv,
         \/ call_find \/ find \/ search_start \/ search_end_index \/ search_end_writes
         \/ start_read_session \/ read_sample \/ end_read
  PROVE  Sees(c')
<1>0. DOMAIN c = Fields
  BY DEF ConsumerInv, Consumer
<1>1. \/ c'.pc \in {"find", "search_start", "search_top", "search_end_writes",
                    "start_read", "read"}
      \/ c'.pc = "done" /\ c'.ret # "ENOENT"
  <2>1. CASE call_find
    BY <2>1, StartType DEF call_find
  <2>2. CASE find \/ search_start \/ search_end_index
    BY <1>0, <2>2 DEF find, search_start, search_end_index, Fail, Fields
  <2>3. CASE search_end_writes
    <3>1. \/ c' = [c EXCEPT !.pc = "done", !.ret = "EFAULT"]
          \/ \E w : c' = [c EXCEPT !.pc = "start_read", !.window = w]
      BY <2>3 DEF search_end_writes, Fail
    <3> QED BY <1>0, <3>1 DEF Fields
  <2>4. CASE start_read_session
    <3>1. \E n, t, i, w : c' = [c EXCEPT !.pc = "read", !.nb_writes = n, !.todo = t,
                                        !.intact = i, !.words = w]
      BY <2>4 DEF start_read_session
    <3> QED BY <1>0, <3>1 DEF Fields
  <2>5. CASE read_sample
    <3>1. c.pc = "read" /\ \E t, g : c' = [c EXCEPT !.todo = t, !.got = g]
      BY <2>5 DEF read_sample
    <3> QED BY <1>0, <3>1 DEF Fields
  <2>6. CASE end_read
    <3>1. \E r \in {"OK", "EFAULT"} : c' = [c EXCEPT !.pc = "done", !.ret = r]
      BY <2>6 DEF end_read, Fail
    <3> QED BY <1>0, <3>1 DEF Fields
  <2> QED BY <2>1, <2>2, <2>3, <2>4, <2>5, <2>6
<1> QED BY <1>1 DEF Sees, Answered

\* Every step of an undisturbed search sees what it looks at.
LEMMA QuietJob ==
  ASSUME WriteInv, LastValid, LapOrder, RankInv, ConsumerInv, Framed, Since, Sighted,
         UNCHANGED vars, call_find \/ Read
  PROVE  Sighted'
<1>0. UNCHANGED <<nb_writes, samples, sessions>> /\ TypeOK
  BY DEF vars, shared, ghosts, WriteInv
<1>a. Consumer(c')
  BY ReadStepInv DEF ReadNext, ConsumerInv
<1>b. /\ Valid' = Valid
      /\ \A s \in Slots : samples'[s].metadata = samples[s].metadata
  BY <1>0 DEF Valid
<1>1. CASE \/ call_find \/ find \/ search_start \/ search_end_index \/ search_end_writes
           \/ start_read_session \/ read_sample \/ end_read
  <2>1. Sees(c')
    BY <1>1, NothingToSee
  <2>2. Sees(c)'
    BY <1>a, <1>b, <2>1, SeesKept
  <2> QED BY <2>2 DEF Sighted
<1>2. CASE \/ search_top \/ max_depth \/ naive \/ binary \/ binary_end
           \/ closest_before \/ closest_after
  <2> SUFFICES ASSUME Quiet' PROVE Sees(c')
    BY <1>a, <1>b, SeesKept DEF Sighted
  <2>1. c.pc \in {"search_top", "max_depth", "naive", "binary", "closest_before",
                  "closest_after"}
    BY <1>2 DEF search_top, max_depth, naive, binary, binary_end, closest_before,
       closest_after
  <2>2. c'.t_rank = c.t_rank
    BY <1>2, <2>1, JobKept DEF Read
  <2>3. Begun /\ Quiet
    BY <1>0, <2>1, <2>2 DEF Begun, Quiet
  <2>4. Sees(c)
    BY <2>3 DEF Sighted
  <2>5. AtRest
    BY <2>3, QuietRests DEF AtRest
  <2>6. NbSamples > 1 => write_index = c.t_index /\ \A p \in Producers : ~Writing(p)
    BY <2>3, QuietRing
  <2> QED BY <1>0, <1>2, <2>4, <2>5, <2>6, TopSees, DepthSees, NaiveStepSees,
             BinaryStepSees, BinaryEndSees, ClosestSees
<1> QED BY <1>1, <1>2 DEF Read

\* What any undisturbed search answers, on a ring of any size, one slot
\* included, however many samples it holds, for any date and with either hint:
\* the sample its method defines, or -ENOENT as there is none; and when the
\* search cannot tell (a binary search of a single sample, or SHD_FIRST_AFTER
\* and SHD_CLOSEST of a date before all samples of a ring that is not full),
\* the -ENOENT or the slot after the latest that FallsBack says.  The clients
\* write whole blobs.
THEOREM QuietSearchFinds ==
  ASSUME Api \subseteq {"shd_write_new_blob"}
  PROVE  ReadSpec => []QuietSearchIsRight
<1>1. ReadInit => Sighted
  <2> SUFFICES ASSUME ReadInit PROVE Sighted
    OBVIOUS
  <2> DEFINE job == Start("shd_select_samples", AnySearch, "NAIVE")
  <2>1. Consumer(job) /\ job.ret = "none"
    BY StartType DEF Start
  <2> HIDE DEF job
  <2>2. c = [job EXCEPT !.pc = "done"]
    BY DEF ReadInit, job
  <2>3. c.pc = "done" /\ c.ret = "none"
    BY <2>1, <2>2 DEF Consumer, Fields
  <2> QED BY <2>3 DEF Sighted, Begun
<1>2. ASSUME WriteInv, LastValid, LapOrder, RankInv, ConsumerInv, Framed, Since, Sighted,
             [ReadNext]_<<vars, c>>
      PROVE  Sighted'
  <2>1. CASE UNCHANGED c /\ [Next]_vars
    BY <1>2, <2>1, QuietProducers
  <2>2. CASE (call_find \/ Read) /\ UNCHANGED vars
    BY <1>2, <2>2, QuietJob
  <2> QED BY <1>2, <2>1, <2>2 DEF ReadNext
<1>3. WriteInv /\ LastValid /\ LapOrder /\ RankInv /\ (ConsumerInv /\ Framed) /\ Elapsed
        /\ Sighted /\ [ReadNext]_<<vars, c>> => Sighted'
  BY <1>2 DEF Elapsed
<1>4. ConsumerInv /\ Elapsed /\ Sighted => QuietSearchIsRight
  <2> SUFFICES ASSUME Elapsed, Sighted, Quiet
               PROVE  IF Answerable(c.search, c.hint) THEN SearchedRight ELSE FallsBack
    BY DEF QuietSearchIsRight
  <2>1. CASE c.pc = "search_end" \/ (c.pc = "done" /\ c.ret = "ENOENT")
    <3>1. Begun
      BY <2>1 DEF Begun
    <3> QED BY <3>1 DEF Sighted, SearchedRight, FallsBack, Sees, Answered
  <2>2. CASE ~(c.pc = "search_end" \/ (c.pc = "done" /\ c.ret = "ENOENT"))
    BY <2>2 DEF SearchedRight, FallsBack
  <2> QED BY <2>1, <2>2
<1> QED BY <1>1, <1>3, <1>4, ProducersRun, WriteInvHolds, LastValidHolds, LapsInOrder,
           RankHolds, ElapsedHolds, ConsumerHolds, PTL DEF ReadSpec

-----------------------------------------------------------------------------
(* What -EFAULT means, and how long a window lasts *)

\* A job that no write disturbs meets again the index and the counter it noted.
Unmoved ==
  /\ c.pc = "search_end_writes" /\ Quiet => c.t_index_new = c.t_index
  /\ c.pc = "read" /\ Quiet => nb_writes[c.window.start] = c.nb_writes
  /\ NoFalseAlarm

\* The producers leave an undisturbed job so.
LEMMA UnmovedProducers ==
  ASSUME NbSamples > 1, WriteInv, LastValid, RankInv, ConsumerInv, Since, Unmoved,
         [Next]_vars, UNCHANGED c
  PROVE  Unmoved'
<1>0. TypeOK /\ TypeOK' /\ c.t_rank \in Int
  BY NextTypeOK DEF WriteInv, ConsumerInv, Consumer
<1>1. ASSUME c.pc \in {"search_end_writes", "read"}, Quiet'
      PROVE  Quiet /\ UNCHANGED nb_writes
  BY <1>1, QuietStep DEF Begun, Quiet
<1>2. NoFalseAlarm'
  <2>1. sessions \in Int /\ sessions' \in Int /\ sessions <= sessions'
    <3>1. sessions' \in {sessions, sessions + 1} /\ sessions \in Int
      BY <1>0 DEF TypeOK, Next, Proceed, vars, ghosts, shared, ctx, local,
         start_write_session, GrantSession, RefuseSession, get_next_write_index, invalidate,
         take_index, write_metadata, write_quantity, commit, release, out_of_sequence,
         ClientsDone
    <3> QED BY <3>1
  <2> QED BY <1>0, <2>1 DEF Unmoved, NoFalseAlarm
<1> QED BY <1>1, <1>2 DEF Unmoved

\* Before its end, a search neither reads nor answers -EFAULT.
LEMMA BeforeTheEnd ==
  ASSUME ConsumerInv,
         \/ call_find \/ find \/ search_start \/ search_top \/ max_depth
         \/ naive \/ binary \/ binary_end \/ closest_before \/ closest_after
  PROVE  /\ c'.pc # "search_end_writes" /\ c'.pc # "read"
         /\ c'.pc = "done" => c'.ret # "EFAULT"
<1>0. DOMAIN c = Fields
  BY DEF ConsumerInv, Consumer
<1>1. CASE call_find
  <2>1. PICK f \in ReadApi, s \in Searches, hint \in Hints : c' = Start(f, s, hint)
    BY <1>1 DEF call_find
  <2> QED BY <2>1, StartType
<1>2. CASE find \/ search_start
  BY <1>0, <1>2 DEF find, search_start, Fail, Fields
<1>3. ASSUME NEW d, NEW from, from = SearchFrom(d)
      PROVE  from.pc \in {"search_end", "binary", "naive"} /\ DOMAIN from = Fields
  BY <1>0, <1>3 DEF SearchFrom, Fields
<1>4. CASE search_top
  <2>1. PICK next : /\ c' = [next EXCEPT !.nb_writes_top = nb_writes[c.t_index]]
                    /\ \/ next = [c EXCEPT !.pc = "search_end", !.ref_idx = c.t_index]
                       \/ next = SearchFrom(NbSamples)
                       \/ next = [c EXCEPT !.pc = "max_depth"]
    BY <1>4 DEF search_top
  <2>2. next.pc \in {"search_end", "binary", "naive", "max_depth"} /\ DOMAIN next = Fields
    <3>1. CASE next = SearchFrom(NbSamples)
      BY <1>3, <3>1
    <3>2. CASE next # SearchFrom(NbSamples)
      BY <1>0, <2>1, <3>2 DEF Fields
    <3> QED BY <3>1, <3>2
  <2> QED BY <2>1, <2>2 DEF Fields
<1>5. CASE max_depth
  <2>1. PICK d : c' = [c EXCEPT !.depth = d] \/ c' = SearchFrom(d)
    BY <1>5 DEF max_depth
  <2>2. c.pc = "max_depth"
    BY <1>5 DEF max_depth
  <2>3. CASE c' = [c EXCEPT !.depth = d]
    BY <1>0, <2>2, <2>3 DEF Fields
  <2>4. CASE c' = SearchFrom(d)
    BY <1>3, <2>4
  <2> QED BY <2>1, <2>3, <2>4
<1>6. CASE naive \/ binary_end
  <2>1. \/ \E m : Found(m)
        \/ NotFound
        \/ c.pc = "naive" /\ \E i, d : c' = [c EXCEPT !.m_index = i, !.depth = d]
    <3>1. CASE naive
      <4>1. \/ Found(c.m_index) \/ NotFound
            \/ c' = [c EXCEPT !.m_index = index_n_before(@, 1), !.depth = @ - 1]
        BY <3>1 DEF naive
      <4>2. c.pc = "naive"
        BY <3>1 DEF naive
      <4> QED BY <4>1, <4>2
    <3>2. CASE binary_end
      BY <3>2 DEF binary_end
    <3> QED BY <1>6, <3>1, <3>2
  <2>2. ASSUME NEW m, Found(m)
        PROVE  \/ c'.pc \in {"search_end", "closest_before"}
               \/ c'.pc = "done" /\ c'.ret = "ENOENT"
    BY <1>0, <2>2 DEF Found, Fail, Fields
  <2>3. CASE NotFound
    BY <1>0, <2>3 DEF NotFound, Fail, Fields
  <2>4. CASE c.pc = "naive" /\ \E i, d : c' = [c EXCEPT !.m_index = i, !.depth = d]
    BY <1>0, <2>4 DEF Fields
  <2> QED BY <2>1, <2>2, <2>3, <2>4
<1>7. CASE binary
  <2>1. /\ c.pc = "binary"
        /\ \E i, m, r, a, b : c' = [c EXCEPT !.imid = i, !.m_index = m, !.res = r,
                                            !.imin = a, !.imax = b]
    BY <1>7 DEF binary
  <2> QED BY <1>0, <2>1 DEF Fields
<1>8. CASE closest_before \/ closest_after
  BY <1>0, <1>8 DEF closest_before, closest_after, Fields
<1> QED BY <1>1, <1>2, <1>4, <1>5, <1>6, <1>7, <1>8

\* Every step of an undisturbed job answers anything but -EFAULT.
LEMMA UnmovedJob ==
  ASSUME NbSamples > 1, WriteInv, LastValid, RankInv, ConsumerInv, Since, Unmoved,
         UNCHANGED vars, call_find \/ Read
  PROVE  Unmoved'
<1>0. /\ DOMAIN c = Fields /\ UNCHANGED <<nb_writes, sessions>> /\ TypeOK
      /\ c.t_rank \in Int /\ sessions \in Int
  <2>1. TypeOK /\ UNCHANGED <<nb_writes, sessions>>
    BY DEF WriteInv, vars, shared, ghosts
  <2>2. DOMAIN c = Fields /\ c.t_rank \in Int
    BY DEF ConsumerInv, Consumer
  <2> QED BY <2>1, <2>2 DEF TypeOK
<1>1. ASSUME Begun PROVE c.t_rank <= sessions
  <2>1. c.t_rank <= Committed
    BY <1>1 DEF Since
  <2>2. Committed \in Int /\ Committed <= sessions
    BY <1>0 DEF Committed
  <2> QED BY <1>0, <2>1, <2>2
<1>2. CASE call_find \/ find \/ search_start \/ search_top \/ max_depth \/ naive \/ binary
           \/ binary_end \/ closest_before \/ closest_after
  <2>1. /\ c'.pc # "search_end_writes" /\ c'.pc # "read"
        /\ c'.pc = "done" => c'.ret # "EFAULT"
    BY <1>2, BeforeTheEnd
  <2> QED BY <2>1 DEF Unmoved, NoFalseAlarm
<1>3. CASE search_end_index
  <2>1. /\ c.pc = "search_end"
        /\ c' = [c EXCEPT !.pc = "search_end_writes", !.t_index_new = write_index,
                          !.w_rank = samples[write_index].metadata]
    BY <1>3 DEF search_end_index
  <2>2. /\ c'.pc = "search_end_writes" /\ c'.t_index_new = write_index
        /\ c'.t_index = c.t_index /\ c'.t_rank = c.t_rank
    BY <1>0, <2>1 DEF Fields
  <2>3. Quiet => write_index = c.t_index
    BY <2>1, QuietRing DEF Begun
  <2> QED BY <1>0, <2>2, <2>3 DEF Unmoved, NoFalseAlarm, Quiet
<1>4. CASE search_end_writes
  <2>1. /\ c.pc = "search_end_writes" /\ Begun
        /\ \/ /\ overwritten(nb_writes[w_start_idx])
              /\ c' = [c EXCEPT !.pc = "done", !.ret = "EFAULT"]
           \/ \E w : c' = [c EXCEPT !.pc = "start_read", !.window = w]
    BY <1>4 DEF search_end_writes, Fail, Begun
  <2>2. CASE \E w : c' = [c EXCEPT !.pc = "start_read", !.window = w]
    <3>1. c'.pc = "start_read"
      BY <1>0, <2>2 DEF Fields
    <3> QED BY <3>1 DEF Unmoved, NoFalseAlarm
  <2>3. CASE /\ overwritten(nb_writes[w_start_idx])
             /\ c' = [c EXCEPT !.pc = "done", !.ret = "EFAULT"]
    <3>1. c'.pc = "done" /\ c'.t_rank = c.t_rank
      BY <1>0, <2>3 DEF Fields
    <3>2. PICK t \in Slots : t = c.t_index
      BY <2>1 DEF Since
    <3>3. ~(interval_between(t, t) > 0)
      BY NbSamplesAssumption DEF interval_between, Slots
    <3>4. c.t_index_new # c.t_index
      BY <2>3, <3>2, <3>3 DEF overwritten
    <3>5. sessions # c.t_rank
      BY <2>1, <3>4 DEF Unmoved, Quiet
    <3>6. c.t_rank < sessions
      <4>1. c.t_rank <= sessions
        BY <1>1, <2>1
      <4> QED BY <1>0, <3>5, <4>1
    <3> QED BY <1>0, <3>1, <3>6 DEF Unmoved, NoFalseAlarm
  <2> QED BY <2>1, <2>2, <2>3
<1>5. CASE start_read_session
  <2>1. \E t, i, w : c' = [c EXCEPT !.pc = "read", !.nb_writes = nb_writes[c.window.start],
                                    !.todo = t, !.intact = i, !.words = w]
    BY <1>5 DEF start_read_session, wstart
  <2>2. c'.pc = "read" /\ c'.nb_writes = nb_writes[c.window.start] /\ c'.window = c.window
    BY <1>0, <2>1 DEF Fields
  <2> QED BY <1>0, <2>2 DEF Unmoved, NoFalseAlarm
<1>6. CASE read_sample
  <2>1. c.pc = "read" /\ \E t, g : c' = [c EXCEPT !.todo = t, !.got = g]
    BY <1>6 DEF read_sample
  <2>2. /\ c'.pc = "read" /\ c'.nb_writes = c.nb_writes /\ c'.window = c.window
        /\ c'.t_rank = c.t_rank
    BY <1>0, <2>1 DEF Fields
  <2> QED BY <1>0, <2>1, <2>2 DEF Unmoved, NoFalseAlarm, Quiet
<1>7. CASE end_read
  <2>1. PICK e : /\ e = (IF nb_writes[c.window.start] = c.nb_writes THEN "OK" ELSE "EFAULT")
                 /\ c.pc = "read" /\ c' = [c EXCEPT !.pc = "done", !.ret = e]
    BY <1>7 DEF end_read, Fail, wstart
  <2>2. c'.pc = "done" /\ c'.ret = e /\ c'.t_rank = c.t_rank
    BY <1>0, <2>1 DEF Fields
  <2>3. e = "EFAULT" => c.t_rank < sessions
    BY <1>0, <1>1, <2>1 DEF Unmoved, Quiet, Begun
  <2> QED BY <1>0, <2>2, <2>3 DEF Unmoved, NoFalseAlarm
<1> QED BY <1>2, <1>3, <1>4, <1>5, <1>6, <1>7 DEF Read

\* No job is told -EFAULT without cause: a write was going on when its search
\* began, or began since, for every method and request.
THEOREM NoJobIsToldFalsely ==
  ASSUME NbSamples > 1, Api \subseteq {"shd_write_new_blob"}
  PROVE  ReadSpec => []NoFalseAlarm
<1>1. ReadInit => Unmoved
  <2> SUFFICES ASSUME ReadInit PROVE Unmoved
    OBVIOUS
  <2> DEFINE job == Start("shd_select_samples", AnySearch, "NAIVE")
  <2>1. Consumer(job) /\ job.ret = "none"
    BY StartType DEF Start
  <2> HIDE DEF job
  <2>2. c = [job EXCEPT !.pc = "done"]
    BY DEF ReadInit, job
  <2>3. c.pc = "done" /\ c.ret = "none"
    BY <2>1, <2>2 DEF Consumer, Fields
  <2> QED BY <2>3 DEF Unmoved, NoFalseAlarm
<1>2. WriteInv /\ LastValid /\ RankInv /\ (ConsumerInv /\ Framed) /\ Elapsed /\ Unmoved
        /\ [ReadNext]_<<vars, c>> => Unmoved'
  BY UnmovedProducers, UnmovedJob DEF ReadNext, Elapsed
<1>3. Unmoved => NoFalseAlarm
  BY DEF Unmoved
<1> QED BY <1>1, <1>2, <1>3, ProducersRun, WriteInvHolds, LastValidHolds, RankHolds,
           ElapsedHolds, ConsumerHolds, PTL DEF ReadSpec

\* The distance of a window to the slot that is written next is its margin
\* less the commits since, and what is left holds the whole window.
THEOREM MarginIsTime ==
  ASSUME NbSamples > 1, Api \subseteq {"shd_write_new_blob"}
  PROVE  ReadSpec => []WindowLasts
<1>1. ASSUME WriteInv, ConsumerInv, Framed, Since PROVE WindowLasts
  <2> SUFFICES ASSUME c.pc = "start_read",
                      sessions - c.t_rank
                        <= interval_between(index_next(c.t_index), c.window.start),
                      nb_writes[c.window.start] # -1
               PROVE  Intact(c.window)
    BY DEF WindowLasts
  <2>1. PICK t \in Slots, s \in Slots, w \in Slots :
               t = c.t_index /\ s = c.window.start /\ w = write_index
    BY <1>1 DEF Framed, InWindow, Since, Begun
  <2>2. PICK n : n = c.window.nb_matches
    OBVIOUS
  <2>3. /\ c.t_rank \in Int /\ sessions \in Int /\ Committed \in Int
        /\ Committed \in {sessions, sessions - 1} /\ NbSamples \in Nat
        /\ n \in Int
    BY <1>1, <2>2, NbSamplesAssumption
    DEF WriteInv, TypeOK, Committed, ConsumerInv, Consumer, Window
  <2>4. /\ c.t_rank <= Committed
        /\ Committed - c.t_rank < NbSamples => interval_between(t, w) = Committed - c.t_rank
    BY <1>1, <2>1 DEF Since, Begun
  <2>5. interval_between(s, t) + 1 >= n
    BY <1>1, <2>1, <2>2 DEF Framed, WindowAroundReference
  <2>6. /\ interval_between(index_next(t), s) \in 0 .. NbSamples - 1
        /\ interval_between(index_next(t), s) + interval_between(s, t) = NbSamples - 1
    BY <2>1, Intervals
  <2>7. sessions - c.t_rank <= interval_between(index_next(t), s)
    BY <2>1
  <2>8. /\ interval_between(t, w) = Committed - c.t_rank
        /\ interval_between(t, w) <= interval_between(index_next(t), s)
    BY <2>3, <2>4, <2>6, <2>7
  <2>9. interval_between(index_next(w), s)
          = interval_between(index_next(t), s) - interval_between(t, w)
    BY <2>1, <2>8, IndexNext, NbSamplesAssumption DEF interval_between, Slots
  <2>10. interval_between(index_next(w), s) + n <= NbSamples
    <3>1. ASSUME NEW older \in Int, NEW more \in Int, NEW commits \in Int,
                 older + more = NbSamples - 1, n <= more + 1, commits >= 0
          PROVE  older - commits + n <= NbSamples
      BY <2>3, <3>1
    <3>2. /\ interval_between(t, w) \in Int /\ interval_between(t, w) >= 0
          /\ interval_between(index_next(t), s) \in Int /\ interval_between(s, t) \in Int
      BY <2>1, <2>6, Intervals
    <3> QED BY <2>5, <2>6, <2>9, <3>1, <3>2
  <2>11. ASSUME interval_between(index_next(w), s) = 0 PROVE \A p \in Producers : ~Writing(p)
    <3>1. Committed = sessions
      BY <2>3, <2>6, <2>7, <2>8, <2>9, <2>11
    <3>2. ~Underway
      BY <2>3, <3>1 DEF Committed
    <3> QED BY <3>2 DEF Underway, Writing, Holds, Starts
  <2> QED BY <2>1, <2>2, <2>10, <2>11 DEF Intact
<1>2. WriteInv /\ (ConsumerInv /\ Framed) /\ Elapsed => WindowLasts
  BY <1>1 DEF Elapsed
<1> QED BY <1>2, ProducersRun, WriteInvHolds, ElapsedHolds, ConsumerHolds, PTL DEF ReadSpec

-----------------------------------------------------------------------------
(* The accesses a job can make *)

\* A bound on the accesses to the section that job r still has to make, from
\* 4 * NbSamples + 11 when it begins: a lap to find the depth, a lap to search,
\* and two words of every slot to read.
Left(r) ==
  CASE r.pc = "find"              -> 4 * NbSamples + 11
    [] r.pc = "search_start"      -> 4 * NbSamples + 10
    [] r.pc = "search_top"        -> 4 * NbSamples + 9
    [] r.pc = "max_depth"         -> 4 * NbSamples + 8 - r.depth
    [] r.pc = "binary"            -> 2 * NbSamples + 8 + r.imax - r.imin
    [] r.pc = "naive"             -> 2 * NbSamples + 7 + r.depth
    [] r.pc = "closest_before"    -> 2 * NbSamples + 6
    [] r.pc = "closest_after"     -> 2 * NbSamples + 5
    [] r.pc = "search_end"        -> 2 * NbSamples + 4
    [] r.pc = "search_end_writes" -> 2 * NbSamples + 3
    [] r.pc = "start_read"        -> 2 * NbSamples + 2
    [] r.pc = "read"              -> Len(r.todo) + 1
    [] r.pc = "done"              -> 0

\* It is a number.
LEMMA LeftType == ConsumerInv => Left(c) \in Nat
<1> SUFFICES ASSUME ConsumerInv PROVE Left(c) \in Nat
  OBVIOUS
<1>1. /\ c.pc \in ReadSteps /\ c.depth \in 0 .. NbSamples /\ NbSamples \in Nat
      /\ c.imin \in Nat /\ c.imax \in Nat /\ Len(c.todo) \in Nat
      /\ c.pc = "binary" => c.imin <= c.imax
  BY NbSamplesAssumption DEF ConsumerInv, Consumer, StepInv
<1>2. CASE c.pc = "max_depth"
  BY <1>1, <1>2 DEF Left
<1>3. CASE c.pc = "binary"
  <2>1. Left(c) = 2 * NbSamples + 8 + c.imax - c.imin
    BY <1>3 DEF Left
  <2> QED BY <1>1, <1>3, <2>1
<1>4. CASE c.pc \in {"naive", "read"}
  BY <1>1, <1>4 DEF Left
<1>5. CASE c.pc \in {"find", "search_start", "search_top"}
  BY <1>1, <1>5 DEF Left
<1>7. CASE c.pc \in {"closest_before", "closest_after"}
  BY <1>1, <1>7 DEF Left
<1>6. CASE c.pc \in {"search_end", "search_end_writes", "start_read", "done"}
  BY <1>1, <1>6 DEF Left
<1> QED BY <1>1, <1>2, <1>3, <1>4, <1>5, <1>6, <1>7 DEF ReadSteps

\* The search proper has at most a lap to go.
LEMMA LeftFrom ==
  ASSUME ConsumerInv, NEW D \in 0 .. NbSamples, c.imin = 0, NEW from, from = SearchFrom(D)
  PROVE  /\ DOMAIN from = Fields /\ from.pc \in {"search_end", "binary", "naive"}
         /\ from.pc = "binary" => from.imax - from.imin <= NbSamples - 1
         /\ from.pc = "naive" => from.depth <= NbSamples
         /\ from.depth \in Int /\ from.imax \in Int /\ from.imin \in Int
<1>1. /\ DOMAIN c = Fields /\ NbSamples \in Nat /\ c.depth \in Int /\ c.imax \in Int
      /\ c.imin \in Int
  BY NbSamplesAssumption DEF ConsumerInv, Consumer
<1>2. /\ DOMAIN from = Fields /\ from.imin = 0 /\ from.depth = D
      /\ from.pc \in {"search_end", "binary", "naive"}
      /\ from.imax = c.imax \/ from.imax = D - 1
      /\ from.pc = "binary" => from.imax = D - 1
  BY <1>1 DEF SearchFrom, Fields
<1> QED BY <1>1, <1>2

\* Hence it is shorter than it was to find the depth.
LEMMA LeftAfter ==
  ASSUME NbSamples \in Nat, NEW r, r.pc \in {"search_end", "binary", "naive"},
         r.pc = "binary" => r.imax - r.imin <= NbSamples - 1,
         r.pc = "naive" => r.depth <= NbSamples,
         r.depth \in Int, r.imax \in Int, r.imin \in Int
  PROVE  Left(r) \in Int /\ Left(r) <= 3 * NbSamples + 7
<1>1. CASE r.pc = "binary"
  <2>1. Left(r) = 2 * NbSamples + 8 + r.imax - r.imin
    BY <1>1 DEF Left
  <2> QED BY <1>1, <2>1
<1>2. CASE r.pc = "naive"
  <2>1. Left(r) = 2 * NbSamples + 7 + r.depth
    BY <1>2 DEF Left
  <2> QED BY <1>2, <2>1
<1>3. CASE r.pc = "search_end"
  BY <1>3 DEF Left
<1> QED BY <1>1, <1>2, <1>3

\* Every step of the job brings it nearer to its end.
LEMMA LeftLess ==
  ASSUME ConsumerInv, Framed, Read
  PROVE  Left(c') < Left(c)
<1>0. /\ DOMAIN c = Fields /\ NbSamples \in Nat \ {0} /\ c.depth \in 0 .. NbSamples
      /\ c.imin \in Nat /\ c.imax \in Nat
      /\ c.pc = "binary" => c.imin <= c.imax
      /\ c.pc \in {"search_top", "max_depth"} => c.imin = 0
      /\ c.pc = "search_top" => c.depth = 0
      /\ c.pc = "max_depth" => c.depth < NbSamples
  BY NbSamplesAssumption DEF ConsumerInv, Consumer, StepInv
<1>1. CASE find \/ search_start
  <2>1. c'.pc \in {"search_start", "search_top", "done"} /\ c'.pc # c.pc
          /\ (c.pc = "search_start" => c'.pc = "search_top")
          /\ c.pc \in {"find", "search_start"}
    BY <1>0, <1>1 DEF find, search_start, Fail, Fields
  <2> QED BY <1>0, <2>1 DEF Left
<1>2. CASE search_top
  <2>1. PICK next, top : /\ c' = [next EXCEPT !.nb_writes_top = top]
                         /\ \/ next = [c EXCEPT !.pc = "search_end", !.ref_idx = c.t_index]
                            \/ next = SearchFrom(NbSamples)
                            \/ next = [c EXCEPT !.pc = "max_depth"]
    BY <1>2 DEF search_top
  <2>2. c.pc = "search_top" /\ Left(c) = 4 * NbSamples + 9
    BY <1>2 DEF search_top, Left
  <2>3. CASE next = [c EXCEPT !.pc = "search_end", !.ref_idx = c.t_index]
               \/ next = [c EXCEPT !.pc = "max_depth"]
    <3>1. c'.pc = "search_end" \/ (c'.pc = "max_depth" /\ c'.depth = 0)
      BY <1>0, <2>1, <2>2, <2>3 DEF Fields
    <3> QED BY <1>0, <2>2, <3>1 DEF Left
  <2>4. CASE next = SearchFrom(NbSamples)
    <3>1. NbSamples \in 0 .. NbSamples
      BY <1>0
    <3>2. /\ DOMAIN next = Fields /\ next.pc \in {"search_end", "binary", "naive"}
          /\ next.pc = "binary" => next.imax - next.imin <= NbSamples - 1
          /\ next.pc = "naive" => next.depth <= NbSamples
          /\ next.depth \in Int /\ next.imax \in Int /\ next.imin \in Int
      BY <1>0, <2>2, <2>4, <3>1, LeftFrom
    <3>3. /\ c'.pc = next.pc /\ c'.imax = next.imax /\ c'.imin = next.imin
          /\ c'.depth = next.depth
      BY <2>1, <3>2 DEF Fields
    <3>4. Left(c') \in Int /\ Left(c') <= 3 * NbSamples + 7
      BY <1>0, <3>2, <3>3, LeftAfter
    <3> QED BY <1>0, <2>2, <3>4
  <2> QED BY <2>1, <2>3, <2>4
<1>3. CASE max_depth
  <2>1. PICK d \in {c.depth, c.depth + 1} :
          c' = [c EXCEPT !.depth = c.depth + 1] \/ c' = SearchFrom(d)
    BY <1>3 DEF max_depth
  <2>2. c.pc = "max_depth" /\ Left(c) = 4 * NbSamples + 8 - c.depth
    BY <1>3 DEF max_depth, Left
  <2>3. CASE c' = [c EXCEPT !.depth = c.depth + 1]
    <3>1. c'.pc = "max_depth" /\ c'.depth = c.depth + 1
      BY <1>0, <2>2, <2>3 DEF Fields
    <3> QED BY <1>0, <2>2, <3>1 DEF Left
  <2>4. CASE c' = SearchFrom(d)
    <3>1. d \in 0 .. NbSamples
      BY <1>0, <2>1, <2>2
    <3>2. /\ c'.pc \in {"search_end", "binary", "naive"}
          /\ c'.pc = "binary" => c'.imax - c'.imin <= NbSamples - 1
          /\ c'.pc = "naive" => c'.depth <= NbSamples
          /\ c'.depth \in Int /\ c'.imax \in Int /\ c'.imin \in Int
      BY <1>0, <2>2, <2>4, <3>1, LeftFrom
    <3>3. Left(c') \in Int /\ Left(c') <= 3 * NbSamples + 7
      BY <1>0, <3>2, LeftAfter
    <3>4. c.depth \in Nat /\ c.depth < NbSamples
      BY <1>0, <2>2
    <3> QED BY <1>0, <2>2, <3>3, <3>4
  <2> QED BY <2>1, <2>3, <2>4
<1>4. ASSUME NEW m, Found(m) \/ NotFound
      PROVE  c'.pc \in {"done", "search_end", "closest_before"}
  BY <1>0, <1>4 DEF Found, NotFound, Fail, Fields
<1>5. CASE naive
  <2>1. \/ \E m : Found(m) \/ NotFound
        \/ c.depth > 1 /\ c' = [c EXCEPT !.m_index = index_n_before(@, 1), !.depth = @ - 1]
    BY <1>5 DEF naive
  <2>2. c.pc = "naive" /\ Left(c) = 2 * NbSamples + 7 + c.depth
    BY <1>5 DEF naive, Left
  <2>3. \/ c'.pc \in {"done", "search_end", "closest_before"}
        \/ c'.pc = "naive" /\ c'.depth = c.depth - 1
    BY <1>0, <1>4, <2>1, <2>2 DEF Fields
  <2> QED BY <1>0, <2>2, <2>3 DEF Left
<1>6. CASE binary
  <2> DEFINE mid == (c.imin + c.imax) \div 2
  <2>1. c.pc = "binary" /\ c.imin < c.imax
    BY <1>6 DEF binary
  <2>2. mid \in Nat /\ c.imin <= mid /\ mid < c.imax
    BY <1>0, <2>1
  <2>3. /\ c'.pc = "binary"
        /\ \/ c'.imin = mid + 1 /\ c'.imax = c.imax
           \/ c'.imin = c.imin /\ c'.imax = mid
    <3>1. PICK i, m, r : c' = [c EXCEPT !.imid = i, !.m_index = m, !.res = r,
                               !.imin = IF r < 0 THEN mid + 1 ELSE @,
                               !.imax = IF r < 0 THEN @ ELSE mid]
      BY <1>6 DEF binary, upper_half
    <3> HIDE DEF mid
    <3> QED BY <1>0, <2>1, <3>1 DEF Fields
  <2> HIDE DEF mid
  <2>4. Left(c') = 2 * NbSamples + 8 + c'.imax - c'.imin
    BY <2>3 DEF Left
  <2>5. Left(c) = 2 * NbSamples + 8 + c.imax - c.imin
    BY <2>1 DEF Left
  <2> QED BY <1>0, <2>2, <2>3, <2>4, <2>5
<1>7. CASE binary_end
  <2>1. c.pc = "binary" /\ \E m : Found(m) \/ NotFound
    BY <1>7 DEF binary_end
  <2>2. c'.pc \in {"done", "search_end", "closest_before"}
    BY <1>4, <2>1
  <2> QED BY <1>0, <2>1, <2>2 DEF Left
<1>8. CASE closest_before \/ closest_after \/ search_end_index
  <2>1. \/ c.pc = "closest_before" /\ c'.pc = "closest_after"
        \/ c.pc = "closest_after" /\ c'.pc = "search_end"
        \/ c.pc = "search_end" /\ c'.pc = "search_end_writes"
    BY <1>0, <1>8 DEF closest_before, closest_after, search_end_index, Fields
  <2> QED BY <1>0, <2>1 DEF Left
<1>9. CASE search_end_writes
  <2>1. \/ c' = [c EXCEPT !.pc = "done", !.ret = "EFAULT"]
        \/ \E w : c' = [c EXCEPT !.pc = "start_read", !.window = w]
    BY <1>9 DEF search_end_writes, Fail
  <2>2. c.pc = "search_end_writes" /\ c'.pc \in {"done", "start_read"}
    BY <1>0, <1>9, <2>1 DEF search_end_writes, Fields
  <2> QED BY <1>0, <2>2 DEF Left
<1>10. CASE start_read_session
  <2>1. c.pc = "start_read" /\ \E n, i, w : c' = [c EXCEPT !.pc = "read", !.nb_writes = n,
             !.todo = Words(c.window), !.intact = i, !.words = w]
    BY <1>10 DEF start_read_session
  <2>2. c'.pc = "read" /\ c'.todo = Words(c.window)
    BY <1>0, <2>1 DEF Fields
  <2>3. Len(Words(c.window)) \in Nat /\ Len(Words(c.window)) <= 2 * NbSamples
    <3>1. c.window.nb_matches \in 1 .. NbSamples /\ Words(c.window) \in Seq(Slots \X Word)
      BY <2>1, WordsOf DEF InWindow
    <3>2. CASE c.api = "shd_select_samples"
      <4>1. Len(Words(c.window)) = 2 * c.window.nb_matches
        BY <2>1, <3>2, WordsOf DEF InWindow
      <4> QED BY <1>0, <3>1, <4>1
    <3>3. CASE c.api # "shd_select_samples"
      <4>1. Words(c.window) = <<<<c.window.ref, "blob">>, <<c.window.ref, "metadata">>>>
        BY <2>1, <3>3, WordsOf DEF InWindow
      <4>2. Len(Words(c.window)) = 2
        BY <4>1
      <4> QED BY <1>0, <4>2
    <3> QED BY <3>2, <3>3
  <2> QED BY <1>0, <2>1, <2>2, <2>3 DEF Left
<1>11. CASE read_sample
  <2>1. /\ c.pc = "read" /\ c.todo # <<>>
        /\ \E g : c' = [c EXCEPT !.todo = Tail(c.todo), !.got = g]
    BY <1>11 DEF read_sample
  <2>2. c'.pc = "read" /\ c'.todo = Tail(c.todo)
    BY <1>0, <2>1 DEF Fields
  <2>3. Len(Tail(c.todo)) = Len(c.todo) - 1 /\ Len(c.todo) \in Nat
    BY <2>1 DEF ConsumerInv, Consumer
  <2> QED BY <2>1, <2>2, <2>3 DEF Left
<1>12. CASE end_read
  <2>1. c.pc = "read" /\ \E r : c' = [c EXCEPT !.pc = "done", !.ret = r]
    BY <1>12 DEF end_read, Fail
  <2>2. c'.pc = "done" /\ Len(c.todo) \in Nat
    BY <1>0, <2>1 DEF Fields, ConsumerInv, Consumer
  <2> QED BY <2>1, <2>2 DEF Left
<1> QED BY <1>1, <1>2, <1>3, <1>5, <1>6, <1>7, <1>8, <1>9, <1>10, <1>11, <1>12 DEF Read

\* A reader never waits for the producers: whatever they do meanwhile, each
\* access brings its job nearer to the end, and there are at most
\* 4 * NbSamples + 11 of them, in every method, naive or binary.
THEOREM JobsAreShort ==
  ReadSpec => [](Left(c) \in Nat) /\ [][Read => Left(c') < Left(c)]_<<vars, c>>
<1>1. ConsumerInv /\ Framed => Left(c) \in Nat
  BY LeftType
<1>2. ConsumerInv /\ Framed => [Read => Left(c') < Left(c)]_<<vars, c>>
  BY LeftLess
<1> QED BY <1>1, <1>2, ConsumerHolds, PTL

=============================================================================
