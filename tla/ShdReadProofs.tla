---------------------------- MODULE ShdReadProofs ----------------------------
(***************************************************************************)
(* Proofs about the read job of ShdRead, against any number of producers,  *)
(* on a ring of any size, for any searches.                                *)
(***************************************************************************)
EXTENDS ShdRead, ShdWriteLapProofs

-----------------------------------------------------------------------------
(* Types *)

ReadSteps ==
  {"done", "find", "search_start", "search_top", "max_depth", "naive", "binary",
   "closest_before", "closest_after", "search_end", "search_end_writes",
   "start_read", "read"}

Window ==
  [start : Local, ref : Local, end : Local, nb_matches : 0 .. NbSamples \cup {-1}]

Fields ==
  {"pc", "api", "search", "hint", "t_index", "nb_writes_top", "depth", "m_index",
   "imin", "imax", "imid", "res", "ts_before", "t_index_new", "ref_idx", "window",
   "nb_writes", "todo", "got", "ret", "t_rank", "w_rank", "intact", "words"}

\* The type of a consumer.
Consumer(r) ==
  /\ DOMAIN r = Fields
  /\ r.pc \in ReadSteps /\ r.api \in ReadApi \cup {"shd_select_samples"}
  /\ r.search \in Searches \cup {AnySearch} /\ r.hint \in Hints \cup {"NAIVE"}
  /\ r.t_index \in Local /\ r.nb_writes_top \in Nat \cup {-1}
  /\ r.depth \in 0 .. NbSamples /\ r.m_index \in Local
  /\ r.imin \in 0 .. NbSamples - 1 /\ r.imax \in 0 .. NbSamples - 1
  /\ r.imid \in 0 .. NbSamples - 1 /\ r.res \in {-1, 0, 1} /\ r.ts_before \in Nat
  /\ r.t_index_new \in Local /\ r.ref_idx \in Local /\ r.window \in Window
  /\ r.nb_writes \in Nat \cup {-1}
  /\ r.todo \in Seq(Slots \X Word) /\ r.got \in Seq(Nat) /\ r.words \in Seq(Nat)
  /\ r.ret \in {"none", "OK", "EAGAIN", "EINVAL", "ENOENT", "EFAULT"}
  /\ r.t_rank \in Nat /\ r.w_rank \in Nat /\ r.intact \in BOOLEAN

Searching ==
  {"search_top", "max_depth", "naive", "binary", "closest_before", "closest_after",
   "search_end", "search_end_writes"}

InWindow == {"start_read", "read"}

\* What a step of the job may count on.
StepInv ==
  /\ c.pc \notin {"done", "find"} => write_index # -1
  /\ c.pc \in {"find", "search_start", "search_top", "max_depth"} =>
       c.imin = 0 /\ c.imid = 0 /\ c.res = 0
  /\ c.pc \in {"find", "search_start", "search_top"} => c.depth = 0
  /\ c.pc \in Searching => c.t_index \in Slots /\ nb_writes[c.t_index] # -1
  /\ c.pc = "max_depth" => c.search.method # "LATEST" /\ c.depth < NbSamples
  /\ c.pc \in {"naive", "binary", "closest_before", "closest_after"} =>
       c.search.method \in {"CLOSEST", "FIRST_AFTER", "FIRST_BEFORE"}
  /\ c.pc \in {"naive", "closest_before", "closest_after"} => c.m_index \in Slots
  /\ c.pc = "binary" => c.imin <= c.imax /\ c.imax < c.depth
  /\ c.pc = "binary" /\ c.res < 0 => c.m_index \in Slots
  /\ c.pc \in {"search_end", "search_end_writes"} => c.ref_idx \in Slots
  /\ c.pc \notin {"done", "read"} => c.got = <<>>
  /\ Len(c.todo) + Len(c.got) = Len(c.words)

ConsumerInv == Consumer(c) /\ StepInv

\* A job starts well typed.
LEMMA StartType ==
  ASSUME NEW f \in ReadApi \cup {"shd_select_samples"},
         NEW s \in Searches \cup {AnySearch}, NEW h \in Hints \cup {"NAIVE"}
  PROVE  LET job == Start(f, s, h)
         IN  /\ Consumer(job) /\ job.pc = "find" /\ job.ref_idx = -1
             /\ job.imin = 0 /\ job.imid = 0 /\ job.res = 0 /\ job.depth = 0
             /\ job.todo = <<>> /\ job.got = <<>> /\ job.words = <<>>
BY NbSamplesAssumption
DEF Start, Consumer, Fields, ReadSteps, Local, Slots, NoWindow, Window

\* A consumer starts between two jobs.
LEMMA InitConsumer == ReadInit => ConsumerInv
<1> SUFFICES ASSUME ReadInit PROVE ConsumerInv
  OBVIOUS
<1> DEFINE job == Start("shd_select_samples", AnySearch, "NAIVE")
<1>1. Consumer(job) /\ job.todo = <<>> /\ job.got = <<>> /\ job.words = <<>>
  BY StartType
<1> HIDE DEF job
<1>2. c = [job EXCEPT !.pc = "done"]
  BY DEF ReadInit, job
<1>3. Consumer(c) /\ c.pc = "done" /\ c.todo = <<>> /\ c.got = <<>> /\ c.words = <<>>
  BY <1>1, <1>2 DEF Consumer, Fields, ReadSteps
<1> QED
  BY <1>3 DEF ConsumerInv, StepInv, Searching

-----------------------------------------------------------------------------
(* What the producers leave the consumer *)

\* A step of the producers leaves the consumer what it counts on.
LEMMA ProducerStep ==
  ASSUME WriteInv, ConsumerInv, [Next]_vars, UNCHANGED c
  PROVE  ConsumerInv'
<1>1. TypeOK /\ TypeOK'
  BY NextTypeOK DEF WriteInv
<1>2. c.t_index \in Slots /\ nb_writes[c.t_index] # -1 => nb_writes'[c.t_index] # -1
  BY <1>1, Growing DEF TypeOK
<1>3. write_index # -1 => write_index' # -1
  BY Growing
<1>4. StepInv'
  BY <1>2, <1>3 DEF ConsumerInv, StepInv
<1> QED BY <1>4 DEF ConsumerInv

-----------------------------------------------------------------------------
(* The steps of the job *)

\* A call that fails ends the job and keeps the rest.
LEMMA FailStep ==
  ASSUME ConsumerInv, NEW e \in {"EAGAIN", "EINVAL", "ENOENT", "EFAULT", "OK"}, Fail(e)
  PROVE  ConsumerInv'
<1>1. Consumer(c')
  BY DEF ConsumerInv, Consumer, Fields, ReadSteps, Fail
<1>2. /\ c'.pc = "done" /\ c'.ret = e
      /\ c'.todo = c.todo /\ c'.got = c.got /\ c'.words = c.words
  BY DEF ConsumerInv, Consumer, Fields, Fail
<1> QED BY <1>1, <1>2 DEF ConsumerInv, StepInv, Searching

\* The searches name a method, and numbers of samples.
LEMMA SearchType ==
  ASSUME ConsumerInv
  PROVE  c.search \in Search /\ c.search.method \in Methods
         /\ c.search.before \in Nat /\ c.search.after \in Nat /\ c.search.date \in Nat
BY SearchesAssumption DEF ConsumerInv, Consumer, Fields, AnySearch, Search, Methods

\* The first steps of a search, up to the reference sample.
LEMMA StartSteps ==
  ASSUME WriteInv, LastValid, ConsumerInv, UNCHANGED vars,
         call_find \/ find \/ search_start
  PROVE  ConsumerInv'
<1>0. TypeOK /\ UNCHANGED <<write_index, nb_writes>>
  BY DEF WriteInv, vars, shared
<1>1. CASE call_find
  <2>1. PICK f \in ReadApi, s \in Searches, hint \in Hints : c' = Start(f, s, hint)
    BY <1>1 DEF call_find
  <2> DEFINE job == Start(f, s, hint)
  <2>2. /\ Consumer(job) /\ job.pc = "find"
        /\ job.imin = 0 /\ job.imid = 0 /\ job.res = 0 /\ job.depth = 0
        /\ job.todo = <<>> /\ job.got = <<>> /\ job.words = <<>>
    BY StartType
  <2> HIDE DEF job
  <2> QED BY <2>1, <2>2 DEF job, ConsumerInv, StepInv, Searching
<1>2. CASE find
  <2>1. CASE c' = [c EXCEPT !.pc = "search_start"] /\ write_index # -1
    <3>1. Consumer(c')
      BY <2>1 DEF ConsumerInv, Consumer, Fields, ReadSteps
    <3>2. /\ c'.pc = "search_start" /\ c'.imin = c.imin /\ c'.imid = c.imid /\ c'.res = c.res
          /\ c'.depth = c.depth
          /\ c'.todo = c.todo /\ c'.got = c.got /\ c'.words = c.words
      BY <2>1 DEF ConsumerInv, Consumer, Fields
    <3> QED BY <1>0, <1>2, <2>1, <3>1, <3>2 DEF ConsumerInv, StepInv, Searching, find
  <2> QED BY <1>2, <2>1, FailStep DEF find
<1>3. CASE search_start
  <2>1. /\ c.pc = "search_start"
        /\ c' = [c EXCEPT !.pc = "search_top", !.t_index = write_index,
                          !.t_rank = samples[write_index].metadata]
    BY <1>3 DEF search_start
  <2>2. /\ write_index \in Slots /\ nb_writes[write_index] # -1
        /\ samples[write_index].metadata \in Nat
    BY <1>0, <2>1 DEF ConsumerInv, StepInv, LastValid, TypeOK, Contents
  <2>3. Consumer(c')
    BY <2>1, <2>2 DEF ConsumerInv, Consumer, Fields, ReadSteps, Local
  <2>4. /\ c'.pc = "search_top" /\ c'.t_index = write_index
        /\ c'.imin = c.imin /\ c'.imid = c.imid /\ c'.res = c.res /\ c'.depth = c.depth
        /\ c'.todo = c.todo /\ c'.got = c.got /\ c'.words = c.words
    BY <2>1 DEF ConsumerInv, Consumer, Fields
  <2> QED BY <1>0, <2>1, <2>2, <2>3, <2>4 DEF ConsumerInv, StepInv, Searching
<1> QED BY <1>1, <1>2, <1>3

\* SearchFrom starts the search itself over d samples.
LEMMA SearchFromStep ==
  ASSUME ConsumerInv, UNCHANGED vars, NEW d \in 1 .. NbSamples, NEW top \in Nat \cup {-1},
         c.pc \in {"search_top", "max_depth"}, c.search.method # "LATEST",
         NEW from, from = SearchFrom(d),
         c' = from \/ c' = [from EXCEPT !.nb_writes_top = top]
  PROVE  ConsumerInv'
<1>0. UNCHANGED <<write_index, nb_writes>> /\ d - 1 \in 0 .. NbSamples - 1
  BY NbSamplesAssumption DEF vars, shared
<1>1. c.t_index \in Slots /\ c.t_index \in Int
  BY DEF ConsumerInv, StepInv, Searching, Slots
<1>2. oldest(d) \in Slots
  BY <1>1, Circular DEF oldest
<1>3. c.search.method \in Methods
  BY SearchType
<1>4. Consumer(from)
  <2>1. Consumer(c) /\ d \in 0 .. NbSamples
    BY <1>0 DEF ConsumerInv
  <2>2. CASE c.search.method = "OLDEST"
    BY <1>0, <1>2, <2>1, <2>2 DEF Consumer, Fields, ReadSteps, Local, SearchFrom
  <2>3. CASE c.search.method # "OLDEST" /\ c.hint = "BINARY"
    BY <1>0, <2>1, <2>3 DEF Consumer, Fields, ReadSteps, Local, SearchFrom
  <2>4. CASE c.search.method # "OLDEST" /\ c.hint # "BINARY"
    BY <1>0, <1>1, <2>1, <2>4 DEF Consumer, Fields, ReadSteps, Local, SearchFrom
  <2> QED BY <2>2, <2>3, <2>4
<1>5. /\ from.search = c.search /\ from.t_index = c.t_index
      /\ from.imin = c.imin /\ from.res = c.res
      /\ from.todo = c.todo /\ from.got = c.got /\ from.words = c.words
  BY DEF ConsumerInv, Consumer, Fields, SearchFrom
<1>6. \/ from.pc = "search_end" /\ from.ref_idx \in Slots
      \/ /\ from.pc = "binary" /\ from.imax = d - 1 /\ from.depth = d
         /\ c.search.method # "OLDEST"
      \/ from.pc = "naive" /\ from.m_index \in Slots /\ c.search.method # "OLDEST"
  BY <1>1, <1>2 DEF ConsumerInv, Consumer, Fields, SearchFrom
<1>7. /\ Consumer(c') /\ c'.pc = from.pc /\ c'.ref_idx = from.ref_idx
      /\ c'.m_index = from.m_index /\ c'.imax = from.imax /\ c'.depth = from.depth
      /\ c'.search = c.search /\ c'.t_index = c.t_index
      /\ c'.imin = c.imin /\ c'.res = c.res
      /\ c'.todo = c.todo /\ c'.got = c.got /\ c'.words = c.words
  <2>1. CASE c' = from
    BY <1>4, <1>5, <2>1
  <2>2. CASE c' = [from EXCEPT !.nb_writes_top = top]
    BY <1>4, <1>5, <2>2 DEF Consumer, Fields
  <2> QED BY <2>1, <2>2
<1>8. c.imin = 0 /\ c.imid = 0 /\ c.res = 0
  BY DEF ConsumerInv, StepInv
<1>9. /\ write_index' # -1 /\ nb_writes'[c.t_index] # -1
      /\ Len(c.todo) + Len(c.got) = Len(c.words) /\ c.got = <<>>
  BY <1>0 DEF ConsumerInv, StepInv, Searching
<1>10. CASE from.pc = "search_end"
  BY <1>1, <1>6, <1>7, <1>9, <1>10 DEF ConsumerInv, StepInv, Searching
<1>11. CASE from.pc = "binary"
  <2>1. c'.imin <= c'.imax /\ c'.imax < c'.depth
    BY NbSamplesAssumption, <1>6, <1>7, <1>8, <1>11
  <2>2. c'.pc = "binary" /\ c'.res = 0 /\ c'.t_index = c.t_index
    BY <1>7, <1>8, <1>11
  <2>3. c'.search.method \in {"CLOSEST", "FIRST_AFTER", "FIRST_BEFORE"}
    BY <1>3, <1>6, <1>7, <1>11 DEF Methods
  <2> QED
    <3>1. Len(c'.todo) + Len(c'.got) = Len(c'.words) /\ c'.got = <<>>
      BY <1>7, <1>9
    <3>0. ~(c'.res < 0)
      BY <2>2
    <3>2. StepInv'
      BY <1>1, <1>9, <2>1, <2>2, <2>3, <3>0, <3>1 DEF StepInv, Searching
    <3> QED BY <1>7, <3>2 DEF ConsumerInv
<1>12. CASE from.pc = "naive"
  BY <1>1, <1>3, <1>6, <1>7, <1>9, <1>12 DEF ConsumerInv, StepInv, Searching, Methods
<1> QED BY <1>6, <1>10, <1>11, <1>12

\* The reference sample m was found, before the end of the search or of its
\* refinement.
LEMMA FoundStep ==
  ASSUME ConsumerInv, UNCHANGED vars, c.pc \in {"naive", "binary"},
         NEW m \in Slots, Found(m)
  PROVE  ConsumerInv'
<1>0. UNCHANGED <<write_index, nb_writes>> /\ index_next(m) \in Slots
  BY IndexNext DEF vars, shared
<1>1. ASSUME NEW i \in Slots, c' = [c EXCEPT !.pc = "search_end", !.ref_idx = i]
      PROVE  ConsumerInv'
  <2>1. /\ Consumer(c') /\ c'.pc = "search_end" /\ c'.ref_idx \in Slots
        /\ c'.t_index = c.t_index /\ c'.search = c.search
        /\ c'.todo = c.todo /\ c'.got = c.got /\ c'.words = c.words
    BY <1>1 DEF ConsumerInv, Consumer, Fields, ReadSteps, Local
  <2> QED BY <1>0, <2>1 DEF ConsumerInv, StepInv, Searching
<1>2. ASSUME c' = [c EXCEPT !.pc = "closest_before", !.m_index = m]
      PROVE  ConsumerInv'
  <2>1. /\ Consumer(c') /\ c'.pc = "closest_before" /\ c'.m_index \in Slots
        /\ c'.t_index = c.t_index /\ c'.search = c.search
        /\ c'.todo = c.todo /\ c'.got = c.got /\ c'.words = c.words
    BY <1>2 DEF ConsumerInv, Consumer, Fields, ReadSteps, Local
  <2> QED BY <1>0, <2>1 DEF ConsumerInv, StepInv, Searching
<1> QED BY <1>0, <1>1, <1>2, FailStep DEF Found

\* None was found.
LEMMA NotFoundStep ==
  ASSUME ConsumerInv, UNCHANGED vars, c.pc \in {"naive", "binary"}, NotFound
  PROVE  ConsumerInv'
<1>0. UNCHANGED <<write_index, nb_writes>> /\ index_next(c.t_index) \in Slots
  BY IndexNext DEF vars, shared, ConsumerInv, StepInv, Searching
<1>1. ASSUME c' = [c EXCEPT !.pc = "search_end", !.ref_idx = index_next(c.t_index)]
      PROVE  ConsumerInv'
  <2>1. /\ Consumer(c') /\ c'.pc = "search_end" /\ c'.ref_idx \in Slots
        /\ c'.t_index = c.t_index /\ c'.search = c.search
        /\ c'.todo = c.todo /\ c'.got = c.got /\ c'.words = c.words
    BY <1>0, <1>1 DEF ConsumerInv, Consumer, Fields, ReadSteps, Local
  <2> QED BY <1>0, <2>1 DEF ConsumerInv, StepInv, Searching
<1> QED BY <1>1, FailStep DEF NotFound

\* The steps of the search.
LEMMA SearchSteps ==
  ASSUME WriteInv, ConsumerInv, UNCHANGED vars,
         \/ search_top \/ max_depth \/ naive \/ binary \/ binary_end
         \/ closest_before \/ closest_after
  PROVE  ConsumerInv'
<1>0. TypeOK /\ UNCHANGED <<write_index, nb_writes>> /\ NbSamples \in 1 .. NbSamples
  BY NbSamplesAssumption DEF WriteInv, vars, shared
<1>t. c.pc \in Searching => c.t_index \in Slots /\ c.t_index \in Int
  BY DEF ConsumerInv, StepInv, Slots
<1>1. CASE search_top
  <2> DEFINE top == nb_writes[c.t_index]
  <2>1. top \in Nat \cup {-1} /\ c.pc = "search_top"
    BY <1>0, <1>1, <1>t DEF search_top, TypeOK, Searching
  <2>2. CASE c.search.method # "LATEST" /\ top > 0
    BY <1>0, <1>1, <2>1, <2>2, SearchFromStep DEF search_top
  <2> DEFINE next == IF c.search.method = "LATEST"
                     THEN [c EXCEPT !.pc = "search_end", !.ref_idx = c.t_index]
                     ELSE [c EXCEPT !.pc = "max_depth"]
  <2>3. CASE ~(c.search.method # "LATEST" /\ top > 0)
    <3>1. c' = [next EXCEPT !.nb_writes_top = top]
      BY <1>1, <2>3 DEF search_top
    <3>2. /\ Consumer(next)
          /\ \/ next.pc = "search_end" /\ next.ref_idx = c.t_index
             \/ next.pc = "max_depth" /\ c.search.method # "LATEST"
          /\ next.t_index = c.t_index /\ next.search = c.search
          /\ next.imin = c.imin /\ next.imid = c.imid /\ next.res = c.res /\ next.depth = c.depth
          /\ next.todo = c.todo /\ next.got = c.got /\ next.words = c.words
      BY <1>t, <2>1 DEF ConsumerInv, Consumer, Fields, ReadSteps, Local, Searching
    <3> HIDE DEF next
    <3>3. /\ Consumer(c') /\ c'.pc = next.pc /\ c'.ref_idx = next.ref_idx
          /\ c'.t_index = c.t_index /\ c'.search = c.search
          /\ c'.imin = c.imin /\ c'.imid = c.imid /\ c'.res = c.res /\ c'.depth = c.depth
          /\ c'.todo = c.todo /\ c'.got = c.got /\ c'.words = c.words
      BY <2>1, <3>1, <3>2 DEF Consumer, Fields
    <3>4. /\ c.imin = 0 /\ c.imid = 0 /\ c.res = 0 /\ 0 < NbSamples /\ c.depth = 0
          /\ write_index' # -1 /\ c.t_index \in Slots /\ nb_writes'[c.t_index] # -1
          /\ Len(c.todo) + Len(c.got) = Len(c.words) /\ c.got = <<>>
      <4>1. c.imin = 0 /\ c.imid = 0 /\ c.res = 0 /\ 0 < NbSamples /\ c.depth = 0
        BY <2>1, NbSamplesAssumption DEF ConsumerInv, StepInv
      <4>2. c.t_index \in Slots /\ nb_writes[c.t_index] # -1 /\ write_index # -1
        BY <2>1 DEF ConsumerInv, StepInv, Searching
      <4> QED BY <1>0, <2>1, <4>1, <4>2 DEF ConsumerInv, StepInv
    <3>5. CASE next.pc = "search_end" /\ next.ref_idx = c.t_index
      BY <3>3, <3>4, <3>5 DEF ConsumerInv, StepInv, Searching
    <3>6. CASE next.pc = "max_depth" /\ c.search.method # "LATEST"
      BY <3>3, <3>4, <3>6 DEF ConsumerInv, StepInv, Searching
    <3> QED BY <3>2, <3>5, <3>6
  <2> QED BY <2>2, <2>3
<1>2. CASE max_depth
  <2> DEFINE valid == nb_writes[index_n_before(c.t_index, c.depth)] # -1
             d     == IF valid THEN c.depth + 1 ELSE c.depth
  <2>1. c.pc = "max_depth" /\ c.depth \in 0 .. NbSamples /\ c.nb_writes_top \in Nat \cup {-1}
    BY <1>2 DEF max_depth, ConsumerInv, Consumer
  <2>2. c.depth < NbSamples
    BY <2>1 DEF ConsumerInv, StepInv
  <2>3. c.depth = 0 => valid
    <3>1. c.t_index \in Slots /\ nb_writes[c.t_index] # -1
      BY <2>1 DEF ConsumerInv, StepInv, Searching
    <3>2. index_n_before(c.t_index, 0) = c.t_index
      BY <3>1, Offsets, NbSamplesAssumption DEF Slots
    <3> QED BY <3>1, <3>2
  <2>a. c' = IF valid /\ more_turns(c.depth) THEN [c EXCEPT !.depth = d] ELSE SearchFrom(d)
    BY <1>2, Zenon DEF max_depth
  <2>b. d \in 1 .. NbSamples
    BY <2>1, <2>2, <2>3, NbSamplesAssumption
  <2> HIDE DEF valid, d
  <2>4. CASE valid /\ more_turns(c.depth)
    <3>1. c' = [c EXCEPT !.depth = d]
      BY <2>a, <2>4
    <3>2. d \in 0 .. NbSamples - 1
      BY <2>1, <2>4, NbSamplesAssumption DEF more_turns, d
    <3>3. /\ Consumer(c') /\ c'.pc = "max_depth" /\ c'.depth = d
          /\ c'.t_index = c.t_index /\ c'.search = c.search
          /\ c'.imin = c.imin /\ c'.imid = c.imid /\ c'.res = c.res
          /\ c'.todo = c.todo /\ c'.got = c.got /\ c'.words = c.words
      BY <2>1, <3>1, <3>2, NbSamplesAssumption DEF ConsumerInv, Consumer, Fields
    <3> QED
      <4>1. StepInv
        BY DEF ConsumerInv
      <4>2. c.imin = 0 /\ c.imid = 0 /\ c.res = 0 /\ c'.depth < NbSamples
        BY <2>1, <3>2, <3>3, <4>1, NbSamplesAssumption DEF StepInv
      <4>3. StepInv'
        BY <1>0, <2>1, <3>3, <4>1, <4>2 DEF StepInv, Searching
      <4> QED BY <3>3, <4>3 DEF ConsumerInv
  <2>5. CASE ~(valid /\ more_turns(c.depth))
    <3>1. c' = SearchFrom(d)
      BY <2>a, <2>5
    <3>2. d \in 1 .. NbSamples
      BY <2>b
    <3> QED BY <1>0, <2>1, <3>1, <3>2, SearchFromStep DEF ConsumerInv, StepInv
  <2> QED BY <2>4, <2>5
<1>3. CASE naive
  <2>1. c.pc = "naive" /\ c.m_index \in Slots
    BY <1>3 DEF naive, ConsumerInv, StepInv
  <2>2. CASE c' = [c EXCEPT !.m_index = index_n_before(@, 1), !.depth = @ - 1] /\ c.depth > 1
    <3>0. c.m_index \in Int /\ c.depth \in 0 .. NbSamples
      BY <2>1 DEF Slots, ConsumerInv, Consumer
    <3>1. index_n_before(c.m_index, 1) \in Slots /\ c.depth - 1 \in 0 .. NbSamples
      BY <2>2, <3>0, Circular, NbSamplesAssumption
    <3>2. /\ Consumer(c') /\ c'.pc = "naive" /\ c'.m_index \in Slots
          /\ c'.t_index = c.t_index /\ c'.search = c.search
          /\ c'.todo = c.todo /\ c'.got = c.got /\ c'.words = c.words
      BY <2>1, <2>2, <3>1 DEF ConsumerInv, Consumer, Fields, Local
    <3> QED BY <1>0, <2>1, <3>2 DEF ConsumerInv, StepInv, Searching
  <2> QED BY <1>3, <2>1, <2>2, FoundStep, NotFoundStep DEF naive
<1>4. CASE binary
  <2> DEFINE mid == (c.imin + c.imax) \div 2
             r   == cmp(at(mid))
  <2>1. /\ c.pc = "binary" /\ c.imin < c.imax
        /\ c' = [c EXCEPT !.imid = mid, !.m_index = at(mid), !.res = r,
                          !.imin = IF r < 0 THEN upper_half(mid) ELSE @,
                          !.imax = IF r < 0 THEN @ ELSE mid]
    BY <1>4 DEF binary
  <2>2. /\ c.imin \in 0 .. NbSamples - 1 /\ c.imax \in 0 .. NbSamples - 1
        /\ c.depth \in Int /\ c.imax < c.depth
    BY <2>1, NbSamplesAssumption DEF ConsumerInv, Consumer, StepInv
  <2>3. mid \in Int /\ c.imin <= mid /\ mid < c.imax
    BY <2>1, <2>2, NbSamplesAssumption
  <2>4. at(mid) \in Slots
    BY <1>t, <2>1, <2>2, <2>3, Circular DEF at, Searching
  <2>5. r \in {-1, 0, 1}
    BY DEF cmp
  <2> HIDE DEF mid, r
  <2>6. /\ Consumer(c') /\ c'.pc = "binary" /\ c'.m_index \in Slots
        /\ c'.imin = (IF r < 0 THEN upper_half(mid) ELSE c.imin)
        /\ c'.imax = (IF r < 0 THEN c.imax ELSE mid) /\ c'.depth = c.depth
        /\ c'.t_index = c.t_index /\ c'.search = c.search
        /\ c'.todo = c.todo /\ c'.got = c.got /\ c'.words = c.words
    <3>1. /\ Consumer(c) /\ upper_half(mid) \in 0 .. NbSamples - 1
          /\ mid \in 0 .. NbSamples - 1
      BY <2>2, <2>3, NbSamplesAssumption DEF ConsumerInv, upper_half
    <3>2. /\ Consumer(c')
          /\ c'.imin = (IF r < 0 THEN upper_half(mid) ELSE c.imin)
          /\ c'.imax = (IF r < 0 THEN c.imax ELSE mid)
      BY <2>1, <2>4, <2>5, <3>1 DEF Consumer, Fields, Local
    <3>3. /\ c'.pc = "binary" /\ c'.m_index \in Slots /\ c'.depth = c.depth
          /\ c'.t_index = c.t_index /\ c'.search = c.search
          /\ c'.todo = c.todo /\ c'.got = c.got /\ c'.words = c.words
      BY <2>1, <2>4, <3>1 DEF Consumer, Fields
    <3> QED BY <3>2, <3>3
  <2>7. c'.imin <= c'.imax /\ c'.imax < c'.depth
    BY <2>2, <2>3, <2>5, <2>6 DEF upper_half
  <2> QED BY <1>0, <2>1, <2>6, <2>7 DEF ConsumerInv, StepInv, Searching
<1>5. CASE binary_end
  <2> DEFINE m == IF c.imin # c.imid THEN at(c.imin) ELSE c.m_index
             r == IF c.imin # c.imid THEN cmp(m) ELSE c.res
  <2>1. /\ c.pc = "binary"
        /\ IF r < 0 THEN Found(m)
           ELSE IF c.imin > 0 THEN Found(index_n_before(m, 1)) ELSE NotFound
    BY <1>5 DEF binary_end
  <2>2. /\ c.imin \in Int /\ c.depth \in Int /\ c.m_index \in Int
    <3>1. c.imin \in 0 .. NbSamples - 1 /\ c.depth \in 0 .. NbSamples /\ c.m_index \in Local
      BY DEF ConsumerInv, Consumer
    <3> QED BY <3>1, NbSamplesAssumption DEF Local, Slots
  <2>3. at(c.imin) \in Slots
    BY <1>t, <2>1, <2>2, Circular DEF at, Searching
  <2>4. r < 0 => m \in Slots
    BY <2>1, <2>3 DEF ConsumerInv, StepInv
  <2>5. index_n_before(m, 1) \in Slots
    <3>1. m \in Int
      BY <2>2, <2>3 DEF Slots
    <3> HIDE DEF m
    <3> QED BY <3>1, Circular
  <2> HIDE DEF m, r
  <2> QED BY <2>1, <2>4, <2>5, FoundStep, NotFoundStep
<1>6. CASE closest_before
  <2>1. ts(c.m_index) \in Nat /\ c.pc = "closest_before" /\ c.m_index \in Slots
    BY <1>0, <1>6 DEF closest_before, ConsumerInv, StepInv, TypeOK, Contents, ts
  <2>2. /\ Consumer(c') /\ c'.pc = "closest_after" /\ c'.m_index = c.m_index
        /\ c'.t_index = c.t_index /\ c'.search = c.search
        /\ c'.todo = c.todo /\ c'.got = c.got /\ c'.words = c.words
    BY <1>6, <2>1 DEF closest_before, ConsumerInv, Consumer, Fields, ReadSteps
  <2> QED BY <1>0, <2>1, <2>2 DEF ConsumerInv, StepInv, Searching
<1>7. CASE closest_after
  <2>1. c.pc = "closest_after" /\ c.m_index \in Slots /\ index_next(c.m_index) \in Slots
    BY <1>7, IndexNext DEF closest_after, ConsumerInv, StepInv
  <2>2. PICK i \in Slots : c' = [c EXCEPT !.pc = "search_end", !.ref_idx = i]
    BY <1>7, <2>1 DEF closest_after
  <2>3. /\ Consumer(c') /\ c'.pc = "search_end" /\ c'.ref_idx \in Slots
        /\ c'.t_index = c.t_index /\ c'.search = c.search
        /\ c'.todo = c.todo /\ c'.got = c.got /\ c'.words = c.words
    BY <2>2 DEF ConsumerInv, Consumer, Fields, ReadSteps, Local
  <2> QED BY <1>0, <2>1, <2>3 DEF ConsumerInv, StepInv, Searching
<1> QED BY <1>1, <1>2, <1>3, <1>4, <1>5, <1>6, <1>7

-----------------------------------------------------------------------------
(* The window *)

\* The window of a read session has the reference sample between its ends, and
\* nothing of what was committed after the search began.
Framed ==
  /\ c.pc \in InWindow =>
       {c.t_index, c.window.start, c.window.ref, c.window.end} \subseteq Slots
  /\ WindowAroundReference

\* The window that shd_window_set computes is one.
LEMMA WindowSet ==
  ASSUME ConsumerInv, c.pc = "search_end_writes"
  PROVE  LET b == interval_between(w_start_idx, c.ref_idx)
             a == interval_between(c.ref_idx, w_end_idx)
         IN  /\ {c.t_index, w_start_idx, c.ref_idx, w_end_idx} \subseteq Slots
             /\ b <= c.search.before /\ a <= c.search.after
             /\ 1 + interval_between(w_start_idx, w_end_idx) = b + a + 1
             /\ interval_between(w_start_idx, c.t_index) + 1 >= b + a + 1
             /\ b + a + 1 \in 1 .. NbSamples
<1> DEFINE b == Lesser(nb_older, c.search.before)
           a == Lesser(nb_more_recent, c.search.after)
<1>1. c.ref_idx \in Slots /\ c.t_index \in Slots /\ NbSamples \in Nat \ {0}
  BY NbSamplesAssumption DEF ConsumerInv, StepInv, Searching
<1>2. c.search.before \in Nat /\ c.search.after \in Nat
  BY SearchType
<1>3. /\ nb_older \in 0 .. NbSamples - 1 /\ nb_more_recent \in 0 .. NbSamples - 1
      /\ nb_older + nb_more_recent = NbSamples - 1
  BY <1>1, Intervals DEF nb_older, nb_more_recent
<1>4. /\ b \in 0 .. NbSamples - 1 /\ b <= c.search.before /\ b <= nb_older
      /\ a \in 0 .. NbSamples - 1 /\ a <= c.search.after /\ a <= nb_more_recent
  BY <1>1, <1>2, <1>3 DEF Lesser
<1> HIDE DEF a, b
<1>5. /\ w_start_idx = index_n_before(c.ref_idx, b)
      /\ w_end_idx = index_n_after(c.ref_idx, a)
  BY DEF w_start_idx, w_end_idx, a, b
<1>6. w_start_idx \in Slots /\ w_end_idx \in Slots
  <2>1. c.ref_idx \in Int /\ a \in Int /\ b \in Int
    BY <1>1, <1>4 DEF Slots
  <2> QED BY <1>5, <2>1, Circular
<1>7. /\ interval_between(w_start_idx, c.ref_idx) = b
      /\ interval_between(c.ref_idx, w_end_idx) = a
  BY <1>1, <1>4, <1>5, Back
<1>8. interval_between(w_start_idx, w_end_idx) = b + a
  BY <1>1, <1>3, <1>4, <1>6, <1>7, Along
<1>9. interval_between(w_start_idx, c.t_index) = b + nb_more_recent
  BY <1>1, <1>3, <1>4, <1>6, <1>7, Along DEF nb_more_recent
<1> QED BY <1>1, <1>2, <1>3, <1>4, <1>6, <1>7, <1>8, <1>9

\* The end of the search.
LEMMA EndSteps ==
  ASSUME WriteInv, LastValid, ConsumerInv, Framed, UNCHANGED vars,
         search_end_index \/ search_end_writes
  PROVE  ConsumerInv' /\ Framed'
<1>0. TypeOK /\ UNCHANGED <<write_index, nb_writes>>
  BY DEF WriteInv, vars, shared
<1>1. CASE search_end_index
  <2>1. /\ c.pc = "search_end"
        /\ c' = [c EXCEPT !.pc = "search_end_writes", !.t_index_new = write_index,
                          !.w_rank = samples[write_index].metadata]
    BY <1>1 DEF search_end_index
  <2>2. write_index \in Slots /\ samples[write_index].metadata \in Nat
    BY <1>0, <2>1 DEF ConsumerInv, StepInv, TypeOK, Contents
  <2>3. /\ Consumer(c') /\ c'.pc = "search_end_writes"
        /\ c'.t_index = c.t_index /\ c'.ref_idx = c.ref_idx
        /\ c'.todo = c.todo /\ c'.got = c.got /\ c'.words = c.words
    BY <2>1, <2>2 DEF ConsumerInv, Consumer, Fields, ReadSteps, Local
  <2>4. StepInv'
    BY <1>0, <2>1, <2>3 DEF ConsumerInv, StepInv, Searching
  <2> QED BY <2>3, <2>4 DEF ConsumerInv, Framed, WindowAroundReference, InWindow
<1>2. CASE search_end_writes
  <2> DEFINE w == [start |-> w_start_idx, ref |-> c.ref_idx, end |-> w_end_idx,
                   nb_matches |-> 1 + interval_between(w_start_idx, w_end_idx)]
  <2>1. c.pc = "search_end_writes"
    BY <1>2 DEF search_end_writes
  <2>2. CASE Fail("EFAULT")
    <3>1. ConsumerInv' /\ c'.pc = "done"
      BY <2>2, FailStep DEF Fail, ConsumerInv, Consumer, Fields
    <3> QED BY <3>1 DEF Framed, WindowAroundReference, InWindow
  <2>3. CASE c' = [c EXCEPT !.pc = "start_read", !.window = w]
    <3>1. /\ w \in Window
          /\ w.start = w_start_idx /\ w.ref = c.ref_idx /\ w.end = w_end_idx
          /\ w.nb_matches = 1 + interval_between(w_start_idx, w_end_idx)
      BY <2>1, WindowSet, NbSamplesAssumption DEF Window, Local
    <3> HIDE DEF w
    <3>2. /\ Consumer(c') /\ c'.pc = "start_read" /\ c'.window = w
          /\ c'.t_index = c.t_index /\ c'.search = c.search
          /\ c'.todo = c.todo /\ c'.got = c.got /\ c'.words = c.words
      BY <2>3, <3>1 DEF ConsumerInv, Consumer, Fields, ReadSteps
    <3>3. StepInv'
      BY <1>0, <2>1, <3>2 DEF ConsumerInv, StepInv, Searching
    <3>4. Framed'
      BY <2>1, <3>1, <3>2, WindowSet DEF Framed, WindowAroundReference
    <3> QED BY <3>2, <3>3, <3>4 DEF ConsumerInv
  <2> QED BY <1>2, <2>2, <2>3 DEF search_end_writes
<1> QED BY <1>1, <1>2

-----------------------------------------------------------------------------
(* The read session *)

\* What a job reads: the words of the slots of its window.
LEMMA WordsOf ==
  ASSUME ConsumerInv, Framed, c.pc \in InWindow
  PROVE  LET n == c.window.nb_matches IN
         /\ n \in 1 .. NbSamples
         /\ \A i \in 1 .. n : slot_of(c.window, i) \in Slots
         /\ Words(c.window) \in Seq(Slots \X Word)
         /\ c.api = "shd_select_samples" =>
              /\ Len(Words(c.window)) = 2 * n
              /\ \A i \in 1 .. n :
                   /\ Words(c.window)[i] = <<slot_of(c.window, i), "metadata">>
                   /\ Words(c.window)[n + i] = <<slot_of(c.window, i), "blob">>
         /\ c.api # "shd_select_samples" =>
              Words(c.window) = <<<<c.window.ref, "blob">>, <<c.window.ref, "metadata">>>>
<1> DEFINE w == c.window
           n == w.nb_matches
           each(word) == [i \in 1 .. n |-> <<slot_of(w, i), word>>]
<1>1. {w.start, w.ref, w.end} \subseteq Slots /\ NbSamples \in Nat \ {0}
  BY NbSamplesAssumption DEF Framed
<1>2. n \in 1 .. NbSamples
  <2>1. /\ n = interval_between(w.start, w.ref) + interval_between(w.ref, w.end) + 1
        /\ n \in 0 .. NbSamples \cup {-1}
    BY DEF Framed, WindowAroundReference, InWindow, ConsumerInv, Consumer, Window
  <2>2. /\ interval_between(w.start, w.ref) \in Nat
        /\ interval_between(w.ref, w.end) \in Nat
    BY <1>1, Intervals
  <2> HIDE DEF n
  <2> QED BY <1>1, <2>1, <2>2
<1>3. ASSUME NEW i \in 1 .. n PROVE slot_of(w, i) \in Slots
  <2>1. i - 1 \in Int /\ w.start \in Int
    BY <1>1, <1>2 DEF Slots
  <2> QED BY <2>1, Circular DEF slot_of
<1> HIDE DEF w, n
<1>4. ASSUME NEW word \in Word
      PROVE  /\ each(word) \in Seq(Slots \X Word) /\ Len(each(word)) = n
             /\ \A i \in 1 .. n : each(word)[i] = <<slot_of(w, i), word>>
  BY <1>2, <1>3
<1>5. "metadata" \in Word /\ "blob" \in Word
  BY DEF Word
<1>6. CASE c.api = "shd_select_samples"
  <2>1. Words(w) = each("metadata") \o each("blob")
    BY <1>6 DEF Words, w, n
  <2> DEFINE a == each("metadata")
             b == each("blob")
  <2>3. /\ a \in Seq(Slots \X Word) /\ Len(a) = n
        /\ b \in Seq(Slots \X Word) /\ Len(b) = n
        /\ \A i \in 1 .. n : /\ a[i] = <<slot_of(w, i), "metadata">>
                              /\ b[i] = <<slot_of(w, i), "blob">>
    BY <1>4, <1>5
  <2>4. n \in Nat
    BY <1>2
  <2>5. Words(w) = a \o b
    BY <2>1
  <2> HIDE DEF each, a, b
  <2>2. /\ Words(w) \in Seq(Slots \X Word) /\ Len(Words(w)) = n + n
        /\ \A i \in 1 .. n : Words(w)[i] = a[i] /\ Words(w)[n + i] = b[i]
    <3>1. /\ a \o b \in Seq(Slots \X Word) /\ Len(a \o b) = Len(a) + Len(b)
          /\ \A i \in 1 .. Len(a) + Len(b) :
               (a \o b)[i] = IF i <= Len(a) THEN a[i] ELSE b[i - Len(a)]
      <4>1. a \in Seq(Slots \X Word) /\ b \in Seq(Slots \X Word)
        BY <2>3
      <4> QED BY <4>1, ConcatProperties
    <3>2. Len(a) = n /\ Len(b) = n
      BY <2>3
    <3>3. ASSUME NEW i \in 1 .. n PROVE (a \o b)[i] = a[i] /\ (a \o b)[n + i] = b[i]
      <4>1. i \in 1 .. n + n /\ n + i \in 1 .. n + n /\ i <= n /\ ~(n + i <= n)
            /\ n + i - n = i
        BY <2>4
      <4> QED BY <3>1, <3>2, <4>1
    <3> QED BY <2>5, <3>1, <3>2, <3>3
  <2>6. /\ Len(Words(w)) = 2 * n
        /\ \A i \in 1 .. n : /\ Words(w)[i] = <<slot_of(w, i), "metadata">>
                              /\ Words(w)[n + i] = <<slot_of(w, i), "blob">>
    BY <2>2, <2>3, <2>4
  <2> QED BY <1>2, <1>3, <1>6, <2>2, <2>6 DEF w, n
<1>7. CASE c.api # "shd_select_samples"
  <2>1. Words(w) = <<<<w.ref, "blob">>, <<w.ref, "metadata">>>>
    BY <1>7 DEF Words
  <2>2. Words(w) \in Seq(Slots \X Word)
    BY <1>1, <1>5, <2>1
  <2> QED BY <1>2, <1>3, <1>7, <2>1, <2>2 DEF w, n
<1> QED BY <1>6, <1>7

\* The steps of the read session.
LEMMA SessionSteps ==
  ASSUME WriteInv, ConsumerInv, Framed, UNCHANGED vars,
         start_read_session \/ read_sample \/ end_read
  PROVE  ConsumerInv' /\ Framed'
<1>0. TypeOK /\ UNCHANGED <<write_index, nb_writes>>
  BY DEF WriteInv, vars, shared
<1>1. CASE start_read_session
  <2> DEFINE todo  == Words(c.window)
             words == [i \in DOMAIN todo |-> samples[todo[i][1]][todo[i][2]]]
  <2>1. /\ c.pc = "start_read"
        /\ c' = [c EXCEPT !.pc = "read", !.nb_writes = nb_writes[wstart(c.window)],
                          !.todo = todo, !.intact = Intact(c.window), !.words = words]
    BY <1>1 DEF start_read_session
  <2>2. c.window.start \in Slots /\ todo \in Seq(Slots \X Word)
    BY <2>1, WordsOf DEF Framed, InWindow
  <2> HIDE DEF todo
  <2>3. words \in Seq(Nat) /\ Len(words) = Len(todo)
    <3>1. ASSUME NEW i \in DOMAIN todo PROVE samples[todo[i][1]][todo[i][2]] \in Nat
      <4>1. todo[i] \in Slots \X Word
        BY <2>2
      <4>2. todo[i][1] \in Slots /\ todo[i][2] \in Word
        BY <4>1
      <4> QED BY <1>0, <4>2 DEF TypeOK, Contents, Word
    <3>2. DOMAIN todo = 1 .. Len(todo) /\ Len(todo) \in Nat
      BY <2>2
    <3> QED BY <3>1, <3>2
  <2>4. nb_writes[wstart(c.window)] \in Nat \cup {-1} /\ Intact(c.window) \in BOOLEAN
    BY <1>0, <2>2 DEF wstart, TypeOK, Intact
  <2> HIDE DEF words
  <2>5. c.got = <<>> /\ write_index # -1
    BY <2>1 DEF ConsumerInv, StepInv
  <2>6. /\ Consumer(c') /\ c'.pc = "read" /\ c'.todo = todo /\ c'.words = words
        /\ c'.got = c.got /\ c'.window = c.window /\ c'.search = c.search
        /\ c'.t_index = c.t_index
    BY <2>1, <2>2, <2>3, <2>4 DEF ConsumerInv, Consumer, Fields, ReadSteps
  <2>7. Len(c'.todo) + Len(c'.got) = Len(c'.words)
    BY <2>2, <2>3, <2>5, <2>6
  <2>8. StepInv'
    BY <1>0, <2>5, <2>6, <2>7 DEF StepInv, Searching
  <2>9. Framed'
    BY <2>1, <2>6 DEF Framed, WindowAroundReference, InWindow
  <2> QED BY <2>6, <2>8, <2>9 DEF ConsumerInv
<1>2. CASE read_sample
  <2> DEFINE next == Head(c.todo)
             word == samples[next[1]][next[2]]
  <2>1. /\ c.pc = "read" /\ c.todo # <<>>
        /\ c' = [c EXCEPT !.todo = Tail(@), !.got = Append(@, word)]
    BY <1>2 DEF read_sample
  <2>2. /\ c.todo \in Seq(Slots \X Word) /\ c.got \in Seq(Nat) /\ c.words \in Seq(Nat)
        /\ Len(c.todo) + Len(c.got) = Len(c.words) /\ write_index # -1
    BY <2>1 DEF ConsumerInv, Consumer, StepInv
  <2>3. next \in Slots \X Word /\ Tail(c.todo) \in Seq(Slots \X Word)
    BY <2>1, <2>2
  <2>4. word \in Nat
    BY <1>0, <2>3 DEF TypeOK, Contents, Word
  <2> HIDE DEF word
  <2>5. /\ Append(c.got, word) \in Seq(Nat)
        /\ Len(Tail(c.todo)) + Len(Append(c.got, word)) = Len(c.words)
    <3>1. /\ Append(c.got, word) \in Seq(Nat)
          /\ Len(Append(c.got, word)) = Len(c.got) + 1
      BY <2>2, <2>4, AppendProperties
    <3>2. Len(Tail(c.todo)) = Len(c.todo) - 1
      BY <2>1, <2>2, HeadTailProperties
    <3>3. Len(c.todo) \in Nat /\ Len(c.got) \in Nat /\ Len(c.todo) + Len(c.got) = Len(c.words)
      BY <2>2, LenProperties
    <3>4. Len(Tail(c.todo)) + Len(Append(c.got, word)) = Len(c.words)
      <4> DEFINE i == Len(c.todo)
                 j == Len(c.got)
                 k == Len(Tail(c.todo))
                 l == Len(Append(c.got, word))
      <4>1. i \in Nat /\ j \in Nat /\ i + j = Len(c.words) /\ k = i - 1 /\ l = j + 1
        BY <3>1, <3>2, <3>3
      <4> HIDE DEF i, j, k, l
      <4>2. k + l = Len(c.words)
        BY <4>1
      <4> QED BY <4>2 DEF k, l
    <3> QED BY <3>1, <3>4
  <2>6. /\ Consumer(c') /\ c'.pc = "read" /\ c'.window = c.window /\ c'.search = c.search
        /\ c'.todo = Tail(c.todo) /\ c'.got = Append(c.got, word) /\ c'.words = c.words
        /\ c'.t_index = c.t_index
    BY <2>1, <2>3, <2>5 DEF ConsumerInv, Consumer, Fields
  <2>7. StepInv'
    BY <1>0, <2>2, <2>5, <2>6 DEF StepInv, Searching
  <2>8. Framed'
    BY <2>1, <2>6 DEF Framed, WindowAroundReference, InWindow
  <2> QED BY <2>6, <2>7, <2>8 DEF ConsumerInv
<1>3. CASE end_read
  <2>1. PICK e \in {"OK", "EFAULT"} : Fail(e)
    BY <1>3 DEF end_read
  <2>2. ConsumerInv' /\ c'.pc = "done"
    BY <2>1, FailStep DEF Fail, ConsumerInv, Consumer, Fields
  <2> QED BY <2>2 DEF Framed, WindowAroundReference, InWindow
<1> QED BY <1>1, <1>2, <1>3

-----------------------------------------------------------------------------
(* All the steps *)

\* What a turn of the naive walk, or the end of the binary search, makes of the
\* job.
LEMMA ReferenceStep ==
  ASSUME DOMAIN c = Fields, naive \/ binary_end
  PROVE  /\ c.pc \in {"naive", "binary"}
         /\ c'.search = c.search /\ c'.t_index = c.t_index /\ c'.t_rank = c.t_rank
         /\ c'.pc \in {"naive", "search_end", "closest_before", "done"}
         /\ c'.pc = "done" => c'.ret = "ENOENT"
<1>1. c.pc \in {"naive", "binary"}
  BY DEF naive, binary_end
<1>2. \/ \E m : Found(m)
      \/ NotFound
      \/ c.pc = "naive" /\ \E i, d : c' = [c EXCEPT !.m_index = i, !.depth = d]
  <2>1. CASE naive
    <3>1. \/ Found(c.m_index) \/ NotFound
          \/ c' = [c EXCEPT !.m_index = index_n_before(@, 1), !.depth = @ - 1]
      BY <2>1 DEF naive
    <3> QED BY <2>1, <3>1 DEF naive
  <2>2. CASE binary_end
    BY <2>2 DEF binary_end
  <2> QED BY <2>1, <2>2
<1>3. ASSUME NEW m, Found(m)
      PROVE  /\ c'.search = c.search /\ c'.t_index = c.t_index /\ c'.t_rank = c.t_rank
             /\ c'.pc \in {"search_end", "closest_before", "done"}
             /\ c'.pc = "done" => c'.ret = "ENOENT"
  <2>1. \/ \E i : c' = [c EXCEPT !.pc = "search_end", !.ref_idx = i]
        \/ c' = [c EXCEPT !.pc = "done", !.ret = "ENOENT"]
        \/ c' = [c EXCEPT !.pc = "closest_before", !.m_index = m]
    BY <1>3 DEF Found, Fail
  <2> QED BY <2>1 DEF Fields
<1>4. ASSUME NotFound
      PROVE  /\ c'.search = c.search /\ c'.t_index = c.t_index /\ c'.t_rank = c.t_rank
             /\ c'.pc \in {"search_end", "done"}
             /\ c'.pc = "done" => c'.ret = "ENOENT"
  <2>1. \/ \E i : c' = [c EXCEPT !.pc = "search_end", !.ref_idx = i]
        \/ c' = [c EXCEPT !.pc = "done", !.ret = "ENOENT"]
    BY <1>4 DEF NotFound, Fail
  <2> QED BY <2>1 DEF Fields
<1>5. CASE c.pc = "naive" /\ \E i, d : c' = [c EXCEPT !.m_index = i, !.depth = d]
  <2>1. PICK i, d : c' = [c EXCEPT !.m_index = i, !.depth = d]
    BY <1>5
  <2> QED BY <1>5, <2>1 DEF Fields
<1> QED BY <1>1, <1>2, <1>3, <1>4, <1>5

\* A consumer between two jobs, or at its search, has no window yet.
LEMMA StartFramed == ReadInit => Framed
<1> SUFFICES ASSUME ReadInit PROVE Framed
  OBVIOUS
<1>1. c.pc = "done"
  BY StartType DEF ReadInit, Consumer, Fields
<1> QED BY <1>1 DEF Framed, WindowAroundReference, InWindow

\* The steps of the search leave the consumer without a window.
LEMMA NoWindowYet ==
  ASSUME ConsumerInv,
         \/ call_find \/ find \/ search_start \/ search_top \/ max_depth
         \/ naive \/ binary \/ binary_end \/ closest_before \/ closest_after
  PROVE  Framed'
<1>1. CASE call_find
  <2>1. PICK f \in ReadApi, s \in Searches, hint \in Hints : c' = Start(f, s, hint)
    BY <1>1 DEF call_find
  <2>2. c'.pc = "find"
    BY <2>1, StartType
  <2> QED BY <2>2 DEF Framed, WindowAroundReference, InWindow
<1>2. DOMAIN c = Fields
  BY DEF ConsumerInv, Consumer
<1>3. CASE ~call_find
  <2>1. c'.pc \notin InWindow
    <3>1. CASE find \/ search_start
      BY <1>2, <3>1 DEF find, search_start, Fail, Fields, InWindow
    <3>2. CASE search_top
      BY <1>2, <3>2 DEF search_top, SearchFrom, Fields, InWindow
    <3>3. CASE max_depth
      BY <1>2, <3>3 DEF max_depth, SearchFrom, Fields, InWindow
    <3>4. CASE naive \/ binary_end
      BY <1>2, <3>4, ReferenceStep DEF InWindow
    <3>5. CASE binary \/ closest_before \/ closest_after
      BY <1>2, <3>5 DEF binary, closest_before, closest_after, Fields, InWindow
    <3> QED BY <1>3, <3>1, <3>2, <3>3, <3>4, <3>5
  <2> QED BY <2>1 DEF Framed, WindowAroundReference, InWindow
<1> QED BY <1>1, <1>3

\* Every step, of the producers or of the consumer, keeps the types, what the
\* next step counts on and the frame of the window.
LEMMA ReadStepInv ==
  ASSUME WriteInv, LastValid, ConsumerInv, Framed, [ReadNext]_<<vars, c>>
  PROVE  ConsumerInv' /\ Framed'
<1>1. CASE UNCHANGED c /\ [Next]_vars
  <2>1. ConsumerInv'
    BY <1>1, ProducerStep
  <2> QED BY <1>1, <2>1 DEF Framed, WindowAroundReference
<1>2. CASE call_find /\ UNCHANGED vars
  BY <1>2, StartSteps, NoWindowYet
<1>3. CASE Read /\ UNCHANGED vars
  <2>1. CASE find \/ search_start
    BY <1>3, <2>1, StartSteps, NoWindowYet
  <2>2. CASE \/ search_top \/ max_depth \/ naive \/ binary \/ binary_end
             \/ closest_before \/ closest_after
    BY <1>3, <2>2, SearchSteps, NoWindowYet
  <2>3. CASE search_end_index \/ search_end_writes
    BY <1>3, <2>3, EndSteps
  <2>4. CASE start_read_session \/ read_sample \/ end_read
    BY <1>3, <2>4, SessionSteps
  <2> QED BY <1>3, <2>1, <2>2, <2>3, <2>4 DEF Read
<1> QED BY <1>1, <1>2, <1>3 DEF ReadNext

\* A consumer writes nothing that the producers read or write.
LEMMA ProducersRun == ReadSpec => Spec
<1>1. ReadInit => Init
  BY DEF ReadInit
<1>2. [ReadNext]_<<vars, c>> => [Next]_vars
  BY DEF ReadNext
<1> QED BY <1>1, <1>2, PTL DEF ReadSpec, Spec

\* The invariant of the consumer holds along every job.
LEMMA ConsumerHolds == ReadSpec => [](ConsumerInv /\ Framed)
<1>1. ReadInit => ConsumerInv /\ Framed
  BY InitConsumer, StartFramed
<1>2. WriteInv /\ LastValid /\ (ConsumerInv /\ Framed) /\ [ReadNext]_<<vars, c>>
        => (ConsumerInv /\ Framed)'
  BY ReadStepInv
<1> QED BY <1>1, <1>2, ProducersRun, WriteInvHolds, LastValidHolds, PTL DEF ReadSpec

\* The locals of a read job stay in range, and what is left to read and what
\* was read make up what the session set out to read.
THEOREM ReadTypes == ReadSpec => []ReadTypeOK
<1>1. ConsumerInv => ReadTypeOK
  <2> SUFFICES ASSUME ConsumerInv PROVE ReadTypeOK
    OBVIOUS
  <2>1. Consumer(c) /\ Len(c.todo) + Len(c.got) = Len(c.words)
    BY DEF ConsumerInv, StepInv
  <2>2. {c.imin, c.imid} \subseteq 0 .. NbSamples - 1
    BY <2>1 DEF Consumer
  <2>3. /\ {c.window.start, c.window.ref, c.window.end} \subseteq Local
        /\ c.window.nb_matches \in 0 .. NbSamples \cup {-1}
    BY <2>1 DEF Consumer, Window
  <2> QED BY <2>1, <2>2, <2>3 DEF Consumer, ReadSteps, ReadTypeOK
<1> QED BY <1>1, ConsumerHolds, PTL

\* The window given to the client holds the reference sample, no more than was
\* asked for, and nothing committed after the search began.
THEOREM WindowFramed == ReadSpec => []WindowAroundReference
<1>1. Framed => WindowAroundReference
  BY DEF Framed
<1> QED BY <1>1, ConsumerHolds, PTL

-----------------------------------------------------------------------------
(* The margin of SHD_OLDEST *)

\* The reference of SHD_OLDEST is chosen once, after t_index.
Margin ==
  /\ c.search.method = "OLDEST" /\ c.ref_idx # -1 => c.ref_idx # index_next(c.t_index)
  /\ c.pc \in {"find", "search_start", "search_top", "max_depth"} => c.ref_idx = -1

\* The sample chosen among d is never the next slot written.
LEMMA OldestSpared ==
  ASSUME NbSamples > 1, c.t_index \in Slots, NEW d \in 1 .. NbSamples
  PROVE  oldest(d) # index_next(c.t_index)
<1>1. /\ NbSamples \in Nat /\ c.t_index \in 0 .. NbSamples - 1
      /\ d - 1 \in 0 .. NbSamples - 1 /\ 1 \in 0 .. NbSamples - 1
  BY NbSamplesAssumption DEF Slots
<1>2. index_next(c.t_index) = IF c.t_index = NbSamples - 1 THEN 0 ELSE c.t_index + 1
  BY IndexNext
<1>3. CASE d = NbSamples
  <2>1. oldest(d) = (c.t_index + 2) % NbSamples
    BY <1>3 DEF oldest, index_n_after
  <2>2. CASE NbSamples > 2
    <3>1. 2 \in 0 .. NbSamples - 1
      BY <1>1, <2>2
    <3>2. oldest(d) = IF c.t_index + 2 < NbSamples THEN c.t_index + 2
                                                   ELSE c.t_index + 2 - NbSamples
      BY <1>3, <3>1, Offsets DEF oldest
    <3> QED BY <1>1, <1>2, <2>2, <3>2
  <2>3. CASE NbSamples = 2
    <3>1. c.t_index = 0 \/ c.t_index = 1
      BY <1>1, <2>3
    <3>2. (c.t_index + 2) % 2 = c.t_index
      BY <3>1
    <3> QED BY <1>2, <2>1, <2>3, <3>1, <3>2
  <2> QED BY <1>1, <2>2, <2>3
<1>4. CASE d # NbSamples
  <2>1. oldest(d) = IF d - 1 <= c.t_index THEN c.t_index - (d - 1)
                                          ELSE c.t_index + NbSamples - (d - 1)
    BY <1>1, <1>4, Offsets DEF oldest
  <2> QED BY <1>1, <1>2, <1>4, <2>1
<1> QED BY <1>3, <1>4

\* The steps of the consumer keep the margin.
LEMMA MarginKept ==
  ASSUME NbSamples > 1, WriteInv, ConsumerInv, Margin, Read
  PROVE  Margin'
<1>0. DOMAIN c = Fields
  BY DEF ConsumerInv, Consumer
<1>1. CASE find \/ search_start
  BY <1>0, <1>1 DEF find, search_start, Fail, Margin, Fields
<1>2. ASSUME NEW from, NEW d \in 1 .. NbSamples, from = SearchFrom(d),
             c.pc \in {"search_top", "max_depth"}
      PROVE  /\ from.search = c.search /\ from.t_index = c.t_index
             /\ from.search.method = "OLDEST" => from.ref_idx # index_next(from.t_index)
             /\ from.pc \notin {"find", "search_start", "search_top", "max_depth"}
             /\ from.search.method # "OLDEST" => from.ref_idx = c.ref_idx
             /\ DOMAIN from = Fields
  <2>1. oldest(d) # index_next(c.t_index)
    BY <1>2, OldestSpared DEF ConsumerInv, StepInv, Searching
  <2> QED BY <1>0, <1>2, <2>1 DEF SearchFrom, Fields
<1>3. CASE search_top
  <2>1. c.pc = "search_top" /\ NbSamples \in 1 .. NbSamples
    BY <1>3, NbSamplesAssumption DEF search_top
  <2>2. CASE /\ c.search.method # "LATEST"
             /\ c' = [SearchFrom(NbSamples) EXCEPT !.nb_writes_top = nb_writes[c.t_index]]
    <3> DEFINE from == SearchFrom(NbSamples)
    <3>1. /\ from.search = c.search /\ from.t_index = c.t_index
          /\ from.search.method = "OLDEST" => from.ref_idx # index_next(from.t_index)
          /\ from.pc \notin {"find", "search_start", "search_top", "max_depth"}
          /\ DOMAIN from = Fields
      BY <1>2, <2>1
    <3> HIDE DEF from
    <3>2. /\ c'.search = from.search /\ c'.t_index = from.t_index
          /\ c'.ref_idx = from.ref_idx /\ c'.pc = from.pc
      BY <2>2, <3>1 DEF from, Fields
    <3> QED BY <3>1, <3>2 DEF Margin
  <2>3. CASE /\ c.search.method # "LATEST"
             /\ c' = [[c EXCEPT !.pc = "max_depth"] EXCEPT
                        !.nb_writes_top = nb_writes[c.t_index]]
    <3>1. c'.ref_idx = c.ref_idx /\ c'.search = c.search /\ c'.t_index = c.t_index
      BY <1>0, <2>3 DEF Fields
    <3> QED BY <2>1, <3>1 DEF Margin
  <2>4. CASE /\ c.search.method = "LATEST"
             /\ c' = [[c EXCEPT !.pc = "search_end", !.ref_idx = c.t_index] EXCEPT
                        !.nb_writes_top = nb_writes[c.t_index]]
    <3>1. c'.pc = "search_end" /\ c'.search = c.search
      BY <1>0, <2>4 DEF Fields
    <3> QED BY <2>4, <3>1 DEF Margin
  <2> QED BY <1>3, <2>2, <2>3, <2>4 DEF search_top
<1>4. CASE max_depth
  <2> DEFINE valid == nb_writes[index_n_before(c.t_index, c.depth)] # -1
             d     == IF valid THEN c.depth + 1 ELSE c.depth
  <2>1. /\ c.pc = "max_depth"
        /\ c' = [c EXCEPT !.depth = d] \/ c' = SearchFrom(d)
    BY <1>4 DEF max_depth
  <2>2. CASE c' = [c EXCEPT !.depth = d]
    <3>1. c'.pc = c.pc /\ c'.ref_idx = c.ref_idx
      BY <1>0, <2>2 DEF Fields
    <3> QED BY <2>1, <3>1 DEF Margin
  <2>3. CASE c' = SearchFrom(d)
    <3>1. d \in 1 .. NbSamples
      <4>1. c.t_index \in Slots /\ nb_writes[c.t_index] # -1 /\ c.depth < NbSamples
            /\ c.depth \in 0 .. NbSamples
        BY <2>1 DEF ConsumerInv, Consumer, StepInv, Searching
      <4>2. c.depth = 0 => valid
        <5>1. 0 \in 0 .. NbSamples - 1 /\ c.t_index \in 0 .. NbSamples - 1
          BY <4>1, NbSamplesAssumption DEF Slots
        <5>2. index_n_before(c.t_index, 0) = c.t_index
          BY <4>1, <5>1, Offsets
        <5> QED BY <4>1, <5>2
      <4> HIDE DEF valid
      <4> QED BY <4>1, <4>2, NbSamplesAssumption
    <3> HIDE DEF d
    <3>2. /\ c'.search.method = "OLDEST" => c'.ref_idx # index_next(c'.t_index)
          /\ c'.pc \notin {"find", "search_start", "search_top", "max_depth"}
      BY <1>2, <2>1, <2>3, <3>1
    <3> QED BY <3>2 DEF Margin
  <2> QED BY <2>1, <2>2, <2>3
<1>5. CASE naive \/ binary_end
  <2>1. c.search.method # "OLDEST" /\ c.pc \in {"naive", "binary"}
    BY <1>5 DEF naive, binary_end, ConsumerInv, StepInv
  <2>2. c'.search = c.search /\ c'.pc \notin {"find", "search_start", "search_top", "max_depth"}
    BY <1>0, <1>5, ReferenceStep
  <2> QED BY <2>1, <2>2 DEF Margin
<1>6. CASE binary \/ closest_before \/ closest_after
  <2>1. c.search.method # "OLDEST"
    BY <1>6 DEF binary, closest_before, closest_after, ConsumerInv, StepInv
  <2>2. c'.search = c.search
    BY <1>0, <1>6 DEF binary, closest_before, closest_after, Fields
  <2>3. c'.pc \notin {"find", "search_start", "search_top", "max_depth"}
    BY <1>0, <1>6 DEF binary, closest_before, closest_after, Fields
  <2> QED BY <2>1, <2>2, <2>3 DEF Margin
<1>7. CASE \/ search_end_index \/ search_end_writes
           \/ start_read_session \/ read_sample \/ end_read
  <2>1. /\ c'.search = c.search /\ c'.t_index = c.t_index /\ c'.ref_idx = c.ref_idx
        /\ c'.pc \notin {"find", "search_start", "search_top", "max_depth"}
    <3>1. CASE search_end_index
      BY <1>0, <3>1 DEF search_end_index, Fields
    <3>5. CASE search_end_writes
      <4>1. \/ c' = [c EXCEPT !.pc = "done", !.ret = "EFAULT"]
            \/ \E w : c' = [c EXCEPT !.pc = "start_read", !.window = w]
        BY <3>5 DEF search_end_writes, Fail
      <4> QED BY <1>0, <4>1 DEF Fields
    <3>2. CASE start_read_session
      BY <1>0, <3>2 DEF start_read_session, Fields
    <3>3. CASE read_sample
      BY <1>0, <3>3 DEF read_sample, Fields
    <3>4. CASE end_read
      BY <1>0, <3>4 DEF end_read, Fail, Fields
    <3> QED BY <1>7, <3>1, <3>2, <3>3, <3>4, <3>5
  <2> QED BY <2>1 DEF Margin
<1> QED BY <1>1, <1>3, <1>4, <1>5, <1>6, <1>7 DEF Read

\* On a ring of more than one slot, SHD_OLDEST never gives the slot that the
\* next write overwrites.
THEOREM OldestIsSpared ==
  ASSUME NbSamples > 1 PROVE ReadSpec => []OldestHasMargin
<1>1. ReadInit => Margin
  <2> SUFFICES ASSUME ReadInit PROVE Margin
    OBVIOUS
  <2> DEFINE job == Start("shd_select_samples", AnySearch, "NAIVE")
  <2>1. Consumer(job) /\ job.ref_idx = -1
    BY StartType
  <2> HIDE DEF job
  <2>2. c = [job EXCEPT !.pc = "done"]
    BY DEF ReadInit, job
  <2>3. c.pc = "done" /\ c.ref_idx = -1
    BY <2>1, <2>2 DEF Consumer, Fields
  <2> QED BY <2>3 DEF Margin
<1>2. ASSUME WriteInv, ConsumerInv, Margin, [ReadNext]_<<vars, c>> PROVE Margin'
  <2>1. CASE UNCHANGED c
    BY <1>2, <2>1 DEF Margin
  <2>2. CASE call_find
    <3>1. PICK f \in ReadApi, s \in Searches, hint \in Hints : c' = Start(f, s, hint)
      BY <2>2 DEF call_find
    <3>2. c'.ref_idx = -1
      BY <3>1, StartType
    <3> QED BY <3>2 DEF Margin
  <2>3. CASE Read
    BY <1>2, <2>3, MarginKept
  <2> QED BY <1>2, <2>1, <2>2, <2>3 DEF ReadNext
<1>3. Margin => OldestHasMargin
  BY DEF Margin, OldestHasMargin
<1>4. WriteInv /\ (ConsumerInv /\ Framed) /\ Margin /\ [ReadNext]_<<vars, c>> => Margin'
  BY <1>2
<1> QED BY <1>1, <1>3, <1>4, ProducersRun, WriteInvHolds, ConsumerHolds, PTL DEF ReadSpec

-----------------------------------------------------------------------------
(* A window no one has begun to overwrite *)

\* The slots of an intact window lie between the one written next and the
\* latest, the first of them furthest from it.
LEMMA InTheWindow ==
  ASSUME write_index \in Slots, NEW w, w.start \in Slots, w.nb_matches \in 1 .. NbSamples,
         Intact(w), NEW i \in 1 .. w.nb_matches
  PROVE  LET age == interval_between(index_next(write_index), w.start) IN
         /\ slot_of(w, i) \in Slots
         /\ interval_between(index_next(write_index), slot_of(w, i)) = age + i - 1
         /\ interval_between(slot_of(w, i), write_index) = NbSamples - age - i
         /\ slot_of(w, i) = index_next(write_index) => age = 0
<1> DEFINE age == interval_between(index_next(write_index), w.start)
           s   == slot_of(w, i)
<1>1. index_next(write_index) \in Slots /\ NbSamples \in Nat \ {0}
  BY IndexNext, NbSamplesAssumption
<1>2. age \in 0 .. NbSamples - 1 /\ age + w.nb_matches <= NbSamples
  BY <1>1, Intervals DEF Intact
<1>3. i - 1 \in 0 .. NbSamples - 1 /\ w.start \in Int
  BY <1>1 DEF Slots
<1>4. s \in Slots /\ interval_between(w.start, s) = i - 1
  BY <1>3, Circular, Back DEF slot_of
<1>5. age + (i - 1) <= NbSamples - 1
  BY <1>1, <1>2, <1>3
<1> HIDE DEF s
<1>6. interval_between(index_next(write_index), s) = age + (i - 1)
  BY <1>1, <1>4, <1>5, Along
<1>7. /\ interval_between(index_next(write_index), s) + interval_between(s, write_index)
           = NbSamples - 1
      /\ interval_between(s, write_index) \in 0 .. NbSamples - 1
  BY <1>4, Intervals
<1>8. s = index_next(write_index) => interval_between(index_next(write_index), s) = 0
  BY <1>1 DEF interval_between, Slots
<1> QED BY <1>1, <1>2, <1>3, <1>4, <1>6, <1>7, <1>8 DEF s

\* A store is that of a producer that writes.
LEMMA StoreIsWriting ==
  ASSUME WriteInv, [Next]_vars, samples' # samples
  PROVE  \E p \in Producers : Writing(p)
<1>1. PICK p \in Producers : write_metadata(p) \/ write_quantity(p)
  BY DEF Next, Proceed, ClientsDone, vars, shared, start_write_session,
         get_next_write_index, invalidate, take_index, commit, release, out_of_sequence
<1>2. index[p] # -1 /\ pc[p] # "release"
  BY <1>1 DEF write_metadata, write_quantity, Reaches, WriteInv, OneSlotPerWrite, Passed
<1> QED BY <1>2 DEF Writing

\* As long as the counter of its first slot stands still, a window stays
\* intact and so does what its slots hold: the producers enter it by its first
\* slot, and count before they write.
LEMMA IntactKept ==
  ASSUME WriteInv, [Next]_vars, write_index \in Slots,
         NEW w, w.start \in Slots, w.nb_matches \in 1 .. NbSamples, Intact(w),
         nb_writes'[w.start] = nb_writes[w.start]
  PROVE  /\ Intact(w)'
         /\ \A i \in 1 .. w.nb_matches : samples'[slot_of(w, i)] = samples[slot_of(w, i)]
<1>0. TypeOK /\ TypeOK' /\ NbSamples \in Nat \ {0}
  BY NextTypeOK, NbSamplesAssumption DEF WriteInv
<1> DEFINE next == index_next(write_index)
           age  == interval_between(next, w.start)
<1>1. /\ next \in Slots /\ age \in 0 .. NbSamples - 1 /\ age + w.nb_matches <= NbSamples
      /\ nb_writes[w.start] # -1 /\ (age = 0 => \A p \in Producers : ~Writing(p))
  <2>1. next \in Slots
    BY IndexNext
  <2> QED BY <2>1, Intervals DEF Intact
<1>2. ASSUME NEW i \in 1 .. w.nb_matches
      PROVE  samples'[slot_of(w, i)] = samples[slot_of(w, i)]
  <2>1. slot_of(w, i) \in Slots /\ (slot_of(w, i) = next => age = 0)
    BY <1>2, InTheWindow
  <2>2. CASE samples'[slot_of(w, i)] # samples[slot_of(w, i)]
    <3>1. slot_of(w, i) = next
      BY <2>1, <2>2, StoreNext
    <3>2. \E p \in Producers : Writing(p)
      BY <2>2, StoreIsWriting
    <3> QED BY <1>1, <2>1, <3>1, <3>2
  <2> QED BY <2>2
<1>3. age = 0 => next = w.start
  BY <1>1, NbSamplesAssumption DEF interval_between, Slots
<1>4. ASSUME NEW p \in Producers, commit(p) PROVE Intact(w)'
  <2>1. /\ pc' = [pc EXCEPT ![p] = "release"] /\ write_index' = index[p] /\ index[p] # -1
        /\ UNCHANGED index /\ pc[p] # "release"
    BY <1>4 DEF commit, Goto, ctx, Reaches
  <2>2. Writing(p) /\ Holds(p)
    BY <2>1 DEF Writing, Holds
  <2>3. write_index' = next /\ \A q \in Producers : Holds(q) <=> q = p
    BY <2>1, <2>2, OneWriting DEF WriteInv, OneSlotPerWrite
  <2>4. \A q \in Producers : ~Writing(q)'
    BY <1>0, <2>1, <2>3 DEF TypeOK, Writing, Holds, Starts
  <2>5. age > 0
    BY <1>1, <2>2
  <2>6. interval_between(index_next(next), w.start) = age - 1
    <3> HIDE DEF next
    <3>1. index_next(next) = IF next = NbSamples - 1 THEN 0 ELSE next + 1
      BY <1>1, IndexNext
    <3> QED BY <1>0, <1>1, <2>5, <3>1 DEF interval_between, Slots
  <2> HIDE DEF next, age
  <2> QED BY <1>0, <1>1, <2>3, <2>4, <2>5, <2>6 DEF Intact
<1>5. CASE UNCHANGED write_index
  <2>1. ASSUME age = 0, NEW p \in Producers, Writing(p)' PROVE FALSE
    <3>1. ~Writing(p) /\ \A q \in Producers : ~Writing(q)
      BY <1>1, <2>1
    <3>2. invalidate(p)
      <4>1. \A q \in Producers : ~commit(q)
        BY <3>1 DEF commit, Reaches, Writing
      <4>2. ASSUME NEW q \in Producers,
                   \/ start_write_session(q) \/ get_next_write_index(q) \/ out_of_sequence(q)
            PROVE  Writing(p)' => Writing(p)
        BY <1>0, <4>2 DEF start_write_session, GrantSession, RefuseSession,
             get_next_write_index, out_of_sequence, Goto, Return, ctx, shared, Writing, TypeOK
      <4>3. ASSUME NEW q \in Producers,
                   take_index(q) \/ write_metadata(q) \/ write_quantity(q)
            PROVE  FALSE
        <5>1. Writing(q)
          BY <4>3 DEF take_index, write_metadata, write_quantity, Reaches, Writing,
                      WriteInv, OneSlotPerWrite, Passed
        <5> QED BY <3>1, <5>1
      <4>4. ASSUME NEW q \in Producers, release(q) PROVE Writing(p)' => Writing(p)
        BY <1>0, <4>4 DEF release, Return, Writing, TypeOK
      <4>5. ASSUME NEW q \in Producers, invalidate(q), q # p PROVE Writing(p)' => Writing(p)
        BY <1>0, <4>5 DEF invalidate, Goto, ctx, Writing, TypeOK
      <4>6. UNCHANGED vars => (Writing(p)' => Writing(p))
        BY DEF vars, ctx, local, Writing
      <4> QED BY <2>1, <3>1, <4>1, <4>2, <4>3, <4>4, <4>5, <4>6
              DEF Next, Proceed, ClientsDone
    <3>3. nb_writes' = [nb_writes EXCEPT ![w.start] = @ + 1]
      BY <1>3, <2>1, <3>2 DEF invalidate, WriteInv, OneSlotPerWrite
    <3> QED BY <1>0, <1>1, <3>3 DEF TypeOK
  <2>2. age = 0 => \A p \in Producers : ~(Writing(p)')
    BY <2>1
  <2>3. interval_between(index_next(write_index'), w.start) = age
    BY <1>5
  <2> HIDE DEF age, next
  <2>4. nb_writes'[w.start] # -1 /\ age + w.nb_matches <= NbSamples
    BY <1>1
  <2> QED BY <1>2, <2>2, <2>3, <2>4 DEF Intact
<1>6. (\E p \in Producers : commit(p)) \/ UNCHANGED write_index
  BY DEF Next, Proceed, ClientsDone, vars, shared, start_write_session,
         get_next_write_index, take_index, write_metadata, write_quantity, invalidate,
         release, out_of_sequence
<1> QED BY <1>2, <1>4, <1>5, <1>6

\* The samples of an intact window are whole, and one rank apart.
LEMMA RanksInTheWindow ==
  ASSUME RankInv, write_index \in Slots, NEW w, w.start \in Slots,
         w.nb_matches \in 1 .. NbSamples, Intact(w), NEW i \in 1 .. w.nb_matches
  PROVE  LET age == interval_between(index_next(write_index), w.start) IN
         /\ samples[slot_of(w, i)].metadata = Committed - (NbSamples - age - i)
         /\ samples[slot_of(w, i)].blob = samples[slot_of(w, i)].metadata
<1> DEFINE age == interval_between(index_next(write_index), w.start)
<1>1. /\ age \in Int /\ NbSamples \in Nat \ {0} /\ nb_writes[w.start] # -1
      /\ age = 0 => \A p \in Producers : ~Writing(p)
  <2>1. index_next(write_index) \in Slots
    BY IndexNext
  <2> QED BY <2>1, Intervals, NbSamplesAssumption DEF Intact
<1>2. ASSUME NEW j \in 1 .. w.nb_matches
      PROVE  /\ slot_of(w, j) \in Slots
             /\ interval_between(slot_of(w, j), write_index) = NbSamples - age - j
             /\ slot_of(w, j) = index_next(write_index) => age = 0
  BY <1>2, InTheWindow
<1>3. slot_of(w, 1) = w.start /\ 1 \in 1 .. w.nb_matches
  <2>1. 0 \in 0 .. NbSamples - 1 /\ w.start \in 0 .. NbSamples - 1
    BY <1>1 DEF Slots
  <2>2. index_n_after(w.start, 0) = w.start
    BY <1>1, <2>1, Offsets
  <2> QED BY <2>2 DEF slot_of
<1>4. Whole(w.start)
  BY <1>1, <1>2, <1>3 DEF Whole
<1>5. interval_between(slot_of(w, i), write_index) <= interval_between(w.start, write_index)
  <2>1. interval_between(slot_of(w, 1), write_index) = NbSamples - age - 1
    BY <1>2, <1>3
  <2> HIDE DEF age
  <2> QED BY <1>1, <1>2, <1>3, <2>1
<1>6. slot_of(w, i) \in Slots /\ nb_writes[slot_of(w, i)] # -1
  <2>1. slot_of(w, i) \in Slots
    BY <1>2
  <2> QED BY <1>4, <1>5, <2>1 DEF RankInv
<1>7. Whole(slot_of(w, i))
  BY <1>1, <1>2, <1>6 DEF Whole
<1> QED BY <1>2, <1>6, <1>7 DEF RankInv

\* The reference sample is as far in its window as it is from the start.
LEMMA ReferenceSlot ==
  ASSUME NEW w, w.start \in Slots, w.ref \in Slots
  PROVE  w.ref = slot_of(w, interval_between(w.start, w.ref) + 1)
<1>1. ASSUME NEW b \in 0 .. NbSamples - 1, NEW i, i = b + 1
      PROVE  slot_of(w, i) = index_n_after(w.start, b)
  <2>1. i - 1 = b
    BY <1>1, NbSamplesAssumption
  <2> QED BY <2>1 DEF slot_of
<1>2. interval_between(w.start, w.ref) \in 0 .. NbSamples - 1
  BY Intervals
<1>3. ASSUME NEW b \in 0 .. NbSamples - 1, b = interval_between(w.start, w.ref)
      PROVE  index_n_after(w.start, b) = w.ref
  <2>1. index_n_after(w.start, b) = IF w.start + b < NbSamples THEN w.start + b
                                                              ELSE w.start + b - NbSamples
    BY Offsets
  <2> QED BY <1>3, <2>1, NbSamplesAssumption DEF interval_between, Slots
<1> QED BY <1>1, <1>2, <1>3

\* The words of a session are those of the slots of its window, the reference
\* being one of them.
LEMMA WordSlots ==
  ASSUME ConsumerInv, Framed, c.pc \in InWindow
  PROVE  LET w == c.window IN
         /\ \E j \in 1 .. w.nb_matches : w.ref = slot_of(w, j)
         /\ \A i \in 1 .. Len(Words(w)) :
              \E j \in 1 .. w.nb_matches : Words(w)[i][1] = slot_of(w, j)
<1> DEFINE w == c.window
           n == w.nb_matches
           b == interval_between(w.start, w.ref)
<1>1. {w.start, w.ref, w.end} \subseteq Slots /\ NbSamples \in Nat \ {0}
  BY NbSamplesAssumption DEF Framed
<1>2. b \in 0 .. NbSamples - 1 /\ interval_between(w.ref, w.end) \in Nat
  BY <1>1, Intervals
<1>3. n \in 1 .. NbSamples /\ n = b + interval_between(w.ref, w.end) + 1
  BY WordsOf DEF Framed, WindowAroundReference, InWindow
<1>5. b + 1 \in 1 .. n
  <2> HIDE DEF b, n
  <2> QED BY <1>2, <1>3
<1>6. w.ref = slot_of(w, b + 1)
  BY <1>1, ReferenceSlot
<1>7. ASSUME NEW i \in 1 .. Len(Words(w))
      PROVE  \E j \in 1 .. n : Words(w)[i][1] = slot_of(w, j)
  <2>1. CASE c.api = "shd_select_samples"
    <3>1. /\ Len(Words(w)) = 2 * n
          /\ \A j \in 1 .. n : /\ Words(w)[j] = <<slot_of(w, j), "metadata">>
                                /\ Words(w)[n + j] = <<slot_of(w, j), "blob">>
      BY <2>1, WordsOf
    <3> HIDE DEF n, w
    <3>2. CASE i <= n
      BY <1>3, <3>1, <3>2
    <3>3. CASE ~(i <= n)
      <4>1. i - n \in 1 .. n /\ n + (i - n) = i
        BY <1>3, <1>7, <3>1, <3>3
      <4>2. Words(w)[i] = <<slot_of(w, i - n), "blob">>
        BY <3>1, <4>1
      <4> QED BY <4>1, <4>2
    <3> QED BY <3>2, <3>3
  <2>2. CASE c.api # "shd_select_samples"
    <3>1. Words(w) = <<<<w.ref, "blob">>, <<w.ref, "metadata">>>>
      BY <2>2, WordsOf
    <3>2. i = 1 \/ i = 2
      BY <1>7, <3>1
    <3>3. Words(w)[i][1] = w.ref
      BY <3>1, <3>2
    <3> QED BY <1>5, <1>6, <3>3
  <2> QED BY <2>1, <2>2
<1> QED BY <1>5, <1>6, <1>7

\* What an intact window holds is consecutive.
LEMMA StartConsecutive ==
  ASSUME RankInv, ConsumerInv, Framed, c.pc = "start_read", TypeOK, Intact(c.window),
         NEW words, words = [i \in DOMAIN Words(c.window) |->
                               samples[Words(c.window)[i][1]][Words(c.window)[i][2]]]
  PROVE  Consecutive(words)
<1> DEFINE w   == c.window
           n   == w.nb_matches
           age == interval_between(index_next(write_index), w.start)
<1>1. /\ write_index \in Slots /\ NbSamples \in Nat \ {0} /\ w.start \in Slots
      /\ n \in 1 .. NbSamples
  BY NbSamplesAssumption, WordsOf DEF ConsumerInv, StepInv, TypeOK, Framed, InWindow
<1>2. age \in Int /\ Committed \in Int
  <2>1. index_next(write_index) \in Slots
    BY <1>1, IndexNext
  <2> QED BY <1>1, <2>1, Intervals DEF Committed, TypeOK
<1>3. \A i \in 1 .. n :
        /\ samples[slot_of(w, i)].metadata = Committed - (NbSamples - age - i)
        /\ samples[slot_of(w, i)].blob = samples[slot_of(w, i)].metadata
  BY <1>1, RanksInTheWindow
<1>4. DOMAIN Words(w) = 1 .. Len(Words(w))
  BY WordsOf, LenProperties DEF InWindow
<1>5. CASE c.api = "shd_select_samples"
  <2>1. /\ Len(Words(w)) = 2 * n
        /\ \A i \in 1 .. n : /\ Words(w)[i] = <<slot_of(w, i), "metadata">>
                              /\ Words(w)[n + i] = <<slot_of(w, i), "blob">>
    BY <1>5, WordsOf DEF InWindow
  <2> HIDE DEF w, n, age
  <2>2. ASSUME NEW i \in 1 .. n
        PROVE  /\ words[i] = Committed - (NbSamples - age - i)
               /\ words[n + i] = words[i]
    <3>1. i \in 1 .. 2 * n /\ n + i \in 1 .. 2 * n
      BY <1>1
    <3>2. /\ words[i] = samples[slot_of(w, i)].metadata
          /\ words[n + i] = samples[slot_of(w, i)].blob
      BY <1>4, <2>1, <3>1 DEF w
    <3> QED BY <1>3, <3>2
  <2>3. 1 \in 1 .. n
    BY <1>1
  <2>4. ASSUME NEW i \in 1 .. n PROVE words[i] = words[1] + i - 1 /\ words[n + i] = words[i]
    <3>1. words[1] = Committed - (NbSamples - age - 1)
      BY <2>2, <2>3
    <3>2. words[i] = Committed - (NbSamples - age - i) /\ words[n + i] = words[i]
      BY <2>2
    <3>3. NbSamples \in Int /\ n \in Int /\ i \in Int
      BY <1>1
    <3>4. Committed - (NbSamples - age - i) = Committed - (NbSamples - age - 1) + i - 1
      BY <1>2, <3>3
    <3> QED BY <3>1, <3>2, <3>4
  <2> QED BY <1>5, <2>4 DEF Consecutive, n, w
<1>6. CASE c.api # "shd_select_samples"
  <2>1. Words(w) = <<<<w.ref, "blob">>, <<w.ref, "metadata">>>>
    BY <1>6, WordsOf DEF InWindow
  <2>2. words[1] = samples[w.ref].blob /\ words[2] = samples[w.ref].metadata
    BY <2>1
  <2>3. PICK j \in 1 .. n : w.ref = slot_of(w, j)
    BY WordSlots DEF InWindow
  <2> QED BY <1>3, <1>6, <2>2, <2>3 DEF Consecutive
<1> QED BY <1>5, <1>6

-----------------------------------------------------------------------------
(* The validity check of shd_end_read *)

\* A validated copy is that of the window as it was.
CopiesTheWindow == Validated /\ c.intact => c.got = c.words

\* What a read session is after: it goes through the words of its window, and
\* as long as the counter it noted stands still, in a window that was intact,
\* the memory holds what it held and so does what was read of it.
Faithful ==
  /\ c.pc = "read" =>
       LET W == Words(c.window) start == c.window.start IN
       /\ Len(c.words) = Len(W)
       /\ \A i \in 1 .. Len(c.todo) : c.todo[i] = W[Len(c.got) + i]
       /\ c.nb_writes <= nb_writes[start]
       /\ c.intact /\ nb_writes[start] = c.nb_writes =>
            /\ Intact(c.window)
            /\ \A i \in 1 .. Len(W) : samples[W[i][1]][W[i][2]] = c.words[i]
            /\ \A i \in 1 .. Len(c.got) : c.got[i] = c.words[i]
  /\ CopiesTheWindow

\* The producers disturb a session only by moving the counter it noted.
LEMMA FaithfulProducers ==
  ASSUME WriteInv, ConsumerInv, Framed, Faithful, [Next]_vars, UNCHANGED c
  PROVE  Faithful'
<1>0. TypeOK /\ TypeOK'
  BY NextTypeOK DEF WriteInv
<1>1. CopiesTheWindow'
  BY DEF Faithful, CopiesTheWindow, Validated
<1>2. CASE c.pc # "read"
  BY <1>1, <1>2 DEF Faithful
<1>3. CASE c.pc = "read"
  <2>1. PICK w : w = c.window
    OBVIOUS
  <2>2. PICK W : W = Words(c.window)
    OBVIOUS
  <2>3. /\ write_index \in Slots /\ w.start \in Slots /\ w.nb_matches \in 1 .. NbSamples
        /\ W \in Seq(Slots \X Word) /\ c.nb_writes \in Nat \cup {-1}
    BY <1>0, <1>3, <2>1, <2>2, WordsOf
    DEF ConsumerInv, Consumer, StepInv, TypeOK, Framed, InWindow
  <2>4. \A i \in 1 .. Len(W) : \E j \in 1 .. w.nb_matches : W[i][1] = slot_of(w, j)
    BY <1>3, <2>1, <2>2, WordSlots DEF InWindow
  <2>5. /\ Len(c.words) = Len(W)
        /\ \A i \in 1 .. Len(c.todo) : c.todo[i] = W[Len(c.got) + i]
        /\ c.nb_writes <= nb_writes[w.start]
        /\ c.intact /\ nb_writes[w.start] = c.nb_writes =>
             /\ Intact(w)
             /\ \A i \in 1 .. Len(W) : samples[W[i][1]][W[i][2]] = c.words[i]
             /\ \A i \in 1 .. Len(c.got) : c.got[i] = c.words[i]
    BY <1>3, <2>1, <2>2 DEF Faithful
  <2>6. c.nb_writes <= nb_writes'[w.start]
        /\ (nb_writes'[w.start] = c.nb_writes => nb_writes[w.start] = c.nb_writes)
    <3>1. nb_writes[w.start] <= nb_writes'[w.start]
      BY <2>3, Growing
    <3>2. nb_writes[w.start] \in Int /\ nb_writes'[w.start] \in Int /\ c.nb_writes \in Int
      BY <1>0, <2>3 DEF TypeOK
    <3> QED BY <2>5, <3>1, <3>2
  <2>7. ASSUME c.intact, nb_writes'[w.start] = c.nb_writes
        PROVE  /\ Intact(w)'
               /\ \A i \in 1 .. Len(W) : samples'[W[i][1]][W[i][2]] = c.words[i]
               /\ \A i \in 1 .. Len(c.got) : c.got[i] = c.words[i]
    <3>1. /\ Intact(w) /\ nb_writes'[w.start] = nb_writes[w.start]
          /\ \A i \in 1 .. Len(W) : samples[W[i][1]][W[i][2]] = c.words[i]
          /\ \A i \in 1 .. Len(c.got) : c.got[i] = c.words[i]
      BY <2>5, <2>6, <2>7
    <3>2. /\ Intact(w)'
          /\ \A i \in 1 .. w.nb_matches : samples'[slot_of(w, i)] = samples[slot_of(w, i)]
      BY <2>3, <3>1, IntactKept
    <3>3. \A i \in 1 .. Len(W) : samples'[W[i][1]] = samples[W[i][1]]
      BY <2>4, <3>2
    <3> QED BY <3>1, <3>2, <3>3
  <2>8. w = c'.window /\ W = Words(c.window)' /\ (Intact(c.window)' <=> Intact(w)')
    <3>1. w = c'.window
      BY <2>1
    <3>2. Words(c.window)' = Words(c.window)
      BY DEF Words
    <3>3. Intact(c.window)' <=> Intact(w)'
      BY <3>1 DEF Intact
    <3> QED BY <2>2, <3>1, <3>2, <3>3
  <2> QED BY <1>1, <2>5, <2>6, <2>7, <2>8 DEF Faithful
<1> QED BY <1>2, <1>3

\* A session begins with its whole window ahead of it.
LEMMA FaithfulStart ==
  ASSUME WriteInv, ConsumerInv, Framed, UNCHANGED vars, start_read_session
  PROVE  Faithful'
<1> DEFINE W     == Words(c.window)
           start == c.window.start
           words == [i \in DOMAIN W |-> samples[W[i][1]][W[i][2]]]
<1>0. TypeOK /\ UNCHANGED <<write_index, nb_writes, samples>>
  BY DEF WriteInv, vars, shared
<1>1. /\ c.pc = "start_read" /\ c.got = <<>> /\ DOMAIN c = Fields
      /\ c' = [c EXCEPT !.pc = "read", !.nb_writes = nb_writes[start], !.todo = W,
                        !.intact = Intact(c.window), !.words = words]
  BY DEF start_read_session, wstart, ConsumerInv, Consumer, StepInv
<1>2. start \in Slots /\ W \in Seq(Slots \X Word)
  BY <1>1, WordsOf DEF Framed, InWindow
<1>3. DOMAIN W = 1 .. Len(W) /\ Len(W) \in Nat
  BY <1>2, LenProperties
<1>5. Len(words) = Len(W) /\ \A i \in 1 .. Len(W) : words[i] = samples[W[i][1]][W[i][2]]
  <2> HIDE DEF W
  <2> QED BY <1>3
<1> HIDE DEF W, words, start
<1>6. /\ c'.pc = "read" /\ c'.nb_writes = nb_writes[start] /\ c'.todo = W
      /\ c'.intact = Intact(c.window) /\ c'.words = words /\ c'.got = <<>>
      /\ c'.window = c.window /\ c'.api = c.api
  BY <1>1 DEF Fields
<1>7. Words(c.window)' = W /\ c'.window.start = start
  BY <1>6 DEF W, start, Words
<1>8. Intact(c.window)' <=> Intact(c.window)
  <2>1. \A q \in Producers : Writing(q)' <=> Writing(q)
    BY DEF vars, ctx, local, Writing
  <2> QED BY <1>0, <1>6, <2>1 DEF Intact
<1>9. \A i \in 1 .. Len(c'.todo) : c'.todo[i] = W[Len(c'.got) + i]
  BY <1>3, <1>6
<1>10. nb_writes'[start] = nb_writes[start] /\ nb_writes[start] <= nb_writes[start]
  <2>1. nb_writes'[start] = nb_writes[start] /\ start \in Slots
    BY <1>0, <1>2
  <2>2. nb_writes[start] \in Int
    BY <1>0, <2>1 DEF TypeOK
  <2> QED BY <2>1, <2>2
<1>11. \A i \in 1 .. Len(c'.got) : c'.got[i] = c'.words[i]
  BY <1>6
<1>12. CopiesTheWindow'
  BY <1>6 DEF CopiesTheWindow, Validated
<1>13. \A i \in 1 .. Len(W) : samples'[W[i][1]][W[i][2]] = c'.words[i]
  BY <1>0, <1>5, <1>6
<1>14. Len(c'.words) = Len(W) /\ c'.nb_writes <= nb_writes'[start]
  BY <1>5, <1>6, <1>10
<1>15. c'.intact => Intact(c.window)'
  BY <1>6, <1>8
<1> QED BY <1>7, <1>9, <1>11, <1>12, <1>13, <1>14, <1>15 DEF Faithful

\* Each read takes the next word of the window.
LEMMA FaithfulRead ==
  ASSUME ConsumerInv, Framed, Faithful, UNCHANGED vars, read_sample
  PROVE  Faithful'
<1> DEFINE W     == Words(c.window)
           start == c.window.start
           next  == Head(c.todo)
           word  == samples[next[1]][next[2]]
<1>0. UNCHANGED <<write_index, nb_writes, samples>> /\ DOMAIN c = Fields
  BY DEF vars, shared, ConsumerInv, Consumer
<1>1. /\ c.pc = "read" /\ c.todo # <<>>
      /\ c' = [c EXCEPT !.todo = Tail(@), !.got = Append(@, word)]
  BY DEF read_sample
<1>2. /\ W \in Seq(Slots \X Word) /\ c.todo \in Seq(Slots \X Word)
      /\ Len(c.todo) + Len(c.got) = Len(c.words)
  BY <1>1, WordsOf DEF ConsumerInv, Consumer, StepInv, InWindow
<1>3. c.got \in Seq(Nat) /\ Len(c.got) \in Nat
  BY LenProperties DEF ConsumerInv, Consumer
<1>4. /\ Len(c.words) = Len(W)
      /\ \A i \in 1 .. Len(c.todo) : c.todo[i] = W[Len(c.got) + i]
      /\ c.nb_writes <= nb_writes[start]
      /\ c.intact /\ nb_writes[start] = c.nb_writes =>
           /\ Intact(c.window)
           /\ \A i \in 1 .. Len(W) : samples[W[i][1]][W[i][2]] = c.words[i]
           /\ \A i \in 1 .. Len(c.got) : c.got[i] = c.words[i]
  BY <1>1 DEF Faithful
<1>5. /\ Len(c.todo) \in Nat \ {0} /\ next = c.todo[1]
      /\ Len(Tail(c.todo)) = Len(c.todo) - 1
      /\ \A i \in 1 .. Len(Tail(c.todo)) : Tail(c.todo)[i] = c.todo[i + 1]
  <2>1. next = c.todo[1]
    OBVIOUS
  <2> HIDE DEF next
  <2> QED BY <1>1, <1>2, <2>1, EmptySeq, HeadTailProperties
<1>6. next = W[Len(c.got) + 1] /\ Len(c.got) + 1 \in 1 .. Len(W)
  <2> HIDE DEF next, W
  <2>1. next = W[Len(c.got) + 1]
    BY <1>4, <1>5
  <2>2. ASSUME NEW j \in Nat, NEW k \in Nat \ {0}, k + j = Len(W) PROVE j + 1 \in 1 .. Len(W)
    BY <2>2
  <2>3. Len(c.todo) + Len(c.got) = Len(W)
    BY <1>2, <1>4
  <2> QED BY <1>3, <1>5, <2>1, <2>2, <2>3
<1> HIDE DEF next
<1>7. /\ Append(c.got, word) \in Seq(Nat \cup {word})
      /\ Len(Append(c.got, word)) = Len(c.got) + 1
      /\ \A i \in 1 .. Len(c.got) : Append(c.got, word)[i] = c.got[i]
      /\ Append(c.got, word)[Len(c.got) + 1] = word
  <2>1. c.got \in Seq(Nat \cup {word}) /\ word \in Nat \cup {word}
    BY <1>3
  <2> HIDE DEF word
  <2> QED BY <2>1, AppendProperties
<1> HIDE DEF word, W, start
<1>8. /\ c'.pc = "read" /\ c'.todo = Tail(c.todo) /\ c'.got = Append(c.got, word)
      /\ c'.nb_writes = c.nb_writes /\ c'.intact = c.intact /\ c'.words = c.words
      /\ c'.window = c.window /\ c'.api = c.api
  BY <1>0, <1>1 DEF Fields
<1>9. Words(c.window)' = W /\ c'.window.start = start
  BY <1>8 DEF W, start, Words
<1>10. Intact(c.window)' <=> Intact(c.window)
  <2>1. \A q \in Producers : Writing(q)' <=> Writing(q)
    BY DEF vars, ctx, local, Writing
  <2> QED BY <1>0, <1>8, <2>1 DEF Intact
<1>11. ASSUME NEW i \in 1 .. Len(Tail(c.todo))
       PROVE  Tail(c.todo)[i] = W[Len(c.got) + 1 + i]
  <2>1. i + 1 \in 1 .. Len(c.todo) /\ Len(c.got) + (i + 1) = Len(c.got) + 1 + i
    <3>1. ASSUME NEW k \in Nat \ {0}, NEW j \in Nat, i \in 1 .. k - 1
          PROVE  i + 1 \in 1 .. k /\ j + (i + 1) = j + 1 + i
      BY <3>1
    <3>2. i \in 1 .. Len(c.todo) - 1
      BY <1>5
    <3> QED BY <1>3, <1>5, <3>1, <3>2
  <2> QED BY <1>4, <1>5, <2>1
<1>12. ASSUME c.intact, nb_writes[start] = c.nb_writes,
              NEW i \in 1 .. Len(Append(c.got, word))
       PROVE  Append(c.got, word)[i] = c.words[i]
  <2>1. CASE i = Len(c.got) + 1
    <3>1. word = samples[W[i][1]][W[i][2]] /\ i \in 1 .. Len(W)
      BY <1>6, <2>1 DEF word
    <3> QED BY <1>4, <1>7, <1>12, <2>1, <3>1
  <2>2. CASE i # Len(c.got) + 1
    <3>1. i \in 1 .. Len(c.got)
      BY <1>3, <1>7, <2>2
    <3> QED BY <1>4, <1>7, <1>12, <3>1
  <2> QED BY <2>1, <2>2
<1>13. CopiesTheWindow'
  BY <1>8 DEF CopiesTheWindow, Validated
<1>14. \A i \in 1 .. Len(c'.todo) : c'.todo[i] = W[Len(c'.got) + i]
  BY <1>7, <1>8, <1>11
<1>15. c'.intact /\ nb_writes'[start] = c'.nb_writes =>
         /\ Intact(c.window)'
         /\ \A i \in 1 .. Len(W) : samples'[W[i][1]][W[i][2]] = c'.words[i]
         /\ \A i \in 1 .. Len(c'.got) : c'.got[i] = c'.words[i]
  BY <1>0, <1>4, <1>8, <1>9, <1>10, <1>12
<1>16. Len(c'.words) = Len(W) /\ c'.nb_writes <= nb_writes'[start]
  BY <1>0, <1>4, <1>8
<1> QED BY <1>9, <1>13, <1>14, <1>15, <1>16 DEF Faithful

\* The check passes only if the counter never moved, which makes what was read
\* the window.
LEMMA FaithfulEnd ==
  ASSUME ConsumerInv, Faithful, end_read
  PROVE  Faithful'
<1>0. DOMAIN c = Fields
  BY DEF ConsumerInv, Consumer
<1>1. PICK e : e = (IF nb_writes[wstart(c.window)] = c.nb_writes THEN "OK" ELSE "EFAULT")
  OBVIOUS
<1>2. /\ c.pc = "read" /\ c.todo = <<>> /\ c' = [c EXCEPT !.pc = "done", !.ret = e]
  BY <1>1 DEF end_read, Fail
<1>3. /\ c'.pc = "done" /\ c'.ret = e /\ c'.got = c.got /\ c'.words = c.words
      /\ c'.intact = c.intact /\ c'.api = c.api /\ c'.window = c.window
  BY <1>0, <1>2 DEF Fields
<1>4. ASSUME e = "OK", c.intact PROVE c.got = c.words
  <2>1. nb_writes[c.window.start] = c.nb_writes
    BY <1>1, <1>4 DEF wstart
  <2>2. \A i \in 1 .. Len(c.got) : c.got[i] = c.words[i]
    BY <1>2, <1>4, <2>1 DEF Faithful
  <2>3. c.got \in Seq(Nat) /\ c.words \in Seq(Nat) /\ Len(c.todo) + Len(c.got) = Len(c.words)
    BY DEF ConsumerInv, Consumer, StepInv
  <2>4. Len(c.got) = Len(c.words)
    <3>1. Len(c.todo) = 0 /\ Len(c.got) \in Nat
      BY <1>2, <2>3, LenProperties
    <3> QED BY <2>3, <3>1
  <2> QED BY <2>2, <2>3, <2>4, SeqEqual
<1>5. CopiesTheWindow'
  BY <1>3, <1>4 DEF CopiesTheWindow, Validated
<1> QED BY <1>3, <1>5 DEF Faithful

\* The other steps read no sample and validate nothing.
LEMMA OutOfSession ==
  ASSUME ConsumerInv,
         \/ call_find \/ find \/ search_start \/ search_top \/ max_depth
         \/ naive \/ binary \/ binary_end \/ closest_before \/ closest_after
         \/ search_end_index \/ search_end_writes
  PROVE  c'.pc # "read" /\ (c'.pc = "done" => c'.ret # "OK")
<1>0. DOMAIN c = Fields
  BY DEF ConsumerInv, Consumer
<1>1. CASE call_find
  <2>1. PICK f \in ReadApi, s \in Searches, hint \in Hints : c' = Start(f, s, hint)
    BY <1>1 DEF call_find
  <2> QED BY <2>1, StartType
<1>2. CASE find \/ search_start
  BY <1>0, <1>2 DEF find, search_start, Fail, Fields
<1>6. CASE search_top
  BY <1>0, <1>6 DEF search_top, SearchFrom, Fields
<1>7. CASE max_depth
  BY <1>0, <1>7 DEF max_depth, SearchFrom, Fields
<1>3. CASE naive \/ binary_end
  BY <1>0, <1>3, ReferenceStep
<1>4. CASE binary \/ closest_before \/ closest_after
  BY <1>0, <1>4 DEF binary, closest_before, closest_after, Fields
<1>5. CASE search_end_index \/ search_end_writes
  BY <1>0, <1>5 DEF search_end_index, search_end_writes, Fail, Fields
<1> QED BY <1>1, <1>2, <1>3, <1>4, <1>5, <1>6, <1>7

\* So they have nothing to be held to.
LEMMA FaithfulSearch ==
  ASSUME ConsumerInv,
         \/ call_find \/ find \/ search_start \/ search_top \/ max_depth
         \/ naive \/ binary \/ binary_end \/ closest_before \/ closest_after
         \/ search_end_index \/ search_end_writes
  PROVE  Faithful'
BY OutOfSession DEF Faithful, CopiesTheWindow, Validated

\* One counter vouches for every copy, whatever functions the clients call: when
\* shd_end_read returns 0 on a window that was intact as the read session
\* began, what was read is what the window then held.
THEOREM CopiesAreFaithful == ReadSpec => []CopiesTheWindow
<1>1. ReadInit => Faithful
  <2> SUFFICES ASSUME ReadInit PROVE Faithful
    OBVIOUS
  <2> DEFINE job == Start("shd_select_samples", AnySearch, "NAIVE")
  <2>1. Consumer(job) /\ job.ret = "none"
    BY StartType DEF Start
  <2> HIDE DEF job
  <2>2. c = [job EXCEPT !.pc = "done"]
    BY DEF ReadInit, job
  <2>3. c.pc = "done" /\ c.ret = "none"
    BY <2>1, <2>2 DEF Consumer, Fields
  <2> QED BY <2>3 DEF Faithful, CopiesTheWindow, Validated
<1>2. ASSUME WriteInv, ConsumerInv, Framed, Faithful, [ReadNext]_<<vars, c>>
      PROVE  Faithful'
  <2>1. CASE UNCHANGED c /\ [Next]_vars
    BY <1>2, <2>1, FaithfulProducers
  <2>2. CASE call_find
    BY <1>2, <2>2, FaithfulSearch
  <2>3. CASE Read /\ UNCHANGED vars
    BY <1>2, <2>3, FaithfulSearch, FaithfulStart, FaithfulRead, FaithfulEnd DEF Read
  <2> QED BY <1>2, <2>1, <2>2, <2>3 DEF ReadNext
<1>3. Faithful => CopiesTheWindow
  BY DEF Faithful
<1>4. WriteInv /\ (ConsumerInv /\ Framed) /\ Faithful /\ [ReadNext]_<<vars, c>> => Faithful'
  BY <1>2
<1> QED BY <1>1, <1>3, <1>4, ProducersRun, WriteInvHolds, ConsumerHolds, PTL DEF ReadSpec

\* An intact window held samples whole, consecutive and oldest first, if the
\* clients write whole blobs.
Ordered == c.intact /\ (c.pc = "read" \/ Validated) => Consecutive(c.words)

\* The steps of a session keep what it noted at its start.
LEMMA SessionKept ==
  ASSUME ConsumerInv, read_sample \/ end_read
  PROVE  /\ c.pc = "read" /\ c'.intact = c.intact /\ c'.words = c.words
         /\ c'.api = c.api /\ c'.window = c.window
<1>0. DOMAIN c = Fields
  BY DEF ConsumerInv, Consumer
<1>1. CASE read_sample
  <2>1. c.pc = "read" /\ \E t, g : c' = [c EXCEPT !.todo = t, !.got = g]
    BY <1>1 DEF read_sample
  <2> QED BY <1>0, <2>1 DEF Fields
<1>2. CASE end_read
  <2>1. c.pc = "read" /\ \E e : c' = [c EXCEPT !.pc = "done", !.ret = e]
    BY <1>2 DEF end_read, Fail
  <2> QED BY <1>0, <2>1 DEF Fields
<1> QED BY <1>1, <1>2

\* The order is that of the start of the session.
LEMMA OrderedStep ==
  ASSUME WriteInv, RankInv, ConsumerInv, Framed, Ordered, [ReadNext]_<<vars, c>>
  PROVE  Ordered'
<1>1. CASE UNCHANGED c
  BY <1>1 DEF Ordered, Validated, Consecutive
<1>2. CASE start_read_session
  <2> DEFINE W     == Words(c.window)
             words == [i \in DOMAIN W |-> samples[W[i][1]][W[i][2]]]
  <2>1. /\ c.pc = "start_read" /\ DOMAIN c = Fields /\ TypeOK
        /\ c' = [c EXCEPT !.pc = "read", !.nb_writes = nb_writes[c.window.start],
                          !.todo = W, !.intact = Intact(c.window), !.words = words]
    BY <1>2 DEF start_read_session, wstart, ConsumerInv, Consumer, WriteInv
  <2>2. Intact(c.window) => Consecutive(words)
    BY <2>1, StartConsecutive
  <2> HIDE DEF W, words
  <2>3. /\ c'.intact = Intact(c.window) /\ c'.words = words /\ c'.window = c.window
        /\ c'.api = c.api
    BY <2>1 DEF Fields
  <2> QED BY <2>2, <2>3 DEF Ordered, Consecutive
<1>3. CASE read_sample \/ end_read
  <2>1. /\ c.pc = "read" /\ c'.intact = c.intact /\ c'.words = c.words
        /\ c'.api = c.api /\ c'.window = c.window
    BY <1>3, SessionKept
  <2>2. Consecutive(c.words)' <=> Consecutive(c.words)
    BY <2>1 DEF Consecutive
  <2> QED BY <2>1, <2>2 DEF Ordered
<1>4. CASE (call_find \/ Read) /\ ~start_read_session /\ ~read_sample /\ ~end_read
  <2>1. c'.pc # "read" /\ ~Validated'
    BY <1>4, OutOfSession DEF Read, Validated
  <2> QED BY <2>1 DEF Ordered
<1> QED BY <1>1, <1>2, <1>3, <1>4 DEF ReadNext

\* Checking the counter of one slot is enough: when shd_end_read returns 0 on
\* a window that was intact as the read session began, what was read is that
\* window, of whole and consecutive samples, whatever the producers did.
THEOREM ReadIsTheWindow ==
  ASSUME Api \subseteq {"shd_write_new_blob"}
  PROVE  ReadSpec => []ValidatedReadIsTheWindow
<1>1. ReadInit => Ordered
  <2> SUFFICES ASSUME ReadInit PROVE Ordered
    OBVIOUS
  <2> DEFINE job == Start("shd_select_samples", AnySearch, "NAIVE")
  <2>1. Consumer(job) /\ job.ret = "none"
    BY StartType DEF Start
  <2> HIDE DEF job
  <2>2. c = [job EXCEPT !.pc = "done"]
    BY DEF ReadInit, job
  <2>3. c.pc = "done" /\ c.ret = "none"
    BY <2>1, <2>2 DEF Consumer, Fields
  <2> QED BY <2>3 DEF Ordered, Validated
<1>2. WriteInv /\ RankInv /\ (ConsumerInv /\ Framed) /\ Ordered
        /\ [ReadNext]_<<vars, c>> => Ordered'
  BY OrderedStep
<1>3. Ordered /\ CopiesTheWindow => ValidatedReadIsTheWindow
  BY DEF Ordered, CopiesTheWindow, ValidatedReadIsTheWindow
<1> QED BY <1>1, <1>2, <1>3, CopiesAreFaithful, ProducersRun, WriteInvHolds, RankHolds,
           ConsumerHolds, PTL DEF ReadSpec

-----------------------------------------------------------------------------
(* The freshness of SHD_LATEST *)

\* No word of a slot ever goes back.
LEMMA Rising ==
  ASSUME WriteInv, RankInv, [Next]_vars, NEW s \in Slots
  PROVE  samples[s].metadata <= samples'[s].metadata /\ samples[s].blob <= samples'[s].blob
<1>0. /\ TypeOK /\ samples[s] \in Contents
      /\ samples[s].metadata \in Nat /\ samples[s].blob \in Nat
      /\ samples[s].metadata <= sessions /\ samples[s].blob <= sessions
  BY DEF WriteInv, TypeOK, Contents, RankInv
<1>1. ASSUME NEW p \in Producers, NEW word \in Word, store(p, word), payload[p] = sessions
      PROVE  samples[s].metadata <= samples'[s].metadata /\ samples[s].blob <= samples'[s].blob
  <2>1. /\ \A v \in Word : samples'[s][v] = samples[s][v] \/ samples'[s][v] = sessions
    <3>1. samples' = [samples EXCEPT ![index[p]] = [@ EXCEPT ![word] = sessions]]
      BY <1>1 DEF store
    <3>2. CASE s = index[p]
      BY <1>0, <3>1, <3>2 DEF TypeOK, Contents, Word
    <3>3. CASE s # index[p]
      BY <1>0, <3>1, <3>3 DEF TypeOK
    <3> QED BY <3>2, <3>3
  <2> QED BY <1>0, <2>1 DEF Word
<1>2. ASSUME NEW p \in Producers, write_metadata(p) \/ write_quantity(p)
      PROVE  payload[p] = sessions /\ \E word \in Word : store(p, word)
  <2>1. index[p] # -1
    BY <1>2 DEF write_metadata, write_quantity, WriteInv, OneSlotPerWrite, Passed
  <2> QED BY <1>2, <2>1 DEF write_metadata, write_quantity, Holds, RankInv, Word
<1>3. (\E p \in Producers : write_metadata(p) \/ write_quantity(p)) \/ UNCHANGED samples
  BY DEF Next, Proceed, ClientsDone, vars, shared, start_write_session,
         get_next_write_index, invalidate, take_index, commit, release, out_of_sequence
<1>4. CASE UNCHANGED samples
  BY <1>0, <1>4
<1> QED BY <1>1, <1>2, <1>3, <1>4

\* The job asks for the latest sample and none before it.
ForLatest == c.search.method = "LATEST" /\ c.search.before = 0

\* What a search for the latest sample keeps until its end.
Fresh ==
  /\ c.pc \in Searching \cup InWindow =>
       /\ c.t_index \in Slots
       /\ c.t_rank <= samples[c.t_index].metadata /\ c.t_rank <= samples[c.t_index].blob
  /\ ForLatest /\ c.pc \in {"search_end", "search_end_writes"} => c.ref_idx = c.t_index
  /\ ForLatest /\ c.pc \in InWindow => c.window.start = c.t_index /\ c.window.nb_matches = 1
  /\ ForLatest /\ c.pc = "read" =>
       /\ \A i \in 1 .. Len(c.todo) : c.todo[i][1] = c.t_index
       /\ \A i \in 1 .. Len(c.got) : c.t_rank <= c.got[i]
  /\ LatestIsFresh

\* The producers only bring newer words.
LEMMA FreshProducers ==
  ASSUME WriteInv, RankInv, ConsumerInv, Fresh, [Next]_vars, UNCHANGED c
  PROVE  Fresh'
<1>1. LatestIsFresh'
  BY DEF Fresh, LatestIsFresh, Validated
<1>2. ASSUME c.pc \in Searching \cup InWindow
      PROVE  /\ c.t_index \in Slots
             /\ c.t_rank <= samples'[c.t_index].metadata /\ c.t_rank <= samples'[c.t_index].blob
  <2>1. PICK s \in Slots : s = c.t_index
    BY <1>2 DEF Fresh
  <2>2. /\ c.t_rank <= samples[s].metadata /\ c.t_rank <= samples[s].blob
        /\ samples[s].metadata <= samples'[s].metadata /\ samples[s].blob <= samples'[s].blob
    BY <1>2, <2>1, Rising DEF Fresh
  <2>3. /\ samples[s].metadata \in Int /\ samples[s].blob \in Int /\ c.t_rank \in Int
        /\ samples'[s].metadata \in Int /\ samples'[s].blob \in Int
    <3>1. TypeOK /\ TypeOK'
      BY NextTypeOK DEF WriteInv
    <3>2. samples[s] \in Contents /\ samples'[s] \in Contents
      BY <3>1 DEF TypeOK
    <3>3. c.t_rank \in Int
      BY DEF ConsumerInv, Consumer
    <3> QED BY <3>2, <3>3 DEF Contents
  <2> QED BY <2>1, <2>2, <2>3
<1> QED BY <1>1, <1>2 DEF Fresh, ForLatest

\* The search starts from a sample of one rank.
LEMMA FreshStart ==
  ASSUME NbSamples > 1, WriteInv, LastValid, RankInv, ConsumerInv, UNCHANGED vars,
         search_start
  PROVE  Fresh'
<1>1. /\ c.pc = "search_start" /\ DOMAIN c = Fields
      /\ c' = [c EXCEPT !.pc = "search_top", !.t_index = write_index,
                        !.t_rank = samples[write_index].metadata]
  BY DEF search_start, ConsumerInv, Consumer
<1>2. write_index \in Slots /\ nb_writes[write_index] # -1
  BY <1>1 DEF ConsumerInv, StepInv, LastValid, WriteInv, TypeOK
<1>3. write_index # index_next(write_index)
  BY <1>2, IndexNext, NbSamplesAssumption DEF Slots
<1>4. Whole(write_index)
  BY <1>2, <1>3 DEF Whole
<1>5. /\ samples[write_index].blob = samples[write_index].metadata
      /\ samples[write_index].metadata \in Int
  BY <1>2, <1>4 DEF RankInv, WriteInv, TypeOK, Contents
<1>6. /\ c'.pc = "search_top" /\ c'.t_index = write_index
      /\ c'.t_rank = samples[write_index].metadata
  BY <1>1 DEF Fields
<1>7. samples' = samples
  BY DEF vars, shared
<1> QED BY <1>2, <1>5, <1>6, <1>7 DEF Fresh, LatestIsFresh, Validated, InWindow

\* The rest of the search changes neither t_index nor the samples, and its
\* reference sample is that of t_index for SHD_LATEST.
LEMMA FreshSearch ==
  ASSUME WriteInv, ConsumerInv, Fresh, UNCHANGED vars,
         \/ search_top \/ max_depth \/ naive \/ binary \/ binary_end
         \/ closest_before \/ closest_after \/ search_end_index
  PROVE  Fresh'
<1>0. DOMAIN c = Fields /\ samples' = samples
  BY DEF ConsumerInv, Consumer, vars, shared
<1>1. /\ c'.t_index = c.t_index /\ c'.t_rank = c.t_rank /\ c'.search = c.search
      /\ c'.pc \notin InWindow /\ (c'.pc = "done" => c'.ret # "OK")
  <2>1. CASE search_top \/ max_depth
    <3>1. ASSUME NEW d PROVE LET from == SearchFrom(d) IN
                             /\ from.t_index = c.t_index /\ from.t_rank = c.t_rank
                             /\ from.search = c.search /\ DOMAIN from = Fields
                             /\ from.pc \notin InWindow \cup {"done"}
      BY <1>0 DEF SearchFrom, Fields, InWindow
    <3>2. CASE search_top
      <4>1. PICK next : /\ c' = [next EXCEPT !.nb_writes_top = nb_writes[c.t_index]]
                        /\ \/ next = [c EXCEPT !.pc = "search_end", !.ref_idx = c.t_index]
                           \/ next = SearchFrom(NbSamples)
                           \/ next = [c EXCEPT !.pc = "max_depth"]
        BY <3>2 DEF search_top
      <4>2. /\ next.t_index = c.t_index /\ next.t_rank = c.t_rank
            /\ next.search = c.search /\ DOMAIN next = Fields
            /\ next.pc \notin InWindow \cup {"done"}
        <5>1. CASE next = SearchFrom(NbSamples)
          BY <3>1, <5>1
        <5>2. CASE next # SearchFrom(NbSamples)
          BY <1>0, <4>1, <5>2 DEF Fields, InWindow
        <5> QED BY <5>1, <5>2
      <4> QED BY <4>1, <4>2 DEF Fields
    <3>3. CASE max_depth
      <4>1. PICK d : c' = [c EXCEPT !.depth = d] \/ c' = SearchFrom(d)
        BY <3>3 DEF max_depth
      <4>2. c.pc = "max_depth"
        BY <3>3 DEF max_depth
      <4>3. CASE c' = [c EXCEPT !.depth = d]
        BY <1>0, <4>2, <4>3 DEF Fields, InWindow
      <4> QED BY <3>1, <4>1, <4>3
    <3> QED BY <2>1, <3>2, <3>3
  <2>2. CASE naive \/ binary_end
    <3>1. /\ c'.t_index = c.t_index /\ c'.t_rank = c.t_rank /\ c'.search = c.search
          /\ c'.pc \notin InWindow /\ (c'.pc = "done" => c'.ret # "OK")
      BY <1>0, <2>2, ReferenceStep DEF InWindow
    <3> QED BY <3>1
  <2>3. CASE binary
    BY <1>0, <2>3 DEF binary, Fields, InWindow
  <2>4. CASE closest_before \/ closest_after
    BY <1>0, <2>4 DEF closest_before, closest_after, Fields, InWindow
  <2>5. CASE search_end_index
    BY <1>0, <2>5 DEF search_end_index, Fields, InWindow
  <2> QED BY <2>1, <2>2, <2>3, <2>4, <2>5
<1>2. c.pc \in Searching
  BY DEF search_top, max_depth, naive, binary, binary_end, closest_before, closest_after,
         search_end_index, Searching
<1>3. ASSUME ForLatest PROVE c'.ref_idx = c.t_index \/ c'.pc \notin {"search_end", "search_end_writes"}
  <2>1. CASE search_top
    BY <1>0, <1>3, <2>1 DEF search_top, ForLatest, Fields
  <2>2. CASE max_depth \/ naive \/ binary \/ binary_end \/ closest_before \/ closest_after
    <3>1. c.search.method # "LATEST"
      BY <2>2 DEF max_depth, naive, binary, binary_end, closest_before, closest_after,
                  ConsumerInv, StepInv
    <3> QED BY <1>3, <3>1 DEF ForLatest
  <2>3. CASE search_end_index
    BY <1>0, <1>3, <2>3 DEF search_end_index, Fresh, Fields
  <2> QED BY <2>1, <2>2, <2>3
<1> QED BY <1>0, <1>1, <1>2, <1>3
        DEF Fresh, ForLatest, LatestIsFresh, Validated, InWindow

\* The window of SHD_LATEST with nothing before is the sample of t_index.
LEMMA FreshWindow ==
  ASSUME ConsumerInv, Fresh, UNCHANGED vars, search_end_writes
  PROVE  Fresh'
<1> DEFINE w == [start |-> w_start_idx, ref |-> c.ref_idx, end |-> w_end_idx,
                 nb_matches |-> 1 + interval_between(w_start_idx, w_end_idx)]
<1>0. c.pc = "search_end_writes" /\ DOMAIN c = Fields /\ samples' = samples
  BY DEF search_end_writes, ConsumerInv, Consumer, vars, shared
<1>1. CASE Fail("EFAULT")
  <2>1. c'.pc = "done" /\ c'.ret = "EFAULT"
    BY <1>0, <1>1 DEF Fail, Fields
  <2> QED BY <2>1 DEF Fresh, LatestIsFresh, Validated, InWindow, Searching
<1>2. CASE c' = [c EXCEPT !.pc = "start_read", !.window = w]
  <2>1. /\ c'.pc = "start_read" /\ c'.window = w /\ c'.t_index = c.t_index
        /\ c'.t_rank = c.t_rank /\ c'.search = c.search
    BY <1>0, <1>2 DEF Fields
  <2>2. ASSUME ForLatest PROVE w.start = c.t_index /\ w.nb_matches = 1
    <3> DEFINE b == interval_between(w_start_idx, c.ref_idx)
               a == interval_between(c.ref_idx, w_end_idx)
    <3>1. c.ref_idx = c.t_index /\ c.search.before = 0
      BY <1>0, <2>2 DEF Fresh, ForLatest
    <3>2. /\ {c.t_index, w_start_idx, w_end_idx} \subseteq Slots
          /\ b <= c.search.before
          /\ 1 + interval_between(w_start_idx, w_end_idx) = b + a + 1
          /\ interval_between(w_start_idx, c.t_index) + 1 >= b + a + 1
      BY <1>0, WindowSet
    <3>3. a \in Nat /\ b \in Nat
      BY <3>1, <3>2, Intervals
    <3>4. interval_between(w_start_idx, c.t_index) = b
      BY <3>1
    <3>5. b = 0 => w_start_idx = c.t_index
      <4>1. ASSUME NEW i \in Slots, NEW j \in Slots, interval_between(i, j) = 0 PROVE i = j
        BY <4>1, NbSamplesAssumption DEF interval_between, Slots
      <4> QED BY <3>1, <3>2, <4>1
    <3> HIDE DEF a, b
    <3>6. a = 0 /\ b = 0
      BY <3>1, <3>2, <3>3, <3>4
    <3> QED BY <3>2, <3>5, <3>6
  <2> QED BY <1>0, <2>1, <2>2
          DEF Fresh, ForLatest, LatestIsFresh, Validated, InWindow, Searching
<1> QED BY <1>1, <1>2 DEF search_end_writes

\* The read session of SHD_LATEST reads the slot of t_index.
LEMMA FreshSession ==
  ASSUME WriteInv, ConsumerInv, Framed, Fresh, UNCHANGED vars,
         start_read_session \/ read_sample \/ end_read
  PROVE  Fresh'
<1>0. DOMAIN c = Fields /\ samples' = samples /\ TypeOK
  BY DEF ConsumerInv, Consumer, vars, shared, WriteInv
<1>1. CASE start_read_session
  <2> DEFINE W == Words(c.window)
  <2>1. c.pc = "start_read" /\ c.got = <<>>
    BY <1>1 DEF start_read_session, ConsumerInv, StepInv
  <2>2. /\ c'.pc = "read" /\ c'.window = c.window /\ c'.t_index = c.t_index
        /\ c'.t_rank = c.t_rank /\ c'.search = c.search /\ c'.todo = W /\ c'.got = <<>>
    BY <1>0, <1>1, <2>1 DEF start_read_session, Fields
  <2>3. ASSUME ForLatest, NEW i \in 1 .. Len(W) PROVE W[i][1] = c.t_index
    <3>1. c.window.start = c.t_index /\ c.window.nb_matches = 1 /\ c.t_index \in Slots
      BY <2>1, <2>3 DEF Fresh, InWindow
    <3>2. PICK j \in 1 .. c.window.nb_matches : W[i][1] = slot_of(c.window, j)
      BY <2>1, <2>3, WordSlots DEF InWindow
    <3>3. slot_of(c.window, 1) = c.window.start
      <4>1. 0 \in 0 .. NbSamples - 1 /\ c.window.start \in 0 .. NbSamples - 1
        BY <3>1, NbSamplesAssumption DEF Slots
      <4>2. index_n_after(c.window.start, 0) = c.window.start
        BY <3>1, <4>1, Offsets, NbSamplesAssumption
      <4> QED BY <4>2 DEF slot_of
    <3>4. j = 1
      BY <3>1, <3>2
    <3> QED BY <3>1, <3>2, <3>3, <3>4
  <2>4. Len(c'.got) = 0
    BY <2>2
  <2> HIDE DEF W
  <2> QED BY <1>0, <2>1, <2>2, <2>3, <2>4
          DEF Fresh, ForLatest, LatestIsFresh, Validated, InWindow
<1>2. CASE read_sample
  <2> DEFINE next == Head(c.todo)
             word == samples[next[1]][next[2]]
  <2>1. /\ c.pc = "read" /\ c.todo # <<>>
        /\ c' = [c EXCEPT !.todo = Tail(@), !.got = Append(@, word)]
    BY <1>2 DEF read_sample
  <2>2. /\ c'.pc = "read" /\ c'.window = c.window /\ c'.t_index = c.t_index
        /\ c'.t_rank = c.t_rank /\ c'.search = c.search /\ c'.todo = Tail(c.todo)
        /\ c'.got = Append(c.got, word)
    BY <1>0, <2>1 DEF Fields
  <2>3. c.todo \in Seq(Slots \X Word) /\ c.got \in Seq(Nat)
    BY DEF ConsumerInv, Consumer
  <2>4. /\ Len(c.todo) \in Nat \ {0} /\ next = c.todo[1] /\ next \in Slots \X Word
        /\ Len(Tail(c.todo)) = Len(c.todo) - 1
        /\ \A i \in 1 .. Len(Tail(c.todo)) : Tail(c.todo)[i] = c.todo[i + 1]
    <3>1. next = c.todo[1]
      OBVIOUS
    <3> HIDE DEF next
    <3>2. next \in Slots \X Word
      BY <2>1, <2>3, HeadTailProperties DEF next
    <3> QED BY <2>1, <2>3, <3>1, <3>2, EmptySeq, HeadTailProperties
  <2> HIDE DEF next
  <2>5. word \in Nat
    <3>1. next[1] \in Slots /\ next[2] \in Word
      BY <2>4
    <3> QED BY <1>0, <3>1 DEF TypeOK, Contents, Word
  <2>6. ASSUME ForLatest PROVE c.t_rank <= word
    <3>1. next[1] = c.t_index /\ next[2] \in Word
      BY <2>1, <2>4, <2>6 DEF Fresh
    <3> QED BY <2>1, <3>1 DEF Fresh, InWindow, Word
  <2> HIDE DEF word
  <2>7. /\ Len(Append(c.got, word)) = Len(c.got) + 1 /\ Len(c.got) \in Nat
        /\ \A i \in 1 .. Len(c.got) : Append(c.got, word)[i] = c.got[i]
        /\ Append(c.got, word)[Len(c.got) + 1] = word
    BY <2>3, <2>5, AppendProperties, LenProperties
  <2>8. ASSUME ForLatest, NEW i \in 1 .. Len(Append(c.got, word))
        PROVE  c.t_rank <= Append(c.got, word)[i]
    <3>1. CASE i = Len(c.got) + 1
      BY <2>6, <2>7, <2>8, <3>1
    <3>2. CASE i # Len(c.got) + 1
      <4>1. i \in 1 .. Len(c.got)
        BY <2>7, <3>2
      <4> QED BY <2>1, <2>7, <2>8, <4>1 DEF Fresh
    <3> QED BY <3>1, <3>2
  <2>9. ASSUME ForLatest, NEW i \in 1 .. Len(Tail(c.todo)) PROVE Tail(c.todo)[i][1] = c.t_index
    <3>1. ASSUME NEW k \in Nat \ {0}, i \in 1 .. k - 1 PROVE i + 1 \in 1 .. k
      BY <3>1
    <3>2. i \in 1 .. Len(c.todo) - 1
      BY <2>4
    <3>3. i + 1 \in 1 .. Len(c.todo)
      BY <2>4, <3>1, <3>2
    <3>4. c.todo[i + 1][1] = c.t_index
      BY <2>1, <2>9, <3>3 DEF Fresh
    <3> QED BY <2>4, <3>4
  <2> QED BY <1>0, <2>1, <2>2, <2>8, <2>9
          DEF Fresh, ForLatest, LatestIsFresh, Validated, InWindow
<1>3. CASE end_read
  <2>1. /\ c.pc = "read" /\ c'.pc = "done" /\ c'.got = c.got /\ c'.search = c.search
        /\ c'.t_rank = c.t_rank
    BY <1>0, <1>3 DEF end_read, Fail, Fields
  <2>2. DOMAIN c.got = 1 .. Len(c.got) /\ c.got \in Seq(Nat) /\ c.t_rank \in Nat
    BY LenProperties DEF ConsumerInv, Consumer
  <2>3. ASSUME ForLatest, NEW i \in DOMAIN c.got PROVE c.got[i] >= c.t_rank
    <3>1. c.t_rank <= c.got[i] /\ c.got[i] \in Nat
      BY <2>1, <2>2, <2>3 DEF Fresh
    <3> QED BY <2>2, <3>1
  <2>4. LatestIsFresh'
    BY <2>1, <2>3 DEF LatestIsFresh, ForLatest
  <2> QED BY <2>1, <2>4 DEF Fresh, InWindow, Searching
<1> QED BY <1>1, <1>2, <1>3

\* On a ring of more than one slot, a validated read of SHD_LATEST is at least
\* as new, in both its words, as the latest sample when the search began.
THEOREM LatestStaysFresh ==
  ASSUME NbSamples > 1, Api \subseteq {"shd_write_new_blob"}
  PROVE  ReadSpec => []LatestIsFresh
<1>1. ReadInit => Fresh
  <2> SUFFICES ASSUME ReadInit PROVE Fresh
    OBVIOUS
  <2> DEFINE job == Start("shd_select_samples", AnySearch, "NAIVE")
  <2>1. Consumer(job) /\ job.ret = "none"
    BY StartType DEF Start
  <2> HIDE DEF job
  <2>2. c = [job EXCEPT !.pc = "done"]
    BY DEF ReadInit, job
  <2>3. c.pc = "done" /\ c.ret = "none"
    BY <2>1, <2>2 DEF Consumer, Fields
  <2> QED BY <2>3 DEF Fresh, LatestIsFresh, Validated, InWindow, Searching
<1>2. ASSUME WriteInv, LastValid, RankInv, ConsumerInv, Framed, Fresh,
             [ReadNext]_<<vars, c>>
      PROVE  Fresh'
  <2>1. CASE UNCHANGED c /\ [Next]_vars
    BY <1>2, <2>1, FreshProducers
  <2>2. CASE call_find
    <3>1. PICK f \in ReadApi, s \in Searches, hint \in Hints : c' = Start(f, s, hint)
      BY <2>2 DEF call_find
    <3>2. c'.pc = "find"
      BY <3>1, StartType
    <3> QED BY <3>2 DEF Fresh, LatestIsFresh, Validated, InWindow, Searching
  <2>3. CASE find
    <3>1. c'.pc = "search_start" \/ (c'.pc = "done" /\ c'.ret # "OK")
      BY <1>2, <2>3 DEF find, Fail, ConsumerInv, Consumer, Fields
    <3> QED BY <3>1 DEF Fresh, LatestIsFresh, Validated, InWindow, Searching
  <2>4. CASE Read /\ UNCHANGED vars /\ ~find
    BY <1>2, <2>4, FreshStart, FreshSearch, FreshWindow, FreshSession DEF Read
  <2> QED BY <1>2, <2>1, <2>2, <2>3, <2>4 DEF ReadNext
<1>3. Fresh => LatestIsFresh
  BY DEF Fresh
<1>4. WriteInv /\ LastValid /\ RankInv /\ (ConsumerInv /\ Framed) /\ Fresh
        /\ [ReadNext]_<<vars, c>> => Fresh'
  BY <1>2
<1> QED BY <1>1, <1>3, <1>4, ProducersRun, WriteInvHolds, LastValidHolds, RankHolds,
           ConsumerHolds, PTL DEF ReadSpec

=============================================================================
