-------------------------- MODULE ShdSessionProofs --------------------------
(***************************************************************************)
(* Proofs about ShdSession, for every ring, every width of uint32_t that   *)
(* holds twice its size, and every sequence of calls: the window of a      *)
(* search stays in the ring, a job that shd_end_read accepts was not       *)
(* disturbed, and what becomes of the metadata blocks.                     *)
(***************************************************************************)
EXTENDS ShdSession, FiniteSetTheorems, TLAPS

\* A remainder is below its modulus, whatever the sign of the first operand.
LEMMA Remainder ==
  ASSUME NEW a \in Int, NEW b \in Nat \ {0}
  PROVE  a % b \in 0 .. b - 1
  OBVIOUS

\* The constants are positive.
LEMMA Constants == NbSamples \in Nat \ {0} /\ UintMod \in Nat \ {0}
  BY NbSamplesAssumption, UintModAssumption

\* The distance between two slots is less than the ring.
LEMMA Interval ==
  ASSUME NEW i \in Slots, NEW j \in Slots
  PROVE  interval_between(i, j) \in 0 .. NbSamples - 1
  BY NbSamplesAssumption DEF interval_between, Slots

\* The arithmetic of window_of ends in the ring, for numbers of samples that are
\* negative once converted too.
LEMMA WindowType ==
  ASSUME NEW s \in Search, NEW r \in Slots, write_index \in Slots
  PROVE  window_of(s, r) \in Window
<1> DEFINE nb_more_recent == interval_between(r, write_index)
           nb_older == interval_between(index_next(write_index), r)
           start == before(r, Lesser(nb_older, to_int(s.before)))
           end   == after(r, Lesser(nb_more_recent, to_int(s.after)))
<1>1. \A i \in Int : i % NbSamples \in Slots
  BY Constants, Remainder DEF Slots
<1>2. Slots \subseteq Int /\ index_next(write_index) \in Slots
  BY <1>1, Constants DEF index_next, index_n_after, Slots
<1>3. nb_more_recent \in Int /\ nb_older \in Int
  <2>1. nb_more_recent \in 0 .. NbSamples - 1
    BY <1>2, Interval
  <2>2. nb_older \in 0 .. NbSamples - 1
    BY <1>2, Interval
  <2> QED BY <2>1, <2>2
<1>4. to_int(s.before) \in Int /\ to_int(s.after) \in Int
  BY Constants DEF to_int, Search, Uint
<1>5. Lesser(nb_older, to_int(s.before)) \in Int
      /\ Lesser(nb_more_recent, to_int(s.after)) \in Int
  BY <1>3, <1>4 DEF Lesser
<1>6. \A i \in Int : (i % UintMod) \in Int
  BY Constants, Remainder
<1>7. start \in Slots
  BY <1>1, <1>2, <1>5, <1>6, Constants DEF before
<1>8. end \in Slots
  BY <1>1, <1>2, <1>5, <1>6, Constants DEF after
<1>9. 1 + interval_between(start, end) \in 1 .. NbSamples
  BY <1>7, <1>8, Interval, Constants
<1>10. window_of(s, r) = [start |-> start, ref |-> r, end |-> end,
                          nb_matches |-> 1 + interval_between(start, end)]
  BY DEF window_of
<1> QED BY <1>7, <1>8, <1>9, <1>10 DEF Window

\* What a search may refer to is in the ring.
LEMMA ReferenceType ==
  ASSUME NEW s \in Search, write_index \in Slots
  PROVE  references(s) \subseteq Slots
<1>1. \A i \in Int : i % NbSamples \in Slots
  BY Constants, Remainder DEF Slots
<1>2. Cardinality(Valid) \in Nat
  <2>1. IsFiniteSet(Slots) /\ Valid \subseteq Slots
    BY FS_Interval, Constants DEF Slots, Valid
  <2> QED BY <2>1, FS_Subset, FS_CardinalityType
<1>3. write_index \in Int
  BY DEF Slots
<1>4. oldest \in Slots
  <2>1. index_n_after(write_index, 2) \in Slots
    BY <1>1, <1>3 DEF index_n_after
  <2>2. write_index + NbSamples - (Cardinality(Valid) - 1) \in Int
    BY <1>2, <1>3, Constants
  <2>3. index_n_before(write_index, Cardinality(Valid) - 1) \in Slots
    BY <1>1, <2>2 DEF index_n_before
  <2> QED BY <2>1, <2>3 DEF oldest
<1>5. index_next(write_index) \in Slots
  BY <1>1, <1>3 DEF index_next, index_n_after
<1> QED BY <1>4, <1>5 DEF references, Valid

-----------------------------------------------------------------------------
(* The calls, by what they do to the context, the blocks and the job *)

\* What a search may answer.
LEMMA FindOutcome ==
  ASSUME TypeOK, NEW s \in Searches, NEW outcome \in find(s)
  PROVE  \/ outcome.ret \in {"EAGAIN", "EINVAL"} /\ outcome.ctx = ctx
         \/ /\ outcome.ret \in {"EFAULT", "ENOENT"}
            /\ outcome.ctx = [ctx EXCEPT !.window = NoWindow]
         \/ /\ outcome.ret = "OK" /\ write_index # -1 /\ ~too_many(s)
            /\ \E w \in Window :
                 /\ \E r \in references(s) : w = window_of(s, r)
                 /\ outcome.ctx = [ctx EXCEPT !.window = w,
                                              !.nb_writes = nb_writes[w.start]]
<1>1. CASE write_index = -1
  <2>1. find(s) = {[ret |-> "EAGAIN", ctx |-> ctx]}
    BY <1>1, Zenon DEF find
  <2>2. outcome.ret = "EAGAIN" /\ outcome.ctx = ctx
    BY <2>1
  <2> QED BY <2>2
<1>2. CASE write_index # -1 /\ too_many(s)
  <2>1. find(s) = {[ret |-> "EINVAL", ctx |-> ctx]}
    BY <1>2, Zenon DEF find
  <2>2. outcome.ret = "EINVAL" /\ outcome.ctx = ctx
    BY <2>1
  <2> QED BY <2>2
<1>3. CASE write_index # -1 /\ ~too_many(s)
  <2>1. write_index \in Slots /\ s \in Search
    BY <1>3, SearchesAssumption DEF TypeOK
  <2>2. \A r \in references(s) : window_of(s, r) \in Window
    BY <2>1, ReferenceType, WindowType
  <2> DEFINE errors == IF s.method = "DATED" THEN {"EFAULT", "ENOENT"} ELSE {"EFAULT"}
             found == {window_of(s, r) : r \in references(s)}
             dropped(e) == [ret |-> e, ctx |-> [ctx EXCEPT !.window = NoWindow]]
             taken(w) == [ret |-> "OK",
                          ctx |-> [ctx EXCEPT !.window = w, !.nb_writes = noted(w)]]
  <2>3. find(s) = {dropped(e) : e \in errors} \cup {taken(w) : w \in found}
    BY <1>3, Zenon DEF find
  <2>4. CASE outcome \in {dropped(e) : e \in errors}
    <3>1. PICK e \in errors : outcome = dropped(e)
      BY <2>4
    <3> QED BY <3>1
  <2>5. CASE outcome \in {taken(w) : w \in found}
    <3>1. PICK w \in found : outcome = taken(w)
      BY <2>5
    <3>2. w \in Window
      BY <2>2
    <3> QED BY <1>3, <3>1, <3>2 DEF noted
  <2> QED BY <2>3, <2>4, <2>5
<1> QED BY <1>1, <1>2, <1>3

\* The call changes nothing but its answer; it drops the window; it takes a new
\* one, for a job with a block of its own or without.
Idle == UNCHANGED <<ctx, freed, job>>

Drop ==
  /\ ctx' = [ctx EXCEPT !.window = NoWindow]
  /\ job' = [job EXCEPT !.ended = TRUE, !.owed = GivenUp]
  /\ freed' = freed

named(block) == IF block = 0 THEN ctx.metadata ELSE block

Take(w, block) ==
  /\ ctx' = [ctx EXCEPT !.window = w, !.nb_writes = nb_writes[w.start],
                        !.metadata = named(block)]
  /\ job' = NextJob(block)
  /\ \/ block = 0 /\ freed' = freed
     \/ block = Len(freed) + 1 /\ freed' = Append(freed, 0)

\* Hence the calls that search.
LEMMA SearchEffect ==
  ASSUME TypeOK, shd_select_samples \/ shd_read_from_sample
  PROVE  /\ UNCHANGED <<shared, writes>>
         /\ result'.call \in {"shd_select_samples", "shd_read_from_sample"}
         /\ Idle \/ Drop \/ \E w \in Window, block \in {0, Len(freed) + 1} : Take(w, block)
<1>1. ASSUME NEW s \in Searches, NEW f \in {"shd_select_samples", "shd_read_from_sample"},
             NotFound(f, s)
      PROVE  UNCHANGED <<shared, writes>> /\ result'.call = f /\ (Idle \/ Drop)
  <2>1. PICK outcome \in find(s) :
          /\ outcome.ret # "OK" /\ ctx' = outcome.ctx
          /\ Answer(f, outcome.ret)
          /\ job' = IF outcome.ret \in {"EAGAIN", "EINVAL"} THEN job
                    ELSE [job EXCEPT !.ended = TRUE, !.owed = GivenUp]
          /\ UNCHANGED <<shared, freed, writes>>
    BY <1>1 DEF NotFound
  <2>2. result'.call = f
    BY <2>1 DEF Answer, Answered
  <2> QED BY <2>1, <2>2, FindOutcome DEF Idle, Drop
<1>2. ASSUME NEW s \in Searches, NEW outcome \in find(s), outcome.ret = "OK",
             ctx' = outcome.ctx, job' = NextJob(0), freed' = freed
      PROVE  \E w \in Window : Take(w, 0)
  <2>1. PICK w \in Window : outcome.ctx = [ctx EXCEPT !.window = w,
                                          !.nb_writes = nb_writes[w.start]]
    <3>1. outcome.ret \notin {"EAGAIN", "EINVAL", "EFAULT", "ENOENT"}
      BY <1>2
    <3> QED BY <3>1, FindOutcome
  <2>2. ctx' = [ctx EXCEPT !.window = w, !.nb_writes = nb_writes[w.start],
                           !.metadata = named(0)]
    BY <1>2, <2>1 DEF TypeOK, named
  <2> QED BY <1>2, <2>2 DEF Take
<1>3. ASSUME NEW s \in Searches, select_no_memory(s) \/ read_from_found(s)
      PROVE  /\ UNCHANGED <<shared, writes>>
             /\ result'.call \in {"shd_select_samples", "shd_read_from_sample"}
             /\ \E w \in Window : Take(w, 0)
  <2>1. UNCHANGED <<shared, writes>> /\ job' = NextJob(0) /\ freed' = freed
    BY <1>3 DEF select_no_memory, read_from_found
  <2>2. result'.call \in {"shd_select_samples", "shd_read_from_sample"}
    BY <1>3 DEF select_no_memory, read_from_found, Answer, Answered
  <2>3. \E outcome \in find(s) : outcome.ret = "OK" /\ ctx' = outcome.ctx
    BY <1>3 DEF select_no_memory, read_from_found
  <2> QED BY <1>2, <2>1, <2>2, <2>3
<1>4. ASSUME NEW s \in Searches, select_found(s)
      PROVE  /\ UNCHANGED <<shared, writes>>
             /\ result'.call = "shd_select_samples"
             /\ \E w \in Window : Take(w, Len(freed) + 1)
  <2>1. PICK outcome \in find(s) :
          /\ outcome.ret = "OK"
          /\ ctx' = [outcome.ctx EXCEPT !.metadata = Len(freed) + 1]
          /\ result'.call = "shd_select_samples"
    <3>1. PICK outcome \in find(s) : \E m, r :
            /\ outcome.ret = "OK"
            /\ ctx' = [outcome.ctx EXCEPT !.metadata = Len(freed) + 1]
            /\ result' = [call |-> "shd_select_samples", ret |-> "OK",
                          asked |-> s.before + s.after + 1, nb_matches |-> m,
                          r_sample_idx |-> r]
      BY <1>4 DEF select_found
    <3>2. result'.call = "shd_select_samples"
      BY <3>1
    <3> QED BY <3>1, <3>2
  <2>2. PICK w \in Window : outcome.ctx = [ctx EXCEPT !.window = w,
                                          !.nb_writes = nb_writes[w.start]]
    BY <2>1, FindOutcome
  <2>3. Len(freed) \in Nat
    BY DEF TypeOK
  <2>4. ctx' = [ctx EXCEPT !.window = w, !.nb_writes = nb_writes[w.start],
                           !.metadata = named(Len(freed) + 1)]
    <3>1. ctx \in [open : BOOLEAN, window : Window \cup {NoWindow},
                   nb_writes : Nat \cup {-1}, metadata : Blocks \cup {0}, rev : Nat]
      BY DEF TypeOK
    <3>2. ctx' = [ctx EXCEPT !.window = w, !.nb_writes = nb_writes[w.start],
                             !.metadata = Len(freed) + 1]
      BY <2>1, <2>2, <3>1
    <3>3. named(Len(freed) + 1) = Len(freed) + 1
      BY <2>3 DEF named
    <3> QED BY <3>2, <3>3
  <2>5. /\ UNCHANGED <<shared, writes>> /\ freed' = Append(freed, 0)
        /\ job' = NextJob(Len(freed) + 1)
    BY <1>4 DEF select_found
  <2> QED BY <2>1, <2>4, <2>5 DEF Take
<1> QED
  BY <1>1, <1>3, <1>4 DEF shd_select_samples, shd_read_from_sample

-----------------------------------------------------------------------------
(* Types *)

\* No call has been made at the start.
LEMMA InitTypes == Init => TypeOK
<1>1. -1 \in Slots \cup {-1}
  OBVIOUS
<1> QED
  BY <1>1 DEF Init, TypeOK, NewContext, NoJob, Blocks

\* The writes of the producer.
LEMMA ProducerTypes ==
  ASSUME TypeOK, produce \/ create_again
  PROVE  TypeOK'
<1>1. CASE produce
  <2>1. write_index' \in Slots
    <3>1. write_index \in Int
      BY DEF TypeOK, Slots
    <3> QED
      BY <1>1, <3>1, Constants, Remainder
      DEF produce, index_next, index_n_after, Slots
  <2>2. nb_writes' \in [Slots -> Nat \cup {-1}]
    BY <1>1, <2>1 DEF produce, TypeOK
  <2>3. job' \in [block : Blocks \cup {0}, ended : BOOLEAN, intact : BOOLEAN,
                  faulted : BOOLEAN, owed : SUBSET Blocks, bare : BOOLEAN]
    BY <1>1 DEF produce, TypeOK
  <2>4. UNCHANGED <<nb_creations, ctx, freed>> /\ writes' \in Nat
    BY <1>1 DEF produce, TypeOK
  <2> QED BY <2>1, <2>2, <2>3, <2>4 DEF TypeOK, Blocks
<1>2. CASE create_again
  <2>1. job' \in [block : Blocks \cup {0}, ended : BOOLEAN, intact : BOOLEAN,
                  faulted : BOOLEAN, owed : SUBSET Blocks, bare : BOOLEAN]
    BY <1>2 DEF create_again, TypeOK
  <2>2. nb_writes' \in [Slots -> Nat \cup {-1}] /\ write_index' = -1
    BY <1>2 DEF create_again
  <2>3. UNCHANGED <<ctx, freed, writes>> /\ nb_creations' \in Nat
    BY <1>2 DEF create_again, TypeOK
  <2> QED BY <2>1, <2>2, <2>3 DEF TypeOK, Blocks
<1> QED BY <1>1, <1>2

\* The searches.
LEMMA SearchTypes ==
  ASSUME TypeOK, shd_select_samples \/ shd_read_from_sample
  PROVE  TypeOK'
<1>1. UNCHANGED <<write_index, nb_writes, nb_creations, writes>>
  BY SearchEffect DEF shared
<1>2. Len(freed) \in Nat /\ GivenUp \in SUBSET Blocks
  BY DEF TypeOK, GivenUp, Blocks
<1>3. CASE Idle
  BY <1>1, <1>3 DEF Idle, TypeOK, Blocks
<1>4. CASE Drop
  BY <1>1, <1>2, <1>4 DEF Drop, TypeOK, Blocks
<1>5. ASSUME NEW w \in Window, NEW block \in {0, Len(freed) + 1}, Take(w, block)
      PROVE  TypeOK'
  <2>1. freed' \in Seq(Nat) /\ Blocks \subseteq Blocks' /\ block \in Blocks' \cup {0}
    <3>1. CASE freed' = freed /\ block = 0
      BY <1>2, <3>1 DEF TypeOK, Blocks
    <3>2. CASE freed' = Append(freed, 0) /\ block = Len(freed) + 1
      <4>1. freed' \in Seq(Nat) /\ Len(freed') = Len(freed) + 1
        BY <3>2 DEF TypeOK
      <4> QED BY <1>2, <3>2, <4>1 DEF Blocks
    <3> QED BY <1>5, <3>1, <3>2 DEF Take
  <2>2. nb_writes[w.start] \in Nat \cup {-1}
    BY DEF TypeOK, Window
  <2>3. ctx' \in [open : BOOLEAN, window : Window \cup {NoWindow},
                  nb_writes : Nat \cup {-1}, metadata : Blocks' \cup {0}, rev : Nat]
    BY <1>5, <2>1, <2>2 DEF Take, TypeOK, named
  <2>4. job' \in [block : Blocks' \cup {0}, ended : BOOLEAN, intact : BOOLEAN,
                  faulted : BOOLEAN, owed : SUBSET Blocks', bare : BOOLEAN]
    BY <1>2, <1>5, <2>1 DEF Take, NextJob, TypeOK
  <2> QED BY <1>1, <2>1, <2>3, <2>4 DEF TypeOK
<1> QED BY <1>3, <1>4, <1>5, SearchEffect

\* The other calls.
LEMMA CallTypes ==
  ASSUME TypeOK,
         \/ shd_read_quantity \/ end_read_early \/ end_read_overwritten
         \/ end_read \/ shd_close \/ shd_open
  PROVE  TypeOK'
<1>1. free \in Seq(Nat) /\ Len(free) = Len(freed)
  BY DEF TypeOK, free, Lesser, Blocks
<1>2. GivenUp \in SUBSET Blocks
  BY DEF TypeOK, GivenUp
<1>3. NoWindow \in Window \cup {NoWindow} /\ -1 \in Nat \cup {-1}
  OBVIOUS
<1> USE <1>3 DEF shared, Blocks
<1>4. CASE shd_read_quantity \/ end_read_early
  BY <1>4 DEF shd_read_quantity, end_read_early, TypeOK
<1>5. CASE end_read_overwritten
  BY <1>5 DEF end_read_overwritten, after_session, TypeOK
<1>6. CASE end_read
  BY <1>1, <1>6 DEF end_read, after_session, reset, TypeOK
<1>7. CASE shd_close
  BY <1>2, <1>7 DEF shd_close, Closed, NewContext, TypeOK
<1>8. CASE shd_open
  BY <1>8 DEF shd_open, NewContext, TypeOK
<1> QED BY <1>4, <1>5, <1>6, <1>7, <1>8

\* Every window the calls take is in the ring, and every index that outlives a
\* call too, whatever numbers of samples are asked for.
THEOREM SessionTypes == Spec => []TypeOK
<1>1. TypeOK /\ [Next]_vars => TypeOK'
  <2> SUFFICES ASSUME TypeOK, [Next]_vars PROVE TypeOK'
    OBVIOUS
  <2>1. CASE UNCHANGED vars
    BY <2>1 DEF vars, shared, TypeOK, Blocks
  <2> QED
    BY <2>1, ProducerTypes, SearchTypes, CallTypes DEF Next, Call
<1> QED BY <1>1, InitTypes, PTL DEF Spec

\* They hold in every state.
LEMMA TypesHold == Spec => []TypeOK
  BY SessionTypes

-----------------------------------------------------------------------------
(* The job a window belongs to.  A window is open as long as its job is;     *)
(* until the section is created again, the counter of its first slot does    *)
(* not go back, and passes the one noted when the slot is written.           *)

Overtaken == nb_writes[ctx.window.start] > ctx.nb_writes

JobInv ==
  /\ IF job.ended THEN ctx.window = NoWindow ELSE ctx.window \in Window
  /\ ~ctx.open => job.ended
  /\ ctx.rev <= nb_creations
  /\ ~job.ended /\ ctx.rev = nb_creations =>
       /\ nb_writes[ctx.window.start] >= ctx.nb_writes
       /\ ~job.intact \/ job.faulted => Overtaken
  /\ Ended("OK") => job.ended /\ job.intact /\ ~job.faulted
  /\ result.call = "shd_read_quantity" /\ result.ret = "OK" => ~job.ended

\* There is no job at the start.
LEMMA InitJob == Init => JobInv
  BY DEF Init, JobInv, NewContext, NoJob, Ended, Answered

\* The producer adds to a counter, or moves the revision number.
LEMMA ProducerJob ==
  ASSUME TypeOK, JobInv, produce \/ create_again
  PROVE  JobInv'
<1>1. CASE produce
  <2>1. /\ UNCHANGED <<ctx, result, nb_creations>>
        /\ job' = [job EXCEPT !.intact = @ /\ (job.ended \/ ctx.window.start # write_index')]
        /\ nb_writes' = [nb_writes EXCEPT ![write_index'] = @ + 1]
    BY <1>1 DEF produce
  <2>2. /\ job'.ended = job.ended /\ job'.faulted = job.faulted
        /\ job.ended => job'.intact = job.intact
    BY <2>1 DEF TypeOK
  <2>3. CASE job.ended
    BY <2>1, <2>2, <2>3 DEF JobInv, Ended
  <2>4. CASE ~job.ended
    <3>1. ctx.window.start \in Slots /\ ctx.nb_writes \in Nat \cup {-1}
      BY <2>4 DEF JobInv, Window, TypeOK
    <3>2. nb_writes[ctx.window.start] \in Nat \cup {-1}
      BY <3>1 DEF TypeOK
    <3>3. CASE ctx.window.start = write_index'
      <4>1. nb_writes'[ctx.window.start] = nb_writes[ctx.window.start] + 1
        BY <2>1, <3>1, <3>3 DEF TypeOK
      <4> QED BY <2>1, <2>2, <2>4, <3>1, <3>2, <4>1 DEF JobInv, Ended, Overtaken
    <3>4. CASE ctx.window.start # write_index'
      <4>1. nb_writes'[ctx.window.start] = nb_writes[ctx.window.start]
        BY <2>1, <3>1, <3>4 DEF TypeOK
      <4>2. job'.intact = job.intact
        BY <2>1, <3>4 DEF TypeOK
      <4> QED BY <2>1, <2>2, <2>4, <4>1, <4>2 DEF JobInv, Ended, Overtaken
    <3> QED BY <3>3, <3>4
  <2> QED BY <2>3, <2>4
<1>2. CASE create_again
  <2>1. /\ UNCHANGED <<ctx, result>> /\ nb_creations' = nb_creations + 2
        /\ job'.ended = job.ended /\ job'.faulted = job.faulted
        /\ job.ended => job'.intact = job.intact
    BY <1>2 DEF create_again, TypeOK
  <2>2. ctx.rev \in Nat /\ nb_creations \in Nat
    BY DEF TypeOK
  <2> QED BY <2>1, <2>2 DEF JobInv, Ended
<1> QED BY <1>1, <1>2

\* A search ends a job, or starts one whose counter is the one just noted.
LEMMA SearchJob ==
  ASSUME TypeOK, JobInv, ctx.open, shd_select_samples \/ shd_read_from_sample
  PROVE  JobInv'
<1>1. /\ UNCHANGED <<nb_writes, nb_creations>>
      /\ result'.call # "shd_end_read" /\ result'.call # "shd_read_quantity"
  BY SearchEffect DEF shared
<1>2. CASE Idle
  BY <1>1, <1>2 DEF Idle, JobInv, Ended, Overtaken
<1>3. CASE Drop
  <2>1. job'.ended /\ ctx'.window = NoWindow /\ ctx'.rev = ctx.rev
    BY <1>3 DEF Drop, TypeOK
  <2> QED BY <1>1, <2>1 DEF JobInv, Ended
<1>4. ASSUME NEW w \in Window, NEW block \in {0, Len(freed) + 1}, Take(w, block)
      PROVE  JobInv'
  <2>1. ~job'.ended /\ job'.intact /\ ~job'.faulted
    BY <1>4 DEF Take, NextJob
  <2>2. /\ ctx'.window = w /\ ctx'.rev = ctx.rev /\ ctx'.open = ctx.open
        /\ ctx'.nb_writes = nb_writes[w.start]
    BY <1>4 DEF Take, TypeOK
  <2>3. nb_writes[w.start] \in Nat \cup {-1}
    BY DEF TypeOK, Window
  <2> QED BY <1>1, <2>1, <2>2, <2>3 DEF JobInv, Ended
<1> QED BY <1>2, <1>3, <1>4, SearchEffect

\* An open window has a start.
LEMMA OpenWindow ==
  ASSUME TypeOK, JobInv
  PROVE  /\ ~job.ended <=> ctx.window.start >= 0
         /\ ~job.ended <=> ctx.window.nb_matches >= 0
         /\ ~job.ended => ctx.window.start \in Slots
  BY Constants DEF JobInv, Window, NoWindow, Slots

\* The other calls.
LEMMA CallJob ==
  ASSUME TypeOK, JobInv,
         \/ ctx.open /\ (\/ shd_read_quantity \/ end_read_early
                         \/ end_read_overwritten \/ end_read \/ shd_close)
         \/ ~ctx.open /\ shd_open
  PROVE  JobInv'
<1> USE OpenWindow DEF shared, Answer, Answered
<1>1. CASE shd_read_quantity
  <2>1. /\ UNCHANGED <<ctx, job, nb_writes, nb_creations>>
        /\ result'.call = "shd_read_quantity"
        /\ result'.ret = "OK" => ctx.window.nb_matches >= 0
    <3>1. PICK n \in 0 .. NbSamples :
            result' = Answered("shd_read_quantity",
                               IF ctx.window.nb_matches < 0 THEN "EPERM"
                               ELSE IF ctx.window.nb_matches > n THEN "EINVAL"
                               ELSE "OK")
      BY <1>1 DEF shd_read_quantity
    <3>2. ctx.window.nb_matches \in Int
      BY Constants DEF TypeOK, Window, NoWindow
    <3>3. CASE ctx.window.nb_matches < 0
      BY <1>1, <3>1, <3>3 DEF shd_read_quantity
    <3>4. CASE ctx.window.nb_matches >= 0
      BY <1>1, <3>1, <3>4 DEF shd_read_quantity
    <3> QED BY <3>2, <3>3, <3>4
  <2> QED BY <2>1 DEF JobInv, Ended, Overtaken
<1>2. CASE end_read_early
  BY <1>2 DEF end_read_early, JobInv, Ended, Overtaken
<1>3. CASE end_read_overwritten
  <2>1. /\ ~job.ended /\ UNCHANGED <<nb_writes, nb_creations>>
        /\ nb_writes[ctx.window.start] # ctx.nb_writes
        /\ result'.call = "shd_end_read" /\ result'.ret = "EFAULT"
    BY <1>3 DEF end_read_overwritten
  <2>2. /\ ctx'.window = ctx.window /\ ctx'.rev = ctx.rev /\ ctx'.open = ctx.open
        /\ ctx'.nb_writes = -1 /\ job'.ended = job.ended
    BY <1>3 DEF end_read_overwritten, after_session, TypeOK
  <2>3. /\ nb_writes[ctx.window.start] \in Nat \cup {-1}
        /\ ctx.nb_writes \in Nat \cup {-1}
    BY <2>1 DEF TypeOK
  <2> QED BY <2>1, <2>2, <2>3 DEF JobInv, Ended, Overtaken
<1>4. CASE end_read
  <2>1. /\ ~job.ended /\ UNCHANGED <<nb_writes, nb_creations>>
        /\ nb_writes[ctx.window.start] = ctx.nb_writes
        /\ result'.call = "shd_end_read"
        /\ result'.ret = IF revision_unchanged THEN "OK" ELSE "ENODEV"
    BY <1>4 DEF end_read
  <2>2. /\ ctx'.window = NoWindow /\ ctx'.rev = ctx.rev
        /\ job'.ended /\ job'.intact = job.intact /\ job'.faulted = job.faulted
    BY <1>4 DEF end_read, reset, TypeOK
  <2>3. revision_unchanged => job.intact /\ ~job.faulted
    <3>1. ctx.nb_writes \in Nat \cup {-1}
      BY DEF TypeOK
    <3> QED BY <2>1, <3>1 DEF revision_unchanged, JobInv, Overtaken
  <2> QED BY <2>1, <2>2, <2>3 DEF JobInv, Ended
<1>5. CASE shd_close
  <2>1. job'.ended /\ ctx' = Closed /\ result'.call = "shd_close"
    BY <1>5 DEF shd_close, TypeOK
  <2>2. nb_creations' \in Nat
    BY <1>5 DEF shd_close, TypeOK
  <2> QED BY <2>1, <2>2 DEF JobInv, Ended, Closed, NewContext
<1>6. CASE ~ctx.open /\ shd_open
  <2>1. /\ job' = job /\ ctx' = NewContext(nb_creations) /\ nb_creations' = nb_creations
        /\ result'.call = "shd_open"
    BY <1>6 DEF shd_open
  <2>2. job.ended /\ nb_creations \in Nat
    BY <1>6 DEF JobInv, TypeOK
  <2> QED BY <2>1, <2>2 DEF JobInv, Ended, NewContext
<1> QED BY <1>1, <1>2, <1>3, <1>4, <1>5, <1>6

\* Hence every step keeps JobInv.
LEMMA NextJobInv ==
  ASSUME TypeOK, JobInv, [Next]_vars
  PROVE  JobInv'
<1>1. CASE UNCHANGED vars
  BY <1>1 DEF vars, shared, JobInv, Ended, Overtaken
<1> QED BY <1>1, ProducerJob, SearchJob, CallJob DEF Next, Call

\* It holds in every state.
LEMMA JobInvHolds == Spec => []JobInv
  BY InitJob, NextJobInv, TypesHold, PTL DEF Spec

\* When shd_end_read returns 0, nothing was written at the start of the window
\* since the search that set it, and no earlier shd_end_read said otherwise,
\* through any sequence of other calls, creations and laps of the producer.
THEOREM ValidatedJobs == Spec => []ValidatedSpansJob
<1>1. JobInv => ValidatedSpansJob
  BY DEF JobInv, ValidatedSpansJob
<1> QED BY <1>1, JobInvHolds, PTL

\* Samples are copied for a current job only.
THEOREM ReadsBelong == Spec => []ReadsOnlyInJob
<1>1. JobInv => ReadsOnlyInJob
  BY DEF JobInv, ReadsOnlyInJob
<1> QED BY <1>1, JobInvHolds, PTL

-----------------------------------------------------------------------------
(* The blocks of metadata.  The block of a job in progress is the one the    *)
(* context points to, and was not freed; a block not freed that the context  *)
(* will lose is owed, or is that of the job in progress.                     *)

InProgress(b) == ~job.ended /\ job.block = b

BlockInv ==
  /\ \A b \in Blocks : InProgress(b) => ctx.metadata = b /\ freed[b] = 0
  /\ \A b \in Blocks : freed[b] = 0 /\ ctx.metadata # b => b \in job.owed
  /\ \A b \in Blocks : freed[b] = 0 /\ ctx.metadata = b => b \in job.owed \/ InProgress(b)
  /\ ~job.bare => \A b \in Blocks : freed[b] <= 1
  /\ ~ctx.open => ctx.metadata = 0

\* There is no block at the start.
LEMMA InitBlocks == Init => BlockInv
  BY DEF Init, BlockInv, Blocks, NewContext

\* A search owes the block of the job it gives up, and its own is new.
LEMMA SearchBlocks ==
  ASSUME TypeOK, BlockInv, ctx.open, shd_select_samples \/ shd_read_from_sample
  PROVE  BlockInv'
<1>1. CASE Idle
  BY <1>1 DEF Idle, BlockInv, Blocks, InProgress
<1>2. CASE Drop
  <2>1. /\ job'.ended /\ job'.owed = GivenUp /\ job'.bare = job.bare
        /\ ctx'.metadata = ctx.metadata /\ freed' = freed /\ ctx'.open
    BY <1>2 DEF Drop, TypeOK
  <2> QED BY <2>1 DEF BlockInv, Blocks, InProgress, GivenUp
<1>3. ASSUME NEW w \in Window, NEW block \in {0, Len(freed) + 1}, Take(w, block)
      PROVE  BlockInv'
  <2>1. /\ ~job'.ended /\ job'.owed = GivenUp /\ job'.bare = job.bare
        /\ job'.block = block
    BY <1>3 DEF Take, NextJob
  <2>2. ctx'.metadata = named(block) /\ ctx'.open
    BY <1>3 DEF Take, TypeOK
  <2>3. Len(freed) \in Nat /\ job.block \in Blocks \cup {0} /\ ctx.metadata \in Blocks \cup {0}
    BY DEF TypeOK
  <2>4. \A b \in Blocks : freed[b] = 0 => b \in GivenUp
    BY <2>3 DEF BlockInv, InProgress, GivenUp, Blocks
  <2>5. CASE block = 0 /\ freed' = freed
    BY <2>1, <2>2, <2>3, <2>4, <2>5 DEF BlockInv, Blocks, InProgress, named
  <2>6. CASE block = Len(freed) + 1 /\ freed' = Append(freed, 0)
    <3>1. /\ Len(freed') = Len(freed) + 1 /\ freed'[block] = 0
          /\ \A b \in Blocks : freed'[b] = freed[b]
      BY <2>6 DEF TypeOK, Blocks
    <3>2. named(block) = block
      BY <2>3, <2>6 DEF named
    <3>3. Blocks' = Blocks \cup {block} /\ block \notin Blocks
      BY <2>3, <2>6, <3>1 DEF Blocks
    <3>4. \A b \in Blocks' : freed'[b] = 0 => b = block \/ b \in GivenUp
      BY <2>4, <3>1, <3>3
    <3>5. \A b \in Blocks' : InProgress(b)' <=> b = block
      BY <2>1 DEF InProgress
    <3>6. ~job'.bare => \A b \in Blocks' : freed'[b] <= 1
      BY <2>1, <3>1, <3>3 DEF BlockInv
    <3> QED
      BY <2>1, <2>2, <3>1, <3>2, <3>4, <3>5, <3>6 DEF BlockInv
  <2> QED BY <1>3, <2>5, <2>6 DEF Take
<1> QED BY <1>1, <1>2, <1>3, SearchEffect

\* shd_end_read frees the block of its job, or, for a job without one, that of
\* an earlier job.
LEMMA EndReadBlocks ==
  ASSUME TypeOK, JobInv, BlockInv, ctx.open, end_read
  PROVE  BlockInv'
<1>1. ~job.ended
  BY OpenWindow DEF end_read
<1>2. /\ job'.ended /\ job'.owed = job.owed /\ job'.block = job.block
      /\ job'.bare = (job.bare \/ job.block = 0)
      /\ ctx'.metadata = ctx.metadata /\ freed' = free /\ ctx'.open
  BY DEF end_read, TypeOK
<1>3. freed \in Seq(Nat) /\ job.block \in Blocks \cup {0} /\ ctx.metadata \in Blocks \cup {0}
  BY DEF TypeOK
<1>4. Len(free) = Len(freed)
  BY <1>3 DEF free, Lesser, Blocks
<1>5. \A b \in Blocks : b # ctx.metadata => free[b] = freed[b]
  BY <1>3 DEF free, Blocks
<1>6. ctx.metadata # 0 => free[ctx.metadata] = Lesser(freed[ctx.metadata] + 1, 2)
  BY <1>3 DEF free, Blocks
<1>7. \A b \in Blocks : b = ctx.metadata => free[b] # 0
  BY <1>3, <1>6 DEF Lesser, Blocks
<1>8. ~job'.bare => \A b \in Blocks : free[b] <= 1
  <2> SUFFICES ASSUME ~job'.bare, NEW b \in Blocks PROVE free[b] <= 1
    OBVIOUS
  <2>1. job.block \in Blocks /\ ~job.bare
    BY <1>2, <1>3
  <2>2. ctx.metadata = job.block /\ freed[job.block] = 0
    BY <1>1, <2>1 DEF BlockInv, InProgress
  <2>3. freed[b] <= 1
    BY <2>1 DEF BlockInv
  <2>4. CASE b = ctx.metadata
    BY <1>6, <2>2, <2>4 DEF Lesser, Blocks
  <2>5. CASE b # ctx.metadata
    BY <1>5, <2>3, <2>5
  <2> QED BY <2>4, <2>5
<1>9. Blocks' = Blocks
  BY <1>2, <1>4 DEF Blocks
<1> QED
  BY <1>2, <1>5, <1>7, <1>8, <1>9 DEF BlockInv, InProgress

\* The other calls free nothing; shd_close owes the block of its job.
LEMMA OtherBlocks ==
  ASSUME TypeOK, BlockInv,
         \/ produce \/ create_again
         \/ shd_read_quantity \/ end_read_early \/ end_read_overwritten
         \/ shd_close \/ (~ctx.open /\ shd_open)
  PROVE  BlockInv'
<1>1. CASE produce \/ create_again \/ shd_read_quantity \/ end_read_early \/ end_read_overwritten
  <2>1. /\ freed' = freed /\ ctx'.metadata = ctx.metadata /\ ctx'.open = ctx.open
        /\ job'.ended = job.ended /\ job'.block = job.block
        /\ job'.owed = job.owed /\ job'.bare = job.bare
    BY <1>1 DEF produce, create_again, shd_read_quantity, end_read_early,
       end_read_overwritten, TypeOK
  <2> QED BY <2>1 DEF BlockInv, Blocks, InProgress
<1>2. CASE shd_close
  <2>1. /\ freed' = freed /\ ctx'.metadata = 0 /\ job'.ended
        /\ job'.owed = GivenUp /\ job'.bare = job.bare
    BY <1>2 DEF shd_close, Closed, NewContext, TypeOK
  <2> QED BY <2>1 DEF BlockInv, Blocks, InProgress, GivenUp
<1>3. CASE ~ctx.open /\ shd_open
  <2>1. /\ freed' = freed /\ job' = job /\ ctx'.metadata = 0 /\ ctx.metadata = 0
    BY <1>3 DEF shd_open, NewContext, BlockInv
  <2> QED BY <2>1 DEF BlockInv, Blocks, InProgress
<1> QED BY <1>1, <1>2, <1>3

\* Hence every step keeps BlockInv.
LEMMA NextBlocks ==
  ASSUME TypeOK, JobInv, BlockInv, [Next]_vars
  PROVE  BlockInv'
<1>1. CASE UNCHANGED vars
  BY <1>1 DEF vars, BlockInv, Blocks, InProgress
<1>2. CASE produce \/ create_again
  BY <1>2, OtherBlocks
<1>3. CASE ctx.open /\ Call
  BY <1>3, SearchBlocks, EndReadBlocks, OtherBlocks DEF Call
<1>4. CASE ~ctx.open /\ shd_open
  BY <1>4, OtherBlocks
<1> QED BY <1>1, <1>2, <1>3, <1>4 DEF Next

\* It holds in every state.
LEMMA BlockInvHolds == Spec => []BlockInv
  BY InitBlocks, NextBlocks, TypesHold, JobInvHolds, PTL DEF Spec

\* The double free takes a job that allocated no metadata: without one, no
\* sequence of calls frees a block twice.
THEOREM BlocksFreedOnce == Spec => []FreedTwiceOnlyByBareJob
<1>1. BlockInv => FreedTwiceOnlyByBareJob
  BY DEF BlockInv, FreedTwiceOnlyByBareJob
<1> QED BY <1>1, BlockInvHolds, PTL

\* The leak takes a job that was given up.
THEOREM BlocksLeftAreOwed == Spec => []LeakOnlyOfGivenUpJob
<1>1. BlockInv => LeakOnlyOfGivenUpJob
  BY DEF BlockInv, LeakOnlyOfGivenUpJob
<1> QED BY <1>1, BlockInvHolds, PTL

-----------------------------------------------------------------------------
(* The window of a request whose sum does not wrap *)

\* A remainder by the size of the ring, once round at most.
LEMMA OnceRound ==
  ASSUME NEW x \in 0 .. 2 * NbSamples - 1
  PROVE  x % NbSamples = IF x < NbSamples THEN x ELSE x - NbSamples
<1>1. CASE x < NbSamples
  BY <1>1, Constants
<1>2. CASE x >= NbSamples
  <2>1. x - NbSamples \in 0 .. NbSamples - 1
    BY <1>2, Constants
  <2>2. x = 1 * NbSamples + (x - NbSamples)
    BY Constants
  <2> QED BY <1>2, <2>1, <2>2, Constants
<1> QED BY <1>1, <1>2, Constants

\* Numbers of samples below the size of the ring are small in both types.
LEMMA SmallSteps ==
  ASSUME NEW r \in Slots, NEW n \in 0 .. NbSamples - 1
  PROVE  /\ to_int(n) = n
         /\ before(r, n) \in Slots
         /\ before(r, n) = IF n <= r THEN r - n ELSE r + NbSamples - n
         /\ after(r, n) \in Slots
         /\ after(r, n) = IF r + n < NbSamples THEN r + n ELSE r + n - NbSamples
<1>1. UintMod \in Nat /\ UintMod > 2 * NbSamples /\ NbSamples \in Nat \ {0}
  BY Constants, UintModAssumption
<1>2. r + NbSamples - n \in 0 .. 2 * NbSamples - 1 /\ r + n \in 0 .. 2 * NbSamples - 1
  BY <1>1 DEF Slots
<1>3. \A x \in 0 .. 2 * NbSamples - 1 : x % UintMod = x
  BY <1>1
<1>4. before(r, n) = IF r + NbSamples - n < NbSamples THEN r + NbSamples - n ELSE r - n
  BY <1>1, <1>2, <1>3, OnceRound DEF before, Slots
<1>5. after(r, n) = IF r + n < NbSamples THEN r + n ELSE r + n - NbSamples
  BY <1>1, <1>2, <1>3, OnceRound DEF after, Slots
<1>6. to_int(n) = n
  BY <1>1 DEF to_int
<1> QED BY <1>1, <1>4, <1>5, <1>6 DEF Slots

\* The window has the reference where the caller is told, and no more samples
\* than it asked for.
LEMMA WindowSize ==
  ASSUME NEW s \in Search, NEW r \in Slots, write_index \in Slots,
         s.before + s.after + 1 < UintMod, ~too_many(s)
  PROVE  LET w == window_of(s, r) IN
         /\ interval_between(w.start, w.ref) < w.nb_matches
         /\ w.nb_matches <= s.before + s.after + 1
<1> DEFINE nb_more_recent == interval_between(r, write_index)
           nb_older == interval_between(index_next(write_index), r)
           n1 == Lesser(nb_older, to_int(s.before))
           n2 == Lesser(nb_more_recent, to_int(s.after))
           start == before(r, n1)
           end   == after(r, n2)
<1>1. UintMod \in Nat /\ UintMod > 2 * NbSamples /\ NbSamples \in Nat \ {0}
  BY Constants, UintModAssumption
<1>2. s.before \in Nat /\ s.after \in Nat
  BY <1>1 DEF Search, Uint
<1>3. s.before + s.after + 1 <= NbSamples
  <2>1. s.after + s.before + 1 \in 0 .. UintMod - 1
    BY <1>1, <1>2
  <2>2. (s.after + s.before + 1) % UintMod = s.after + s.before + 1
    BY <1>1, <2>1
  <2>3. ~(s.after + s.before + 1 > NbSamples)
    BY <2>2 DEF too_many
  <2> QED BY <1>1, <1>2, <2>3
<1>4. s.before \in 0 .. NbSamples - 1 /\ s.after \in 0 .. NbSamples - 1
  BY <1>1, <1>2, <1>3
<1>5. to_int(s.before) = s.before /\ to_int(s.after) = s.after
  BY <1>4, SmallSteps
<1>6. nb_more_recent \in 0 .. NbSamples - 1 /\ nb_older \in 0 .. NbSamples - 1
  <2>1. index_next(write_index) \in Slots
    BY <1>1, Remainder DEF index_next, index_n_after, Slots
  <2>2. nb_older \in 0 .. NbSamples - 1
    BY <2>1, Interval
  <2>3. nb_more_recent \in 0 .. NbSamples - 1
    BY Interval
  <2> QED BY <2>2, <2>3
<1>7. n1 \in 0 .. s.before /\ n2 \in 0 .. s.after
  BY <1>4, <1>5, <1>6 DEF Lesser
<1>8. n1 \in 0 .. NbSamples - 1 /\ n2 \in 0 .. NbSamples - 1 /\ n1 + n2 <= NbSamples - 1
  BY <1>1, <1>2, <1>3, <1>7
<1> HIDE DEF n1, n2
<1>9. /\ start \in Slots /\ start = IF n1 <= r THEN r - n1 ELSE r + NbSamples - n1
      /\ end \in Slots /\ end = IF r + n2 < NbSamples THEN r + n2 ELSE r + n2 - NbSamples
  BY <1>8, SmallSteps
<1> HIDE DEF start, end
<1>10. interval_between(start, r) = n1
  BY <1>1, <1>8, <1>9 DEF interval_between, Slots
<1>11. interval_between(start, end) = n1 + n2
  BY <1>1, <1>8, <1>9 DEF interval_between, Slots
<1>12. window_of(s, r) = [start |-> start, ref |-> r, end |-> end,
                          nb_matches |-> 1 + interval_between(start, end)]
  BY DEF window_of, start, end, n1, n2
<1> QED BY <1>2, <1>7, <1>8, <1>10, <1>11, <1>12

\* An answer that tells of a window tells of that of its search.
LEMMA AnswerInWindow ==
  ASSUME TypeOK, ReferenceInWindow, Next
  PROVE  ReferenceInWindow'
<1>1. CASE result' = result
  BY <1>1 DEF ReferenceInWindow
<1>2. CASE \E f, value : result' = Answered(f, value)
  BY <1>2 DEF ReferenceInWindow, Answered
<1>3. ASSUME NEW s \in Searches, select_found(s), result'.asked \in 1 .. UintMod - 1
      PROVE  /\ result'.r_sample_idx < result'.nb_matches
             /\ result'.nb_matches <= result'.asked
  <2>1. PICK outcome \in find(s) :
          /\ outcome.ret = "OK"
          /\ result' = [call |-> "shd_select_samples", ret |-> "OK",
               asked |-> s.before + s.after + 1,
               nb_matches |-> outcome.ctx.window.nb_matches,
               r_sample_idx |-> interval_between(outcome.ctx.window.start,
                                                 outcome.ctx.window.ref)]
    BY <1>3 DEF select_found
  <2>2. write_index # -1 /\ ~too_many(s)
    BY <2>1, FindOutcome
  <2>3. \E r \in references(s) : outcome.ctx.window = window_of(s, r)
    <3>1. PICK w \in Window :
            /\ \E r \in references(s) : w = window_of(s, r)
            /\ outcome.ctx = [ctx EXCEPT !.window = w, !.nb_writes = nb_writes[w.start]]
      BY <2>1, FindOutcome
    <3>2. outcome.ctx.window = w
      BY <3>1 DEF TypeOK
    <3> QED BY <3>1, <3>2
  <2>4. write_index \in Slots /\ s \in Search
    BY <2>2, SearchesAssumption DEF TypeOK
  <2>5. PICK r \in Slots : outcome.ctx.window = window_of(s, r)
    BY <2>3, <2>4, ReferenceType
  <2>6. s.before + s.after + 1 < UintMod
    BY <1>3, <2>1, <2>4, Constants DEF Search, Uint
  <2> QED BY <2>1, <2>2, <2>4, <2>5, <2>6, WindowSize
<1>4. CASE \E s \in Searches : select_found(s)
  BY <1>3, <1>4 DEF ReferenceInWindow
<1>5. CASE produce \/ create_again
  BY <1>1, <1>5 DEF produce, create_again
<1>6. CASE \E s \in Searches :
             \/ select_no_memory(s) \/ read_from_found(s)
             \/ NotFound("shd_select_samples", s)
             \/ NotFound("shd_read_from_sample", s)
  BY <1>2, <1>6 DEF select_no_memory, read_from_found, NotFound, Answer
<1>7. CASE \/ shd_read_quantity \/ end_read_early \/ end_read_overwritten
           \/ end_read \/ shd_close \/ shd_open
  BY <1>2, <1>7 DEF shd_read_quantity, end_read_early, end_read_overwritten,
     end_read, shd_close, shd_open, Answer
<1> QED
  BY <1>4, <1>5, <1>6, <1>7
  DEF Next, Call, shd_select_samples, shd_read_from_sample

\* The caller of shd_select_samples finds the reference in the arrays, which hold
\* no more samples than it asked for, unless the numbers it gave wrap.
THEOREM ReferenceFound == Spec => []ReferenceInWindow
<1>1. Init => ReferenceInWindow
  BY DEF Init, ReferenceInWindow, Answered
<1>2. TypeOK /\ ReferenceInWindow /\ [Next]_vars => ReferenceInWindow'
  <2>1. ReferenceInWindow /\ UNCHANGED vars => ReferenceInWindow'
    BY DEF vars, ReferenceInWindow
  <2> QED BY <2>1, AnswerInWindow
<1> QED BY <1>1, <1>2, TypesHold, PTL DEF Spec

=============================================================================
