# Verification of libshdata

libshdata shares samples between processes: a *producer* creates a memory
section that holds a ring of samples, and *consumers* map the same section, search
it by date, copy what they want and ask at the end whether the copy was valid.
Nothing blocks: producers never wait for consumers, and consumers take no lock.
All of it rests on a few integers in shared memory. The modules here are TLA+
models of that protocol, with TLC configurations that check them on small
instances and TLAPS proofs of what holds for every instance.

Paths are relative to the root of the project that holds `src/` (the repository)
and `tla/` (this directory). `PROJECT.json` has, for each definition, the lines it
models, and lists the runs, the hazards, the findings and the theorems.

    tlc -config MCShdWrite_blob.cfg MCShdWrite     # one run
    tlapm ShdWriteProofs.tla                       # the proofs of one module

## 1. Inventory

| Part | Source | State | Operations | Model |
|---|---|---|---|---|
| Index arithmetic | `src/src/shd_utils.h` | none | `index_next`, `index_n_before`, `interval_between` ... | `ShdIndex` |
| Layout of a section | `shd_section.c`, `shd_data.c`, `shd_sample.c` | none | `get_offsets`, `shd_section_get_total_size`, `shd_data_get_sample_ptr` ... | `ShdLayout` |
| Write session | `shd_sync.c`, `shd_data.c`, `shd_sample.c`, `shd.c` | shared: `write_index`, `nb_ongoing_writes`, per slot `nb_writes` and content; per context: `index`, `prev_index` | `shd_new_sample`, `shd_write_quantity`, `shd_commit_sample`, `shd_write_new_blob` | `ShdWrite` |
| Search and window | `shd_search.c`, `shd_window.c` | per context: `struct search_ctx`, `struct shd_window` | five methods, naive and binary hints, `shd_search_end` | `ShdRead` |
| Read job | `shd_data.c`, `shd_sync.c`, `shd.c` | per context: `nb_writes`, `window`, `metadata` | `shd_select_samples`, `shd_read_quantity`, `shd_read_from_sample`, `shd_end_read` | `ShdRead` (one job, access by access), `ShdSession` (jobs, call by call) |
| Section life, revision | `shd.c`, `shd_sync.c`, `shd_hdr.c`, `shd_mdata_hdr.c`, `shd_section.c`, `shd_ctx.c` | shared: `revision.nb_creations`, `magic_number`, `user_info`, metadata header; per context: mapping, descriptor, `shd_revision` | `shd_create`, `shd_open`, `shd_close`, `shd_read_section_hdr`, `shd_read_blob_metadata_hdr` | `ShdSection` |
| shm backend | `backend/shd_shm.c` | the file, its size, `flock` | create, open, resize, lock, header read | `ShdSection` |
| dev_mem, baremetal backends | `backend/` | fixed memory | the same; nothing is resized, nothing locks | `ShdSection` |
| Lookup, primitives | `lookup/` | tables of names | which backend, which `add_and_fetch` | `ShdSection` (`Lookup`), `ShdBpmp` |
| Hooks, examples, tests | `src/include`, `src/examples`, `src/tests` | - | - | not modelled |

**How they interact.** Everything passes through shared memory, and one kernel
object, the lock on the file. A write takes the section by an atomic
increment of `nb_ongoing_writes`, increments `nb_writes` of the slot after
`write_index`, fills it, stores `write_index` and clears `nb_ongoing_writes`. A
search reads `write_index` and the counter of that slot, looks at time stamps
while producers go on, and compares `write_index` and one counter at the end.
The read job notes the counter of the first slot of its window, copies, and
compares it again. `shd_create` makes the revision number odd, rewrites headers
and samples, and makes it even; `shd_open` refuses an odd one, and every read
compares the number to the one of the opening.

**What is hard**, and what makes each part correct:

- *Write session.* Several contexts may write, which the library only detects.
  The increment of a refused call stays, `write_index` is read twice, and the
  detection is a `uint32_t` difference modulo the ring. Correct: one writer at a
  time, both reads agree, counters tell laps, published samples do not move.
- *Search and window.* The ring moves under the search. Correct: a search nobody
  disturbs finds what its method means, one that was overtaken is told, it ends.
- *Read job.* One counter vouches for several copies of several slots, and the calls
  come in any order, each on what the last one left in the context. Correct: what
  is validated is what the window held, reads belong to a job under way, metadata
  is freed once, sizes that wrap give no window out of the ring.
- *Section life.* A producer may be killed anywhere; two may create the section at
  once; consumers may open it half made, or hold a mapping of an earlier one.
  Correct: the lock keeps creations apart, parity tells when the section is
  being rewritten, a restart succeeds, a consumer is told of a re-creation, the
  file is as long as what is written to it.

The `hazards` of `PROJECT.json` put each of these at its line.

## 2. Modules

    ShdIndex --> ShdWrite --> ShdRead --> ShdReadProofs --> ShdSearchProofs
        |        |  |  | \--> ShdBpmp --> ShdBpmpProofs
        |  ShdLog   |  \----> ShdWriteProofs --> ShdWriteLapProofs (used by ShdReadProofs)
        |  (refined)\--> MCShdWrite; ShdRead --> MCShdRead; ShdBpmp --> MCShdBpmp
        \------> ShdSession --> ShdSessionProofs, MCShdSession
    ShdLayout -> ShdSection --> ShdSectionProofs --> ShdSectionSoleProofs
        |            \--> MCShdSection

Except in ShdSession, an action is one access to shared memory with the local code
up to the next one; a `pc` says which access is next, and actions carry the names of
the functions or of the access. In the source order:

**ShdWrite.** `start_write_session` is the `add_and_fetch` of
`shd_sync_start_write_session` (granted or refused), `get_next_write_index` the
first read of `write_index` in `shd_data_reserve_write`, `invalidate` the increment
of `nb_writes`, `take_index` the second read with the check that ends in
`-EFAULT`, `write_metadata` and `write_quantity` the copies, `commit` and `release`
the two stores of `shd_sync_end_write_session`. `shd_write_new_blob` runs them in one call;
the step-by-step API gives the client the choice of the next call, out of
sequence or after an error included. A sample is two words, metadata and blob,
each the rank of the session that stored it. `sessions`, `payload` and `foreign`
are history. Every context is open on the section and none re-creates it.

**ShdLog** is the abstract specification of a ring of N slots: a log of its last
N - 1 samples, each whole and newer than the last. `ShdWrite!ImplementsLog` is
`Log!Spec` under the mapping `published`.

**ShdBpmp** is ShdWrite with `bpmp_add_and_fetch`, which the x1 lookup gives to the sections
the board shares with its other processor: the increment is a load, a store and
another load (`load_ongoing`, `store_ongoing`, `fetch_ongoing`, and `load_writes`, `store_writes` for the counter of
the slot, whose new value nobody looks at). All other actions are those of ShdWrite. `ImplementsAtomic` is `Atomic!Spec`,
ShdWrite under a mapping that puts the increment, and the grant or the refusal that follows from it, at the load:
between the load and the end of the increment the mapping shows the state that is to come.

**ShdRead** adds one consumer to ShdWrite: `call_find`/`find` (`shd_data_find`), `search_start`,
`search_top`, `max_depth`, `naive` or `binary` and `binary_end`, `closest_before`/`closest_after`,
`search_end_index`/`search_end_writes` (`shd_search_end`, then the window),
`start_read_session`, `read_sample` (one word of one slot), `end_read`. One consumer is
enough, for consumers write nothing that others see.

**ShdSession** is what ShdRead leaves out of the read job: the calls of one context in any
order, with the state that outlives a call (`ctx`: window, counter noted, pointer to the
metadata, revision). One action is one call of `shd.c`, or one of its outcomes:
`shd_select_samples` (found, out of memory, not found), `shd_read_from_sample`,
`shd_read_quantity` (any room in the destination), `shd_end_read` (out of sequence, `-EFAULT`, ended,
with or without `-ENODEV`), `shd_close`, `shd_open`. The producer commits (`produce`) and creates the section
again (`create_again`) between calls; what it does during a search is only that the
search may fail with `-EFAULT`, since ShdRead has the rest. The window is computed in the
widths of the code, `uint32_t` modulo `UintMod` and the `int` of `min()` (`to_int`), for requests of any
size. `freed` counts the calls of `free` per block of metadata, and the history `job` says what the
last search that succeeded is owed.

**ShdLayout** has the byte offsets of the header, metadata header and samples, and both formulas
of the size of a section: one sizes the file, the other the mapping.

**ShdSection** has the steps of `shd_create` (`section_create` ... `section_unlock`), of
`shd_open` (`section_open` ... `update_local_revision_nb`) and of the calls that check the
revision, three steps of a write, and `crash`, which the kernel follows by
dropping the lock. Contents are the number of the creation they come from;
`infos` gives the format of each, whose sizes follow ShdLayout. The failure of `shd_create` frees
the section twice, undefined behaviour modelled as a choice between returning NULL and
the death of the process. A read outside of the mapping or of the file may kill the
consumer, a write outside of the file the producer. `Leftover` says whether the uninitialized header of
`shd_hdr_read` may happen to hold that of another section. `backend` is one of those `Lookup` allows:
a file that starts absent, or fixed memory of `MemorySize` bytes that is there from the start, is never
a first creation, takes no lock, and may hold an odd revision number from before (1 stands
for it; `interrupted` counts it as a death). `Exclusive` says that the lock, or having one producer, keeps
creations apart: on fixed memory with two producers nothing does.

Definitions named `..._unchecked`, `..._ahead`, `..._ignored` and so on are
plausible slips of the code. Nothing uses them but the mutation of the model, which
shows that each property can fail.

## 3. Runs

Passing runs:

| Run | Bounds | Shows |
|---|---|---|
| `write_blob` | 3 contexts, 3 slots, 7 sessions | `OneWriter`, `SectionHeld`, `OneSlotPerWrite`, `LapOrder`; `-EFAULT` exact up to whole laps (`FaultMeansForeignWrite`, `NoFaultMeansWholeLaps`), final (`FaultStopsTheRing`); `PublishedStable`; refinement of `ShdLog` (`ImplementsLog`) |
| `write_steps` | 2 contexts, 2 slots, 6 sessions | the core when clients interleave step calls, out of sequence and after errors (`LapOrder`; the rest is proved for them too); `SessionsEnd` |
| `read_jobs` | 1 producer, 3 slots, 6 sessions, both hints | `ValidatedReadIsTheWindow`, `WindowAroundReference`, `QuietSearchIsRight`, `SearchEndIsExact`, `NoFalseAlarm`, `WindowLasts`, `OldestHasMargin`, `LatestIsFresh`, for every method |
| `read_live` | 1 producer, 3 slots, 4 sessions, both hints | `ReadReturns` |
| `session_calls` | 3 slots, 4 commits, 2 creations, 2 blocks, `UintMod` 16 | for any sequence of calls: `ValidatedSpansJob`, `ReadsOnlyInJob`, `ReferenceInWindow`, `FreedTwiceOnlyByBareJob`, `LeakOnlyOfGivenUpJob`, and (`TypeOK`) windows in the ring for requests that wrap |
| `section_restart` | each backend; 1 producer killed anywhere, 3 creations, 2 formats, leftover header | until a death inside the update: `EvenCountsCreations`, `RestartSucceeds`; in any case `RestartIsGrantedWrites`, `CreatorFitsSection`; what an even revision means before such a death and after one `DeathInvertsRevision`; up to one, `SettledReadIsOfItsCreation`, `HeaderStandsWithRevision` |
| `section_race` | shm; 2 producers killed outside of the update, 2 creations, 2 formats | `OneCreator`, `OddWhileUpdating`, `OpenedOnAFormat`, `ConsumerGetsIn` |

**Why the bounds are enough.** A ring of 2 slots is the least where a slot can be written
while another is read, of 3 the least where a window of several samples has a
margin and the binary search takes two turns. Six or seven sessions on 3 slots
make two laps, so that counters go past the -1 and 0 of a new ring and every slot is
rewritten under a reader. Three contexts are the least where a third moves the
counters between two others. Three creations give two re-creations, hence a
consumer of the first one that meets the second and third. In `session_calls`, 4 commits fill
the ring and rewrite its first slot, 2 creations put one re-creation anywhere in a job, and 2 blocks
are the least where a job can free the metadata of another. The two formats differ in each of their
three sizes, and header and sample header sizes (6 and 4) are such that rounding up matters.
`MaxOngoing` stops refused calls from adding up: the code only compares the counter to 1.
`UintMod` stands for 2^32: any number larger than the ring shows the wrap of the write side, and
16 leaves room for sums on both sides of the sign bit. Deadlock is checked in every
run: clients that stop do so by an explicit action (`ClientsDone`), and a consumer may
always call again. No symmetry is used, since the step runs check liveness.

**Fairness.** Threads inside a call keep running (`WF` of `Proceed`, `Read`, `Open`): the code has
no blocking call. A client that got a sample by `shd_new_sample` commits it, which
is the `@post` of that function; without it nothing ends, and nothing in the
library can help. A consumer retries `shd_open`, as its tests and the `@todo` of
`src/src/shd.c:215` have it. No client is assumed to write, create or read again, and
ShdSession, whose actions are whole calls, has no fairness.
Crashes during the update are left out of `section_race` only, because they make the
section unusable (`section_crash_create`).

Runs that find the code at odds with its documentation or tests, which the findings of
`PROJECT.json` quote:

| Run | Bounds | What TLC shows |
|---|---|---|
| `read_torn` | 1 producer, 2 slots | A read session started on a slot under rewrite is validated half old, half new |
| `section_crash_create` | 1 producer | A producer killed during the update makes all later `shd_create` fail |
| `section_late_format` | 1 producer, 2 formats | `shd_open` can pair an old format with the new revision, and reads of it are validated |
| `session_metadata` | 2 blocks | `shd_end_read` of a job of `shd_read_from_sample` frees the metadata of the last `shd_select_samples` a second time |
| `write_bpmp` | 2 contexts, 3 slots | With `bpmp_add_and_fetch` two producers are granted the section together |

The properties of the passing runs say how far each promise does hold.
`ValidatedReadIsTheWindow` is that of `shd_end_read` for a window intact at the start of the
session: an overwrite between the end of the search and the start of the session (`src/src/shd_data.c:177`)
goes unseen, though `src/tests/shd_test_concurrency.c:470` counts on `-EFAULT`.
`QuietSearchIsRight` says what every undisturbed search answers, for any ring, date and hint, the two
defects of the search included, which `Answerable` tells from the rest and `FallsBack` describes: with a date
before all samples of a ring that is not full, `FIRST_AFTER` and `CLOSEST` fall back on the slot after the latest,
which was never written (`src/src/shd_search.c:245`); and the binary search never looks at the only sample of a
ring (`src/src/shd_search.c:109`), so that it takes it to be after every date: `FIRST_BEFORE` is told `-ENOENT`
of it, the others fall back as above. `SearchEndIsExact` stops at N - 2 commits during the search: after a whole lap
`nb_new_samples` is 0 and an overwritten window passes `shd_search_end`.
`FaultMeansForeignWrite` is proved for two slots or more: with one, the second write of the only
producer gets `-EFAULT`, for 0 - 1 wraps. `NoFaultMeansWholeLaps` says that a context overtaken by whole
laps is not told. `DeathInvertsRevision` says what the parity is worth: after one death inside the update the next `shd_create` makes the revision
*even* while it fills the section, and `shd_open` and `shd_end_read` accept the section half written; when it is
done, whole, the revision is odd and they refuse it. After a second death a half-written section is left with an even revision. `SettledReadIsOfItsCreation` is about consumers that opened a section at
rest (`settled`), which leaves out those that get in during the update that follows a death. `EvenCountsCreations` is about a single producer: the creator of the file may
take the lock after another has created the section, and sets the revision back to 1.
`FreedTwiceOnlyByBareJob` and `LeakOnlyOfGivenUpJob` draw the limits of the metadata protocol: a client that
reads with `shd_select_samples` only, is given memory, and ends every job frees each block once.

Other behaviours of the model that no property forbids, as they break no rule the code
states elsewhere: `shd_read_section_hdr` can return the header of a later
creation; a re-creation with a smaller format kills readers and former producers by SIGBUS; a
re-creation during a write lets two contexts write; a file still empty can be opened on the
uninitialized header of the stack; `shd_open` can return an odd revision, for it
tests one read of it and returns another. After a re-creation `shd_end_read` mostly answers `-EFAULT`: it
compares the counter of the slot first, and gets to `-ENODEV` only if the new counter matches.
`-ENOMEM` leaves the window and its session open, `-EAGAIN` and `-EINVAL` those of the job before.
On a ring that is not full the window can reach slots that were never written: `nb_older_samples` counts
them (`src/src/shd_window.c:106`), and their zeroes are validated, for the counter is -1 both times.
In ShdBpmp two refused calls can leave `nb_ongoing_writes` above 0 with no holder, after which no
write is granted.

## 4. Proofs

All hold for every value of the constants under the named assumptions of the modules, and
every number of steps.

**ShdWriteProofs** (assumptions: `NbSamples` a positive natural, `UintMod` above it, `Api` a set of
the four functions). Type correctness is inductive by itself. For the rest the inductive
invariant is

    WriteInv == TypeOK /\ OneWriter /\ SectionHeld /\ OneSlotPerWrite

No conjunct is inductive alone. A grant needs `nb_ongoing_writes = 0`, which means "nobody
holds" only by `SectionHeld`; `SectionHeld` survives `release` only if nobody else
holds, by `OneWriter`; and that a commit does not change the slot another producer has
computed needs both. Theorems: `TypeCorrect`, `MutualExclusion` (`OneWriter`),
`CounterTellsHolder` (`SectionHeld`), `SlotAgreement` (`OneSlotPerWrite`), and
`PublishedStaysPut` (the action property `PublishedStable`, from `WriteInv` in the first
state of the step).

**ShdWriteLapProofs** has what the counters and the check of the index mean. `LapOrder` is
inductive relative to `WriteInv` (`LapsInOrder`). `FaultInv` says of each producer that `prev_index`
plus the foreign commits since is `write_index` plus a number of whole laps; from it
come `PassedMissedWholeLaps` (`NoFaultMeansWholeLaps`) and, on a ring of at least two slots, `FaultsAreForeign`
(`FaultMeansForeignWrite`). `FaultStopsAll` (`FaultStopsTheRing`) assumes that clients write whole blobs: a
client of the step API may commit after `-EFAULT`, and the ring goes on.

Its second half is about whole blobs too, for the same reason. `RankInv` says that a slot nobody is writing
holds in both words its rank, which is the number of samples published (`Committed`) less its distance to
`write_index`, and that the slots between are valid; `Counted` says that the valid slots are just the last ones
published. The two fix the content of the ring, which is then `LogOf(Committed)`; a commit adds
one to `Committed` and no other step changes it, so each step is a `Publish` of ShdLog or a stutter:
`RingImplementsLog` (`ImplementsLog`), for more than one slot, as a ring of one keeps nothing.

**ShdSectionProofs**, for any producers, formats, backends and bounds. `LockInv` says that the
holders of `flock` are the producers between the grant and the unlock, and that
there is one at most; `CreationsExclude` (`OneCreator`) follows. `OddWhileUpdating` is
inductive relative to `LockInv`, which shows that the producer that makes the
second update is the one that made the first (`RevisionParity`). From both, with a
single producer no `shd_create` fails (`SoleProducerSucceeds`, of `RestartSucceeds`). All
allow crashes at any step; the last two say nothing after a death between the two
updates (`interrupted = 0`), and cannot: `section_crash_create` is the
counterexample.

Its second half is what a section holds: `SectionTypes` (`TypeOK`); `RoomForCreator` (`CreatorFitsSection`), where `RoomInv` says
that since its resize the size is that of the lock holder's format, and `PartsFit` does the rest: header, metadata header and samples follow each other without overlap within the size
that `FileIsMapped` shows to be the same in both formulas, a multiplication by the number of samples that is left to no bound; `OpensOnAFormat`
(`OpenedOnAFormat`) for a consumer without a leftover header, where `FormatInv` follows the magic number, which is
written after the format and never taken back.

**ShdSectionSoleProofs**, with a single producer (`Alone`), any backend and deaths anywhere. `SoleInv` says
that the revision plus the deaths is odd exactly inside the update, and what each step
of `shd_create` has already stamped; it gives `SoleRevisionCounts` (`EvenCountsCreations`), `SoleIsGrantedWrites`
(`RestartIsGrantedWrites`) and `SoleDeathInverts` (`DeathInvertsRevision`: an even revision is that of a whole
section before a death, and that of a section being filled, only, after one). `ReaderInv` adds the consumer: while the revision is the
one of the opening, the section is whole and of that creation; it gives `SoleReadsOneCreation`
(`SettledReadIsOfItsCreation`) and `SoleHeaderStands` (`HeaderStandsWithRevision`).

**ShdSessionProofs.** `SessionTypes` (`TypeOK`) is where the widths matter: whatever wraps, the window is
made of remainders. `ReferenceFound` (`ReferenceInWindow`) needs that a request whose sum does not wrap
and passes the check is below 2^31. `JobInv` ties the counter noted in the context to that of the slot, or says by
which commits or creation they came apart (`Overtaken`): counters only grow between two
creations, and the revision tells creations apart; it gives `ValidatedJobs` (`ValidatedSpansJob`) and `ReadsBelong`
(`ReadsOnlyInJob`). `BlockInv` says who is to free each block; it gives `BlocksFreedOnce`
(`FreedTwiceOnlyByBareJob`) and `BlocksLeftAreOwed` (`LeakOnlyOfGivenUpJob`).

**ShdReadProofs** takes a consumer against any number of producers, which run as if it were not there
(`ProducersRun`), so that all of the above holds of them. `ConsumerInv` gives each step of a job the range
of its locals, that of the binary search included; `Framed` the place of the window between the reference and
the `write_index` of the start (`ReadTypes`, of `ReadTypeOK`, and `WindowFramed`, of `WindowAroundReference`, for any clients). `Margin`
adds that the reference of `SHD_OLDEST` is chosen after `t_index` is read, once (`OldestIsSpared`, of
`OldestHasMargin`). `Faithful` is why one counter is enough: a producer gets to any
slot of a window, which is in ring order, only past its first, and so moves the counter noted
before it stores into the others (`CopiesAreFaithful`, which needs nothing of the clients of the
producers; for whole blobs `Ordered` adds that the ring then holds the samples in order: `ReadIsTheWindow`, of `ValidatedReadIsTheWindow`). `Fresh` follows `t_rank`, the
rank of the latest sample at the start, which slots can only exceed since (`LatestStaysFresh`, of `LatestIsFresh`, also for whole blobs).

**ShdSearchProofs** is about the searches, with any number of producers of whole blobs. `Elapsed` measures the
time since `t_index` was read in two ways that agree for less than a lap: the distance from
`t_index` to `write_index` is the number of commits since (`Since`), and a counter that has not moved means
a slot that has not been overwritten (`Topped`, `Ended`). So `shd_search_end`, which reads `write_index` and one counter
with producers in between, refuses just the windows that lost their first sample
(`SearchEndAnswers`, of `SearchEndIsExact`). `Sighted` is for a search that no write disturbed: what each step of the naive
walk has already rejected (`NaiveSees`), what the binary search still brackets (`BinarySees`), over the samples between
the oldest one and the latest, which `RankInv` has in order of rank, hence of date. None of it is asked of the ring: with one
slot, with one sample or not full, it says what the search answers (`Answered`), right or not. The sample of the method is
stated as the one next to the date on one side, with the neighbours it was compared to, and not by recursion over the ring, so
that no induction is needed (`QuietSearchFinds`, of `QuietSearchIsRight`). `Unmoved` is that a job no write disturbed meets again
the index and the counter it noted, so that `-EFAULT` is never a false alarm (`NoJobIsToldFalsely`, of
`NoFalseAlarm`). Nothing checks a window between the end of the search and the start of the session, and `MarginIsTime` (`WindowLasts`) says how long
that may take: the distance of the window to the oldest slot, counted in write sessions. As long as no more were
granted since the search began the window is intact, which is just what `ReadIsTheWindow` asks for, and the two together say
which jobs return what the search found. `Left` counts the accesses a job has left, whatever its
method: it is a natural number that every step of the job decreases and no producer changes (`JobsAreShort`, for
any clients). No more than `4 * NbSamples + 11` accesses make a job, so readers are wait-free; `ReadReturns`, that a
job returns, is this with fairness, which TLC checks.

**ShdBpmpProofs** has the one refinement between two concrete modules. With one producer, what `bpmp_add_and_fetch` is about to
store is what the counter holds plus one (`SumInv`), for nobody else moves it: the load is then a step
`start_write_session` of ShdWrite, the store and the second load stutter, and the store of `nb_writes` is `invalidate`
(`SoleProducerIsAtomic`: `BpmpSpec => ImplementsAtomic`). So the theorems about ShdWrite hold of the sections of the x1 board
that have a single producer; `write_bpmp` shows that `OneWriter` fails with two. This refinement has a proof and no run.

**Model-checked only:** liveness, which is out of the prover's reach as ENABLED is (`SessionsEnd`, `ReadReturns`,
`ConsumerGetsIn`). Every invariant and every action property of the passing runs is proved.
What two producers on shm show to consumers has no property beyond `OpenedOnAFormat`.

## 5. Not modelled

- Weak memory order. The models are sequentially consistent. The code has no barrier
  around `write_index`, `nb_writes` or the revision beyond those of `add_and_fetch`,
  so on ARM more can happen than is shown here.
- Fixed memory with several producers: modelled, but nothing is promised there and no
  property says more than that. Of the garbage such memory may hold at the start only the parity
  of the revision is modelled, not a magic number or format left in it.
- Re-creation of the section under the steps of a write or of a search: in ShdSection a write
  is three steps and a job two, in ShdSession it falls between calls, in ShdWrite and ShdRead
  it does not happen.
- Overflow of `nb_writes` and of `nb_ongoing_writes` after 2^31 increments, and of `size_t` by a format.
- Failed allocations (but that of the metadata) and system calls, NULL arguments, an
  unknown search method: they change no shared state.
- The names in the lookup tables and the text of the parameters; logging.
- Hooks (instrumentation for the tests, empty in the library), examples and tests, which are clients.

## 6. Plan

Done: ShdIndex, ShdLayout, ShdLog, ShdWrite, ShdBpmp, ShdRead, ShdSession, ShdSection, and their proofs above.

Left, in order:

1. The composition of re-creation and writes: `write_index` and `nb_ongoing_writes` reset under the
   steps of ShdWrite.
2. A variant where the stores of `commit`, `release` and of the sample reach memory out of order.
