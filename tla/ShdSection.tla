----------------------------- MODULE ShdSection -----------------------------
(***************************************************************************)
(* The life of one memory section: shd_create, shd_open, shd_close and the *)
(* revision number by which consumers learn that a producer has created    *)
(* the section again, with the crash of a producer at any point.  It       *)
(* models src/src/shd.c, shd_hdr.c, shd_mdata_hdr.c, shd_section.c,        *)
(* shd_ctx.c, the three backends and the revision part of shd_sync.c.      *)
(*                                                                         *)
(* The shm backend keeps the section in a file, which it creates, resizes  *)
(* and locks.  The dev_mem and baremetal backends use a fixed piece of     *)
(* memory: it is always there, never resized, and there is no lock.        *)
(*                                                                         *)
(* One action is one access to what processes share (file, lock, header,   *)
(* data), with the local code up to the next one; accesses that no other   *)
(* process tells apart are taken together.  Each call of shd_create        *)
(* is a creation with a number; the header, the metadata header and the    *)
(* samples are abstracted to the number of the creation they are from (0   *)
(* for the zeros of a new file), and infos gives its format.  Producing a  *)
(* sample is three steps here (ShdWrite has the rest), and a read job two  *)
(* (ShdRead).                                                              *)
(***************************************************************************)
EXTENDS ShdLayout, Sequences, FiniteSets

CONSTANTS
  Producers,     \* threads that call shd_create, one context at a time each
  Infos,         \* struct shd_hdr_user_info: the formats they ask for
  Lookup,        \* the backends that shd_section_lookup may answer
  MemorySize,    \* bytes of the fixed memory
  CrashPoints,   \* the steps at which a producer may be killed
  Leftover,      \* the consumer's stack may hold the header of a section
                 \* its process opened before
  MaxCreations,  \* bound: number of calls of shd_create
  MaxOngoing     \* bound: value of nb_ongoing_writes

\* struct shd_section_backend: whether the section is a file, that can be
\* created and resized, whether its lock locks, and whether it is mapped.
shd_shm_backend       == [in_file |-> TRUE,  locks |-> TRUE,  mapped |-> TRUE]
shd_dev_mem_backend   == [in_file |-> FALSE, locks |-> FALSE, mapped |-> TRUE]
shd_baremetal_backend == [in_file |-> FALSE, locks |-> FALSE, mapped |-> FALSE]

\* What shd_section_lookup answers, by the default table and by that of the x1
\* board; the tables that name the bare metal are not in the library.
shd_lookup_default == {shd_shm_backend}
shd_lookup_x1      == {shd_shm_backend, shd_dev_mem_backend}

Backends == shd_lookup_default \cup shd_lookup_x1 \cup {shd_baremetal_backend}

ASSUME InfosAssumption == Infos \subseteq UserInfo
ASSUME LookupAssumption == Lookup \subseteq Backends
ASSUME MemorySizeAssumption ==
  MemorySize \in Nat /\ \A u \in Infos : mapping_size(u) <= MemorySize
ASSUME LeftoverAssumption == Leftover \in BOOLEAN

VARIABLES
  backend,           \* the backend of this section, which never changes
  \* the file of the section, external to the library, or its fixed memory
  exists, size,      \* the size of a file is 0 until the first resize
  lock,              \* flock: the producers whose descriptor holds it
  \* struct shd_hdr, the metadata header and the samples, in shared memory
  nb_creations,      \* revision.nb_creations
  magic_number,      \* whether it has been written
  user_info, metadata_hdr, data,    \* the creation each is from
  nb_ongoing_writes,
  \* each producer: the next step, its creation, and first_creation
  pc, creation, first,
  \* the consumer: its context and the locals of its call
  c,
  \* history: the format of each creation, and how many were completed or
  \* stopped between the two updates of the revision number by a crash (one
  \* more when the fixed memory held an odd revision at the start)
  infos, completed, interrupted

file    == <<backend, exists, size, lock>>
shared  == <<nb_creations, magic_number, user_info, metadata_hdr, data,
             nb_ongoing_writes>>
local   == <<pc, creation, first>>
history == <<infos, completed, interrupted>>
vars    == <<file, shared, local, c, history>>

Creations == 0 .. Len(infos)

\* The user_info written by creation g, the zeros before the first.
format(g) ==
  IF g < 1 THEN [blob_size |-> 0, max_nb_samples |-> 0, blob_metadata_hdr_size |-> 0]
           ELSE infos[g]

\* c.map and c.desc are the creations whose user_info sized the mapping and
\* filled ctx->desc, -1 for a leftover; c.rev is rev->nb_creations; c.got is
\* what a job returned and c.ret how it ended.  History: c.settled tells
\* whether, as the revision was read, the header was the one mapped and no
\* creation was under way.
NoContext == [pc |-> "none", map |-> 0, desc |-> 0, rev |-> 0, got |-> 0,
              ret |-> "none", settled |-> FALSE]

Init ==
  /\ backend \in Lookup
  /\ lock = {} /\ magic_number = FALSE
  /\ IF backend.in_file
     THEN exists = FALSE /\ size = 0 /\ nb_creations = 0
     ELSE exists = TRUE /\ size = MemorySize /\ nb_creations \in {0, 1}
  /\ interrupted = nb_creations
  /\ user_info = 0 /\ metadata_hdr = 0 /\ data = 0
  /\ nb_ongoing_writes = 0
  /\ pc = [p \in Producers |-> "none"]
  /\ creation = [p \in Producers |-> 0]
  /\ first = [p \in Producers |-> FALSE]
  /\ c = NoContext
  /\ infos = <<>> /\ completed = 0

-----------------------------------------------------------------------------
(* shd_create *)

Goto(p, from, to) == pc[p] = from /\ pc' = [pc EXCEPT ![p] = to]

Gone == {"none", "failed", "killed"}

\* The producers between the two updates of the revision number.
Update == {"hdr_info", "hdr_magic", "mdata_hdr", "clear", "update"}

Updating == {p \in Producers : pc[p] \in Update}

\* The format of the creation p performs.
asked(p) == infos[creation[p]]

\* shd_section_create: in a file, O_CREAT | O_EXCL, then without; in fixed
\* memory no creation is the first.
section_create(p) ==
  /\ pc[p] \in Gone
  /\ Len(infos) < MaxCreations
  /\ \E info \in Infos : infos' = Append(infos, info)
  /\ creation' = [creation EXCEPT ![p] = Len(infos) + 1]
  /\ first' = [first EXCEPT ![p] = ~exists]
  /\ exists' = TRUE
  /\ pc' = [pc EXCEPT ![p] = "lock"]
  /\ UNCHANGED <<backend, size, lock, shared, c, completed, interrupted>>

\* shd_shm_lock: LOCK_EX | LOCK_NB.  A refusal fails shd_create.  Without a
\* file there is nothing to lock, and no refusal.
\* Slip for mutation: the return value is not looked at.
section_lock_ignored(p) ==
  /\ Goto(p, "lock", "resize")
  /\ lock' = IF lock = {} THEN {p} ELSE lock
  /\ UNCHANGED <<backend, exists, size, shared, creation, first, c, history>>

section_lock(p) ==
  /\ IF lock = {} THEN Goto(p, "lock", "resize") ELSE Goto(p, "lock", "failed")
  /\ lock' = IF backend.locks /\ lock = {} THEN {p} ELSE lock
  /\ UNCHANGED <<backend, exists, size, shared, creation, first, c, history>>

\* shd_section_resize: ftruncate of the file.
section_resize(p) ==
  /\ Goto(p, "resize", "invalidate")
  /\ size' = IF backend.in_file THEN shd_section_get_total_size(asked(p)) ELSE size
  /\ UNCHANGED <<backend, exists, lock, shared, creation, first, c, history>>

\* shd_sync_invalidate_section.
\* Slips for mutation: every creation starts like the first; the first one
\* starts like the others.
invalidated_afresh(p) == 1

invalidated_evenly(p) == IF first[p] THEN 2 ELSE nb_creations + 1

\* Slip for mutation: only the first creation makes it odd.
invalidated_not_again(p) == IF first[p] THEN 1 ELSE nb_creations

invalidated(p) == IF first[p] THEN 1 ELSE nb_creations + 1

invalidate_section(p) ==
  /\ Goto(p, "invalidate", "hdr_info")
  /\ nb_creations' = invalidated(p)
  /\ UNCHANGED <<file, magic_number, user_info, metadata_hdr, data,
                 nb_ongoing_writes, creation, first, c, history>>

\* shd_hdr_write: memcpy of user_info.
hdr_write_info(p) ==
  /\ Goto(p, "hdr_info", "hdr_magic")
  /\ user_info' = creation[p]
  /\ UNCHANGED <<file, nb_creations, magic_number, metadata_hdr, data,
                 nb_ongoing_writes, creation, first, c, history>>

\* shd_hdr_write: shd_sync_hdr_init and the magic number.
\* Slips for mutation: the counter of writes keeps its value; the magic number
\* is forgotten.
hdr_write_magic_only(p) ==
  /\ Goto(p, "hdr_magic", "mdata_hdr")
  /\ magic_number' = TRUE
  /\ UNCHANGED <<file, nb_creations, user_info, metadata_hdr, data,
                 nb_ongoing_writes, creation, first, c, history>>

hdr_write_no_magic(p) ==
  /\ Goto(p, "hdr_magic", "mdata_hdr")
  /\ nb_ongoing_writes' = 0
  /\ UNCHANGED <<file, nb_creations, magic_number, user_info, metadata_hdr,
                 data, creation, first, c, history>>

hdr_write_magic(p) ==
  /\ Goto(p, "hdr_magic", "mdata_hdr")
  /\ nb_ongoing_writes' = 0
  /\ magic_number' = TRUE
  /\ UNCHANGED <<file, nb_creations, user_info, metadata_hdr, data,
                 creation, first, c, history>>

mdata_hdr_write(p) ==
  /\ Goto(p, "mdata_hdr", "clear")
  /\ metadata_hdr' = creation[p]
  /\ UNCHANGED <<file, nb_creations, magic_number, user_info, data,
                 nb_ongoing_writes, creation, first, c, history>>

clear_section(p) ==
  /\ Goto(p, "clear", "update")
  /\ data' = creation[p]
  /\ UNCHANGED <<file, nb_creations, magic_number, user_info, metadata_hdr,
                 nb_ongoing_writes, creation, first, c, history>>

\* shd_sync_update_global_revision_nb.  After an odd result shd_create closes
\* the section, which releases the lock, then frees it a second time: either
\* it returns NULL or the process dies there.
update_global_revision_nb(p) ==
  /\ nb_creations' = nb_creations + 1
  /\ IF (nb_creations + 1) % 2 # 0
     THEN /\ Goto(p, "update", "failed") \/ Goto(p, "update", "killed")
          /\ lock' = lock \ {p}
          /\ UNCHANGED completed
     ELSE /\ Goto(p, "update", "unlock")
          /\ completed' = completed + 1
          /\ UNCHANGED lock
  /\ UNCHANGED <<backend, exists, size, magic_number, user_info, metadata_hdr, data,
                 nb_ongoing_writes, creation, first, c, infos, interrupted>>

section_unlock(p) ==
  /\ Goto(p, "unlock", "open")
  /\ lock' = lock \ {p}
  /\ UNCHANGED <<backend, exists, size, shared, creation, first, c, history>>

-----------------------------------------------------------------------------
(* The producer once it has its context, and its end *)

\* shd_sync_start_write_session: a refused call leaves the counter as it is.
start_write_session(p) ==
  /\ pc[p] = "open"
  /\ nb_ongoing_writes < MaxOngoing
  /\ nb_ongoing_writes' = nb_ongoing_writes + 1
  /\ pc' = [pc EXCEPT ![p] = IF nb_ongoing_writes + 1 = 1 THEN "write" ELSE @]
  /\ UNCHANGED <<file, nb_creations, magic_number, user_info, metadata_hdr,
                 data, creation, first, c, history>>

\* The stores into the sample: the process dies if the file has shrunk.
write_sample(p) ==
  /\ \/ Goto(p, "write", "commit") /\ data' = creation[p] /\ UNCHANGED lock
     \/ /\ Goto(p, "write", "killed")
        /\ mapping_size(asked(p)) > size
        /\ lock' = lock \ {p}
        /\ UNCHANGED data
  /\ UNCHANGED <<backend, exists, size, nb_creations, magic_number, user_info,
                 metadata_hdr, nb_ongoing_writes, creation, first, c, history>>

\* The end of shd_sync_end_write_session.
\* Slip for mutation: the counter is decremented.
end_write_session_decrements(p) ==
  /\ Goto(p, "commit", "open")
  /\ nb_ongoing_writes' = nb_ongoing_writes - 1
  /\ UNCHANGED <<file, nb_creations, magic_number, user_info, metadata_hdr,
                 data, creation, first, c, history>>

end_write_session(p) ==
  /\ Goto(p, "commit", "open")
  /\ nb_ongoing_writes' = 0
  /\ UNCHANGED <<file, nb_creations, magic_number, user_info, metadata_hdr,
                 data, creation, first, c, history>>

producer_close(p) ==
  /\ Goto(p, "open", "none")
  /\ UNCHANGED <<file, shared, creation, first, c, history>>

\* The process is killed, and the system closes its descriptor and the lock; on
\* bare metal, the processor restarts.
crash(p) ==
  /\ pc[p] \in CrashPoints
  /\ pc' = [pc EXCEPT ![p] = "killed"]
  /\ lock' = lock \ {p}
  /\ interrupted' = IF pc[p] \in Update THEN interrupted + 1 ELSE interrupted
  /\ UNCHANGED <<backend, exists, size, shared, creation, first, c, infos, completed>>

-----------------------------------------------------------------------------
(* shd_open, by the consumer *)

Producing == <<file, shared, local, history>>

OpenFails == c' = [NoContext EXCEPT !.ret = "NULL"]

Killed == c' = [c EXCEPT !.pc = "killed"]

section_open ==
  /\ c.pc = "none"
  /\ IF exists THEN c' = [NoContext EXCEPT !.pc = "hdr_magic"] ELSE OpenFails
  /\ UNCHANGED Producing

\* shd_hdr_read of the file: shd_shm_read_header, whose error is ignored and
\* leaves the local header uninitialized, then the check of magic_number.
\* Slip for mutation: the check is dropped.
hdr_read_unchecked ==
  /\ c.pc = "hdr_magic"
  /\ IF size > 0 THEN c' = [c EXCEPT !.pc = "hdr_info"] ELSE OpenFails
  /\ UNCHANGED Producing

hdr_read_magic ==
  /\ c.pc = "hdr_magic"
  /\ \/ size > 0 /\ magic_number /\ c' = [c EXCEPT !.pc = "hdr_info"]
     \/ ~(size > 0 /\ magic_number) /\ OpenFails
     \/ size = 0 /\ Leftover /\ c' = [c EXCEPT !.pc = "desc", !.map = -1]
  /\ UNCHANGED Producing

\* The rest of the copy, user_info, which follows magic_number in memory.
hdr_read_info ==
  /\ c.pc = "hdr_info"
  /\ c' = [c EXCEPT !.pc = "desc", !.map = user_info]
  /\ UNCHANGED Producing

\* shd_data_section_desc_new reads user_info again, through the mapping.
section_desc_new ==
  /\ c.pc = "desc"
  /\ IF size = 0 THEN Killed
                 ELSE c' = [c EXCEPT !.pc = "revision", !.desc = user_info]
  /\ UNCHANGED Producing

\* shd_sync_update_local_revision_nb: the test of the revision number.
revision_tested ==
  /\ c.pc = "revision"
  /\ IF nb_creations % 2 = 1 THEN OpenFails
                             ELSE c' = [c EXCEPT !.pc = "local_revision"]
  /\ UNCHANGED Producing

\* Its reads of the revision number once it is found even; the last one is
\* what shd_open returns.
update_local_revision_nb ==
  /\ c.pc = "local_revision"
  /\ c' = [c EXCEPT !.pc = "open", !.rev = nb_creations, !.ret = "opened",
             !.settled = /\ Updating = {}
                         /\ c.map = user_info /\ c.desc = user_info]
  /\ UNCHANGED Producing

\* shd_close, or another process of the consumer after it was killed.
consumer_close ==
  /\ c.pc \in {"open", "killed"}
  /\ c' = NoContext
  /\ UNCHANGED Producing

-----------------------------------------------------------------------------
(* What the consumer does with its context *)

\* The samples, which start where the mapping says and number as many as the
\* descriptor says, do not all lie within the mapping and the file; how long
\* the mapping of a leftover is cannot be known.  Bare metal has no mapping.
samples_end == data_offset(format(c.map)) + shd_data_get_total_size(format(c.desc))

out_of_reach ==
  /\ backend.mapped
  /\ c.map < 0 \/ samples_end > mapping_size(format(c.map)) \/ samples_end > size

\* A read job, from the search to the last copy: what it copies is all from
\* one creation.  The process may die on what is out of reach.
read_data ==
  /\ c.pc = "open"
  /\ \/ c' = [c EXCEPT !.pc = "end_read", !.got = data, !.ret = "none"]
     \/ out_of_reach /\ Killed
  /\ UNCHANGED Producing

\* shd_sync_check_revision_nb.
\* Slip for mutation: a later revision is no change.
revision_not_behind == c.rev <= nb_creations

revision_unchanged == c.rev = nb_creations

\* shd_end_read, the check of the revision number by shd_data_check_validity.
end_read ==
  /\ c.pc = "end_read"
  /\ c' = [c EXCEPT !.pc = "open",
                    !.ret = IF revision_unchanged THEN "read" ELSE "ENODEV"]
  /\ UNCHANGED Producing

\* shd_read_section_hdr: the check, then the copy of user_info.
read_section_hdr ==
  /\ c.pc = "open"
  /\ c' = IF revision_unchanged
          THEN [c EXCEPT !.pc = "copy_hdr", !.ret = "none"]
          ELSE [c EXCEPT !.ret = "ENODEV"]
  /\ UNCHANGED Producing

copy_hdr ==
  /\ c.pc = "copy_hdr"
  /\ c' = [c EXCEPT !.pc = "open", !.ret = "hdr", !.got = user_info]
  /\ UNCHANGED Producing

\* shd_hdr_get_mdata_size, of the header of creation g.
mdata_size(g) == format(g).blob_metadata_hdr_size

\* shd_read_blob_metadata_hdr: the size of the caller's buffer, which is that
\* of the format it opened, is compared to the header's before the check.
read_blob_metadata_hdr ==
  /\ c.pc = "open"
  /\ c' = IF mdata_size(c.desc) # mdata_size(user_info)
          THEN [c EXCEPT !.ret = "ENOMEM"]
          ELSE [c EXCEPT !.pc = "check_mdata", !.ret = "none"]
  /\ UNCHANGED Producing

check_mdata ==
  /\ c.pc = "check_mdata"
  /\ c' = IF revision_unchanged
          THEN [c EXCEPT !.pc = "copy_mdata"]
          ELSE [c EXCEPT !.pc = "open", !.ret = "ENODEV"]
  /\ UNCHANGED Producing

copy_mdata ==
  /\ c.pc = "copy_mdata"
  /\ c' = [c EXCEPT !.pc = "open", !.ret = "mdata", !.got = metadata_hdr]
  /\ UNCHANGED Producing

-----------------------------------------------------------------------------

\* The steps of shd_create after its first, and of a write once granted.
Proceed(p) ==
  \/ section_lock(p) \/ section_resize(p) \/ invalidate_section(p)
  \/ hdr_write_info(p) \/ hdr_write_magic(p) \/ mdata_hdr_write(p)
  \/ clear_section(p) \/ update_global_revision_nb(p) \/ section_unlock(p)
  \/ write_sample(p) \/ end_write_session(p)

Produce(p) ==
  \/ section_create(p) \/ Proceed(p)
  \/ start_write_session(p) \/ producer_close(p) \/ crash(p)

\* shd_open, called again after each failure.
Open ==
  \/ section_open \/ hdr_read_magic \/ hdr_read_info \/ section_desc_new
  \/ revision_tested \/ update_local_revision_nb

Consume ==
  \/ read_data \/ end_read \/ read_section_hdr \/ copy_hdr
  \/ read_blob_metadata_hdr \/ check_mdata \/ copy_mdata

Next == (\E p \in Producers : Produce(p)) \/ Open \/ Consume \/ consumer_close

Spec == Init /\ [][Next]_vars

\* A thread inside a call keeps running, and a consumer without a context
\* retries shd_open.
FairSpec ==
  Spec /\ WF_vars(Open) /\ \A p \in Producers : WF_vars(Proceed(p))

-----------------------------------------------------------------------------
(* Safety *)

Steps == Gone \cup Update \cup
  {"lock", "resize", "invalidate", "unlock", "open", "write", "commit"}

Opening == {"hdr_magic", "hdr_info", "desc", "revision", "local_revision"}

ConsumerSteps == Opening \cup
  {"none", "open", "end_read", "copy_hdr", "check_mdata", "copy_mdata", "killed"}

Results == {"none", "NULL", "opened", "read", "hdr", "mdata", "ENODEV", "ENOMEM"}

TypeOK ==
  /\ backend \in Lookup /\ exists \in BOOLEAN /\ size \in Nat
  /\ lock \subseteq Producers
  /\ nb_creations \in Nat /\ magic_number \in BOOLEAN
  /\ {user_info, metadata_hdr, data} \subseteq Creations
  /\ nb_ongoing_writes \in Nat
  /\ pc \in [Producers -> Steps]
  /\ creation \in [Producers -> Creations]
  /\ first \in [Producers -> BOOLEAN]
  /\ c \in [pc : ConsumerSteps, map : Creations \cup {-1}, desc : Creations,
             rev : Nat, got : Creations, ret : Results, settled : BOOLEAN]
  /\ infos \in Seq(Infos) /\ {completed, interrupted} \subseteq Nat

\* Something keeps creations apart: the lock of the file, or their number.
Exclusive == backend.locks \/ \E p \in Producers : Producers = {p}

\* The lock lets one producer at a time resize and fill the section, whoever
\* created the file and however the others fail or die.
OneCreator ==
  Exclusive => \A p, q \in Producers :
    /\ pc[p] \in Update \cup {"resize", "invalidate", "unlock"}
    /\ pc[q] \in Update \cup {"resize", "invalidate", "unlock"}
    => p = q

\* shd_sync.h on nb_creations: "an odd value indicates that the section is
\* being rewritten".  It does, and nothing else does, until a producer dies
\* between the two updates.
OddWhileUpdating ==
  Exclusive /\ interrupted = 0 => (Updating # {} <=> nb_creations % 2 = 1)

\* While a producer fills the section, all it writes to is within the file and
\* no two parts of it overlap, whatever size it had before, and though the sizes
\* of the file and mapping are computed apart.  (Others may ask for another size
\* meanwhile: the run that checks it has one producer, the proof any number.)
CreatorFitsSection ==
  Exclusive => \A p \in Producers : pc[p] \in Update => Fits(asked(p), size)

\* The header, the metadata header and the samples are from one creation.
Whole == user_info = metadata_hdr /\ metadata_hdr = data

\* What an even revision, by which shd_open and shd_end_read go, says of the
\* section of a single producer.  As long as the producer has not died between
\* the two updates: that the section is whole.  After it has once: the reverse,
\* that the section is being filled again, half of it perhaps, and consumers
\* are let in.  At any other time the revision is then odd, of what the death
\* left and of every complete creation since, and they are kept out.
DeathInvertsRevision ==
  /\ interrupted = 0 /\ nb_creations % 2 = 0 => Updating = {} /\ Whole
  /\ interrupted = 1 => (nb_creations % 2 = 0 <=> Updating # {})

\* Same place: "an even value indicates twice the number of times since the
\* start of the system that the memory section has been created".  True of a
\* single producer that does not die there.
EvenCountsCreations ==
  interrupted = 0 /\ nb_creations % 2 = 0 => nb_creations = 2 * completed

\* No consumer opens a section on the zeros of a new file: the format it gets
\* has been written, even while the first creation is under way.  (A consumer
\* whose stack holds the header of another section may: the runs that check
\* this have Leftover = FALSE.)
OpenedOnAFormat == c.pc = "open" => c.map # 0 /\ c.desc # 0

\* shd_test_concurrency.c, on the only producer of a section: "The producer
\* should always succeed in creating its section".
ProducerAlwaysSucceeds == \A p \in Producers : pc[p] # "failed"

\* It does when it restarts after a close or a death, unless it died between
\* the two updates of the revision number.
RestartSucceeds == interrupted = 0 => ProducerAlwaysSucceeds

\* Nor is it refused the section for a write that its former life left
\* unfinished: no session is counted after shd_create but those it started.
RestartIsGrantedWrites ==
  \A p \in Producers : pc[p] = "open" => nb_ongoing_writes = 0

\* When nothing was being created as the consumer read the revision number,
\* and the header was the one it had mapped, a read that shd_end_read accepts
\* is of samples of that very creation, unless two producers died creating it.
SettledReadIsOfItsCreation ==
  interrupted <= 1 /\ c.settled /\ c.ret = "read" => c.got = c.desc

\* shd_read_section_hdr and shd_read_blob_metadata_hdr check the revision
\* before they copy.  What they copy is of the creation the consumer opened if
\* the revision is still the same after.
HeaderStandsWithRevision ==
  interrupted <= 1 /\ c.settled /\ c.ret \in {"hdr", "mdata"} /\ c.rev = nb_creations
    => c.got = c.desc

\* libshdata.h on shd_end_read: "-ENODEV if blob format changed since the
\* memory section was open".
FormatChangeIsTold ==
  c.ret = "read" /\ c.map > 0 =>
    infos[c.got] = infos[c.desc] /\ infos[c.map] = infos[c.desc]

\* Liveness: once a section has been created, a consumer that retries gets in
\* (shd_test_concurrency.c: "The consumer should eventually succeed in opening
\* the section"), as long as producers do not create it for ever.
ConsumerGetsIn == completed > 0 ~> c.pc \notin Opening \cup {"none"}

=============================================================================
