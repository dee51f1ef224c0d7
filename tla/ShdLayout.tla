------------------------------ MODULE ShdLayout ------------------------------
(***************************************************************************)
(* Where a memory section keeps what it holds, in bytes from its start:    *)
(* the header, the metadata header and the samples, as get_offsets of      *)
(* src/src/shd_section.c and shd_data_get_sample_ptr place them.           *)
(*                                                                         *)
(* The size of the section is computed twice, by two formulas: one sizes   *)
(* the file (shd_section_get_total_size), the other the mapping            *)
(* (get_offsets).  A format is a struct shd_hdr_user_info.  Sizes are      *)
(* natural numbers: formats that pass the range of size_t are left out.    *)
(***************************************************************************)
EXTENDS Integers

CONSTANTS
  HdrSize,      \* sizeof(struct shd_hdr)
  BlobOffset    \* offsetof(struct shd_sample, blob)

ASSUME LayoutAssumption == HdrSize \in Nat /\ BlobOffset \in Nat

UserInfo ==
  [blob_size : Nat, max_nb_samples : Nat \ {0}, blob_metadata_hdr_size : Nat]

ALIGN_UP(x) == 4 * ((x + 3) \div 4)

shd_sample_get_size(u) == ALIGN_UP(BlobOffset + u.blob_size)

shd_data_get_total_size(u) == u.max_nb_samples * shd_sample_get_size(u)

metadata_offset == ALIGN_UP(HdrSize)

data_offset(u) == ALIGN_UP(metadata_offset + u.blob_metadata_hdr_size)

\* total_size of get_offsets.
mapping_size(u) == data_offset(u) + shd_data_get_total_size(u)

\* Slip for mutation: the metadata header is not aligned.
section_size_unaligned(u) ==
  ALIGN_UP(HdrSize) + u.blob_metadata_hdr_size + shd_data_get_total_size(u)

shd_section_get_total_size(u) ==
  ALIGN_UP(HdrSize) + ALIGN_UP(u.blob_metadata_hdr_size)
    + shd_data_get_total_size(u)

\* shd_data_get_sample_ptr, as an offset in the section.
sample_ptr(u, i) == data_offset(u) + i * shd_sample_get_size(u)

\* The end of the blob of sample i.
sample_end(u, i) == sample_ptr(u, i) + BlobOffset + u.blob_size

\* The header, the metadata header and the samples follow each other, and all
\* are within the first length bytes.
Fits(u, length) ==
  /\ HdrSize <= metadata_offset
  /\ metadata_offset + u.blob_metadata_hdr_size <= data_offset(u)
  /\ \A i \in 0 .. u.max_nb_samples - 1 :
       sample_end(u, i) <= IF i + 1 < u.max_nb_samples THEN sample_ptr(u, i + 1)
                                                       ELSE length

=============================================================================
