---------------------------- MODULE MCShdSection ----------------------------
(* ShdSection with few creations of one section, for TLC. *)
EXTENDS ShdSection

CONSTANTS p1, p2

OneProducer  == {p1}
TwoProducers == {p1, p2}

Format(n, blob, mdata) ==
  [blob_size |-> blob, max_nb_samples |-> n, blob_metadata_hdr_size |-> mdata]

\* Two formats of different sizes, neither a multiple of 4 before alignment.
TwoSizes  == {Format(1, 4, 1), Format(2, 8, 2)}
OneFormat == {Format(1, 4, 1)}

Shm         == shd_lookup_default
AllBackends == Backends

NoCrash == {}

\* Anywhere but between the two updates of the revision number; only there.
OutsideUpdate == {"lock", "resize", "invalidate", "unlock", "open", "write", "commit"}

InsideUpdate == Update

Anywhere == Update \cup OutsideUpdate

=============================================================================
