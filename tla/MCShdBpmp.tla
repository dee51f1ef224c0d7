------------------------------ MODULE MCShdBpmp ------------------------------
(* ShdBpmp with two producers, for TLC. *)
EXTENDS ShdBpmp

CONSTANTS p1, p2

BlobApi      == {"shd_write_new_blob"}
TwoProducers == {p1, p2}

=============================================================================
