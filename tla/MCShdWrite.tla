----------------------------- MODULE MCShdWrite -----------------------------
(* ShdWrite on small rings, for TLC. *)
EXTENDS ShdWrite, TLC

CONSTANTS p1, p2, p3

BlobApi == {"shd_write_new_blob"}
StepApi == {"shd_new_sample", "shd_write_quantity", "shd_commit_sample"}

TwoProducers   == {p1, p2}
ThreeProducers == {p1, p2, p3}

=============================================================================
