------------------------------ MODULE MCShdRead ------------------------------
(* ShdRead on small rings, for TLC. *)
EXTENDS ShdRead

CONSTANTS p1

OneProducer == {p1}
BlobApi     == {"shd_write_new_blob"}
SampleApi   == {"shd_read_from_sample"}
BothHints   == {"NAIVE", "BINARY"}
Naive       == {"NAIVE"}
BothApis    == {"shd_select_samples", "shd_read_from_sample"}

AskFor(methods, dates, befores, afters) ==
  [method : methods, date : dates, before : befores, after : afters]

Dated == {"CLOSEST", "FIRST_AFTER", "FIRST_BEFORE"}

\* Methods without a date, windows of up to three samples, and one too large.
Windows == AskFor({"LATEST", "OLDEST"}, {0}, {0, 1, 2}, {0, 1})

\* Dates before, at, between and after the time stamps (4, 8, 12 ...).
Dates == AskFor(Dated, {3, 12, 13, 15}, {0}, {0})

DateWindows == AskFor(Dated, {9, 14}, {1}, {1})

AllSearches   == Windows \cup Dates \cup DateWindows
LatestOnly    == AskFor({"LATEST"}, {0}, {0}, {0})

=============================================================================
