---------------------------- MODULE MCShdSession ----------------------------
(* ShdSession on a small ring, for TLC. *)
EXTENDS ShdSession

AskFor(methods, befores, afters) ==
  [method : methods, before : befores, after : afters]

Single == AskFor({"LATEST", "DATED"}, {0}, {0})

Around(befores, afters) == AskFor({"DATED"}, befores, afters)

\* Windows within the ring, one too large (past the range of int), then numbers
\* of samples that make the sum wrap, those that turn negative as int among them.
AllSearches ==
  Single \cup Around({1}, {0, 1}) \cup AskFor({"OLDEST"}, {0}, {2})
         \cup Around({UintMod \div 2 + 1}, {1}) \cup Around({UintMod - 1}, {1})
         \cup Around({UintMod \div 2}, {UintMod \div 2})

=============================================================================
