-------------------------- MODULE MCMessageAnalysis --------------------------
EXTENDS MessageAnalysis
CONSTANTS w1, w2

Short == [attachment |-> 0, skipped |-> FALSE, levels |-> <<>>, body |-> 0]

\* A sampled chain of two levels with an unreadable file, and a sampled body with
\* an attachment in chunks.
Long ==
  {[Short EXCEPT !.levels = <<2, 2>>, !.skipped = TRUE],
   [Short EXCEPT !.attachment = 2, !.body = 4]}

MCMessages == Long \cup {Short}

\* One thread has a long message, the other a short one.
MCAssignments == {[w \in {w1, w2} |-> IF w = w1 THEN m ELSE Short] : m \in Long}
=============================================================================
