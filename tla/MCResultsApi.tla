---------------------------- MODULE MCResultsApi ----------------------------
EXTENDS ResultsApi

\* Two dates of the same month and one of another.
MCMonthOf == <<1, 1, 2>>

Put(gen, fingerprint, received, files) ==
  [request |-> [gen |-> gen, fingerprint |-> fingerprint, received |-> received, review |-> FALSE],
   files |-> files]

\* A first result, another payload of its generation, two that replace it with
\* and without its attachment, and one whose received_at moved to another month.
MCPuts == {Put(0, 1, 1, {"a"}), Put(0, 2, 3, {}), Put(1, 3, 1, {}), Put(2, 4, 1, {"a"}), Put(1, 5, 2, {})}
=============================================================================
