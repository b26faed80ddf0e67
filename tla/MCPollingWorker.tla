--------------------------- MODULE MCPollingWorker ---------------------------
EXTENDS PollingWorker

\* Two dated messages, and one without a date, which the pages put first and the
\* worker last.  It is not there at first: when it arrives between two pages, it
\* moves the others on, and one of them is listed twice.
First == [uid |-> 1, date |-> 1, zone |-> "aware"]
Late == [uid |-> 2, date |-> 0, zone |-> "none"]
Second == [uid |-> 3, date |-> 2, zone |-> "aware"]

MCMessages == {First, Late, Second}
MCMailboxes == {{First, Second}}

\* The second message's date ends in -0000.
MixedMessages ==
  {[uid |-> 1, date |-> 2, zone |-> "aware"], [uid |-> 2, date |-> 1, zone |-> "naive"]}
AnyMailbox == SUBSET MixedMessages
=============================================================================
