--------------------------- MODULE MCEmailListing ---------------------------
EXTENDS EmailListing

\* Three months of three instants: 0-2, 3-5, 6-8; now is 7.  Two messages share
\* an instant, one has a date after now but in its month.
MCMessages == {<<0, 4>>, <<3, 1>>, <<3, 5>>, <<4, 2>>, <<8, 3>>}

\* Newer generations may change the class and the files of the message <<3, 1>>, which
\* lies in both periods, there and back.
Content(class, files) == [class |-> class, files |-> files]
MCResults == [m \in MCMessages |->
  IF m[2] = 1 THEN {Content("a", 0), Content("b", 2)} ELSE {Content("a", m[2] % 2)}]

Between(from, to) == [from |-> from, to |-> to]
MCFilters == {Between(None, None), Between(4, None), Between(None, 3), Between(3, 6),
              Between(7, None)}
MCPeriods == {[start |-> 1, end |-> 4], [start |-> 3, end |-> 9]}
=============================================================================
