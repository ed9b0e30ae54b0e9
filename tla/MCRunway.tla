------------------------------- MODULE MCRunway -------------------------------
EXTENDS RunwayRequirements, TLC

\* Histories of five to eight days: steady, alternating, a break, a trend.
MCHistories == {<<-1, -1, -1, -1, -1>>, <<-2, 1, -2, 1, -1, 0, -2>>, <<1, 1, 0, -1, -2, -3>>,
                <<2, -3, 2, -2, 1, -2, 1, -3>>}

MCScales == {[h \in 1 .. 4 |-> 1], <<1, 2, 2, 2>>}

\* A receivable due, one overdue, two of one day, and one of a payer never seen.
MCDue == [payer |-> "p", untilDue |-> 0, amount |-> 3]
MCReceivables == {{}, {MCDue, [payer |-> "q", untilDue |-> 1, amount |-> 2]},
                  {[payer |-> "p", untilDue |-> -2, amount |-> 3],
                   [payer |-> "r", untilDue |-> 0, amount |-> 9]}}

MCPayers == {"p", "q"}
MCDelays == {[p |-> x, q |-> y] : x \in {1, 3, 5}, y \in {0, 3}}
MCShocks == {<<0, 0, 0, 0>>, <<-2, 0, 3, 0>>}
=============================================================================
