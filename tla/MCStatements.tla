---------------------------- MODULE MCStatements ----------------------------
EXTENDS StatementRequirements

MCDates == {<<1, 2>>, <<2, 1>>, <<2, 3>>}

\* A fifth row only where the day does not matter, so that the amounts may.
FifthRowSameDay == Len(ledger) <= 4 \/ \A i \in DOMAIN ledger : ledger[i].date = <<1, 2>>
=============================================================================
