------------------------------- MODULE MCReplay -------------------------------
EXTENDS ReplayRequirements, TLC

CONSTANTS a, b

MCDatasets == {a, b}
MCSymmetry == Permutations(MCDatasets)

\* Two obligations: a rigid one, dear to miss, and one that can be paid in part.
MCCategories == <<[share |-> 2, fee |-> 2, rigid |-> TRUE], [share |-> 1, fee |-> 1, rigid |-> FALSE]>>
MCDueDraws == <<<<1, 1>>, <<2, 0>>>>

\* An invoice each of two payers, a third issued later; a half day late, a day,
\* a day and a half, or never paid.
MCInvoices == [payer : {"p"}, issue : {0, 2}, due : {2}, amount : {3}, late : {0, 1, 3, Never}]
              \union [payer : {"q"}, issue : {1}, due : {2}, amount : {2}, late : {1, 2, Never}]

MCWorlds ==
    {[opening |-> 4, sales |-> <<1, 1, 0, 1, 0>>, outflow |-> out, invoices |-> inv] :
        out \in {<<3, 3, 3, 3, 3>>, <<3, 3, 3, 3, 0>>},
        inv \in {s \in SUBSET MCInvoices : /\ Cardinality(s) <= 2
                                           /\ \A v, w \in s : v.payer = w.payer => v = w}}
=============================================================================
