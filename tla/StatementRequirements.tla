------------------------ MODULE StatementRequirements ------------------------
(* What must hold of StatementParser.                                        *)
EXTENDS StatementParser

\* The transactions the last pull was about, when nothing damaged them.
Asked == SubSeq(ledger, pull.from, Len(ledger))
Intact == pull.made /\ pull.damage = "none"

Debits(ts) == {i \in DOMAIN ts : ts[i].debit > 0}
Credits(ts) == {i \in DOMAIN ts : ts[i].credit > 0}

\* The layout has a balance, and the window rows enough to test it on.
Tested == HasBalance(pull.layout) /\ Len(Asked) > 1

\* Two columns, each left empty where the money went the other way.
TwoColumns(layout) == layout \in {"simple", "swapped", "indian"}

\* Under a Dr/Cr flag the first row is the one the balance says nothing of: when
\* it is the only debit, reading the amounts as credits reconciles as well.
FirstRowBlind == pull.layout = "flag" /\ Debits(Asked) = {1}

\* Withdrawals all the way down: the empty column is no candidate for an amount,
\* so that no mapping is right, and one that takes the balances for deposits may
\* fit (statement_parser.py:556-563).
WithdrawalsAlone == TwoColumns(pull.layout) /\ Credits(Asked) = {}

Reads(row, t) == row.debit = t.debit /\ row.credit = t.credit /\ row.text = t.text

\* A page that begins with the very line the first page begins with, balance
\* and all: joining the pages takes that line for a repeated header.
Swallowed == \E p \in DOMAIN Pages(pull.layout, Asked) :
                p > 1 /\ Shared(Pages(pull.layout, Asked)[1], Pages(pull.layout, Asked)[p]) > 1

\* Whatever the layout, even one that heads its columns the wrong way round, an
\* accepted and checked statement says what the ledger says, row for row, of every
\* row the balance can vouch for: all but the first of a flagged statement, and
\* none of one with withdrawals alone (statement_parser.py:19-24, 409-412, 615-626).
ReadsBackWhatIsChecked ==
    Intact /\ Tested /\ ~pull.parse.rejected /\ ~Swallowed /\ ~WithdrawalsAlone
      => /\ Len(pull.parse.rows) = Len(Asked)
         /\ \A i \in DOMAIN Asked : Reads(pull.parse.rows[i], Asked[i]) \/ (i = 1 /\ FirstRowBlind)

\* A true statement is refused only when it has a single row to check, when it
\* has two amount columns and one of them is empty all the way down, or when,
\* without a balance, zeroes make an amount column look like one.
RefusesOnly ==
    Intact /\ pull.parse.rejected
      => \/ Swallowed
         \/ HasBalance(pull.layout) /\ Len(Asked) = 1
         \/ TwoColumns(pull.layout) /\ (Debits(Asked) = {} \/ Credits(Asked) = {})
         \/ pull.layout = "zeroes"

\* A day read for another never goes without a warning, whichever way round
\* the bank writes its dates (statement_parser.py:202-260).
DatesRightOrFlagged ==
    Intact /\ ~pull.parse.warned /\ Len(pull.parse.rows) = Len(Asked)
      => \A i \in DOMAIN Asked : pull.parse.rows[i].date = Asked[i].date

\* Pulling the same days again, in whatever layout, posts nothing that is not a
\* transaction of the ledger under its own identifier, so that an overlap posts
\* nothing twice (statement_parser.py:823-836).
OverlapPostsNothingTwice ==
    Intact /\ Tested /\ ~FirstRowBlind /\ ~WithdrawalsAlone /\ ~pull.parse.warned
      => Records(pull.parse) \subseteq {RecordId(Asked[i]) : i \in DOMAIN Asked}

\* What the bank's file still holds once a row of it was lost or misprinted.
Left == Damaged(Asked, pull.damage, pull.lost - pull.from + 1)

\* The rows of page p that joining takes for a repeated header.
Taken(p) == LET pages == Pages(pull.layout, Left) IN Shared(pages[1], pages[p]) - 1

LaterPages == DOMAIN Pages(pull.layout, Left) \ {1}

\* The file lost a row at the bank, or joining took some rows of a page, not all.
LosesRows ==
    \/ pull.damage = "missing" /\ \A p \in LaterPages : Taken(p) = 0
    \/ Intact /\ \E p \in LaterPages : Taken(p) \in 1 .. Len(Pages(pull.layout, Left)[p]) - 2

\* A misprinted balance is never accepted, and neither is a statement that lost
\* rows, at the bank or in joining the pages, unless a mapping that reads some row
\* as no movement at all happens to fit: it outranks the true one, which does not.
\* A page taken whole is another matter: nothing may be left to miss it
\* (statement_parser.py:36-41, 599-626, bank_api_client.py:545-566).
DamageShows ==
    pull.made /\ HasBalance(pull.layout) /\ ~pull.parse.rejected
      => /\ pull.damage # "altered"
         /\ LosesRows => \E i \in DOMAIN pull.parse.rows :
                             pull.parse.rows[i].debit + pull.parse.rows[i].credit = 0

\* The amounts of what is left were read through the right columns.
ReadRight == /\ Len(pull.parse.rows) = Len(Left)
             /\ \A i \in DOMAIN Left : Reads(pull.parse.rows[i], Left[i])

\* An undamaged statement is diagnosed as inverted exactly when its amounts are
\* withdrawals all the way down.  Where the amounts were read right, a misprinted
\* balance is a bad cell, and a lost row is called one too, never the missing row:
\* it breaks a single step of the balance (statement_parser.py:448-491).
DiagnosisNames ==
    pull.made /\ HasBalance(pull.layout)
      => /\ Intact => (pull.parse.diagnosis = "inverted"
                         <=> pull.parse.rejected /\ Len(Asked) > 1 /\ Credits(Asked) = {})
         /\ pull.damage # "none" /\ pull.parse.rejected /\ ReadRight
              => pull.parse.diagnosis = "bad cell"
=============================================================================
