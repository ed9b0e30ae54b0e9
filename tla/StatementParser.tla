--------------------------- MODULE StatementParser ---------------------------
(***************************************************************************)
(* Bank statements from the ledger to the records and back: the ledger and *)
(* its layouts (statement_generator.py), the pages a pull is cut into and  *)
(* joined from (bank_api_client.py), the parser that picks the meaning of  *)
(* the columns by the running balance (statement_parser.py), and the       *)
(* records whose identifiers make an overlapping pull harmless.            *)
(*                                                                         *)
(* Amounts are whole paise.  A line keeps its date cell, its narrative and *)
(* its amount columns; the header is one line, whatever precedes it.       *)
(***************************************************************************)
EXTENDS Integers, Sequences, SequencesExt, FiniteSetsExt

CONSTANTS Amounts, Texts,     \* amounts in paise and narratives of the ledger
          Opening,            \* balance before the first row
          Months, Days,       \* a small calendar; day > Months gives the format away
          Dates,              \* its days on which something is posted, as <<month, day>>
          Layouts,            \* the layouts of this instance
          PageSize,
          MaxRows             \* bound on the transactions of the ledger

ASSUME ParserAssumption == /\ Amounts \subseteq Nat \ {0}
                           /\ Opening \in Int
                           /\ PageSize \in Nat \ {0}
                           /\ MaxRows \in Nat
                           /\ Dates \subseteq (1 .. Months) \X (1 .. Days)

VARIABLES ledger, \* the account's transactions, in posting order
          pull    \* the pull: its window, layout, damage and parse

vars == <<ledger, pull>>

Calendar == (1 .. Months) \X (1 .. Days)
Damages == {"none", "altered", "missing"}
NoPull == [made |-> FALSE]

Before(d, e) == d[1] < e[1] \/ (d[1] = e[1] /\ d[2] <= e[2])

-----------------------------------------------------------------------------
(* Writing: render.                                                        *)

Columns == [simple  |-> <<"Debit", "Credit", "Balance">>,
            swapped |-> <<"Credit", "Debit", "Balance">>,
            indian  |-> <<"Withdrawal (Dr)", "Deposit (Cr)", "Closing Balance">>,
            signed  |-> <<"Amount", "Running Balance">>,
            flag    |-> <<"Amount", "Dr/Cr", "Balance">>,
            us      |-> <<"Amount">>,
            zeroes  |-> <<"Debit", "Credit">>]

ASSUME LayoutsAssumption == Layouts \subseteq DOMAIN Columns

\* What each column says of a row, by layout.
Contents == [Columns EXCEPT !.simple = <<"debit", "credit", "balance">>,
                            !.swapped = <<"debit", "credit", "balance">>,
                            !.indian = <<"debit", "credit", "balance">>,
                            !.signed = <<"net", "balance">>,
                            !.flag = <<"gross", "mark", "balance">>,
                            !.us = <<"net">>,
                            !.zeroes = <<"debit", "credit">>]

DateFormat == [simple |-> "dmy", swapped |-> "dmy", indian |-> "iso", signed |-> "iso",
               flag |-> "dmy", us |-> "mdy", zeroes |-> "dmy"]

HasBalance(layout) == \E k \in DOMAIN Contents[layout] : Contents[layout][k] = "balance"

Blank == [kind |-> "blank"]
Number(n) == [kind |-> "number", value |-> n]
Mark(m) == [kind |-> "mark", value |-> m]

Sparse(n, layout) == IF n = 0 /\ layout # "zeroes" THEN Blank ELSE Number(n)

WrittenCell(content, layout, t) ==
    CASE content = "debit"   -> Sparse(t.debit, layout)
      [] content = "credit"  -> Sparse(t.credit, layout)
      [] content = "net"     -> Number(t.credit - t.debit)
      [] content = "gross"   -> Number(t.credit + t.debit)
      [] content = "mark"    -> Mark(IF t.credit > 0 THEN "cr" ELSE "dr")
      [] content = "balance" -> Number(t.balance)

WrittenDate(format, date) ==
    CASE format = "iso" -> <<"iso", date[1], date[2]>>
      [] format = "mdy" -> <<"slash", date[1], date[2]>>
      [] format = "dmy" -> <<"slash", date[2], date[1]>>

Line(layout, t) ==
    [head |-> FALSE, date |-> WrittenDate(DateFormat[layout], t.date), text |-> t.text,
     cells |-> [k \in DOMAIN Contents[layout] |-> WrittenCell(Contents[layout][k], layout, t)]]

Header(layout) == [head |-> TRUE, names |-> Columns[layout]]

Lines(layout, ts) == [i \in DOMAIN ts |-> Line(layout, ts[i])]

\* LocalReferenceProvider.fetch_page: the header again on every page.
Pages(layout, ts) ==
    [p \in 1 .. (Len(ts) + PageSize - 1) \div PageSize |->
        <<Header(layout)>> \o SubSeq(Lines(layout, ts), (p - 1) * PageSize + 1,
                                     IF p * PageSize < Len(ts) THEN p * PageSize ELSE Len(ts))]

\* _concatenate_pages: a later page loses the leading lines it shares with the first.
Shared(first, page) ==
    Max({n \in 0 .. Len(page) : n <= Len(first) /\ SubSeq(page, 1, n) = SubSeq(first, 1, n)})

UnsharedButOne(first, page) == SubSeq(page, Shared(first, page) + 2, Len(page))

Unshared(first, page) == SubSeq(page, Shared(first, page) + 1, Len(page))

Joined(pages) ==
    FlattenSeq([p \in DOMAIN pages |-> IF p = 1 THEN pages[1] ELSE Unshared(pages[1], pages[p])])

-----------------------------------------------------------------------------
(* Reading: the date column.                                               *)

\* The day a cell names under a format, as <<month, day>>; <<0, 0>> when none.
ReadDate(format, cell) ==
    LET d == IF format = "dmy" THEN <<cell[3], cell[2]>> ELSE <<cell[2], cell[3]>>
    IN  IF d \in Calendar /\ (format = "iso") = (cell[1] = "iso") THEN d ELSE <<0, 0>>

Viable(body) == {f \in {"iso", "dmy", "mdy"} :
                    \A i \in DOMAIN body : ReadDate(f, body[i].date) # <<0, 0>>}

Ordered(body, f) == \A i \in 1 .. Len(body) - 1 :
                        Before(ReadDate(f, body[i].date), ReadDate(f, body[i + 1].date))

\* The formats still standing.
FormatPool(body) == LET ordered == {f \in Viable(body) : Ordered(body, f)}
                    IN  IF ordered # {} THEN ordered ELSE Viable(body)

\* The one of them that is preferred.
ChosenFormat(body) == LET pool == FormatPool(body)
                      IN  IF "iso" \in pool THEN "iso"
                          ELSE IF "dmy" \in pool THEN "dmy" ELSE "mdy"

\* The column was not ordered under any format, or another format stands as well.
WarnsOnDisorder(body) == ~Ordered(body, ChosenFormat(body))

DateWarning(body) == LET format == ChosenFormat(body)
                     IN  FormatPool(body) # {format} \/ ~Ordered(body, format)

-----------------------------------------------------------------------------
(* Reading: the amount columns.                                            *)

\* _header_score of the headers above, in thousandths.
AmountHeaders == {"Debit", "Withdrawal (Dr)", "Credit", "Deposit (Cr)", "Amount",
                  "Balance", "Running Balance", "Closing Balance"}

HeaderScore ==
    [debit   |-> [h \in AmountHeaders |->
                    CASE h \in {"Debit", "Withdrawal (Dr)"} -> 1000 [] h = "Amount" -> 800
                      [] h = "Credit" -> 545                        [] h = "Deposit (Cr)" -> 471
                      [] h = "Closing Balance" -> 240               [] OTHER -> 250],
     credit  |-> [h \in AmountHeaders |->
                    CASE h \in {"Credit", "Deposit (Cr)"} -> 1000   [] h = "Amount" -> 800
                      [] h = "Debit" -> 667                         [] h = "Withdrawal (Dr)" -> 444
                      [] h = "Closing Balance" -> 370               [] h = "Balance" -> 308
                      [] OTHER -> 250],
     amount  |-> [h \in AmountHeaders |->
                    CASE h = "Amount" -> 1000                       [] h = "Balance" -> 500
                      [] h = "Debit" -> 200                         [] h = "Credit" -> 250
                      [] h = "Withdrawal (Dr)" -> 303               [] h = "Deposit (Cr)" -> 222
                      [] OTHER -> 300],
     balance |-> [h \in AmountHeaders |->
                    CASE h \in {"Credit", "Amount"} -> 308          [] h = "Deposit (Cr)" -> 370
                      [] h = "Debit" -> 250                         [] h = "Withdrawal (Dr)" -> 222
                      [] OTHER -> 1000]]

Kinds(body, k) == {body[i].cells[k].kind : i \in DOMAIN body} \ {"blank"}

NumericColumns(body) == {k \in DOMAIN body[1].cells : Kinds(body, k) = {"number"}}
Indicators(body) == {k \in DOMAIN body[1].cells : Kinds(body, k) = {"mark"}}

\* A candidate mapping: the convention, its columns, and the balance (0: none).
Candidates(body) ==
    LET numeric == NumericColumns(body)
        Pool(bal) == numeric \ {bal}
    IN  UNION {{m \in [as : {"separate"}, a : Pool(bal), b : Pool(bal), balance : {bal}] : m.a # m.b}
               \union [as : {"signed"}, a : Pool(bal), b : {0}, balance : {bal}]
               \union [as : {"indicator"}, a : Pool(bal), b : Indicators(body), balance : {bal}]
               : bal \in numeric \union {0}}

Value(line, k) == IF line.cells[k].kind = "number" THEN line.cells[k].value ELSE 0

Magnitude(n) == IF n < 0 THEN -n ELSE n

\* _signed_pairs, for one line.
SignedPair(line, m) ==
    LET a == Value(line, m.a) IN
    CASE m.as = "separate"  -> [debit |-> Magnitude(a), credit |-> Magnitude(Value(line, m.b))]
      [] m.as = "signed"    -> IF a < 0 THEN [debit |-> -a, credit |-> 0]
                                        ELSE [debit |-> 0, credit |-> a]
      [] m.as = "indicator" -> IF line.cells[m.b].value = "dr"
                               THEN [debit |-> Magnitude(a), credit |-> 0]
                               ELSE [debit |-> 0, credit |-> Magnitude(a)]

LooseTolerance == 10

Tolerance == 1

\* _reconcile: the residual of each line but the first, under a mapping.
Residuals(body, m) ==
    [i \in 1 .. Len(body) - 1 |->
        LET pair == SignedPair(body[i + 1], m) IN
        Magnitude(Value(body[i], m.balance) + pair.credit - pair.debit
                  - Value(body[i + 1], m.balance))]

Checkable(body, m) == m.balance # 0 /\ \A i \in DOMAIN body : body[i].cells[m.balance] # Blank

Passed(body, m) == /\ Checkable(body, m)
                   /\ Len(body) > 1
                   /\ \A i \in DOMAIN Residuals(body, m) : Residuals(body, m)[i] <= Tolerance

Moves(body, m) ==
    2 * Cardinality({i \in DOMAIN body : LET p == SignedPair(body[i], m)
                                         IN  p.debit > 0 \/ p.credit > 0}) > Len(body)

HeaderSupport(names, m) ==
    LET balance == IF m.balance = 0 THEN 0 ELSE HeaderScore.balance[names[m.balance]]
    IN  balance + IF m.as = "separate"
                  THEN HeaderScore.debit[names[m.a]] + HeaderScore.credit[names[m.b]]
                  ELSE HeaderScore.amount[names[m.a]]

SumOf(s) == SumFunctionOnSet(s, DOMAIN s)

Flag(b) == IF b THEN 1 ELSE 0

HeadersFirst(names, body, m) ==
    IF Checkable(body, m)
    THEN <<1, HeaderSupport(names, m), Flag(Passed(body, m)), Flag(Moves(body, m)),
           -SumOf(Residuals(body, m))>>
    ELSE <<0, HeaderSupport(names, m), 0, Flag(Moves(body, m)), 0>>

\* The key candidates are compared by, most significant first; the mean
\* residual orders as the sum, every candidate having the same lines.
Merit(names, body, m) ==
    IF Checkable(body, m)
    THEN <<1, Flag(Passed(body, m)), Flag(Moves(body, m)), -SumOf(Residuals(body, m)),
           HeaderSupport(names, m)>>
    ELSE <<0, 0, Flag(Moves(body, m)), 0, HeaderSupport(names, m)>>

AtLeast(x, y) == x = y \/ \E k \in DOMAIN x : x[k] > y[k] /\ \A j \in 1 .. k - 1 : x[j] = y[j]

\* max() keeps the first of equals, in the order the candidates are listed.
Listed(m) == <<IF m.balance = 0 THEN -100 ELSE -m.balance,
               CASE m.as = "separate" -> 0 [] m.as = "signed" -> -1 [] OTHER -> -2, -m.a, -m.b>>

Chosen(names, body) ==
    LET ranked == {[merit |-> Merit(names, body, m) \o Listed(m), mapping |-> m] : m \in Candidates(body)}
    IN  (CHOOSE x \in ranked : \A y \in ranked : AtLeast(x.merit, y.merit)).mapping

\* _diagnose.
Doubled(body, m, i) ==
    LET p == SignedPair(body[i + 1], m)
        off == Magnitude(Residuals(body, m)[i] - 2 * (p.debit + p.credit))
    IN  p.debit + p.credit > 0 /\ (off <= Tolerance \/ 100 * off <= p.debit + p.credit)

Inverted(body, m) ==
    10 * Cardinality({i \in 1 .. Len(body) - 1 : Doubled(body, m, i)}) > 8 * (Len(body) - 1)

Broken(body, m) == {i \in 1 .. Len(body) - 1 : Residuals(body, m)[i] > Tolerance}

Localized(body, m) == Cardinality(Broken(body, m)) <= Max({2, (Len(body) - 1) \div 20})

Growing(r) == \A i \in 1 .. Len(r) - 1 : r[i + 1] >= r[i] - Tolerance

\* A variant of Diagnosis that asks for the missing row before the bad cell.
MissingRowFirst(body, m) ==
    CASE Len(body) = 1 -> "none"
      [] Len(body) > 1 /\ Inverted(body, m) -> "inverted"
      [] OTHER -> IF Growing(Residuals(body, m)) THEN "missing row" ELSE "bad cell"

Diagnosis(body, m) ==
    IF Len(body) = 1 THEN "none"
    ELSE IF Inverted(body, m) THEN "inverted"
    ELSE IF Localized(body, m) THEN "bad cell"
    ELSE IF Growing(Residuals(body, m)) THEN "missing row"
    ELSE "suspect"

\* parse_statement: the lines under the header, as transactions, or a refusal.
Parse(text) ==
    LET names == text[1].names
        body == Tail(text)
        m == Chosen(names, body)
        format == ChosenFormat(body)
        rows == [i \in DOMAIN body |->
                    LET pair == SignedPair(body[i], m)
                    IN  [date |-> ReadDate(format, body[i].date), text |-> body[i].text,
                         debit |-> pair.debit, credit |-> pair.credit]]
    IN  [rows |-> rows, checkable |-> Checkable(body, m),
         rejected |-> Checkable(body, m) /\ ~Passed(body, m),
         warned |-> DateWarning(body),
         diagnosis |-> IF Checkable(body, m) /\ ~Passed(body, m) THEN Diagnosis(body, m) ELSE "none"]

IdOfRow(row) == [kind |-> IF row.credit > 0 THEN "in" ELSE "out", row |-> row]

\* _record_id: date, direction, amounts and narrative.
RecordId(row) == [kind |-> IF row.credit > 0 THEN "in" ELSE "out", date |-> row.date,
                  debit |-> row.debit, credit |-> row.credit, text |-> row.text]

\* to_records: nothing from a refused parse; accepted ones have no broken row.
Records(parse) == IF parse.rejected THEN {}
                  ELSE {RecordId(parse.rows[i]) : i \in {j \in DOMAIN parse.rows :
                            parse.rows[j].credit > 0 \/ parse.rows[j].debit > 0}}

-----------------------------------------------------------------------------
Init == ledger = <<>> /\ pull = NoPull

\* make_truth, one row: the balance runs on.
Transact(date, text, debit, credit) ==
    /\ Len(ledger) < MaxRows
    /\ ~pull.made
    /\ ledger # <<>> => Before(Last(ledger).date, date)
    /\ ledger' = Append(ledger,
          [date |-> date, text |-> text, debit |-> debit, credit |-> credit,
           balance |-> (IF ledger = <<>> THEN Opening ELSE Last(ledger).balance) + credit - debit])
    /\ UNCHANGED pull

\* One balance cell misprinted, or one line lost, away from both ends.
Damaged(ts, damage, k) ==
    CASE damage = "none"    -> ts
      [] damage = "altered" -> [ts EXCEPT ![k].balance = @ + 5]
      [] damage = "missing" -> RemoveAt(ts, k)

\* A pull of the ledger since row i, in one layout: pages, join, parse.  What it
\* yields depends on the ledger alone, so that one pull a behaviour is enough.
Pull(layout, i, damage, k) ==
    /\ ~pull.made
    /\ damage = "none" \/ (i < k /\ k < Len(ledger))
    /\ LET ts == Damaged(SubSeq(ledger, i, Len(ledger)), damage, k - i + 1) IN
       pull' = [made |-> TRUE, from |-> i, layout |-> layout, damage |-> damage, lost |-> k,
                parse |-> Parse(Joined(Pages(layout, ts)))]
    /\ UNCHANGED ledger

Next == \/ \E date \in Dates, text \in Texts, amount \in Amounts :
              Transact(date, text, amount, 0) \/ Transact(date, text, 0, amount)
        \/ \E layout \in Layouts, i \in DOMAIN ledger :
              \/ Pull(layout, i, "none", i)
              \/ \E damage \in {"altered", "missing"}, k \in i .. Len(ledger) :
                    Pull(layout, i, damage, k)

ParserSpec == Init /\ [][Next]_vars
=============================================================================
