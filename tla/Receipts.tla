------------------------------- MODULE Receipts -------------------------------
(* Photographed bills to payable records: regions merged into rows, fields   *)
(* found by their labels, a record or a refusal, and the duplicate screen    *)
(* (receipt_generator.py, ocr_service.py, normalizer.py). A damaged region is *)
(* the detector's doing and free; a number is a sequence of digit groups.    *)
EXTENDS Integers, FiniteSets, Sequences, SequencesExt, OrderStatistics

CONSTANTS
    Batches,    \* sequences of bills ingested together
    Budget,     \* Budget[n]: regions damaged at most in a batch of n
    Unread

VARIABLES
    batch,      \* the bills (ReceiptTruth) photographed, in order
    damage,     \* what became of the regions of each image read so far
    records,    \* the records built, in order
    rejections, \* the images refused, with the fields missing
    findings    \* one finding per record once screened; Unread before

receiptVars == <<batch, damage, records, rejections, findings>>

\* What a generated bill is: no template draws a sum below the thousands, and a bill's
\* number has four digits (receipt_generator.py:100-134). The name and the item of the
\* one vendor of taxes, which hold a tax label themselves, are left out.
Bills == [vendor : STRING, invoice : Nat \ {0}, day : Nat, subtotal : Nat \ 0 .. 99,
          clear : BOOLEAN, absent : SUBSET (1 .. 18)]

ASSUME ReceiptAssumption == Batches \subseteq Seq(Bills) /\ Unread \notin Int

DefaultTerms == 30      \* days
Pitch == 40             \* pixels from one printed line to the next
Tolerance == 16         \* 0.6 of the height of a region
Drift == 20             \* how far a region that drifts sinks
Lookahead == 3
MinAmountDigits == 3
DayTolerance == 3
Sure == 95              \* confidence, in percent, of a sound region ...
Faint == 40             \* ... and of a damaged one
NeedsConfidence == 60

-----------------------------------------------------------------------------
(* What is printed. Money is in hundredths; a digit group is its length, its *)
(* value and the mark before it.                                             *)

Tax(b) == b.subtotal * 18
Total(b) == b.subtotal * 100 + Tax(b)

Group(n, v, sep) == [n |-> n, v |-> v, sep |-> sep]

Thousands[r \in Nat] ==
    IF r < 1000 THEN <<Group(IF r > 99 THEN 3 ELSE IF r > 9 THEN 2 ELSE 1, r, "")>>
                ELSE Append(Thousands[r \div 1000], Group(3, r % 1000, ","))

Printed(money) == Append(Thousands[money \div 100], Group(2, money % 100, "."))

\* A region: its line, its text, the label words in it, its runs of digits, and
\* the invoice number or date it parses as. kind tells what a row made of it alone is.
Region(line, kind, text, says, runs, invoice, date) ==
    [line |-> line, kind |-> kind, text |-> text, says |-> says, runs |-> runs,
     invoice |-> invoice, date |-> date]

Label(line, text, says) == Region(line, "label", text, says, {}, Unread, Unread)
Figure(line, says, run) == Region(line, "figure", "figure", says, {run}, Unread, Unread)

\* What the generator draws, b.absent apart: lines a photographed bill of another
\* make does not carry.
Layout(b) == <<
    Region(1, "words", b.vendor, {}, {}, Unread, Unread),
    Label(2, "heading", {"tax", "invoice"}),
    Label(3, "Invoice No", {"invoice"}),
    Region(3, "words", "reference", {"invoice"}, {<<Group(4, b.invoice, "")>>}, b.invoice, Unread),
    Label(4, "Date", {"date"}),
    Region(4, "figure", "date", {}, {<<Group(4, 2026, "")>>}, Unread, b.day),
    Label(5, "GSTIN", {"gst", "gstin"}),
    Region(5, "words", "registration", {"registration"}, {}, Unread, Unread),
    Label(6, "Description Amount", {}),
    Region(7, "words", "item", {}, {}, Unread, Unread),
    Figure(7, {}, Thousands[b.subtotal]),
    Label(8, "Subtotal", {"total", "sub"}),
    Figure(8, {}, Thousands[b.subtotal]),
    Label(9, "GST", {"gst"}),
    Figure(9, {}, Printed(Tax(b))),
    Label(10, "TOTAL", {"total"}),
    Figure(10, {"inr"}, Printed(Total(b))),
    Label(11, "terms", {"invoice", "date"}) >>

TotalLabel == 16
TotalFigure == 17

\* What a blurred, skewed photograph does to a region: not detected, read as
\* other words, sunk below its line; to a figure also: its marks read as blanks,
\* its marks not read at all, its leading group cut off.
Damages(r) ==
    {"lost", "garbled", "sunk"} \cup (IF r.text = "figure" THEN {"spread", "glued", "cut"} ELSE {})

\* The damaged regions, and how, of the photographs with at most left of them.
Photographs(b, left) ==
    LET page == Layout(b)
        spots == {{f[n] : n \in 1 .. left} \ {0} : f \in [1 .. left -> 0 .. Len(page)]}
        harms == UNION {Damages(page[k]) : k \in DOMAIN page}
    IN  UNION {{d \in [K -> harms] : \A k \in K : d[k] \in Damages(page[k])} : K \in spots}

Added(f) == SumFunctionOnSet(f, DOMAIN f)

TenTo[n \in Nat] == IF n = 0 THEN 1 ELSE 10 * TenTo[n - 1]

\* The digits of a run, and the number they make one after another.
Digits(run) == Added([k \in DOMAIN run |-> run[k].n])
Concat(run) ==
    LET upto[k \in 0 .. Len(run)] ==
            IF k = 0 THEN 0 ELSE upto[k - 1] * TenTo[run[k].n] + run[k].v
    IN  upto[Len(run)]

Damaged(r, how) ==
    CASE how = "garbled" -> Region(r.line, "words", "garbled", {}, {}, Unread, Unread)
      [] how = "spread" -> [r EXCEPT !.runs = {[k \in DOMAIN run |-> [run[k] EXCEPT !.sep = " "]] : run \in @}]
      [] how = "glued" -> [r EXCEPT !.runs = {<<Group(Digits(run), Concat(run), "")>> : run \in @}]
      [] how = "cut" -> [r EXCEPT !.runs = {Tail(run) : run \in @}]
      [] OTHER -> r

\* The last decimal point splits; with none, a trailing group of two digits after
\* full groups is the fraction.
RunToDecimal(run) ==
    LET n == Len(run)
        points == {k \in 1 .. n : run[k].sep = "."}
        last == CHOOSE k \in points : \A j \in points : j <= k
        shaped == n > 1 /\ run[n].n = 2 /\ run[1].n <= 3 /\ \A k \in 2 .. n - 1 : run[k].n = 3
    IN  CASE Digits(run) < MinAmountDigits -> Unread
          [] Digits(run) >= MinAmountDigits /\ points # {} ->
                Concat(SubSeq(run, 1, last - 1)) * 100 + Concat(SubSeq(run, last, n))
          [] Digits(run) >= MinAmountDigits /\ points = {} ->
                IF shaped THEN Concat(Front(run)) * 100 + run[n].v ELSE Concat(run) * 100

\* The longest run of digits in a row's text, never the largest number.
ParseAmount(all) ==
    LET runs == {r \in all : RunToDecimal(r) \notin {Unread, 0}}
        longest == {r \in runs : \A s \in runs : Digits(s) <= Digits(r)}
    IN  IF runs = {} THEN Unread
        ELSE RunToDecimal(CHOOSE r \in longest : \A s \in longest : RunToDecimal(s) <= RunToDecimal(r))

-----------------------------------------------------------------------------
(* engine.read: the regions seen, grouped into rows from the top, the least  *)
(* confident region speaking for its row (merge_into_rows).                  *)

Seen(page, hurt, absent) ==
    {k \in DOMAIN page \ absent : k \notin DOMAIN hurt \/ hurt[k] # "lost"}

Height(page, hurt, k) ==
    Pitch * page[k].line + (IF k \in DOMAIN hurt /\ hurt[k] = "sunk" THEN Drift ELSE 0)

\* A row starts where nothing is a little higher.
Tops(heights) == {h \in heights : \A d \in 1 .. Tolerance : h - d \notin heights}

Row(page, hurt, K) ==
    LET regions == {IF k \in DOMAIN hurt THEN Damaged(page[k], hurt[k]) ELSE page[k] : k \in K}
        only(values) == IF values \ {Unread} = {} THEN Unread ELSE CHOOSE v \in values : v # Unread
    IN  [kinds |-> {r.kind : r \in regions}, texts |-> {r.text : r \in regions},
         says |-> UNION {r.says : r \in regions}, amount |-> ParseAmount(UNION {r.runs : r \in regions}),
         invoice |-> only({r.invoice : r \in regions}), date |-> only({r.date : r \in regions}),
         confidence |-> IF K \cap DOMAIN hurt = {} THEN Sure ELSE Faint]

Rows(b, hurt) ==
    LET page == Layout(b)
        seen == Seen(page, hurt, b.absent)
        tops == Tops({Height(page, hurt, k) : k \in seen})
        from == [t \in tops |-> t]
        row == [t \in tops |->
                  Row(page, hurt, {k \in seen : /\ Height(page, hurt, k) >= t
                                                /\ \A u \in tops : u > t => Height(page, hurt, k) < u})]
    IN  [i \in 1 .. Cardinality(tops) |-> row[KthSmallest(from, i)]]

-----------------------------------------------------------------------------
(* Field extraction.                                                         *)

TaxAmount(row) == IF "registration" \in row.says THEN Unread ELSE row.amount

\* The rows that hold a value.
Amounts(rows) == {i \in DOMAIN rows : rows[i].amount # Unread}
TaxAmounts(rows) == {i \in DOMAIN rows : TaxAmount(rows[i]) # Unread}
Invoices(rows) == {i \in DOMAIN rows : rows[i].invoice # Unread}
Dates(rows) == {i \in DOMAIN rows : rows[i].date # Unread}

Saying(rows, label) == {i \in DOMAIN rows : label \in rows[i].says}

First(K) == IF K = {} THEN 0 ELSE CHOOSE k \in K : \A j \in K : k <= j

\* The row, of a label's and the three after it, that a value is read from; 0: none.
ValueAfter(i, holding) == First((i .. i + Lookahead) \cap holding)

\* The row of the value the first label that leads to one leads to; 0: none.
Labelled(labels, holding) ==
    LET from == First({i \in labels : ValueAfter(i, holding) # 0})
    IN  IF from = 0 THEN 0 ELSE ValueAfter(from, holding)

\* A line that could be a name: not a bare label, not only digits.
Substantial(row) == row.kinds # {"label"} /\ row.kinds # {"figure"}

VendorRow(rows) ==
    First({i \in DOMAIN rows : i <= 5 /\ Substantial(rows[i])})

\* No line preferred to another.
FirstTotal(rows, i) == 10

\* A total's rank, in tenths.
TotalRank(rows, i) ==
    10 - (IF "sub" \in rows[i].says THEN 6 ELSE 0)
       + (IF "inr" \in rows[i].says THEN 5 ELSE 0)
       + (IF i < Len(rows) /\ "inr" \in rows[i + 1].says THEN 5 ELSE 0)

TotalRow(rows) ==
    LET from == {i \in Saying(rows, "total") : ValueAfter(i, Amounts(rows)) # 0}
        better(i, k) == \/ TotalRank(rows, i) > TotalRank(rows, k)
                        \/ TotalRank(rows, i) = TotalRank(rows, k) /\ i <= k
    IN  IF from = {} THEN 0
        ELSE ValueAfter(CHOOSE i \in from : \A k \in from : better(i, k), Amounts(rows))

TaxAnchor(row) ==
    /\ row.says \cap {"gst", "tax"} # {}
    /\ ~(row.kinds = {"label"} /\ "gstin" \in row.says)

\* The labelled date only.
DateByLabel(rows) == Labelled(Saying(rows, "date"), Dates(rows))

DateRow(rows) ==
    LET labelled == DateByLabel(rows)
    IN  IF labelled # 0 THEN labelled ELSE First(Dates(rows))

Extract(rows) ==
    LET vendor == VendorRow(rows)
        invoice == Labelled(Saying(rows, "invoice"), Invoices(rows))
        total == TotalRow(rows)
        tax == Labelled({i \in DOMAIN rows : TaxAnchor(rows[i])}, TaxAmounts(rows))
        from == <<vendor, invoice, DateRow(rows), total, tax>>
        found == {k \in 1 .. 5 : from[k] # 0}
        unlabelled == DateByLabel(rows) = 0     \* such a date counts for less
        Sureness(k) == LET c == rows[from[k]].confidence IN IF k = 3 /\ unlabelled THEN (c * 4) \div 5 ELSE c
        Field(row, field) == IF row = 0 THEN Unread ELSE rows[row][field]
    IN  [vendor |-> IF vendor = 0 THEN {} ELSE rows[vendor].texts, invoice |-> Field(invoice, "invoice"),
         date |-> Field(DateRow(rows), "date"), total |-> Field(total, "amount"),
         tax |-> Field(tax, "amount"),
         confidence |-> IF found = {} THEN 0
                        ELSE Added([k \in 1 .. 5 |-> IF k \in found THEN Sureness(k) ELSE 0])
                                \div Cardinality(found)]

-----------------------------------------------------------------------------
(* A record or a refusal.                                                    *)

Missing(f) == {k \in {"total", "date"} : f[k] = Unread} \cup (IF f.vendor = {} THEN {"vendor"} ELSE {})

\* The band as it once was, from zero.
NotTooHigh(total, tax) == tax < total /\ tax * 5 <= (total - tax) * 2

\* The total is checked against the tax: 1 to 40 percent of the rest.
Plausible(total, tax) ==
    /\ tax < total
    /\ total - tax <= tax * 100
    /\ tax * 5 <= (total - tax) * 2

Reasons(f, b) ==
    (IF b.clear THEN {} ELSE {"category"})
    \cup (IF f.confidence < NeedsConfidence THEN {"confidence"} ELSE {})
    \cup (IF f.tax # Unread /\ f.tax > 0 /\ ~Plausible(f.total, f.tax) THEN {"tax"} ELSE {})
    \cup (IF f.invoice = Unread THEN {"invoice"} ELSE {})

\* The identity of a record is its vendor and invoice number; an unread number is
\* replaced by a fresh reference.
Normalize(image, f, b) ==
    LET reference == IF f.invoice = Unread THEN <<"UNKNOWN", image>> ELSE <<"INV", f.invoice>>
    IN  [image |-> image, id |-> <<f.vendor, reference>>, vendor |-> f.vendor, reference |-> reference,
         amount |-> f.total, due |-> f.date + DefaultTerms, fields |-> f, reasons |-> Reasons(f, b)]

ReceiptInit ==
    /\ batch \in Batches
    /\ damage = <<>> /\ records = <<>> /\ rejections = <<>>
    /\ findings = Unread

\* One image of the batch, read whatever way it comes out.
Ingest ==
    LET n == Len(damage) + 1
        left == Budget[Len(batch)] - Added([k \in DOMAIN damage |-> Cardinality(DOMAIN damage[k])])
    IN  /\ n <= Len(batch)
        /\ \E d \in Photographs(batch[n], left) :
            \E f \in {Extract(Rows(batch[n], d))} :
                /\ damage' = Append(damage, d)
                /\ IF Missing(f) # {}
                     THEN rejections' = Append(rejections, [image |-> n, missing |-> Missing(f)])
                          /\ UNCHANGED records
                     ELSE records' = Append(records, Normalize(n, f, batch[n])) /\ UNCHANGED rejections
        /\ UNCHANGED <<batch, findings>>

-----------------------------------------------------------------------------
(* The duplicate screen, over a finished batch.                              *)

Same(a, b) ==
    /\ a.vendor = b.vendor
    /\ a.amount = b.amount
    /\ a.due - b.due \in -DayTolerance .. DayTolerance

\* Before or after.
EveryOther(i) == DOMAIN records \ {i}

Earlier(i) == 1 .. i - 1

\* The first record, of those before it, that a record repeats; 0: none.
ExactOf(i) ==
    LET same == {j \in Earlier(i) : Same(records[i], records[j])}
    IN  IF same = {} THEN 0 ELSE CHOOSE j \in same : \A k \in same : j <= k

\* DBSCAN over scaled features: records equal in every feature are near, others
\* may be; three together make a cluster.
Clustered(i, near) ==
    LET Around(k) == {j \in DOMAIN records : j = k \/ {j, k} \in near}
    IN  \E k \in Around(i) : Cardinality(Around(k)) >= 3

Screen ==
    /\ findings = Unread /\ Len(damage) = Len(batch)
    /\ LET pairs == {p \in SUBSET DOMAIN records : Cardinality(p) = 2}
           equal == {p \in pairs : \A i, j \in p : records[i].vendor = records[j].vendor
                        /\ records[i].amount = records[j].amount /\ records[i].due = records[j].due}
       IN  \E near \in SUBSET pairs :
            /\ equal \subseteq near
            /\ findings' = [i \in DOMAIN records |->
                    [of |-> ExactOf(i),
                     reason |-> CASE ExactOf(i) # 0 -> "exact duplicate"
                                  [] ExactOf(i) = 0 /\ Clustered(i, near) -> "near duplicate"
                                  [] OTHER -> "one-off"]]
    /\ UNCHANGED <<batch, damage, records, rejections>>

ReceiptNext == Ingest \/ Screen

ReceiptSpec == ReceiptInit /\ [][ReceiptNext]_receiptVars
=============================================================================
