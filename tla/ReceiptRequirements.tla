-------------------------- MODULE ReceiptRequirements --------------------------
(* What must hold of Receipts.                                               *)
EXTENDS Receipts

Bill(r) == batch[r.image]
Hurt(r) == DOMAIN damage[r.image] \cup Bill(r).absent
How(r, k) == IF k \notin Hurt(r) THEN "sound" ELSE IF k \in Bill(r).absent THEN "lost" ELSE damage[r.image][k]

\* The total is read from the TOTAL line whatever happens to the rest of the page,
\* and with its figure split at every mark. Otherwise it is one of the three sums
\* printed below the items or a piece or a hundredfold of one, the subtotal among
\* them: never a number of the bill's head (ocr_service.py:579-600).
TotalSurvivesDamageElsewhere ==
    \A n \in DOMAIN records :
        LET r == records[n]
            Readings(printed) == {RunToDecimal(printed), RunToDecimal(Tail(printed)),
                                  RunToDecimal(<<Group(Digits(printed), Concat(printed), "")>>)}
        IN  IF How(r, TotalLabel) = "sound" /\ How(r, TotalFigure) \in {"sound", "spread", "sunk"}
              THEN r.amount = Total(Bill(r))
              ELSE r.amount \in Readings(Thousands[Bill(r).subtotal]) \cup Readings(Printed(Tax(Bill(r))))
                                \cup Readings(Printed(Total(Bill(r))))

\* A total a hundred times too large never goes unreviewed where the tax was read;
\* but whenever heading and bill number are legible the "tax" is the bill number,
\* and the check compares the total with that (normalizer.py:147-173,
\* ocr_service.py:602-618).
CrossCheckHolds ==
    \A n \in DOMAIN records :
        LET r == records[n]
        IN  /\ r.amount = 100 * Total(Bill(r)) /\ r.fields.tax = Tax(Bill(r)) => "tax" \in r.reasons
            /\ {2, 3, 4} \cap Hurt(r) = {} => r.fields.tax = 100 * Bill(r).invoice

\* Two photographs of one bill that were both read rightly make one finding: the
\* later repeats an earlier one of the same vendor, amount and, within three days,
\* date. In any set of records one is no repeat of another in it, so that following
\* the repeats always ends, at a record of the same vendor and amount, and dropping
\* every duplicate keeps one of each (normalizer.py:259-274).
RescansAreCaught ==
    findings # Unread =>
        LET Right(r) == /\ r.vendor = {Bill(r).vendor} /\ r.amount = Total(Bill(r))
        IN  /\ \A i, j \in DOMAIN records :
                 i < j /\ Bill(records[i]) = Bill(records[j]) /\ Right(records[i]) /\ Right(records[j]) =>
                     findings[j].reason = "exact duplicate"
            /\ \A i \in DOMAIN records :
                 findings[i].of # 0 =>
                     LET first == records[findings[i].of]
                     IN  first.vendor = records[i].vendor /\ first.amount = records[i].amount
            /\ \A S \in (SUBSET DOMAIN records) \ {{}} : \E i \in S : findings[i].of \notin S

\* A date is read rightly or not at all, and a bill is refused only for what was
\* damaged: its date, its total and its subtotal both, or, for want of anything that
\* could be a name, vendor and bill number both. A name is not as safe:
\* with the vendor's line lost the record takes the next line of the head for one
\* (ocr_service.py:527-539, 564-577, normalizer.py:107-122).
ReadOrRefused ==
    /\ \A n \in DOMAIN records :
         LET r == records[n]
         IN  /\ r.due = Bill(r).day + DefaultTerms
             /\ How(r, 1) = "sound" => r.vendor = {Bill(r).vendor}
             /\ r.vendor # {}
    /\ \A n \in DOMAIN rejections :
         LET r == rejections[n]
         IN  /\ "vendor" \in r.missing =>
                    How(r, 1) = "lost" /\ How(r, 4) = "lost" /\ {5, 6} \cap Hurt(r) # {}
             /\ "date" \in r.missing => 6 \in Hurt(r)
             /\ "total" \in r.missing => {TotalLabel, TotalFigure} \cap Hurt(r) # {} /\ {12, 13} \cap Hurt(r) # {}
=============================================================================
