------------------------------ MODULE MCReceipts ------------------------------
EXTENDS ReceiptRequirements, TLC

\* A small and a large bill, one without heading and registration, and one vendor's
\* bills of the same sum three days apart.
MCBill(vendor, invoice, day, subtotal, clear) ==
    [vendor |-> vendor, invoice |-> invoice, day |-> day, subtotal |-> subtotal, clear |-> clear,
     absent |-> {}]
MCSmall == MCBill("Freight", 4523, 10, 3000, TRUE)
MCLarge == MCBill("Properties", 1040, 10, 60000, FALSE)
MCPlain == [MCSmall EXCEPT !.absent = {2, 7, 8}]
MCAgain(k) == MCBill("Freight", 4523 + k, 10 + 3 * k, 3000, TRUE)

MCBatches == {<<MCSmall>>, <<MCPlain>>, <<MCLarge, MCLarge>>, <<MCPlain, MCLarge>>,
              <<MCSmall, MCAgain(1), MCAgain(2)>>}
MCBudget == <<2, 2, 1>>
=============================================================================
