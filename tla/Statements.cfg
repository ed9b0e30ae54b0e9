SPECIFICATION ParserSpec
CONSTANTS
    Amounts = {100, 700}
    Texts = {"rent"}
    Opening = 5000
    Months = 2
    Days = 3
    Dates <- MCDates
    Layouts = {"simple", "swapped", "indian", "signed", "flag", "us", "zeroes"}
    PageSize = 2
    MaxRows = 5
CHECK_DEADLOCK FALSE
CONSTRAINT FifthRowSameDay
INVARIANTS
    ReadsBackWhatIsChecked
    RefusesOnly
    DatesRightOrFlagged
    OverlapPostsNothingTwice
    DamageShows
    DiagnosisNames
