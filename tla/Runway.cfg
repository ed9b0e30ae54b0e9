SPECIFICATION RunwaySpec
CONSTANTS
    Histories <- MCHistories
    Period = 2
    MinTrain = 3
    CvHorizon = 2
    MaxFolds = 2
    Horizon = 4
    ConfNum = 3
    ConfDen = 4
    Scales <- MCScales
    ScaleUnit = 2
    Openings = {2, 5}
    Receivables <- MCReceivables
    Payers <- MCPayers
    Shocks <- MCShocks
    Delays <- MCDelays
    Iterations = 3
    Alphas = {1, 10}
    AlphaDen = 20
    BinDays = 3
CHECK_DEADLOCK FALSE
INVARIANTS
    CoversWhatIsLeftOut
    RunwayMeansWhatItSays
    ReportsAgree
    SlowerPayersNeverHelp
