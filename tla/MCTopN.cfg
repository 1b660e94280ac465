CONSTANTS
    Empty = Empty
    NoFlow = Empty
    Tables <- MCTables
    MaxN = 5
SPECIFICATION FairSpec
INVARIANTS
    KeepsBest ResultsAreExact
PROPERTIES
    TopNReturns
