SPECIFICATION Spec
CONSTANTS
    Calls = {c1}
    Unit = 2
    Scale = 10
    Holdings <- SomeHoldings
    Cash <- SomeCash
    FaultSets = {{"livro"}}
INVARIANT InSyncMeansEqual
