\* Two calls that may race to open the clearing account; Unit = 2 resolves half of 0.0001.
SPECIFICATION Spec
CONSTANTS
    Calls = {c1, c2}
    Unit = 2
    Scale = 10
    Holdings <- SomeHoldings
    Cash <- SomeCash
    FaultSets = {{}, {"livro", "garbled", "base64"}}
SYMMETRY Symmetry
INVARIANTS
    TypeOK
    ReportIsWitnessed
    CredentialsWiped
