SPECIFICATION MCSpec
CONSTANTS
    Engine = {a, b}
    Seed = {0, 1}
    Entropy = {x}
    kStateT = 4
    kCapacityT = 1
    MaxGenerate = 2
    MaxDiscard = 6
    NoWord = NoWord
    StateWords = 10
    Saved <- MCSaved
    Decimal <- MCDecimal
    ValueOf <- MCValueOf
    CharT = FALSE
INVARIANTS
    TypeOK
    IInv
    OnlyGeneratedWords
    EqualIffSameFuture
    RoundTrip
    AllWordsOrNone
PROPERTIES
    ImplementsStream
    DiscardTerminates
