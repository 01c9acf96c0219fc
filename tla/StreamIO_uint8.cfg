SPECIFICATION IOSpec
CONSTANTS
    StateWords = 10
    Saved <- MCSaved
    Decimal <- MCDecimal
    ValueOf <- MCValueOf
    CharT = TRUE
INVARIANTS
    RoundTrip
