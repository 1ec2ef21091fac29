SPECIFICATION FileSpec
CONSTANTS
    Calls = {w1, w2} NoCall = NoCall Torn = Torn
    MaxForeign = 2 MaxCrashes = 2
INVARIANTS SuccessSurvives EffectTrue
PROPERTY ReplacesOnlyItsVersion
CHECK_DEADLOCK FALSE
