CONSTANTS
    Grammars <- MCGrammars
    AnalysisOf <- MCAnalysisOf
    TextsOf <- MCTextsOf
    MaxText = 6
    Values = {v1, v2}
    Keys = {k1, k2}
    MaxBuilders = 1
    MaxLength = 2
    MaxVerdicts = 1
    MaxMarks = 2
    MaxLog = 2
SYMMETRY Alikes
SPECIFICATION MCSpec
INVARIANTS TypesOK AnswersAsGrammar SetsBoundReadings
PROPERTY RollsBackExactly
CHECK_DEADLOCK FALSE
