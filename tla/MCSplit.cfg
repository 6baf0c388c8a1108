CONSTANTS
    Grammars <- MCGrammars
    TextsOf <- MCTextsOf
    Alphabet <- MCAlphabet
    Cores <- MCCores
    Retries = 2
    MinChunk = 2
    MinPiece = 1
    MinScan = 2
    Stretch = 1
    Sparse <- MCSparse
    Available = 5
    SpareFrom = 4
SPECIFICATION Spec
INVARIANTS TypeOK SplitIsWhole CutsAsListed WindowsAsSerial StandInsSole StitchIsWhole
PROPERTY Settles
