SPECIFICATION ContSpec
CONSTANTS
    Dialogs = {d1, d2}
    Openers = {x}
    Answers <- OwnAnswers
    Window = 2
    MaxStates = 3
    Compacts = TRUE
    MaxPairs = 3
    MaxIds = 4
    NoSession = 0
CHECK_DEADLOCK FALSE
INVARIANT DialogsApart
