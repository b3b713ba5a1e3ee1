SPECIFICATION FairSpec
CHECK_DEADLOCK FALSE
CONSTANTS
    t1 = t1
    t2 = t2
    e1 = e1
    Tasks = {t1, t2}
    Endpoints = {e1}
    MaxTokens = 2
    Bound = 1
    Signals = {"Interrupt", "Retry"}
    MaxSignals = 1
INVARIANTS
    AppliedReplyIsTaken
    AbortIsTerminal
    WinnerWakes
PROPERTIES
    FirstWriterWins
    TerminalResumes
