\* The whole catalogue, three runs and two edits, stops and lost replies anywhere.
SPECIFICATION Spec
CONSTANTS
    CardSeq <- AllCards
    BoardSeq <- AllBoards
    Shows <- AllPanels
    LinksTo <- AllLinks
    MaxStarts = 3
    MaxEdits = 2
INVARIANTS NoSecondCopy FinishedMeansCurrent
CHECK_DEADLOCK FALSE
