SPECIFICATION Spec
CONSTANTS
    Media <- MCMedia
    Target <- MCTarget
    Sessions <- MCSessions
    Provisional = 3
    Lengths <- MCLengths
    Ticks <- MCTicks
    Moves <- MCMoves
    Nudges <- MCNudges
    DefaultCut = 2
    Capacity = 2
    MaxEdits = 2
INVARIANTS LayoutValid OwnedUntouched
PROPERTIES CanvasKeepsUp HistoryExact
