SPECIFICATION StartSpec
CONSTANTS
    e1 = e1
    e2 = e2
    Main = Main
    Show = Show
    Owner = Owner
    None = None
    Absent = Absent
    Editors <- TwoEditors
    Edited <- OnlyMain
    Texts <- FewTexts
    RecentRevisions = 50
    MaxEdits = 3
    MaxFaults = 1
    ReadLimit = 3
    MaxComparableLines = 5
    CutLines = 2
INVARIANTS
    ChainIsSound
    ShownFollowsRestores
    
CHECK_DEADLOCK FALSE
SYMMETRY Editing
