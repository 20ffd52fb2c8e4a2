SPECIFICATION FairSpec
CONSTANTS
    Null = Null
    Services = {s1, s2}
    Cells = {1, 2}
    Alerts = {a1}
    Ranges = {r1, r2}
    Groups <- MCGroups
    Clients = {c1, c2}
    MaxEvents = 5
    MaxCalls = 3
    Budget <- MCBudget
    MaxElsewhere = 1
INVARIANTS
    TypeOK RestartMarkIsLive RestartsAreShown ChangesAreShown
    SavesStayInTheirCell EditorClosesAfterSave TablesAgree PaneIsOfSelected
    KeysShowEarlierRestores OneRestoreAtATime CheckIsShown OneTimer AllClearIsTrue
PROPERTIES
    SpinnersStop ChartFollowsRange AlertsAreSeen
CHECK_DEADLOCK FALSE
