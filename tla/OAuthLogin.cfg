CONSTANTS
    t1 = t1
    t2 = t2
    t3 = t3
    home = home
    away = away
    member = member
    stranger = stranger
    Nobody = Nobody
    Tabs <- MCTabs
    Browsers <- MCBrowsers
    BrowserOf <- MCBrowserOf
    Users <- MCUsers
    Members <- MCMembers
    Grouped = TRUE
    MaxFlows = 2

SPECIFICATION Spec

INVARIANTS
    TypeOK
    LoggedInAsBegun
    MismatchOnlyIfLost

PROPERTIES
    RedeemedAtHome
    TabsAnswered

CHECK_DEADLOCK FALSE
