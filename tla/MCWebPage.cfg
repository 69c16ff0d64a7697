SPECIFICATION MCSpec
CONSTANTS
    browser = browser
    other = other
    x1 = x1
    k1 = k1
    k2 = k2
    Ring = 2
    CloseCodes = {1000, 1006}
    Plugins = {browser, other}
    Browser = browser
    Pastes = {x1}
    Nothing = Nothing
    MaxPolls = 2
    Keys = {k1, k2}
    Closed = Closed
    Budgets <- MCBudgets
INVARIANTS
    EventsKept
    BusyIsWork
    PromptSettles
PROPERTY PluginsCatchUp
CHECK_DEADLOCK FALSE
