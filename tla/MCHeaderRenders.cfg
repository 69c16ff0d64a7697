SPECIFICATION MCSpec
CONSTANTS
    s1 = s1
    s2 = s2
    m1 = m1
    openai = openai
    f1 = f1
    f2 = f2
    Sessions = {s1, s2}
    Models = {m1}
    Queries = {"", "q"}
    Mentions <- MCMentions
    None = None
    Parts = 1
    Budgets <- MCBudgets
    HeaderRenders = FALSE
    Fields = {f1, f2}
    Values = {0, 1}
    Providers = {openai}
INVARIANT HeaderShown
CHECK_DEADLOCK FALSE
