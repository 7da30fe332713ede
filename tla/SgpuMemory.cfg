SPECIFICATION Spec
CONSTANTS
    P = P
    Q = Q
    t1 = t1
    t2 = t2
    u1 = u1
    None = None
    Proc = {P, Q}
    Thread = {t1, t2, u1}
    TgidOf <- MCTgidOf
    Inherits <- MCInherits
    File = {f1, f2}
    TaskObj = {o1, o2}
    HandlerObj = {h1, h2}
    Handle = {pmr}
    Sizes = {1, 2}
    InitTotal = 1
    Totals = {2, 3}
    WordSize = 8
    MaxCount = 2
INVARIANTS
    TaskAccountExact
    TaskListSound
    QuotaUnlessOvertaken
    CountMatchesFiles
    ChargedWhileOpen
SYMMETRY MCSymmetry
PROPERTIES
    LedgerRefined
