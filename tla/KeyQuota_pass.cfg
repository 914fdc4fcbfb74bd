SPECIFICATION Spec
CONSTANTS
    Request = {r1, r2}
    Token = {t1, t2}
    None = None
    Policies <- MCPolicies
    MonthDays = 2
    MaxDay = 2
    MaxCount = 2
INVARIANTS KeysSound CounterExact QuotaBound
PROPERTY CrashLoss
SYMMETRY Symmetry
