SPECIFICATION Spec
CONSTANTS
    MaxSends = 2
    MaxCalls = 2
    MaxRedirects = 1
    Module = {"m"}
    Unset = Unset
\* All six fail: exchange them to see the others.
INVARIANT NothingSurvives
\* INVARIANT WrittenIsReadBack
\* INVARIANT AddedKeepsTheOthers
\* INVARIANT OnceASend
\* INVARIANT BudgetFailsTheSend
\* INVARIANT ExitsAsTold
CHECK_DEADLOCK FALSE
