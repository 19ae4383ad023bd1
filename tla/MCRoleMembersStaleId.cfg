CONSTANTS
    u1 = u1
    u2 = u2
    Kinds <- MCUsersOnly
    Members <- MCMembers
    MaxOps = 4
    Sequential = FALSE
    MayFail = FALSE

SPECIFICATION Spec

PROPERTY RemoveNamesLiveRow

\* A quiet modal waits for the next click; once MaxOps calls are spent
\* nothing more happens, which is the bound, not a deadlock of the code.
CHECK_DEADLOCK FALSE
