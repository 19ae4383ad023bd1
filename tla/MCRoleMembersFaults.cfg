CONSTANTS
    u1 = u1
    u2 = u2
    Kinds <- MCUsersOnly
    Members <- MCMembers
    MaxOps = 3
    Sequential = FALSE
    MayFail = TRUE

SPECIFICATION Spec

 

PROPERTY RemoveHitsClickedMember

\* A quiet modal waits for the next click; once MaxOps calls are spent
\* nothing more happens, which is the bound, not a deadlock of the code.
CHECK_DEADLOCK FALSE
