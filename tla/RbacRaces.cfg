SPECIFICATION Spec
CONSTANTS
    g = g
    u = u
    p = p
    d = d
    r = r
    Users <- McUsers
    Perms <- McPerms
    Roles = {r}
    Requests = {q1, q2}
    Calls <- EveryCall
    Needs <- McNeeds
    Manages <- McManages
    Approves <- McApproves
    Edits <- McEdits
    SeedMember = {}
    SeedHas <- RoleHasNeed
    SeedDirect <- CallerHoldsP
    Redis = {TRUE, FALSE}
SYMMETRY RequestSymmetry
INVARIANT TypeOK
PROPERTIES QuietGrantsAreBacked AnswersAreCurrent
