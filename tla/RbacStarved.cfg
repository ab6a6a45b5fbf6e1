SPECIFICATION FairSpec
CONSTANTS
    g = g
    u = u
    p = p
    d = d
    r = r
    Users <- McUsers
    Perms <- McPerms
    Roles = {}
    Requests = {q1, q2}
    Calls <- GrantAndLookups
    Needs <- McNeeds
    Manages <- McManages
    Approves <- McApproves
    Edits = {}
    SeedMember = {}
    SeedHas = {}
    SeedDirect <- CallerAndNeed
    Redis = {TRUE}
PROPERTY GrantsOutlastLookups
