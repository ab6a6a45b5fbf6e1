SPECIFICATION FairSpec
CONSTANTS
    g = g
    u = u
    p = p
    d = d
    r = r
    Users <- McUsers
    Perms <- McPerms
    Roles = {}
    Requests = {q1}
    Calls <- BulkGrant
    Needs <- McNeeds
    Manages <- McManages
    Approves <- McApproves
    Edits = {}
    SeedMember = {}
    SeedHas = {}
    SeedDirect <- CallerHolds
    Redis = {TRUE}
PROPERTY BulkGrantsGetThrough
