SPECIFICATION Spec
CONSTANTS
    g = g
    u = u
    p = p
    d = d
    r = r
    Users <- McUsers
    Perms <- McPerms
    Roles = {}
    Requests = {q1}
    Calls <- OneGrant
    Needs <- McNeeds
    Manages <- McManages
    Approves <- McApproves
    Edits = {}
    SeedMember = {}
    SeedHas = {}
    SeedDirect <- CallerAndNeed
    Redis = {TRUE, FALSE}
PROPERTY RefusedOnlyWhenHeld
