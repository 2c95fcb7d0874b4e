SPECIFICATION Spec
CONSTANTS
    i1 = i1
    i2 = i2
    i3 = i3
    h1 = h1
    h2 = h2
    r1 = r1
    r2 = r2
    b1 = b1
    Ids = {i1, i2}
    Handlers = {h1, h2}
    Routes = {r1}
    Scopes = {s1}
    RuleSets = {m1}
    Bodies = {b1}
    Blank = Blank
    Unset = Unset
    NoDoc = NoDoc
    Cmds <- OneBodyCmds
    Duty <- Anything
    DbFailures = FALSE
    Crashes = FALSE
PROPERTY UnforcedActivationExcludes
