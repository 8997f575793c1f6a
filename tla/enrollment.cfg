SPECIFICATION Spec
CONSTANTS
    Null = Null
    web = web
    copy = copy
    other = other
    i1 = i1
    i2 = i2
    t1 = t1
    t2 = t2
    c1 = c1
    c2 = c2
    Hosts = {web, copy, other}
    Identities <- MCIdentities
    Name <- MCName
    IdentityOf <- MCIdentityOf
    TargetIds = {i1, i2}
    Tokens = {t1, t2}
    Calls = {c1, c2}
SYMMETRY MCSymmetry
CHECK_DEADLOCK FALSE
INVARIANTS
    CredentialsAreOwn
PROPERTIES
    TokenGivesOneKey
