\* One task registered twice; one user waits, the other ends the group.
CONSTANTS
    t1 = t1  r1 = r1  r2 = r2  owner = owner  other = other
    Tasks = {t1}
    Regs = {r1, r2}
    Users = {owner, other}
    TaskOf <- MCTaskOf
    Role <- MCRole
SPECIFICATION Spec
INVARIANTS GroupExact
PROPERTY UsersReturn
CHECK_DEADLOCK FALSE
