CONSTANTS
    r1 = r1 r2 = r2 k1 = k1 k2 = k2 b1 = b1 q1 = q1 a1 = a1 a2 = a2
    Reports = {r1, r2}
    Approvals = {k1}
    Receipts = {k2}
    Backups = {b1}
    Requests = {q1}
    Admins = {a1, a2}
    Operators = {}
    None = None
    Policies <- MCPolicies
    TTLs = {3}
    History = 3
    MaxTime = 3
    MaxPending = 1
SPECIFICATION Spec
SYMMETRY Symmetry
INVARIANTS LinksHold SnapshotsFollow
PROPERTY AuthorityIsKept
