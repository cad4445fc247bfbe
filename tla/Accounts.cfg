SPECIFICATION Spec
CONSTANTS
    l1 = l1  l2 = l2  own = own  root = root  n1 = n1  n2 = n2
    Users = {u1, u2, u3}
    Visits = {v1, v2}
    Patches = {p1}
    Bodies <- Asked
    GitHubIds = {g1, g2}
    Logins = {l1, l2}
    Mails = {own, root, n1, n2}
    NoReply <- MadeUp
    Public = {own}
    AdminMail = root
    None = None
SYMMETRY Symmetry
CHECK_DEADLOCK FALSE
PROPERTIES
    PatchesDecide
    TokenNamesOwner
    ConflictsAreWithOthers
    OneAdminAfterStart
