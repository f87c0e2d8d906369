SPECIFICATION Spec
CONSTANTS
    ann = ann
    bob = bob
    cat = cat
    User = {ann, bob}
    Worker = {w1, w2}
    None = None
    NoRow = NoRow
    Start <- Couple
    Closable = {}
    Routes = {"set role", "remove member"}
    MaxHouseholds = 3
    MaxMembers = 5
    MaxPersons = 4
    MaxInvitations = 1
INVARIANT
    SharedHouseholdsHaveAnOwner
