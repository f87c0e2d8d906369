SPECIFICATION Spec
CONSTANTS
    ann = ann
    bob = bob
    cat = cat
    User = {ann, bob}
    Worker = {w1, w2}
    None = None
    NoRow = NoRow
    Start <- Host
    Closable = {}
    Routes = {"invite", "cancel", "accept"}
    MaxHouseholds = 3
    MaxMembers = 5
    MaxPersons = 4
    MaxInvitations = 2
PROPERTY
    DeletedRowsStayDeleted
