SPECIFICATION Spec
CONSTANTS
    ann = ann
    bob = bob
    cat = cat
    User = {ann, bob, cat}
    Worker = {w1}
    None = None
    NoRow = NoRow
    Start <- Family
    Closable = {}
    Routes <- AllRoutes
    MaxHouseholds = 4
    MaxMembers = 6
    MaxPersons = 5
    MaxInvitations = 1
INVARIANTS
    TypeOK
    SharedHouseholdsHaveAnOwner
    MembershipsAreSound
    OwnersAreSomeone
PROPERTIES
    TokensAreSpentOnce
    MembersKeepTheirPerson
    ImplementsTheRules
    DeletedRowsStayDeleted
