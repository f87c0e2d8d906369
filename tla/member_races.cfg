SPECIFICATION Spec
CONSTANTS
    ann = ann
    bob = bob
    cat = cat
    User = {ann, bob}
    Worker = {w1, w2}
    None = None
    NoRow = NoRow
    Start <- Family
    Closable = {bob}
    Routes <- MemberRaces
    MaxHouseholds = 3
    MaxMembers = 4
    MaxPersons = 4
    MaxInvitations = 1
SYMMETRY WorkerSymmetry
INVARIANTS
    PersonalHouseholdsStayPrivate
    IInv
PROPERTIES
    PersonalHouseholdsGoWithTheirAccount
    ClaimsTakeOnlyFreePersons
