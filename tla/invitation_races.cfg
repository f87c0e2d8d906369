SPECIFICATION Spec
CONSTANTS
    ann = ann
    bob = bob
    cat = cat
    User = {ann, bob}
    Worker = {w1, w2}
    None = None
    NoRow = NoRow
    Start <- Host
    Closable = {bob}
    Routes <- InvitationRaces
    MaxHouseholds = 3
    MaxMembers = 5
    MaxPersons = 4
    MaxInvitations = 3
\* These routes serve the shared household only, and it may be deleted.
CHECK_DEADLOCK FALSE
SYMMETRY WorkerSymmetry
INVARIANTS
    IInv
    OneOpenInvitationPerAddress
PROPERTIES
    AcceptingAdmits
