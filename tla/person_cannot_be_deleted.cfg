SPECIFICATION Spec
CONSTANTS
    home = home
    flat = flat
    jeanne = jeanne
    louis = louis
    hat = hat
    bib = bib
    Household = {home, flat}
    Served = {home}
    Person = {jeanne, louis}
    HomeOf <- Homes
    Name = {hat, bib}
    BASE_ITEM_TYPES <- TwoItemTypes
    BASE_ITEM_STATUSES <- TwoStatuses
    Progress = {"not_started", "done"}
    Worker = {w1}
    None = None
    NoRow = NoRow
    Start <- Packing
    MaxKey <- OneMore
    Routes = {"add line", "delete person"}
INVARIANTS
    PersonsCanBeDeleted
