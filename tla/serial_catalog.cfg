SPECIFICATION Spec
CONSTANTS
    home = home
    flat = flat
    jeanne = jeanne
    louis = louis
    hat = hat
    bib = bib
    Household = {home}
    Served = {home}
    Person = {jeanne}
    HomeOf <- Homes
    Name = {hat, bib}
    BASE_ITEM_TYPES <- TwoItemTypes
    BASE_ITEM_STATUSES <- TwoStatuses
    Progress = {"not_started", "done"}
    Worker = {w1}
    None = None
    NoRow = NoRow
    Start <- Bare
    MaxKey <- FewRows
    Routes <- CatalogRoutes
INVARIANTS
    TypeOK
    StatusesHaveADefault
PROPERTIES
    DeletingAStatusKeepsProgress
    DeletedRowsStayDeleted
