SPECIFICATION Spec
CONSTANTS
    hat = hat
    bib = bib
    jeanne = jeanne
    Item = {hat, bib}
    Person = {jeanne}
    None = None
    Worker = {w1}
    Kinds <- EveryKind
    Routes <- EveryRoute
    MaxKey <- FewEntries
INVARIANTS
    TypeOK
PROPERTIES
    OrderlySteps
    AddedLinesLead
    ImplementsList
