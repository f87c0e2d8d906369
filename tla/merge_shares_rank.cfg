SPECIFICATION Spec
CONSTANTS
    hat = hat
    bib = bib
    jeanne = jeanne
    Item = {hat, bib}
    Person = {jeanne}
    None = None
    Worker = {w1}
    Kinds = {"trip line"}
    Routes = {"add", "merge items"}
    MaxKey <- FewEntries
INVARIANTS
    RanksAreContiguous
