SPECIFICATION Spec
CONSTANTS
    Goldberg = Goldberg
    Partitas = Partitas
    Releases <- McReleases
    Artists = {"gould"}
    CreditOf <- McCreditOf
    FileOverrides <- McFileOverrides
    Calls = {"c"}
    Notes = {TRUE}
    NoFile = NoFile
    PageSize = 1
    MaxCopies = 2
    MaxEvents = 2
SYMMETRY McSymmetry
INVARIANT DropGivesBack
CHECK_DEADLOCK FALSE
