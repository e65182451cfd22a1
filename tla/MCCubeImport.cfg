SPECIFICATION Spec
CONSTANTS
    alpha = alpha
    beta = beta
    title = title
    api = api
    job = job
    None = None
    Cubes = {alpha, beta}
    Name <- MCName
    Importers = {api, job}
    Worker = job
    MaxLists = 3
SYMMETRY Symmetry
INVARIANTS TypeOK TrackedIsItsOwn NothingLeftBehind
PROPERTY DeletesOnlyItsOwn
