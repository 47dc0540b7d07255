\* the registrations of main.py; two requests, factories and disposals may raise
SPECIFICATION Spec
CONSTANTS
    Types <- AppTypes
    Lifetime <- AppLifetime
    Deps <- AppDeps
    Layer <- AppLayer
    Disposable <- AppDisposable
    Requests = {r1, r2}
    Asked = {"AuthController"}
    MaxGets = 1
    Root = root
    Faults = {"factory", "dispose"}
SYMMETRY Symmetry
CHECK_DEADLOCK FALSE
INVARIANTS
    OneOfEach
    NothingCrossesScopes
    DependentsGoFirst
    ClosedScopesAreEmpty
