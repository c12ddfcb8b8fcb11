\* Two sources of three ontologies with cyclic imports, two versions of each file, two stops.
SPECIFICATION Spec
CONSTANTS
    Ontologies = {1, 2, 3}
    Imports <- SomeImports
    Sources <- SourceOrder
    MaxVersion = 2
    MaxStops = 2
INVARIANTS
    RecordedIsComplete
    ImportsAreLoaded
    HierarchySurvivesRestart
    ImportsAreClosure
    NotReentered
CHECK_DEADLOCK FALSE
