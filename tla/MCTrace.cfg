SPECIFICATION Spec
CONSTANTS
    Facts = {"a", "b", "c"}
    Metrics = {"m"}
    Graphs <- MCGraphs
    Readers = {"r1", "r2", "r3", "r4"}
    Trace <- MCTraceOf
    Dataset <- MCDataset
    Stripe <- MCStripe
    ActiveTraces = 2
    Concurrency = 1
    Lazy = FALSE
    Members <- MCMembers
    Detectors = {"x", "y", "z"}
    Registries <- MCRegistries
    Selections <- MCSelections
    Shapes <- MCShapes
INVARIANTS CyclesRefused LeasesSound AnalysisSound
 
CHECK_DEADLOCK FALSE
