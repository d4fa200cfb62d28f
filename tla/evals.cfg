SPECIFICATION Spec
CONSTANTS
    Runners = {"classify", "answer", "conversation"}
    Datasets <- MCDatasets
    Versions <- MCVersions
    EnvKeys <- MCEnvKeys
    RPM = 2
    MaxRuns = 2
    MaxKills = 1
    None = None
    Torn = Torn
    NotJson = NotJson
INVARIANTS
    GreenMeansConforming
    SummariesTrue
PROPERTIES
    Reproducible
\* The runs of the instance are bounded, and the behaviour ends with the report.
CHECK_DEADLOCK FALSE
