\* Two builds, one after the other or overlapping, by the code as it is and by
\* the code with ssh_run_stdin repaired.
SPECIFICATION FairSpec
CONSTANTS
    Builder = {"b1", "b2"}
    Nobody = Nobody
    Faults = 3
INVARIANTS
    TypeOK
    ImageIdVouches
    TemplateVerified
    AsIsBuildsNothing
PROPERTIES
    OldTemplateKept
    RebuildsConverge
CHECK_DEADLOCK FALSE
