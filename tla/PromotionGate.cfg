\* Two held-out tasks and a public one, a budget of two retries, a crash anywhere.
SPECIFICATION FairSpec
CONSTANTS
    good = good
    bad = bad
    H = 2
    P = 1
    Prompts <- MCPrompts
    PromptOf <- MCPromptOf
    Completions = {good, bad}
    Passing <- MCPassing
    RETRY_COUNT = 2
    Inputs <- MCInputs
INVARIANTS
    DecisionIsTheTruth
    SidesCompare
    RecordExplainsItself
PROPERTIES
    GateEnds
\* A gate that decided or refused is over.
CHECK_DEADLOCK FALSE
