--------------------------- MODULE MCStepExecution ---------------------------
EXTENDS StepExecution, TLC

CONSTANTS r1, p1

MCCallers == {r1, p1}
MCRuns == {r1}
MCOrder == <<"openai", "openrouter", "anthropic", "gemini", "ollama">>
MCKeys == {"anthropic"}
MCTools == {"analysis", "http.get", "http.post", "shell.run"}
MCEnvironments ==
    {[shell |-> TRUE, git |-> TRUE, dry |-> FALSE, profile |-> "dev"],
     [shell |-> FALSE, git |-> TRUE, dry |-> TRUE, profile |-> "owner"]}
=============================================================================
