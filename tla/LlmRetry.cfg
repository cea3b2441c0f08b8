SPECIFICATION Spec
CONSTANTS
  Callers = {c1}
  Sites = {"openai", "anthropic", "gemini", "chain"}
  MaxRetries = 3
  BaseDelay = 1
  MaxDelay = 3
INVARIANT TransientFailuresAreRetried
CHECK_DEADLOCK FALSE
