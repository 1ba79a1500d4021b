CONSTANTS
  Contexts <- Stages
  Tools = {"read_file", "write_file", "shell", "http", "memory_store", "memory_query"}
  MaxRuns = 2
  MaxCalls = 2
  MaxRequests = 3
  Failing = {"io", "llm", "script", "tool", "arguments", "crash", "corrupt", "rival"}
  MaxFaults = 1
SPECIFICATION FairSpec
INVARIANT Conversation
INVARIANT Remembered
INVARIANT WholeResult
INVARIANT Isolated
PROPERTY Ends
CHECK_DEADLOCK FALSE
