SPECIFICATION Spec
CONSTANTS
  Configured = {"deterministic.tools", "openai.configured", "ollama.local"}
  Options <- LocalOptions
  Source <- TheSource
  Disks <- PlainDisks
  Texts = {"plain", "orders"}
  Injected = {"orders"}
  Public = {"page"}
  Statuses = {"exhausted"}
  ProbeAnswers = {"object", "error"}
  Latencies = {1}
  MaxRefs = 3
  MaxRuns = 1
  MaxWrites = 1
  MaxObservations = 1
INVARIANT LocalOnlyBlocksHosted
