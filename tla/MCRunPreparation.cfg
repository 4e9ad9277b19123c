SPECIFICATION Spec
CONSTANTS
  Configured = {"deterministic.tools", "openai.configured", "ollama.local"}
  Options <- TheOptions
  Source <- TheSource
  Disks <- PlainDisks
  Texts = {"plain", "orders"}
  Injected = {"orders"}
  Public = {"page"}
  Statuses = {"exhausted"}
  ProbeAnswers = {"object", "error"}
  Latencies = {1}
  MaxRefs = 3
  MaxRuns = 2
  MaxWrites = 1
  MaxObservations = 1
INVARIANTS TypeOK InventoryComplete GatesTellTheTruth ChaptersHaveAWorker ReuseIsSound NoInjectedText
