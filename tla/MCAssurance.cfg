SPECIFICATION Spec
CONSTANTS
  Chapters = {"T-SYNTHESIS", "T-CHAPTER-002"}
  Chunks = {"c1", "c2"}
  Strays = {"stray"}
  Given <- TheGiven
  Works <- TheWorks
  Modes = {"structural", "semantic", "required_semantic", "unavailable"}
  Checks = {{}, {"blocked"}, {"passed", "failed"}}
  Defects = {"pdf", "image", "duplicate chunk", "changed artifact"}
INVARIANTS TypeOK DeliveredIsSound CitationsStand
PROPERTIES RepairKeepsWork
