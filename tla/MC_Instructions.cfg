SPECIFICATION FairSpec
CONSTANTS
  Codex = "codex"
  Acpx = {"acpx"}
  Texts = {"t1"}
  Audios = {"a1"}
  None = "none"
  MaxAsks = 2
CHECK_DEADLOCK FALSE
INVARIANTS NoSilentEnd OneTurnPerThread
PROPERTIES InstructionsSettle
