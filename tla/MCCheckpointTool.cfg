CONSTANTS
  Absent = absent
  Torn = torn
  Inventory = {vae, tokenizer}
  Others = {images, license}
  Dirs = {vae, images}
  Labels <- MCLabels
  ExpectedQuantized = 2
SPECIFICATION ToolSpec
INVARIANTS OriginalsSurvive RestoreUndoes MutationPassesProbe InventoryIsComplete EnginesServeTheOriginal ReasonerServesBf16
