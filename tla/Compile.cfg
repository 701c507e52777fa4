CONSTANTS
  Local <- MCLocal
  AffineLocal <- MCAffine
  ImmutableLocal <- MCImmutable
  Externs <- MCExterns
  Callees <- MCCallees
  Functions <- MCFunctions
  Family = "all"
  Files <- MCFiles
  Alphabet = {";", ")", "}", "x", "<", ">", "|", "const"}
  MaxEdits = 1
SPECIFICATION BenchSpec
CHECK_DEADLOCK FALSE
INVARIANTS CheckedIsSafe CompiledAgrees FrameKeepsLive NoDangling
           ParseEnds TreeFaithful GrammarAccepted GatesSelect
