SPECIFICATION DecoderSpec
CHECK_DEADLOCK FALSE
CONSTANTS
  Header <- MCHeader
  Door = {"1", "2"}
  Voltages = {"!"}
  MaxPackets = 3
  MaxTrouble = 1
INVARIANTS NothingInvented ChunkingIsIrrelevant DamageIsLocal
