SPECIFICATION Spec
CONSTANTS
  Type = {"bool", "char", "i8", "u8", "i16", "u16", "f32", "pointer", "str"}
  TopBit <- MC_TopBit
  Limit <- MC_Limit
INVARIANTS
  KeepsNumbers
  RejectionsJustified
  GeneratorAccepts
CHECK_DEADLOCK FALSE
