SPECIFICATION Spec
CONSTANTS
  FixedMaxPlaintextLength = 3
  FixedCiphertextLength = 5
  BlockSize = 4
  KeyLengths = {2}
  virtual_mac_prefix = {5}
  IfLimit = 3
  MaxLength = 9
  MaxValue = 2
  MaxInterfaces = 3
INVARIANTS
  CryptoReadsBack
  UncompressIsWhole
  MacIsStable
  ParametersArrive
CHECK_DEADLOCK FALSE
