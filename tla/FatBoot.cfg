SPECIFICATION MCSpec
CONSTANTS
  Setups <- MCSetups
  MaxPorts = 2
  Entries = 2
  IspMax = 1
  BlockSize = 4
  SignSize = 1
  UbootMax = 9
  FipMax = 9
  MaxFaults = 2
  Requests <- MCRequests
  BytePerSect <- MCBytePerSect
  MaxTable = 5
INVARIANTS IspFileDecides SignatureLoaded FileIsFound
PROPERTIES FatBootEnds KeepsPromise
