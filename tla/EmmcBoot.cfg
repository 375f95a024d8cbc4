SPECIFICATION Spec
CONSTANTS
  P0 = "p0"
  P1 = "p1"
  P2 = "p2"
  P3 = "p3"
  Boot0 = "mbr"
  Fip0 = "fip0"
  Alt0 = "alt"
  Lba <- MCLba
  Mbr = "mbr"
  BackupGpt = "alt"
  FipLba = "fip0"
  BlockSize = 4
  SignSize = 1
  UbootMax = 8
  FipMax = 9
  Disks <- MCDisks
  MaxFaults = 2
INVARIANTS TypeOK SignatureLoaded UpdatePreferred OneCopyIsSpare
PROPERTY KeepsPromise
