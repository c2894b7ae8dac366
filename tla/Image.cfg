SPECIFICATION ImageSpec
CONSTANTS
  Labels = {f}
  DataLabels = {d, e}
  Sizes = {1, 5}
  Reach <- MCReach
  Page = 8
  MaxInsts = 4
  MaxLabels = 2
  MaxData = 2
  Platforms = {"linux", "windows", "macos", "other"}
  Bytes <- MCBytes
  FileAlignment <- MCFileAlignment
  RamAlignment <- MCRamAlignment
SYMMETRY Symmetry
CHECK_DEADLOCK FALSE
INVARIANTS ImageTypeOK BranchesLand AddressesLand ElfHeadersTrue Loadable DataWhereCodeLooks
