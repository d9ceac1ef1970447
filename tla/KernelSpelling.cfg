CONSTANTS
  Nothing = Nothing
  Workers = {w1}
  Inodes = {i1, i2, i3, i4}
  Ids <- OneId
  Upstream <- Bodies
  DiskFull = TRUE
  Keys <- KernelSpellings
SPECIFICATION Spec
INVARIANT NoUntypedKernelPdb
