CONSTANTS
  Nothing = Nothing
  Workers = {w1, w2}
  Inodes = {i1, i2, i3}
  Ids <- OneId
  Upstream <- Bodies
  DiskFull = TRUE
  Keys <- OneKey
SPECIFICATION Spec
INVARIANT CachedFileIsNotDownloaded
