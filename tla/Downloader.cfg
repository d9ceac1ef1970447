CONSTANTS
  Nothing = Nothing
  Workers = {w1, w2}
  Inodes = {i1, i2, i3, i4, i5}
  Ids <- OneId
  Upstream <- Bodies
  DiskFull = TRUE
  Keys <- TwoKeys
SYMMETRY Symmetry
SPECIFICATION Spec
INVARIANTS
  TypeOK
  DownloadsSerialised
  ValidatesOwnDownload
  PublishedIsValid
PROPERTIES
  MappedFilesAreStable
  ImplementsPdbCache
