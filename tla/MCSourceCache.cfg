SPECIFICATION Spec
CONSTANTS
  v1 = v1
  v2 = v2
  n1 = n1
  n2 = n2
  w1 = w1
  w2 = w2
  d1 = d1
  Organizers = {o1, o2}
  Videos = {v1, v2}
  Names = {n1, n2}
  NameOf <- MCNameOf
  Nothing = Nothing
  Answers <- MCAnswers
  Garbled = Garbled
  NoTitle = NoTitle
  NoDate = NoDate
  Fallback <- MCFallback
  Workers = {w1, w2}
  NoWorker = NoWorker
  Disks = {d1}
  DiskOf <- MCDiskOf
  Flattened <- MCFlattened
SYMMETRY Symmetry
INVARIANTS TypeOK NoVideoLost RecordsDescribeTheirVideo
  OrganizedIsListed ComputesFromItsSource SharedFetchEndsWhole
PROPERTY ManifestGrowsFromBackup
