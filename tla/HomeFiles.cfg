\* Two processes on one home, two keys, two passphrases, every fault.
SPECIFICATION FairSpec
CHECK_DEADLOCK FALSE
CONSTANTS
  image = image
  resume = resume
  Processes = {p1, p2}
  Keys = {k1, k2}
  Values = {v}
  Absent = Absent
  Passphrases = {a, b}
  Columns <- MCColumns
  Created <- MCCreated
  NoFile = NoFile
  Empty = Empty
  Faults = {"io", "crash"}
INVARIANTS
  OpenedIsComplete
PROPERTIES
  SaveKeepsTheRest
  DatabaseOpens
