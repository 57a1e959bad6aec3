SPECIFICATION FairSpec
CONSTANTS
  Proc = {p1, p2, p3, p4}
  NoFile = nofile
  Input = {i1, i2}
  Version = {v1, v2}
  Output = {o1}
  Units = 2
  NoState = nostate
  MainInput = i1
  MainVersion = v1
  MaxTrouble = 3
  MaxBusy = 2
INVARIANTS
  TypeOK
  WriterKeepsLock
PROPERTIES
  OnlySuffixDropped
  Completes
