SPECIFICATION Spec
CONSTANTS
  a = a
  b = b
  sent = sent
  trash = trash
  Folders = {sent, trash}
  Trash = trash
  Sent = sent
  Letters = {a, b}
  MessageId <- MCMessageId
  NoId = NoId
  Flags <- MCFlags
  Requests = {r1, r2}
  UidPlus = {TRUE, FALSE}
  ReconcileMax = 1
  BatchSize = 1
  MaxUid = 2
  MaxValidity = 2
  Initial <- MCInitial
  Synced = {trash}
  MaxEvents = 3
INVARIANTS
  TypeOK
  QuietRoundRepairs
  CountsFollowRows
PROPERTY ContentIsKept
CHECK_DEADLOCK FALSE
SYMMETRY MCSymmetry
