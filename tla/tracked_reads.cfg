\* One reconciler reads by name, by labels, or everything everywhere.
SPECIFICATION ReadsSpec
CONSTANTS
  red = red  blue = blue  ns = ns  kind = kind  a = a
  Watchers = {w1}
  Kinds = {kind}
  Namespaces = {ns, none}
  NoNamespace = none
  ObjNames = {a}
  NoName = noname
  Labels <- AllLabels
  Selectors <- SomeSelectors
  NoSelector = NoSelector
  NoLabel = nolabel
  Ids <- OneId
  Reads <- AllReads
  SyncPeriod = 1
  Jitter = 1
  MaxEvents = 1
INVARIANTS ReadsTypeOK NoStaleView Renewed
