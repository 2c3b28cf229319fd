\* Two watchers; all references there are, valid or not.
SPECIFICATION Spec
CONSTANTS
  w1 = w1  w2 = w2  red = red  blue = blue
  Watchers = {w1, w2}
  Kinds = {kind}
  Namespaces = {ns, none}
  NoNamespace = none
  ObjNames = {a}
  NoName = noname
  Labels <- AllLabels
  Selectors <- OneSelector
  NoSelector = NoSelector
  Lease = 1
SYMMETRY Interchangeable
INVARIANT TypeOK
PROPERTY ImplementsContract
