\* Any metadata, arguments, stack or chain of exceptions, one of them at a time.
CONSTANTS
  c1 = c1  c2 = c2
  e1 = e1  e2 = e2  e3 = e3  e4 = e4
  p = p  q = q  r = r  m = m  s = s  i = i  o = o
  long = long
  Root = Root
  Containers = {c1, c2}
  Leaf = Leaf
  MaxLength = 4
  MaxTotal = 5
  MaxChanges = 1
  MaxDepth = 2
  MaxItems = 3
  MaxNodes = 5
  Keys = {p, q, r, m, s, i, o}
  KindOf <- MCKindOf
  Texts = {long, Marker, s, i, o}
  TextOf <- MCTextOf
  Marker = Marker
  Exceptions = {e1, e2, e3, e4}
  NoException = NoException
  MaxChain = 3
  MaxOuter = 4
SPECIFICATION MCSpec
ACTION_CONSTRAINT ChangesApart
SYMMETRY Alike
INVARIANTS
  TypeOk
  AncestorsAreOpen
  LimitsHold
  MetadataKept
  OneCaller
  ChainTold
