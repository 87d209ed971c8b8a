SPECIFICATION Spec
CONSTANTS
  p = p
  q = q
  a = a
  b = b
  c = c
  Package = {p, q}
  Test = {a, b, c}
  PackageOf <- TwoPackages
  KindOf <- Kinds3
  Main = Main
  MaxChildren = 1
INVARIANT AssertionIsReal
INVARIANT PassIsReal
INVARIANT PlainRunsAreClassified
CHECK_DEADLOCK FALSE
