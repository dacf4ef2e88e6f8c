SPECIFICATION Spec
CONSTANTS
  b1 = b1
  b2 = b2
  k1 = k1
  k2 = k2
  r1 = r1
  r2 = r2
  o1 = o1
  w1 = w1
  w2 = w2
  Ids = {b1, b2}
  Legacy = {}
  Keys = {k1, k2}
  Refs = {r1, r2}
  Offers = {o1}
  Workers = {w1, w2}
  ExternalMoves <- Cancellations
  NoId = NoId
  NoKey = NoKey
  NoRef = NoRef
  NoOffer = NoOffer
SYMMETRY Symmetry
PROPERTIES
  ReferenceCollisionIsRetried
