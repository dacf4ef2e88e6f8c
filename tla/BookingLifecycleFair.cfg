SPECIFICATION FairSpec
CONSTANTS
  b1 = b1
  b2 = b2
  k1 = k1
  r1 = r1
  o1 = o1
  w1 = w1
  w2 = w2
  Ids = {b1, b2}
  Legacy = {b2}
  Keys = {k1}
  Refs = {r1}
  Offers = {o1}
  Workers = {w1, w2}
  ExternalMoves <- Payments
  NoId = NoId
  NoKey = NoKey
  NoRef = NoRef
  NoOffer = NoOffer
PROPERTIES
  EveryRequestAnswered
