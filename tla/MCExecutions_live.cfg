CONSTANTS
  c1 = c1
  c2 = c2
  c3 = c3
  k1 = k1
  k2 = k2
  k3 = k3
  p1 = p1
  p2 = p2
  None = None
  NoCall = NoCall
  Calls <- TwoCalls
  Keys <- TwoKeys
  Payloads <- OnePayload
  Sizes = {1, 2}
  MaxEntries = 1
  MaxBytes = 1
  Retention = 1
  MaxTime = 2
SPECIFICATION FairSpec
PROPERTIES WaitersAnswered ExpiredForgotten
