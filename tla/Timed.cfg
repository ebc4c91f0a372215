CONSTANTS
  a = a
  b = b
  e1 = e1
  Workers = {w1, w2}
  Handlers = {h1, h2}
SPECIFICATION Spec
INVARIANT MailsOnce LimitsHold
PROPERTY OutagesFollowed NothingHangs
CHECK_DEADLOCK FALSE
