CONSTANTS
  Readers = {r1, r2}
  Writers = {w1, w2}
  Ids = {"ROLE_PRIVS"}
  Views = {v1, v2, v3}
  NoView = NoView
  NoReader = NoReader
SPECIFICATION Spec
INVARIANTS NoStaleAnswer CancelStaysWithCaller
PROPERTIES ReadsAreFresh EveryCallReturns
