SPECIFICATION Spec
CONSTANTS
  r1 = r1
  r2 = r2
  u1 = u1
  u2 = u2
  Caches = {"facet", "listing"}
  Uris = {u1}
  Readers = {r1}
  Versioned = {u1}
  Volatile = {}
  Lazy = {}
  TTL = 1
  Window = 1
  MaxBackoff = 1
  MaxVersion = 2
  MaxFaults = 0
INVARIANTS TokenNotNewer PreWriteOnlyRaced
