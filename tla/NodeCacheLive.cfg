SPECIFICATION FairSpec
CONSTANTS
  r1 = r1
  r2 = r2
  u1 = u1
  u2 = u2
  Caches = {"facet"}
  Uris = {u1, u2}
  Readers = {r1}
  Versioned = {u1}
  Volatile = {u1}
  Lazy = {u2}
  TTL = 2
  Window = 1
  MaxBackoff = 3
  MaxVersion = 1
  MaxFaults = 3
PROPERTY CacheHeals
