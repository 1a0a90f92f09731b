SPECIFICATION SyncSpec
CONSTANTS
  CacheParts <- MCCacheParts
  PageParts <- MCPageParts
INVARIANTS
  SyncCovers
