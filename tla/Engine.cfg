SPECIFICATION FairSpec
CONSTANTS
  Keys = {p, q}
  NoAlert = NoAlert
  NoPath = NoPath
  MaxHits = 2
  Facts <- MCFacts
  Rules <- MCRules
INVARIANTS EngineTypeOK OldestFirst
PROPERTIES KeepsPromise Forgets
