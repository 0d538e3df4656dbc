SPECIFICATION DiagnosticsSpec
CONSTANTS
  MAX_POWER_OBSERVERS = 1
  maxEvents = 4
  maxArms = 2
  maxObservers = 2
  Catalogs <- MCCatalogs
  Selectors <- MCSelectors
  maxCleanups = 2
  maxFacts = 1
INVARIANTS
  CycleIsReal
  ResultsAreEarned
