\* The fallback from Turso sync hands out a local store without tables.
SPECIFICATION Spec
CONSTANTS
  p1 = p1
  p2 = p2
  Opener <- MCOpener
  LastVersion = 2
  Statements <- MCStatements
  Config <- MCConfig
  MaxFailures = 2
INVARIANT FallbackHasSchema
