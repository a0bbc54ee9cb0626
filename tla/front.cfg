CONSTANTS
  q1 = q1
  q2 = q2
  k1 = k1
  Requests <- MCRequests
  Keys <- MCKeys
  TTL = 2
  Fetch = 1
  MaxTime = 4
  Tools <- MCTools
  Sends <- MCSends
  Lines <- MCLines
  Ops <- MCOps
  Fills <- MCFills
  Files <- MCFiles
  Envs <- MCEnvs
  Edits <- MCEdits
  Connections <- MCConnections
  Folder <- TheShelf
  Configs <- MCConfigs
  Parcels <- MCParcels
  Edited <- MCEdited
  Places <- MCPlaces
SPECIFICATION MCSpec
INVARIANTS SentIsActedOn PlanForetellsImport PackStandsAlone RequestIsAsDeclared
           FileKeepsItsSecrets ServedAsDeclared
PROPERTIES SteadyKeyIsFound WithdrawnKeyExpires EveryRequestAnswered
CHECK_DEADLOCK FALSE
