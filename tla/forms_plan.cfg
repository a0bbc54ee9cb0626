CONSTANTS
  Tools <- MCTools
  Sends <- MCSends
  Lines <- MCLines
  Ops <- MCOps
  Fills <- MCFills
  Files <- MCFiles
  Envs <- MCEnvs
  Edits <- MCEdits
  Connections <- MCConnections
  Folder <- TheShelf
  Configs <- MCConfigs
  Parcels <- MCParcels
  Edited <- MCEdited
  Places <- MCPlaces
SPECIFICATION PartsSpec
INVARIANT PlanIsImport
CHECK_DEADLOCK FALSE
