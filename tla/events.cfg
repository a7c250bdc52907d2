CONSTANTS
  States = {on, off}
  Off = off
  EngineBuffer = 1
  SubscriberBuffer = 1
  Seeders = {"periodicReseed", "streamDaemon", "apply"}
  MaxLingering = 1
SPECIFICATION Spec
PROPERTIES RowCatchesUp BusKeepsDraining SilenceEnds
