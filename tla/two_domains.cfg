\* Four threads, two in each of two AppDomains.
SPECIFICATION Spec
CONSTANTS
  worker = worker
  timer = timer
  main = main
  plugin = plugin
  Nobody = Nobody
  Thread = {ui, worker, finalizer, timer}
  Domain = {main, plugin}
  Home <- TwoHomes
INVARIANTS
  TypeOK
  ReturnsReady
  InitializesOnce
  PublishesFirst
PROPERTIES
  ImplementsOnce
