CONSTANTS
  c1 = c1
  c2 = c2
  Clients <- MCClients
  EventsPerClient = 2
  ReconnectTimeout = 2
SPECIFICATION Spec
PROPERTY StopDrains
