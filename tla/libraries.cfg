SPECIFICATION LibrariesSpec
CONSTANTS
  e1 = e1
  e2 = e2
  c1 = c1
  c2 = c2
  Emitters = {e1, e2}
  Listeners = {c1, c2}
  InCap = 1
  OutCap = 1
  MaxEvents <- TwoAndOne
  MaxOut = 2
  p = p
  q = q
  r = r
  Callers = {p, q, r}
  CacheKeys = {"k"}
  MaxVal = 2
  Closers = {p, q, r}
  home = home
  about = about
  pings = pings
  images = images
  own = own
  files = files
  sockets = sockets
  c404 = c404
  Controllers = {home, about, pings, images, own, files, sockets}
  App = {home, about, pings, images}
  PingController = own
  StaticFileController = files
  WebsocketController = sockets
  Configured = {files, sockets}
  NotFound = c404
  Route <- SomeRoutes
  Methods <- SomeMethods
  Slash = 0
  PingRoute <- Ping
  Paths <- SomePaths
INVARIANT IncsAddUp
INVARIANT RegisteredAreClosed
INVARIANT RoutesAsRegistered
PROPERTY DeliveredInOrder
PROPERTY NothingAfterUnlisten
PROPERTY NobodyWaitsForListeners
CHECK_DEADLOCK FALSE
