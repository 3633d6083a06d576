SPECIFICATION FairSpec
CONSTANTS
  root = root
  sub = sub
  page = page
  form = form
  nobody = nobody
  Half16 = 8
  Half32 = 16
  Json <- Objects
  EmptyJson <- NoMembers
  Hello <- NoMembers
  Controllers = {root, sub, page, form}
  Route <- FourRoutes
  Methods <- FourMethods
  Slash = 0
  NotFound = nobody
  Requests <- SomeRequests
  Reply <- Codes
  Misreadings <- Mixed
  MaxRequests = 2
INVARIANT DispatchedAsWritten
INVARIANT ReadAsAnswered
PROPERTY WrittenIsAnswered
CHECK_DEADLOCK FALSE
