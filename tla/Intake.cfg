SPECIFICATION Spec
CONSTANTS
  ann = ann
  news = news
  key = key
  report = report
  Boxes = {ann}
  Reports = {report}
  MaxRcpts = 2
  MaxTurns = 3
  Requests = {news}
  To <- MCTo
  Marketing = {news}
  Keys = {key}
  KeyOf <- MCKeyOf
  Listed <- MCListed
  MaxTries = 2
INVARIANTS TypeOK NothingOutlivesReset AcksFollowStores RepliesInStep CopiesFollowTries AtMostOneLate
PROPERTIES HandlersReturn KeepsIntakeContract HandlersRunDown
