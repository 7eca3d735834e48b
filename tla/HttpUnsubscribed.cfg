SPECIFICATION Spec
CONSTANTS
  ann = ann
  news = news
  key = key
  report = report
  Boxes = {ann}
  Reports = {report}
  MaxRcpts = 2
  MaxTurns = 2
  Requests = {news}
  To <- OneTo
  Marketing = {news}
  Keys = {key}
  KeyOf <- MCKeyOf
  Listed <- MCListed
  MaxTries = 2
INVARIANT UnsubscribeHolds
