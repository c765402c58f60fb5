\* Values of both signs, several intervals in sequence.
SPECIFICATION Spec
CONSTANTS
  Values <- MCValues
  Times = {1, 2, 3}
  MaxAdds = 3
INVARIANTS
  TypeOK
  ReportsAreExact
  ReportIsOfInterval
