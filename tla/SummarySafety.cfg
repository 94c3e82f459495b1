SPECIFICATION Spec
CONSTANTS
  Payments <- MCPayments
  RequestedAt <- MCRequestedAt
  Dates <- MCDates
  Absent = Absent
  Readers = {r1}
  HalfRange = 4
  MaxWrites = 4
INVARIANTS SummaryIsOneMoment
