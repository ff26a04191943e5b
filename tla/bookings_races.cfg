SPECIFICATION HistorySpec
CONSTANTS
  Bookings = {b1}
  Requests = {r1, r2}
  RoundTrip = {b1}
  Adults = 2
  Ops <- EveryOp
  Free = Free
SYMMETRY Symmetry
INVARIANTS LockHolderIsCurrent PassengersAllOrNothing TicketedIsPastProcessing CompletedFlewBothLegs DeletedIffLogged
PROPERTIES ImplementsLifecycle FailedIsCancelledUnlessStale FinalUnlessStale
CHECK_DEADLOCK FALSE
