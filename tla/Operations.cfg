SPECIFICATION MCSpec
CONSTANTS
  Dishes = {"d1", "d2"}
  Tickets = {"grill"}
  TicketOf <- MCTicketOf
  Cooks = {"c1", "c2"}
  Waiters = {"w1", "w2"}
  Guests = {"g"}
  CommandKeys = {"k1", "k2"}
  MaxAsked = 1
  MaxReplies = 2
  Staff = {"w1", "w2"}
  NoteKeys = {"k1", "k2"}
  PreparedTables = {"t"}
  MaxNotes = 1
  MaxResponses = 2
  Registers = {"r1"}
  Cashiers = {"c1"}
  Closings = {"k1"}
  CashAmounts = {1, 2}
  MaxSessions = 1
  MaxMovements = 3
  MaxCounts = 2
  MaxCashPayments = 1
  ManualAmounts = {1}
  Taps = {"t1", "t2"}
  ActionKeys = {"k1", "k2"}
  Tariffs = {1, 2}
  MaxDrafts = 2
  MaxEditsOfDraft = 2
  MaxHelp = 1
  MaxBills = 1
INVARIANTS TicketsAreTold HistoryTellsTheMessage ClosedSessionsBalance ConfirmedAsShown
PROPERTIES EvidenceStands
CHECK_DEADLOCK FALSE
