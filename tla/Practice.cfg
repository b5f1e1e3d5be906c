SPECIFICATION Spec
CONSTANTS
    Requests = {r1, r2}
    Gstins = {"g1", "g2"}
    StateOf <- StateOfGstin
    HomeState = "33"
    Checklist = {"sales", "bank"}
    MaxRows = 3
    Addresses = {"e", "p"}
    Pool <- Agency
    MaxLeads = 3
    Offices = {b1, b2}
    HeadOffice = b1
    Agents = {ann}
    Evening = 2
    MaxTickets = 2
    Milestones = {0, 1}
    MaxDays = 1
INVARIANTS  LeadsHold FieldWorkHolds DeskHolds
PROPERTIES NoReminderStaysDue
CHECK_DEADLOCK FALSE
