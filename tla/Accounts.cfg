SPECIFICATION Spec
CONSTANTS
    Requests = {r1, r2}
    Window = 1
    Keep = 2
    MaxStep = 3
    MaxFailed = 2
    MaxAttempts = 2
    MaxTries = 1
    MaxPw = 3
    People = {ann, bob}
    Companies = {c1, c2}
    Admin = Admin
    Staff = Staff
    Client = Client
    MaxSessions = 2
    Plans = {basic, pro}
    FreePlan = basic
    Month = 2
    Year = 3
    Grace = 1
    MaxTime = 4
    MaxMembers = 3
    AddOns = {a1, a2}
    BillTotal = 2
   
PROPERTIES DailyJobDoesItsWork
CHECK_DEADLOCK FALSE
