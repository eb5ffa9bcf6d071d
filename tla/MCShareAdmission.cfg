SPECIFICATION BoundedAdmissionSpec
CONSTANTS
    k1 = k1  x = x  y = y
    MaxSubmissions = 2  Sources = {k1}  Heights = {1, 2}
    Nonces = {x, y}  Blocks = {y}  Weak <- MCWeak  Keys <- MCKeys
    MaxJobs = 3  GlobalCapacity = 1  SourceCapacity = 1
    Modes = {TRUE, FALSE}  MaxVerifications = 1  MailboxCapacity = 2
INVARIANT CreditedOnce
INVARIANT FailedShareIsRetryable
CHECK_DEADLOCK FALSE
INVARIANT NothingLeaks
