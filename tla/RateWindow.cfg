\* One account, two threads, windows of two and four instants; the clock runs
\* into the window whose checks delete the first window of delete_owner.
SPECIFICATION Spec
CONSTANTS
    confirm_pairing = confirm_pairing
    delete_owner = delete_owner
    Accounts = {a1}
    Operations = {confirm_pairing, delete_owner}
    Calls = {c1, c2}
    Limit <- SmallLimit
    Window <- SmallWindow
    Step = 2
    MaxStall = 2
    MaxAdmitted = 3
    MaxTime = 7
SYMMETRY CallSymmetry
INVARIANTS
    LimitHolds
    CountsAreExact
