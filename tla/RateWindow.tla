------------------------------ MODULE RateWindow ------------------------------
(***************************************************************************)
(* The account rate limiter: InMemoryAccountRateLimiter.check              *)
(* (provider_hub_hosted/browser_gateway.py), as dispatch calls it.         *)
(*                                                                         *)
(* A fixed window per account, operation and window start counts the calls *)
(* admitted.  A call reads the clock first and then waits for the session  *)
(* provider, so check may see the readings in any order; and every check   *)
(* deletes the windows that started long before its own, whichever account *)
(* and operation they belong to.                                           *)
(***************************************************************************)
EXTENDS Integers, FiniteSetsExt

CONSTANTS
    Accounts,
    Operations,
    Calls,        \* threads of the gateway
    Limit,        \* calls per window, by operation: OPERATION_RATE_POLICIES
    Window,       \* length of a window, by operation: OPERATION_RATE_POLICIES
    Step,         \* a common divisor of the lengths: 60 seconds in the policies
    MaxStall,     \* longest time from the clock reading to the check
    MaxAdmitted,  \* bound: calls admitted to one window, above every limit
    MaxTime       \* bound: the last instant of the clock

ASSUME PolicyAssumption ==
    /\ Limit \in [Operations -> Nat \ {0}]
    /\ Window \in [Operations -> Nat \ {0}]
    /\ Step \in Nat \ {0}
    /\ \A o \in Operations : Window[o] % Step = 0
    /\ \E o \in Operations : \A p \in Operations : Window[p] <= Window[o]
    /\ MaxTime \in Nat
    /\ MaxAdmitted \in Nat
    /\ \A o \in Operations : Limit[o] < MaxAdmitted

\* A call is not held up between its clock reading and the check for longer
\* than the step of the window starts.
ASSUME StallAssumption == MaxStall \in 0..Step

VARIABLES
    now,      \* the clock
    windows,  \* self._windows; 0 where the dictionary has no entry
    call,     \* what each thread is doing
    admitted  \* history: the calls that were allowed, by window

vars == <<now, windows, call, admitted>>

Instants == 0..MaxTime
WindowKeys == [account : Accounts, op : Operations, start : Instants]

Longest == Max({Window[o] : o \in Operations})
StartOf(o, t) == t - (t % Window[o])
KeyOf(a, o, t) == [account |-> a, op |-> o, start |-> StartOf(o, t)]

Idle == [stage |-> "idle"]
Waiting(a, o, t) == [stage |-> "waiting", account |-> a, op |-> o, t |-> t]

Init ==
    /\ now = 0
    /\ windows = [k \in WindowKeys |-> 0]
    /\ call = [c \in Calls |-> Idle]
    /\ admitted = [k \in WindowKeys |-> 0]

\* dispatch reads the clock and goes to verify the session.
Arrive(c, a, o) ==
    /\ call[c] = Idle
    /\ call' = [call EXCEPT ![c] = Waiting(a, o, now)]
    /\ UNCHANGED <<now, windows, admitted>>

\* Mutant: every window before the current one is deleted.
StaleAtOnce(key, start) == key.start < start

Stale(key, start) == key.start < start - Longest

\* Mutant: the count is compared with > instead of >=.
CheckOffByOne(c) ==
    LET key == KeyOf(call[c].account, call[c].op, call[c].t)
        allowed == windows[key] <= Limit[key.op]
        counted == IF allowed THEN [windows EXCEPT ![key] = @ + 1] ELSE windows
    IN /\ call[c].stage = "waiting"
       /\ allowed => admitted[key] < MaxAdmitted
       /\ windows' = [k \in WindowKeys |->
              IF Stale(k, key.start) THEN 0 ELSE counted[k]]
       /\ admitted' = IF allowed THEN [admitted EXCEPT ![key] = @ + 1]
                                 ELSE admitted
       /\ call' = [call EXCEPT ![c] = Idle]
       /\ UNCHANGED now

\* check, in one step under the limiter's lock: count or refuse, then purge.
Check(c) ==
    LET key == KeyOf(call[c].account, call[c].op, call[c].t)
        allowed == windows[key] < Limit[key.op]
        counted == IF allowed THEN [windows EXCEPT ![key] = @ + 1] ELSE windows
    IN /\ call[c].stage = "waiting"
       /\ allowed => admitted[key] < MaxAdmitted
       /\ windows' = [k \in WindowKeys |->
              IF Stale(k, key.start) THEN 0 ELSE counted[k]]
       /\ admitted' = IF allowed THEN [admitted EXCEPT ![key] = @ + 1]
                                 ELSE admitted
       /\ call' = [call EXCEPT ![c] = Idle]
       /\ UNCHANGED now

\* The process restarts: the limiter is in memory, its windows start again.
\* (Only the history of the windows that are forgotten is dropped with them.)
Restart ==
    /\ windows' = [k \in WindowKeys |-> 0]
    /\ admitted' = [k \in WindowKeys |-> 0]
    /\ call' = [c \in Calls |-> Idle]
    /\ UNCHANGED now

Tick ==
    /\ now < MaxTime
    /\ \A c \in Calls : call[c] # Idle => now + 1 <= call[c].t + MaxStall
    /\ now' = now + 1
    /\ UNCHANGED <<windows, call, admitted>>

Next ==
    \/ Tick
    \/ Restart
    \/ \E c \in Calls :
          \/ \E a \in Accounts, o \in Operations : Arrive(c, a, o)
          \/ Check(c)

Spec == Init /\ [][Next]_vars

-----------------------------------------------------------------------------
(* What the limiter guarantees, within one life of the process.            *)

\* Types; no count exceeds its limit.
TypeOK ==
    /\ now \in Instants
    /\ windows \in [WindowKeys -> Nat]
    /\ \A k \in WindowKeys : windows[k] <= Limit[k.op]
    /\ \A c \in Calls : call[c].stage \in {"idle", "waiting"}
    /\ admitted \in [WindowKeys -> Nat]

\* No account is admitted more often to one window than the policy allows:
\* the purge never deletes a window that a late call still counts in.
LimitHolds == \A k \in WindowKeys : admitted[k] <= Limit[k.op]

\* A window is counted exactly until no call can ask for it any more, so no
\* call is refused before its account used up the window.
CountsAreExact ==
    \A k \in WindowKeys :
        windows[k] = admitted[k] \/ k.start + Window[k.op] + MaxStall <= now

(* The inductive invariant.  A waiting call is late by MaxStall at most, so  *)
(* the window it asks for is still counted exactly; and windows start at     *)
(* multiples of Step, so the purge of a check only reaches windows that      *)
(* ended at least Step before it.                                            *)
CallsAreRecent ==
    \A c \in Calls : call[c] # Idle =>
        \E a \in Accounts, o \in Operations, t \in 0..now :
            call[c] = Waiting(a, o, t) /\ now <= t + MaxStall

WindowsStartOnSteps ==
    \A k \in WindowKeys : admitted[k] # 0 => k.start % Step = 0

RateInv == TypeOK /\ CallsAreRecent /\ WindowsStartOnSteps /\ LimitHolds /\ CountsAreExact
=============================================================================
