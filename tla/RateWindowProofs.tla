-------------------------- MODULE RateWindowProofs --------------------------
(* The rate limiter for all policies: no account is admitted more often to a *)
(* window than its policy allows, however late calls are within MaxStall.    *)
EXTENDS RateWindow, TLAPS

------------------------------------------------------------------------------
(* Arithmetic of windows.                                                    *)

LEMMA Division ==
  ASSUME NEW t \in Nat, NEW d \in Nat \ {0}
  PROVE  /\ t % d \in 0..(d - 1)
         /\ t \div d \in Nat
         /\ t = d * (t \div d) + (t % d)
  OBVIOUS

LEMMA MultipleMod ==
  ASSUME NEW n \in Nat, NEW d \in Nat \ {0}
  PROVE  (d * n) % d = 0
  OBVIOUS

LEMMA ModMultiple ==
  ASSUME NEW t \in Nat, NEW d \in Nat \ {0}, t % d = 0
  PROVE  \E n \in Nat : t = d * n
<1>1. t \div d \in Nat /\ t = d * (t \div d) + (t % d)
  BY Division
<1>2. d * (t \div d) \in Nat
  BY <1>1
<1> QED
  BY <1>1, <1>2

\* Multiples of s that differ do so by s at least.
LEMMA MultiplesApart ==
  ASSUME NEW s \in Nat \ {0}, NEW a \in Int, NEW b \in Int, s * a < s * b
  PROVE  s * a + s <= s * b
<1>1. a < b
  OBVIOUS
<1>2. s * (a + 1) <= s * b
  BY <1>1
<1>3. s * (a + 1) = s * a + s
  OBVIOUS
<1> QED
  BY <1>2, <1>3

LEMMA WindowsAreSteps ==
  ASSUME NEW o \in Operations
  PROVE  /\ Window[o] \in Nat \ {0}
         /\ \E n \in Nat : Window[o] = Step * n
<1>1. Window[o] \in Nat \ {0} /\ Step \in Nat \ {0} /\ Window[o] % Step = 0
  BY PolicyAssumption
<1>2. \E n \in Nat : Window[o] = Step * n
  BY <1>1, ModMultiple
<1> QED
  BY <1>1, <1>2

\* A window contains the instants that are charged to it, and starts on a step.
LEMMA StartFacts ==
  ASSUME NEW o \in Operations, NEW t \in Nat
  PROVE  /\ StartOf(o, t) \in 0..t
         /\ t < StartOf(o, t) + Window[o]
         /\ StartOf(o, t) % Step = 0
<1> DEFINE w == Window[o]
           q == t \div w
<1>1. w \in Nat \ {0}
  BY WindowsAreSteps
<1>2. /\ t % w \in 0..(w - 1)
      /\ q \in Nat
      /\ t = w * q + (t % w)
  BY <1>1, Division
<1>3. StartOf(o, t) = w * q
  BY <1>1, <1>2 DEF StartOf
<1>4. PICK n \in Nat : w = Step * n
  BY WindowsAreSteps
<1>5. Step \in Nat \ {0}
  BY PolicyAssumption
<1> HIDE DEF w, q
<1>6. w * q = Step * (n * q) /\ n * q \in Nat
  BY <1>1, <1>2, <1>4, <1>5
<1>7. (w * q) % Step = 0
  BY <1>5, <1>6, MultipleMod
<1>8. w * q \in Nat /\ w * q <= t /\ t < w * q + w
  BY <1>1, <1>2, <1>5, <1>6
<1> QED
  BY <1>3, <1>7, <1>8 DEF w

\* The purge measures with the longest of the windows.
LEMMA LongestFacts ==
  /\ Longest \in Nat
  /\ \A o \in Operations : Window[o] <= Longest
  /\ \E n \in Nat : Longest = Step * n
<1>1. PICK p \in Operations : \A o \in Operations : Window[o] <= Window[p]
  BY PolicyAssumption
<1>2. \A o \in Operations : Window[o] \in Nat
  BY WindowsAreSteps
<1> DEFINE S == {Window[o] : o \in Operations}
<1>3. Window[p] \in S /\ \A x \in S : x <= Window[p] /\ x \in Nat
  BY <1>1, <1>2
<1>4. Max(S) = Window[p]
  <2>1. \E x \in S : \A y \in S : x >= y
    BY <1>3
  <2>2. Max(S) \in S /\ \A y \in S : Max(S) >= y
    BY <2>1 DEF Max
  <2> HIDE DEF S
  <2>3. Max(S) <= Window[p] /\ Max(S) >= Window[p] /\ Max(S) \in Nat /\ Window[p] \in Nat
    BY <1>2, <1>3, <2>2
  <2> QED
    BY <2>3
<1>5. Longest = Window[p]
  BY <1>4 DEF Longest
<1> QED
  BY <1>1, <1>2, <1>5, WindowsAreSteps

\* What a check purges ended so long ago that no call can still ask for it.
LEMMA PurgedIsOver ==
  ASSUME NEW k \in Nat, NEW start \in Nat, NEW o \in Operations,
         k % Step = 0, start % Step = 0, k < start - Longest
  PROVE  k + Window[o] + MaxStall <= start
<1>1. Step \in Nat \ {0} /\ MaxStall \in 0..Step
  BY PolicyAssumption, StallAssumption
<1>2. PICK n \in Nat : Longest = Step * n
  BY LongestFacts
<1>3. PICK i \in Nat : k = Step * i
  BY <1>1, ModMultiple
<1>4. PICK j \in Nat : start = Step * j
  BY <1>1, ModMultiple
<1>5. Step * (i + n) = Step * i + Step * n
  BY <1>1
<1>6. Step * (i + n) < Step * j
  BY <1>1, <1>2, <1>3, <1>4, <1>5, LongestFacts
<1>7. Step * (i + n) + Step <= Step * j
  BY <1>1, <1>6, MultiplesApart, i + n \in Int, j \in Int
<1>8. k + Longest + Step <= start
  BY <1>1, <1>2, <1>3, <1>4, <1>5, <1>7
<1>9. Window[o] <= Longest /\ Window[o] \in Nat /\ Longest \in Nat
  BY LongestFacts, WindowsAreSteps
<1> QED
  BY <1>1, <1>8, <1>9

------------------------------------------------------------------------------
LEMMA InitInv == Init => RateInv
<1> SUFFICES ASSUME Init PROVE RateInv
  OBVIOUS
<1>1. \A k \in WindowKeys : Limit[k.op] \in Nat \ {0}
  BY PolicyAssumption DEF WindowKeys
<1>2. 0 \in Instants
  BY PolicyAssumption DEF Instants
<1> QED
  BY <1>1, <1>2 DEF Init, RateInv, TypeOK, CallsAreRecent, WindowsStartOnSteps,
                    LimitHolds, CountsAreExact, Idle

LEMMA TickStep == RateInv /\ Tick => RateInv'
<1> SUFFICES ASSUME RateInv, Tick PROVE RateInv'
  OBVIOUS
<1>1. now \in Nat /\ now' = now + 1 /\ now' \in Instants
  BY PolicyAssumption DEF RateInv, TypeOK, Tick, Instants
<1>2. UNCHANGED <<windows, call, admitted>>
  BY DEF Tick
<1>3. TypeOK'
  BY <1>1, <1>2 DEF RateInv, TypeOK
<1>4. CallsAreRecent'
  <2> SUFFICES ASSUME NEW c \in Calls, call[c] # Idle
               PROVE  \E a \in Accounts, o \in Operations, t \in 0..(now + 1) :
                          call[c] = Waiting(a, o, t) /\ now + 1 <= t + MaxStall
    BY <1>1, <1>2 DEF CallsAreRecent
  <2>1. PICK a \in Accounts, o \in Operations, t \in 0..now : call[c] = Waiting(a, o, t)
    BY DEF RateInv, CallsAreRecent
  <2>2. call[c].t = t
    BY <2>1 DEF Waiting
  <2>3. now + 1 <= t + MaxStall
    BY <2>2 DEF Tick
  <2>4. t \in 0..(now + 1)
    BY <1>1
  <2> QED
    BY <2>1, <2>3, <2>4
<1>5. WindowsStartOnSteps' /\ LimitHolds'
  BY <1>2 DEF RateInv, WindowsStartOnSteps, LimitHolds
<1>6. CountsAreExact'
  <2> SUFFICES ASSUME NEW k \in WindowKeys, k.start + Window[k.op] + MaxStall <= now
               PROVE  k.start + Window[k.op] + MaxStall <= now + 1
    BY <1>1, <1>2 DEF RateInv, CountsAreExact
  <2>1. k.start \in Nat /\ k.op \in Operations
    BY DEF WindowKeys, Instants
  <2>2. Window[k.op] \in Nat /\ MaxStall \in Nat
    BY <2>1, WindowsAreSteps, StallAssumption, PolicyAssumption
  <2> QED
    BY <1>1, <2>1, <2>2
<1> QED
  BY <1>3, <1>4, <1>5, <1>6 DEF RateInv

LEMMA RestartStep == RateInv /\ Restart => RateInv'
<1> SUFFICES ASSUME RateInv, Restart PROVE RateInv'
  OBVIOUS
<1>1. \A k \in WindowKeys : Limit[k.op] \in Nat \ {0}
  BY PolicyAssumption DEF WindowKeys
<1> QED
  BY <1>1 DEF Restart, RateInv, TypeOK, CallsAreRecent, WindowsStartOnSteps,
              LimitHolds, CountsAreExact, Idle

LEMMA ArriveStep ==
  ASSUME RateInv, NEW c \in Calls, NEW a \in Accounts, NEW o \in Operations,
         Arrive(c, a, o)
  PROVE  RateInv'
<1>1. /\ UNCHANGED <<now, windows, admitted>>
      /\ call' = [call EXCEPT ![c] = Waiting(a, o, now)]
  BY DEF Arrive
<1>2. now \in Nat /\ MaxStall \in Nat /\ now \in 0..now
  BY StallAssumption, PolicyAssumption DEF RateInv, TypeOK, Instants
<1>3. TypeOK'
  BY <1>1 DEF RateInv, TypeOK, Waiting
<1>4. CallsAreRecent'
  BY <1>1, <1>2 DEF RateInv, CallsAreRecent
<1>5. WindowsStartOnSteps' /\ LimitHolds' /\ CountsAreExact'
  BY <1>1 DEF RateInv, WindowsStartOnSteps, LimitHolds, CountsAreExact
<1> QED
  BY <1>3, <1>4, <1>5 DEF RateInv

LEMMA CheckStep ==
  ASSUME RateInv, NEW c \in Calls, Check(c)
  PROVE  RateInv'
<1>1. call[c] # Idle
  BY DEF Check, Idle
<1>2. PICK a \in Accounts, o \in Operations, t \in 0..now :
          call[c] = Waiting(a, o, t) /\ now <= t + MaxStall
  BY <1>1 DEF RateInv, CallsAreRecent
<1> DEFINE start == StartOf(o, t)
           key == [account |-> a, op |-> o, start |-> start]
           allowed == windows[key] < Limit[o]
           counted == IF allowed THEN [windows EXCEPT ![key] = @ + 1] ELSE windows
<1>3. call[c].account = a /\ call[c].op = o /\ call[c].t = t
  BY <1>2 DEF Waiting
<1>4. KeyOf(call[c].account, call[c].op, call[c].t) = key /\ key.start = start /\ key.op = o
  BY <1>3 DEF KeyOf
<1>5. /\ now \in Nat /\ now <= MaxTime /\ t \in Nat /\ t <= now
      /\ MaxStall \in Nat /\ Window[o] \in Nat
  BY PolicyAssumption, StallAssumption, WindowsAreSteps DEF RateInv, TypeOK, Instants
<1>6. start \in 0..t /\ t < start + Window[o] /\ start % Step = 0
  BY <1>5, StartFacts
<1>7. key \in WindowKeys
  <2>1. start \in Instants
    BY <1>5, <1>6, PolicyAssumption DEF Instants
  <2> QED
    BY <2>1 DEF WindowKeys
<1>8. /\ windows' = [k \in WindowKeys |-> IF Stale(k, start) THEN 0 ELSE counted[k]]
      /\ admitted' = IF allowed THEN [admitted EXCEPT ![key] = @ + 1] ELSE admitted
      /\ call' = [call EXCEPT ![c] = Idle]
      /\ now' = now
  BY <1>4 DEF Check
<1>9. windows[key] = admitted[key]
  <2>1. ~(key.start + Window[key.op] + MaxStall <= now)
    BY <1>2, <1>4, <1>5, <1>6
  <2> QED
    BY <1>7, <2>1 DEF RateInv, CountsAreExact
<1>10. /\ windows \in [WindowKeys -> Nat] /\ admitted \in [WindowKeys -> Nat]
       /\ \A k \in WindowKeys : Limit[k.op] \in Nat \ {0}
       /\ \A k \in WindowKeys : windows[k] <= Limit[k.op]
  BY PolicyAssumption DEF RateInv, TypeOK, WindowKeys
<1> HIDE DEF start
<1>11. \A k \in WindowKeys :
          /\ counted[k] = IF allowed /\ k = key THEN windows[k] + 1 ELSE windows[k]
          /\ admitted'[k] = IF allowed /\ k = key THEN admitted[k] + 1 ELSE admitted[k]
          /\ windows'[k] = IF Stale(k, start) THEN 0 ELSE counted[k]
  BY <1>7, <1>8, <1>10
<1>12. windows' \in [WindowKeys -> Nat] /\ admitted' \in [WindowKeys -> Nat]
  BY <1>7, <1>8, <1>10
<1>13. key.op = o /\ key.start = start
  OBVIOUS
<1> HIDE DEF key, allowed, counted
<1>14. allowed => windows[key] < Limit[key.op]
  BY <1>13 DEF allowed
<1>15. TypeOK'
  <2>1. \A k \in WindowKeys : windows'[k] <= Limit[k.op]
    BY <1>10, <1>11, <1>14
  <2>2. \A d \in Calls : call'[d].stage \in {"idle", "waiting"}
    BY <1>8 DEF RateInv, TypeOK, Idle
  <2> QED
    BY <1>8, <1>12, <2>1, <2>2 DEF RateInv, TypeOK
<1>16. CallsAreRecent'
  BY <1>8 DEF RateInv, CallsAreRecent
<1>17. WindowsStartOnSteps'
  BY <1>6, <1>11, <1>13 DEF RateInv, WindowsStartOnSteps
<1>18. LimitHolds'
  <2>1. \A k \in WindowKeys : admitted[k] \in Nat /\ admitted[k] <= Limit[k.op]
    BY <1>10 DEF RateInv, LimitHolds
  <2>2. allowed => admitted[key] < Limit[key.op]
    BY <1>9, <1>14
  <2>3. \A k \in WindowKeys : admitted'[k] <= Limit[k.op]
    BY <1>10, <1>11, <2>1, <2>2
  <2> QED
    BY <2>3 DEF LimitHolds
<1>19. CountsAreExact'
  <2> SUFFICES ASSUME NEW k \in WindowKeys
               PROVE  windows'[k] = admitted'[k] \/ k.start + Window[k.op] + MaxStall <= now
    BY <1>8 DEF CountsAreExact
  <2>1. k.start \in Nat /\ k.op \in Operations
    BY DEF WindowKeys, Instants
  <2>2. counted[k] = admitted'[k] \/ k.start + Window[k.op] + MaxStall <= now
    BY <1>9, <1>11 DEF RateInv, CountsAreExact
  <2>3. CASE ~Stale(k, start)
    BY <1>11, <2>2, <2>3
  <2>4. CASE Stale(k, start) /\ admitted[k] # 0
    <3>1. k.start % Step = 0
      BY <2>4 DEF RateInv, WindowsStartOnSteps
    <3>2. k.start < start - Longest
      BY <2>4 DEF Stale
    <3>3. k.start + Window[k.op] + MaxStall <= start
      BY <1>5, <1>6, <2>1, <3>1, <3>2, PurgedIsOver
    <3>4. Window[k.op] \in Nat
      BY <2>1, WindowsAreSteps
    <3> QED
      BY <1>5, <1>6, <2>1, <3>3, <3>4
  <2>5. CASE Stale(k, start) /\ admitted[k] = 0
    <3>1. k.start < start
      BY <1>5, <1>6, <2>1, <2>5, LongestFacts DEF Stale
    <3>2. k # key
      BY <1>13, <3>1, <1>5, <1>6
    <3> QED
      BY <1>11, <2>5, <3>2
  <2> QED
    BY <2>3, <2>4, <2>5
<1> QED
  BY <1>15, <1>16, <1>17, <1>18, <1>19 DEF RateInv

LEMMA StepInv == RateInv /\ [Next]_vars => RateInv'
<1> SUFFICES ASSUME RateInv, [Next]_vars PROVE RateInv'
  OBVIOUS
<1>1. CASE UNCHANGED vars
  BY <1>1 DEF vars, RateInv, TypeOK, CallsAreRecent, WindowsStartOnSteps, LimitHolds,
              CountsAreExact
<1>2. CASE Next
  BY <1>2, TickStep, RestartStep, ArriveStep, CheckStep DEF Next
<1> QED
  BY <1>1, <1>2

\* The invariant of the limiter holds for every policy and every MaxStall up to
\* the step of the window starts.
THEOREM RateSafety == Spec => []RateInv
  BY InitInv, StepInv, PTL DEF Spec

\* No account is admitted more often to one window than the policy allows.
THEOREM LimitIsKept == Spec => []LimitHolds
<1>1. RateInv => LimitHolds
  BY DEF RateInv
<1> QED
  BY <1>1, RateSafety, PTL

\* A window is counted exactly until no call can ask for it any more.
THEOREM Counts == Spec => []CountsAreExact
<1>1. RateInv => CountsAreExact
  BY DEF RateInv
<1> QED
  BY <1>1, RateSafety, PTL
=============================================================================
