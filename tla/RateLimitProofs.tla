-------------------------- MODULE RateLimitProofs --------------------------
(***************************************************************************)
(* Proofs about RateLimit for every set of keys, every Count > 0, every    *)
(* Window and every bound on the clock: types, the inductive invariant     *)
(* IInv, the bound over two windows, justified denials, the exactness of   *)
(* RetryAfter, and the implementation of Quota.                            *)
(***************************************************************************)
EXTENDS RateLimit, TLAPS

-----------------------------------------------------------------------------
(* The window a request counts in is well typed and has not expired.       *)
LEMMA CurrentType ==
  ASSUME TypeOK, NEW k \in Keys
  PROVE  /\ Current(k) \in [count : 0 .. Count, resetAt : now .. now + Window]
         /\ k \in DOMAIN windows => windows[k] \in [count : 1 .. Count, resetAt : 0 .. now + Window]
  BY LimitAssumption, ClockAssumption DEF TypeOK, Current, Live, Expired, NewWindow

LEMMA TypeInit == Init => TypeOK
  BY LimitAssumption, ClockAssumption DEF Init, TypeOK

(* Allow and Cleanup leave well-typed windows, and time only widens types. *)
LEMMA TypeStep == TypeOK /\ [Next]_vars => TypeOK'
<1> SUFFICES ASSUME TypeOK, [Next]_vars PROVE TypeOK'
  OBVIOUS
<1> USE LimitAssumption, ClockAssumption
<1>1. ASSUME NEW k \in Keys, Deny(k) PROVE TypeOK'
  <2>1. Current(k) \in [count : 0 .. Count, resetAt : now .. now + Window]
    BY CurrentType
  <2>2. Current(k).count \in 1 .. Count
    BY <1>1, <2>1 DEF Deny
  <2>3. Denied(Current(k)) \in [at : 0 .. MaxTime, allowed : BOOLEAN,
                                remaining : 0 .. Count, retryAfter : 0 .. Window]
    BY <2>1 DEF Denied, TypeOK
  <2> QED
    BY <1>1, <2>1, <2>2, <2>3 DEF Deny, Store, TypeOK
<1>2. ASSUME NEW k \in Keys, Admit(k) PROVE TypeOK'
  <2> DEFINE w == Consume(Current(k))
  <2>1. w \in [count : 1 .. Count, resetAt : 0 .. now + Window]
    <3>1. Current(k) \in [count : 0 .. Count, resetAt : now .. now + Window]
      BY CurrentType
    <3>2. Current(k).count < Count
      BY <1>2 DEF Admit
    <3> QED
      BY <3>1, <3>2 DEF TypeOK, Consume
  <2>2. Admitted(w) \in [at : 0 .. MaxTime, allowed : BOOLEAN,
                         remaining : 0 .. Count, retryAfter : 0 .. Window]
    BY <2>1 DEF Admitted, TypeOK
  <2>3. log' \in [Keys -> Seq(0 .. MaxTime)]
    BY <1>2 DEF Admit, TypeOK
  <2>4. windows' = [x \in DOMAIN windows \cup {k} |-> IF x = k THEN w ELSE windows[x]]
    BY <1>2 DEF Admit, Store
  <2>5. answer' = [answer EXCEPT ![k] = Admitted(w)] /\ now' = now
    BY <1>2 DEF Admit
  <2> HIDE DEF w
  <2> QED
    BY <2>1, <2>2, <2>3, <2>4, <2>5 DEF TypeOK
<1>3. CASE Cleanup
  BY <1>3 DEF Cleanup, TypeOK
<1>4. CASE Tick
  BY <1>4 DEF Tick, TypeOK
<1>5. CASE UNCHANGED vars
  BY <1>5 DEF vars, TypeOK
<1> QED
  BY <1>1, <1>2, <1>3, <1>4, <1>5 DEF Next, Allow

(* Every variable keeps its type.                                          *)
THEOREM TypeCorrect == Spec => []TypeOK
<1> QED
  BY TypeInit, TypeStep, PTL DEF Spec

-----------------------------------------------------------------------------
(* A window that expired can be replaced by a new, empty one.              *)
LEMMA Renewal ==
  ASSUME NEW s \in Seq(Nat), NEW c \in 0 .. Count, NEW end \in Nat, NEW n \in Nat,
         Counts(s, [count |-> c, resetAt |-> end]), end < n
  PROVE  Counts(s, [count |-> 0, resetAt |-> n + Window])
<1>1. Len(s) \in Nat /\ c <= Len(s)
  BY DEF Counts
<1>2. ASSUME NEW i \in 1 .. Len(s)
      PROVE  /\ s[i] \in Nat /\ s[i] <= end
             /\ i <= Len(s) - c + 1 => s[i] + Window <= end
  BY DEF Counts
<1>3. ASSUME NEW i \in 1 .. Len(s)
      PROVE  /\ s[i] <= n + Window
             /\ ~ (i > Len(s) - 0)
             /\ s[i] + Window <= n + Window
             /\ s[i] + Window < n + Window
             /\ i <= Len(s) - 0 - Count + 1 => s[i] + 2 * Window < n + Window
  <2>1. Count \in Nat /\ Window \in Nat /\ c \in Nat /\ c <= Count /\ i \in Nat
    BY <1>1, LimitAssumption
  <2>2. s[i] \in Nat /\ s[i] < n
    BY <1>2
  <2>3. i <= Len(s) - 0 - Count + 1 => s[i] + Window < n
    <3>1. i <= Len(s) - 0 - Count + 1 => i <= Len(s) - c + 1
      BY <1>1, <2>1
    <3>2. i <= Len(s) - c + 1 => s[i] + Window <= end
      BY <1>2
    <3> QED
      BY <2>1, <2>2, <3>1, <3>2
  <2> QED
    BY <1>1, <2>1, <2>2, <2>3
<1> QED
  BY <1>1, <1>3 DEF Counts

(* A window with a token left still counts the admissions when it takes it. *)
LEMMA Consumption ==
  ASSUME NEW s \in Seq(Nat), NEW c \in 0 .. Count - 1, NEW n \in Nat,
         NEW end \in n .. n + Window, c = 0 => end = n + Window,
         Counts(s, [count |-> c, resetAt |-> end])
  PROVE  /\ Counts(Append(s, n), [count |-> c + 1, resetAt |-> end])
         /\ Len(Append(s, n)) = Len(s) + 1
         /\ \A i \in 1 .. Len(s) : Append(s, n)[i] = s[i]
         /\ Append(s, n)[Len(s) + 1] = n
<1>1. /\ Len(Append(s, n)) = Len(s) + 1
      /\ \A i \in 1 .. Len(s) : Append(s, n)[i] = s[i]
      /\ Append(s, n)[Len(s) + 1] = n
  OBVIOUS
<1>2. c + 1 <= Len(s) + 1 /\ Len(s) \in Nat
  BY DEF Counts
<1>3. ASSUME NEW i \in 1 .. Len(s) + 1
      PROVE  /\ Append(s, n)[i] <= end
             /\ i > Len(s) - c => Append(s, n)[i] + Window >= end
             /\ i <= Len(s) - c + 1 => Append(s, n)[i] + Window <= end
             /\ i <= Len(s) - c => Append(s, n)[i] + Window < end
             /\ i <= Len(s) - c - Count + 1 => Append(s, n)[i] + 2 * Window < end
  <2>1. CASE i = Len(s) + 1
    BY <1>1, <1>2, <2>1, LimitAssumption
  <2>2. CASE i \in 1 .. Len(s)
    BY <1>1, <2>2, LimitAssumption DEF Counts
  <2> QED
    BY <2>1, <2>2, <1>2
<1> HIDE DEF Counts
<1>4. Counts(Append(s, n), [count |-> c + 1, resetAt |-> end])
  BY <1>1, <1>2, <1>3, LimitAssumption DEF Counts
<1> QED
  BY <1>1, <1>4

(* The window a request counts in counts the admissions of its key.        *)
LEMMA CurrentCounts ==
  ASSUME TypeOK, Accounting, NEW k \in Keys
  PROVE  Counts(log[k], Current(k))
<1>1. log[k] \in Seq(Nat) /\ now \in Nat
  BY ClockAssumption DEF TypeOK
<1>2. CASE Live(k)
  BY <1>2 DEF Current, Live, Accounting, WindowOf
<1>3. CASE k \notin DOMAIN windows
  BY <1>3 DEF Current, Live, Accounting, WindowOf
<1>4. CASE k \in DOMAIN windows /\ Expired(windows[k])
  <2>1. windows[k] = [count |-> windows[k].count, resetAt |-> windows[k].resetAt]
        /\ windows[k].count \in 0 .. Count /\ windows[k].resetAt \in Nat
    BY <1>4, CurrentType, LimitAssumption DEF TypeOK
  <2>2. Counts(log[k], windows[k])
    BY <1>4 DEF Accounting, WindowOf
  <2>3. windows[k].resetAt < now
    BY <1>4, <2>1, <1>1 DEF Expired
  <2>4. Counts(log[k], [count |-> 0, resetAt |-> now + Window])
    BY <1>1, <2>1, <2>2, <2>3, Renewal
  <2> QED
    BY <1>4, <2>4 DEF Current, Live, NewWindow
<1> QED
  BY <1>2, <1>3, <1>4 DEF Live

(* A key without a window may be given a later one.                        *)
LEMMA Ageing ==
  ASSUME NEW s \in Seq(Nat), NEW end \in Nat, NEW later \in Nat, end <= later,
         Counts(s, [count |-> 0, resetAt |-> end])
  PROVE  Counts(s, [count |-> 0, resetAt |-> later])
<1>1. Len(s) \in Nat /\ 0 <= Len(s)
  OBVIOUS
<1>2. ASSUME NEW i \in 1 .. Len(s)
      PROVE  /\ s[i] <= later
             /\ i > Len(s) - 0 => s[i] + Window >= later
             /\ i <= Len(s) - 0 + 1 => s[i] + Window <= later
             /\ i <= Len(s) - 0 => s[i] + Window < later
             /\ i <= Len(s) - 0 - Count + 1 => s[i] + 2 * Window < later
  <2>1. /\ s[i] <= end
        /\ i <= Len(s) - 0 => s[i] + Window < end
        /\ i <= Len(s) - 0 - Count + 1 => s[i] + 2 * Window < end
    BY DEF Counts
  <2>2. s[i] \in Nat /\ 2 * Window \in Nat /\ Window \in Nat
    BY LimitAssumption
  <2> QED
    BY <1>1, <2>1, <2>2
<1> QED
  BY <1>1, <1>2 DEF Counts

-----------------------------------------------------------------------------
LEMMA InvInit == Init => IInv
<1> SUFFICES ASSUME Init PROVE IInv
  OBVIOUS
<1>1. \A k \in Keys : log[k] = <<>> /\ answer[k].allowed
  BY DEF Init
<1>2. Accounting
  <2>1. Counts(<<>>, NewWindow)
    <3>1. NewWindow.count = 0 /\ Len(<<>>) = 0 /\ 1 .. 0 = {}
      BY DEF NewWindow
    <3> QED
      BY <3>1 DEF Counts
  <2>2. \A k \in Keys : WindowOf(k) = NewWindow
    BY DEF Init, WindowOf
  <2>3. \A k \in Keys : 1 .. Len(log[k]) = {}
    <3>1. Len(<<>>) = 0 /\ 1 .. 0 = {}
      OBVIOUS
    <3> QED
      BY <1>1, <3>1
  <2> QED
    BY <1>1, <2>1, <2>2, <2>3 DEF Accounting
<1>3. TwoWindowBound
  <2>1. Len(<<>>) = 0 /\ 1 .. 0 - (2 * Count - 1) = {}
    BY LimitAssumption
  <2>2. \A k \in Keys : 1 .. Len(log[k]) - (2 * Count - 1) = {}
    BY <1>1, <2>1
  <2> QED
    BY <2>2 DEF TwoWindowBound
<1>4. DenyJustified /\ DenialOpen
  BY <1>1 DEF DenyJustified, DenialOpen
<1> QED
  BY <1>2, <1>3, <1>4, TypeInit DEF IInv

LEMMA DenyStep ==
  ASSUME IInv, NEW k \in Keys, Deny(k)
  PROVE  Accounting' /\ TwoWindowBound' /\ DenyJustified' /\ DenialOpen'
<1> DEFINE w == Current(k)
<1>0. TypeOK /\ now \in Nat /\ Count \in Nat \ {0} /\ Window \in Nat
  BY LimitAssumption, ClockAssumption DEF IInv, TypeOK
<1>1. w.count = Count /\ w.resetAt \in now .. now + Window
      /\ w = [count |-> Count, resetAt |-> w.resetAt]
  BY <1>0, CurrentType DEF Deny
<1>2. /\ now' = now /\ log' = log
      /\ windows' = [x \in DOMAIN windows \cup {k} |-> IF x = k THEN w ELSE windows[x]]
      /\ answer' = [answer EXCEPT ![k] = Denied(w)]
  BY DEF Deny, Store
<1>3. Counts(log[k], w)
  BY <1>0, CurrentCounts DEF IInv
<1> HIDE DEF w
<1>4. \A x \in Keys : WindowOf(x)' = IF x = k THEN w ELSE WindowOf(x)
  BY <1>2 DEF WindowOf, NewWindow
<1>5. /\ answer'[k] = Denied(w)
      /\ \A x \in Keys \ {k} : answer'[x] = answer[x]
  BY <1>0, <1>2 DEF TypeOK
<1>6. Accounting'
  BY <1>2, <1>3, <1>4 DEF IInv, Accounting, Counts
<1>7. TwoWindowBound'
  BY <1>2 DEF IInv, TwoWindowBound
<1>8. DenyJustified'
  <2>1. ASSUME NEW i \in Len(log[k]) - Count + 1 .. Len(log[k]), Count <= Len(log[k])
        PROVE  log[k][i] >= now - Window
    <3>1. log[k] \in Seq(Nat) /\ i \in 1 .. Len(log[k]) /\ i > Len(log[k]) - w.count
      <4>1. log[k] \in Seq(Nat) /\ Len(log[k]) \in Nat
        BY <1>0, ClockAssumption DEF TypeOK
      <4> QED
        BY <1>0, <1>1, <2>1, <4>1
    <3>2. log[k][i] + Window >= w.resetAt
      BY <1>3, <3>1 DEF Counts
    <3> QED
      BY <1>0, <1>1, <3>1, <3>2
  <2>2. Count <= Len(log[k])
    BY <1>1, <1>3 DEF Counts
  <2> QED
    BY <1>2, <1>5, <2>1, <2>2 DEF IInv, DenyJustified, Denied
<1>9. DenialOpen'
  <2>1. ASSUME NEW x \in Keys, x # k, ~ answer'[x].allowed
        PROVE  LET end == answer'[x].at + answer'[x].retryAfter IN
               IF x \in DOMAIN windows'
               THEN windows'[x] = [count |-> Count, resetAt |-> end]
               ELSE now' > end
    BY <1>2, <1>5, <2>1 DEF IInv, DenialOpen
  <2>2. /\ k \in DOMAIN windows'
        /\ windows'[k] = [count |-> Count,
                          resetAt |-> answer'[k].at + answer'[k].retryAfter]
    BY <1>0, <1>1, <1>2, <1>5 DEF Denied
  <2> QED
    BY <2>1, <2>2 DEF DenialOpen
<1> QED
  BY <1>6, <1>7, <1>8, <1>9

LEMMA AdmitStep ==
  ASSUME IInv, NEW k \in Keys, Admit(k)
  PROVE  Accounting' /\ TwoWindowBound' /\ DenyJustified' /\ DenialOpen'
<1> DEFINE c == Current(k).count
           end == Current(k).resetAt
           w == [count |-> c + 1, resetAt |-> end]
<1>0. TypeOK /\ now \in Nat /\ Count \in Nat \ {0} /\ Window \in Nat
  BY LimitAssumption, ClockAssumption DEF IInv, TypeOK
<1>1. c \in 0 .. Count - 1 /\ end \in now .. now + Window
      /\ Current(k) = [count |-> c, resetAt |-> end]
  BY <1>0, CurrentType DEF Admit
<1>1a. c = 0 => end = now + Window
  <2>1. CASE Live(k)
    <3>1. Current(k) = windows[k] /\ windows[k].count \in 1 .. Count
      BY <1>0, <2>1, CurrentType DEF Current, Live
    <3> QED
      BY <1>0, <3>1
  <2>2. CASE ~ Live(k)
    BY <2>2 DEF Current, NewWindow
  <2> QED
    BY <2>1, <2>2
<1>2. /\ now' = now
      /\ log' = [log EXCEPT ![k] = Append(log[k], now)]
      /\ windows' = [x \in DOMAIN windows \cup {k} |-> IF x = k THEN w ELSE windows[x]]
      /\ answer' = [answer EXCEPT ![k] = Admitted(w)]
  BY DEF Admit, Store, Consume
<1>3. Counts(log[k], [count |-> c, resetAt |-> end])
  BY <1>0, <1>1, CurrentCounts DEF IInv
<1> HIDE DEF c, end
<1>4. \A x \in Keys : WindowOf(x)' = IF x = k THEN w ELSE WindowOf(x)
  BY <1>2 DEF WindowOf, NewWindow
<1>5. /\ answer'[k].allowed
      /\ log'[k] = Append(log[k], now)
      /\ \A x \in Keys \ {k} : answer'[x] = answer[x] /\ log'[x] = log[x]
  BY <1>0, <1>2 DEF TypeOK, Admitted
<1>6. log[k] \in Seq(Nat) /\ Len(log[k]) \in Nat
      /\ \A i \in 1 .. Len(log[k]) : log[k][i] \in Nat
  BY <1>0, ClockAssumption DEF TypeOK
<1>7. /\ Counts(log'[k], w)
      /\ Len(log'[k]) = Len(log[k]) + 1
      /\ \A i \in 1 .. Len(log[k]) : log'[k][i] = log[k][i]
      /\ log'[k][Len(log[k]) + 1] = now
  BY <1>0, <1>1, <1>1a, <1>3, <1>5, <1>6, Consumption
<1>8. Accounting'
  <2>1. \A i \in 1 .. Len(log'[k]) : log'[k][i] <= now'
    <3>1. \A i \in 1 .. Len(log[k]) : log[k][i] <= now
      BY DEF IInv, Accounting
    <3>2. \A i \in 1 .. Len(log'[k]) : i \in 1 .. Len(log[k]) \/ i = Len(log[k]) + 1
      BY <1>6, <1>7
    <3> QED
      BY <1>0, <1>2, <1>7, <3>1, <3>2
  <2>2. ASSUME NEW x \in Keys, x # k
        PROVE  Counts(log[x], WindowOf(x)) /\ \A i \in 1 .. Len(log[x]) : log[x][i] <= now
    BY DEF IInv, Accounting
  <2>3. \A x \in Keys : Counts(log'[x], WindowOf(x)') /\ \A i \in 1 .. Len(log'[x]) : log'[x][i] <= now'
    BY <1>2, <1>4, <1>5, <1>7, <2>1, <2>2
  <2> QED
    BY <2>3 DEF Accounting, Counts
<1>9. TwoWindowBound'
  <2> DEFINE b == 2 * Count - 1
             n == Len(log[k])
  <2>0. b \in Nat /\ b > 0 /\ n \in Nat
    BY <1>0, <1>6
  <2>2. b = 2 * Count - 1
    OBVIOUS
  <2> HIDE DEF b
  <2>1. ASSUME NEW i \in 1 .. Len(log'[k]) - b
        PROVE  log'[k][i + b] > log'[k][i] + Window
    <3>1. i \in 1 .. n /\ i \in Nat /\ i + b \in 1 .. n + 1
      <4>1. i \in 1 .. (n + 1) - b
        BY <1>7, <2>1
      <4> HIDE DEF n
      <4> QED
        BY <2>0, <4>1
    <3>2. log'[k][i] = log[k][i] /\ log[k][i] \in Nat
      BY <1>6, <1>7, <3>1
    <3>3. CASE i + b = n + 1
      <4>1. i <= n - c - Count + 1
        <5> HIDE DEF n
        <5> QED
          BY <1>0, <1>1, <2>0, <2>2, <3>1, <3>3
      <4>2. log[k][i] + 2 * Window < end
        BY <1>3, <3>1, <4>1 DEF Counts
      <4>3. log'[k][i + b] = now
        BY <1>7, <3>3
      <4> QED
        BY <1>0, <1>1, <3>2, <4>2, <4>3
    <3>4. CASE i + b \in 1 .. n
      <4>1. i \in 1 .. n - b
        BY <2>0, <3>1, <3>4
      <4>2. log[k][i + b] > log[k][i] + Window
        BY <4>1 DEF IInv, TwoWindowBound, b
      <4> QED
        BY <1>7, <3>2, <3>4, <4>2
    <3> HIDE DEF n
    <3>5. i + b = n + 1 \/ i + b \in 1 .. n
      BY <2>0, <3>1
    <3> QED
      BY <3>3, <3>4, <3>5
  <2> QED
    BY <1>5, <2>1 DEF IInv, TwoWindowBound, b
<1>10. DenyJustified'
  BY <1>5 DEF IInv, DenyJustified
<1>11. DenialOpen'
  BY <1>2, <1>5 DEF IInv, DenialOpen
<1> QED
  BY <1>8, <1>9, <1>10, <1>11

LEMMA CleanupStep ==
  ASSUME IInv, Cleanup
  PROVE  Accounting' /\ TwoWindowBound' /\ DenyJustified' /\ DenialOpen'
<1>0. TypeOK /\ now \in Nat
  BY ClockAssumption DEF IInv, TypeOK
<1>1. /\ windows' = [x \in {y \in DOMAIN windows : Live(y)} |-> windows[x]]
      /\ now' = now /\ log' = log /\ answer' = answer
  BY DEF Cleanup
<1>2. \A k \in Keys : WindowOf(k)' = Current(k)
  BY <1>1 DEF WindowOf, Current, Live, NewWindow
<1>3. \A k \in Keys : Counts(log[k], Current(k))
  BY <1>0, CurrentCounts DEF IInv
<1>4. Accounting'
  BY <1>1, <1>2, <1>3 DEF IInv, Accounting, Counts
<1>5. TwoWindowBound' /\ DenyJustified'
  BY <1>1 DEF IInv, TwoWindowBound, DenyJustified
<1>6. DenialOpen'
  BY <1>0, <1>1 DEF IInv, DenialOpen, Live, Expired
<1> QED
  BY <1>4, <1>5, <1>6

LEMMA TickStep ==
  ASSUME IInv, Tick
  PROVE  Accounting' /\ TwoWindowBound' /\ DenyJustified' /\ DenialOpen'
<1>0. TypeOK /\ now \in Nat /\ Window \in Nat
  BY LimitAssumption, ClockAssumption DEF IInv, TypeOK
<1>1. now' = now + 1 /\ windows' = windows /\ log' = log /\ answer' = answer
  BY DEF Tick
<1>2. ASSUME NEW k \in Keys
      PROVE  Counts(log[k], WindowOf(k)') /\ \A i \in 1 .. Len(log[k]) : log[k][i] <= now'
  <2>1. log[k] \in Seq(Nat) /\ \A i \in 1 .. Len(log[k]) : log[k][i] \in Nat /\ log[k][i] <= now
    BY <1>0, ClockAssumption DEF TypeOK, IInv, Accounting
  <2>2. CASE k \in DOMAIN windows
    BY <1>0, <1>1, <2>1, <2>2 DEF IInv, Accounting, WindowOf
  <2>3. CASE k \notin DOMAIN windows
    <3>1. Counts(log[k], [count |-> 0, resetAt |-> now + Window])
      BY <2>3 DEF IInv, Accounting, WindowOf, NewWindow
    <3>2. Counts(log[k], [count |-> 0, resetAt |-> now + 1 + Window])
      BY <1>0, <2>1, <3>1, Ageing
    <3>3. WindowOf(k)' = [count |-> 0, resetAt |-> now + 1 + Window]
      BY <1>1, <2>3 DEF WindowOf, NewWindow
    <3> QED
      BY <1>0, <1>1, <2>1, <3>2, <3>3
  <2> QED
    BY <2>2, <2>3
<1>3. Accounting'
  BY <1>1, <1>2 DEF Accounting, Counts
<1>4. TwoWindowBound' /\ DenyJustified'
  BY <1>1 DEF IInv, TwoWindowBound, DenyJustified
<1>5. DenialOpen'
  <2>1. \A k \in Keys : answer[k].at + answer[k].retryAfter \in Nat
    BY <1>0, ClockAssumption DEF TypeOK
  <2> QED
    BY <1>0, <1>1, <2>1 DEF IInv, DenialOpen
<1> QED
  BY <1>3, <1>4, <1>5

LEMMA InvStep == IInv /\ [Next]_vars => IInv'
<1> SUFFICES ASSUME IInv, [Next]_vars PROVE IInv'
  OBVIOUS
<1>1. TypeOK'
  BY TypeStep DEF IInv
<1>2. CASE UNCHANGED vars
  BY <1>2 DEF vars, IInv, TypeOK, Accounting, Counts, WindowOf, NewWindow,
              TwoWindowBound, DenyJustified, DenialOpen
<1>3. CASE Next
  <2>1. Accounting' /\ TwoWindowBound' /\ DenyJustified' /\ DenialOpen'
    BY <1>3, DenyStep, AdmitStep, CleanupStep, TickStep DEF Next, Allow
  <2> QED
    BY <1>1, <2>1 DEF IInv
<1> QED
  BY <1>2, <1>3

(* The inductive invariant.                                                *)
THEOREM Invariance == Spec => []IInv
<1> QED
  BY InvInit, InvStep, PTL DEF Spec

(* Any 2 * Count consecutive admissions of a key span more than Window.    *)
THEOREM TwoWindows == Spec => []TwoWindowBound
<1>1. IInv => TwoWindowBound
  BY DEF IInv
<1> QED
  BY Invariance, <1>1, PTL

(* No key is turned away that did not use its Count within Window.         *)
THEOREM DenialsJustified == Spec => []DenyJustified
<1>1. IInv => DenyJustified
  BY DEF IInv
<1> QED
  BY Invariance, <1>1, PTL

(* RetryAfter tells to the tick from when on a denied key is admitted.     *)
THEOREM RetryAfterHonest == Spec => RetryAfterExact
<1>1. ASSUME IInv, [Next]_vars, NEW k \in Keys,
             ~ answer[k].allowed, answer'[k] # answer[k]
      PROVE  answer'[k].allowed <=> now > answer[k].at + answer[k].retryAfter
  <2> DEFINE end == answer[k].at + answer[k].retryAfter
  <2>0. TypeOK /\ now \in Nat /\ end \in Nat /\ Count \in Nat \ {0}
    BY <1>1, LimitAssumption, ClockAssumption DEF IInv, TypeOK
  <2>1. Allow(k)
    <3>1. ASSUME NEW x \in Keys, Allow(x), x # k PROVE FALSE
      BY <1>1, <2>0, <3>1 DEF Allow, Admit, Deny, TypeOK
    <3> QED
      BY <1>1, <3>1 DEF Next, Cleanup, Tick, vars
  <2>2. IF k \in DOMAIN windows
        THEN windows[k] = [count |-> Count, resetAt |-> end]
        ELSE now > end
    BY <1>1 DEF IInv, DenialOpen
  <2>3. Live(k) <=> ~ (now > end)
    BY <2>2 DEF Live, Expired
  <2>4. Current(k).count = IF Live(k) THEN Count ELSE 0
    BY <2>2 DEF Current, Live, NewWindow
  <2>5. answer'[k].allowed <=> Current(k).count < Count
    <3>1. Current(k) \in [count : 0 .. Count, resetAt : now .. now + Window]
      BY <2>0, CurrentType
    <3>2. ASSUME Admit(k) PROVE answer'[k].allowed /\ Current(k).count < Count
      BY <2>0, <3>2 DEF Admit, Admitted, TypeOK
    <3>3. ASSUME Deny(k) PROVE ~ answer'[k].allowed /\ Current(k).count >= Count
      BY <2>0, <3>3 DEF Deny, Denied, TypeOK
    <3> QED
      BY <2>0, <2>1, <3>1, <3>2, <3>3 DEF Allow
  <2> QED
    BY <2>0, <2>3, <2>4, <2>5
<1>2. IInv /\ [Next]_vars =>
        [\A k \in Keys : ~ answer[k].allowed /\ answer'[k] # answer[k] =>
           (answer'[k].allowed <=> now > answer[k].at + answer[k].retryAfter)]_vars
  BY <1>1
<1> QED
  BY Invariance, <1>2, PTL DEF Spec, RetryAfterExact

(* RateLimit implements Quota with 2 * Count - 1 admissions per Window.    *)
THEOREM Implementation == Spec => ImplementsQuota
<1>1. Init => Allowance!Init
  BY DEF Init, Allowance!Init
<1>2. IInv /\ [Next]_vars => [Allowance!Next]_<<now, log>>
  <2> SUFFICES ASSUME IInv, [Next]_vars PROVE [Allowance!Next]_<<now, log>>
    OBVIOUS
  <2>1. ASSUME NEW k \in Keys, Admit(k) PROVE Allowance!Admit(k)
    <3>0. /\ Len(log[k]) \in Nat /\ log \in [Keys -> Seq(Nat)]
          /\ Count \in Nat \ {0}
      BY LimitAssumption, ClockAssumption DEF IInv, TypeOK
    <3>1. log' = [log EXCEPT ![k] = Append(log[k], now)] /\ now' = now
      BY <2>1 DEF Admit
    <3>2. /\ Len(log'[k]) = Len(log[k]) + 1
          /\ log'[k][Len(log[k]) + 1] = now
          /\ \A i \in 1 .. Len(log[k]) : log'[k][i] = log[k][i]
      BY <3>0, <3>1
    <3>3. TwoWindowBound'
      BY <2>1, AdmitStep
    <3>4. ASSUME Len(log[k]) + 1 - (2 * Count - 1) >= 1
          PROVE  log[k][Len(log[k]) + 1 - (2 * Count - 1)] + Window < now
      <4> DEFINE b == 2 * Count - 1
                 i == Len(log[k]) + 1 - b
      <4>1. /\ i \in 1 .. Len(log'[k]) - b /\ i \in 1 .. Len(log[k])
            /\ i + b = Len(log[k]) + 1
        BY <3>0, <3>2, <3>4
      <4> HIDE DEF i
      <4>2. log'[k][i + b] > log'[k][i] + Window
        BY <3>3, <4>1 DEF TwoWindowBound
      <4> HIDE DEF b
      <4>3. now > log[k][i] + Window
        BY <3>2, <4>1, <4>2
      <4>4. log[k][i] + Window < now
        BY <4>3, <4>1, <3>0, LimitAssumption, ClockAssumption DEF IInv, TypeOK
      <4> QED
        BY <4>4 DEF i, b
    <3> QED
      BY <3>1, <3>4 DEF Allowance!Admit
  <2>2. CASE \E k \in Keys : Admit(k)
    BY <2>1, <2>2 DEF Allowance!Next
  <2>3. CASE \E k \in Keys : Deny(k)
    BY <2>3 DEF Deny
  <2>4. CASE Cleanup
    BY <2>4 DEF Cleanup
  <2>5. CASE Tick
    BY <2>5 DEF Tick, Allowance!Tick, Allowance!Next
  <2>6. CASE UNCHANGED vars
    BY <2>6 DEF vars
  <2> QED
    BY <2>2, <2>3, <2>4, <2>5, <2>6 DEF Next, Allow
<1> QED
  BY <1>1, <1>2, Invariance, PTL DEF Spec, ImplementsQuota, Allowance!Spec, Allowance!vars
=============================================================================
