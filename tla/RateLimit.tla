----------------------------- MODULE RateLimit -----------------------------
(***************************************************************************)
(* The Limiter of internal/ratelimit: one window per key, opened by the    *)
(* first request that finds none or an expired one, and counting up to     *)
(* Count admissions until a request arrives strictly after resetAt.        *)
(* Allow and Cleanup hold the mutex from end to end, and Allow reads the   *)
(* clock under it, so each is one step here.                               *)
(***************************************************************************)
EXTENDS Integers, Sequences

CONSTANTS Keys,      \* token names
          Count,     \* Limit.Count
          Window,    \* Limit.Window in ticks; 0 is legal: "5/0s" parses
          MaxTime    \* bound on the clock

ASSUME LimitAssumption == Count \in Nat \ {0} /\ Window \in Nat
ASSUME ClockAssumption == MaxTime \in Nat

VARIABLES now,       \* what l.now() returns
          windows,   \* l.windows: partial function from keys to windows
          log,       \* history: the times at which each key was admitted
          answer     \* the last Result each key got, with the time it got it

vars == <<now, windows, log, answer>>

-----------------------------------------------------------------------------
Init == /\ now = 0
        /\ windows = [k \in {} |-> {}]
        /\ log = [k \in Keys |-> <<>>]
        /\ answer = [k \in Keys |-> [at |-> 0, allowed |-> TRUE,
                                     remaining |-> Count, retryAfter |-> 0]]

Expired_atReset(w) == now >= w.resetAt
Expired(w) == now > w.resetAt

NewWindow_noLength == [count |-> 0, resetAt |-> now]
NewWindow == [count |-> 0, resetAt |-> now + Window]

Live(k) == k \in DOMAIN windows /\ ~ Expired(windows[k])

(* The window a request of k counts in: the live one, or a new one. *)
Current_keepsCount(k) ==
  IF k \in DOMAIN windows
  THEN [windows[k] EXCEPT !.resetAt = IF Live(k) THEN @ ELSE now + Window]
  ELSE NewWindow
Current(k) == IF Live(k) THEN windows[k] ELSE NewWindow

(* One token taken from the window: w.count++.                             *)
Consume(w) == [count |-> w.count + 1, resetAt |-> w.resetAt]

Denied(w) == [at |-> now, allowed |-> FALSE,
              remaining |-> 0, retryAfter |-> w.resetAt - now]

Admitted(w) == [at |-> now, allowed |-> TRUE,
                remaining |-> Count - w.count, retryAfter |-> 0]

Store(k, w) ==
  windows' = [x \in DOMAIN windows \cup {k} |-> IF x = k THEN w ELSE windows[x]]

Deny_extends(k) ==
  LET w == Current(k) IN
  /\ w.count >= Count
  /\ Store(k, [w EXCEPT !.resetAt = now + Window])
  /\ answer' = [answer EXCEPT ![k] = Denied(w)]
  /\ UNCHANGED <<now, log>>

Deny(k) ==
  LET w == Current(k) IN
  /\ w.count >= Count
  /\ Store(k, w)
  /\ answer' = [answer EXCEPT ![k] = Denied(w)]
  /\ UNCHANGED <<now, log>>

Admit(k) ==
  LET w == Consume(Current(k)) IN
  /\ Current(k).count < Count
  /\ Store(k, w)
  /\ answer' = [answer EXCEPT ![k] = Admitted(w)]
  /\ log' = [log EXCEPT ![k] = Append(@, now)]
  /\ UNCHANGED now

Allow(k) == Deny(k) \/ Admit(k)

Cleanup ==
  /\ windows' = [k \in {x \in DOMAIN windows : Live(x)} |-> windows[k]]
  /\ UNCHANGED <<now, log, answer>>

Tick == /\ now < MaxTime
        /\ now' = now + 1
        /\ UNCHANGED <<windows, log, answer>>

Next == \/ \E k \in Keys : Allow(k)
        \/ Cleanup
        \/ Tick

Spec == Init /\ [][Next]_vars

-----------------------------------------------------------------------------
(* Every variable has its type; a window never counts beyond Count and     *)
(* never ends more than Window from now (Allow, ratelimit.go:103).         *)
TypeOK ==
  /\ now \in 0 .. MaxTime
  /\ DOMAIN windows \subseteq Keys
  /\ \A k \in DOMAIN windows :
       windows[k] \in [count : 1 .. Count, resetAt : 0 .. now + Window]
  /\ log \in [Keys -> Seq(0 .. MaxTime)]
  /\ answer \in [Keys -> [at : 0 .. MaxTime, allowed : BOOLEAN,
                          remaining : 0 .. Count, retryAfter : 0 .. Window]]

(* What the fixed windows do guarantee: however a key times its requests   *)
(* around a window boundary, any 2 * Count consecutive admissions span     *)
(* more than Window, for the first of a window's is Window before its end  *)
(* (ratelimit.go:109, :118).                                               *)
TwoWindowBound ==
  \A k \in Keys : \A i \in 1 .. Len(log[k]) - (2 * Count - 1) :
    log[k][i + (2 * Count - 1)] > log[k][i] + Window

(* A key is turned away only when the Count requests it had admitted last  *)
(* are all at most Window old (ratelimit.go:118-125).                      *)
DenyJustified ==
  \A k \in Keys : ~ answer[k].allowed =>
    /\ Len(log[k]) >= Count
    /\ \A i \in Len(log[k]) - Count + 1 .. Len(log[k]) :
         log[k][i] >= answer[k].at - Window

(* RetryAfter is exact: after a denial the key's next answer is a denial   *)
(* as long as no more than RetryAfter has passed, and an admission from    *)
(* then on; Cleanup in between changes nothing (ratelimit.go:109, :123).   *)
RetryAfterExact ==
  [][\A k \in Keys :
       ~ answer[k].allowed /\ answer'[k] # answer[k] =>
         (answer'[k].allowed <=> now > answer[k].at + answer[k].retryAfter)]_vars

(* The limiter implements a quota of 2 * Count - 1 requests per Window.    *)
Allowance == INSTANCE Quota WITH Bound <- 2 * Count - 1
ImplementsQuota == Allowance!Spec

-----------------------------------------------------------------------------
(* The window w counts the latest admissions of s, made since it opened,   *)
(* the first of them as it opened; all others are older than the window,   *)
(* and the one that opened the window before, among the Count latest of    *)
(* these, is older by more than Window.                                    *)
Counts(s, w) ==
  /\ w.count <= Len(s)
  /\ \A i \in 1 .. Len(s) :
       /\ s[i] <= w.resetAt
       /\ i > Len(s) - w.count => s[i] + Window >= w.resetAt
       /\ i <= Len(s) - w.count + 1 => s[i] + Window <= w.resetAt
       /\ i <= Len(s) - w.count => s[i] + Window < w.resetAt
       /\ i <= Len(s) - w.count - Count + 1 => s[i] + 2 * Window < w.resetAt

(* The window of k, or the one k would be given now.                       *)
WindowOf(k) == IF k \in DOMAIN windows THEN windows[k] ELSE NewWindow

(* Every key's window counts that key's latest admissions.                 *)
Accounting ==
  \A k \in Keys : /\ Counts(log[k], WindowOf(k))
                  /\ \A i \in 1 .. Len(log[k]) : log[k][i] <= now

(* A denial's RetryAfter points at the end of the window that denied it,   *)
(* which stays the key's window, full, until it has expired.               *)
DenialOpen ==
  \A k \in Keys : ~ answer[k].allowed =>
    LET end == answer[k].at + answer[k].retryAfter IN
    IF k \in DOMAIN windows
    THEN windows[k] = [count |-> Count, resetAt |-> end]
    ELSE now > end

IInv == TypeOK /\ Accounting /\ TwoWindowBound /\ DenyJustified /\ DenialOpen
=============================================================================
