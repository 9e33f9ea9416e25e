--------------------------- MODULE GatewayProofs ---------------------------
(***************************************************************************)
(* Proofs about Gateway: what a quota is worth over reloads.  IInv ties    *)
(* the log of admissions to the windows of the generations.  From it,      *)
(* within one Window, each admission has a slot of its own among the       *)
(* 2 * Count - 1 slots of its generation.                                  *)
(***************************************************************************)
EXTENDS Gateway, FiniteSetTheorems, TLAPS

Admission == [at : Nat, gen : Gens, until : Nat, nth : 1 .. Count]

(* The limiter's window for a request.                                     *)
LEMMA CurrentWindow ==
  ASSUME NEW g \in Gens, NEW t \in Tokens
  PROVE  Limiter(g)!Current(t) =
           IF t \in DOMAIN windows[g] /\ ~ (now > windows[g][t].resetAt)
           THEN windows[g][t] ELSE [count |-> 0, resetAt |-> now + Window]
BY DEF Limiter!Current, Limiter!Live, Limiter!Expired, Limiter!NewWindow

(* A window in which nothing is left is one that was there.                *)
LEMMA FullWindow ==
  ASSUME TypeOK, NEW g \in Gens, NEW t \in Tokens, Limiter(g)!Current(t).count >= Count
  PROVE  t \in DOMAIN windows[g] /\ Limiter(g)!Current(t) = windows[g][t]
<1>1. [count |-> 0, resetAt |-> now + Window].count = 0
  OBVIOUS
<1> QED BY <1>1, CurrentWindow, GatewayAssumption

(* What Keep makes of the windows.                                         *)
LEMMA Kept ==
  ASSUME TypeOK, NEW g \in Gens, NEW t \in Tokens, NEW w, Keep(g, t, w)
  PROVE  /\ DOMAIN windows' = Gens
         /\ DOMAIN windows'[g] = DOMAIN windows[g] \cup {t}
         /\ windows'[g][t] = w
         /\ \A x \in DOMAIN windows[g] : x # t => windows'[g][x] = windows[g][x]
         /\ \A h \in Gens : h # g => windows'[h] = windows[h]
<1>1. windows' = [h \in Gens |-> IF h = g
                    THEN [x \in DOMAIN windows[g] \cup {t} |-> IF x = t THEN w ELSE windows[g][x]]
                    ELSE windows[h]]
  BY DEF Keep, TypeOK
<1> QED BY <1>1

LEMMA KeptType ==
  ASSUME TypeOK, NEW g \in Gens, NEW t \in Tokens,
         NEW w \in [count : 1 .. Count, resetAt : Nat], Keep(g, t, w)
  PROVE  /\ DOMAIN windows' = Gens
         /\ \A h \in Gens : /\ DOMAIN windows'[h] \subseteq Tokens
                            /\ \A x \in DOMAIN windows'[h] :
                                 windows'[h][x] \in [count : 1 .. Count, resetAt : Nat]
<1>1. DOMAIN windows' = Gens
  BY Kept
<1>2. ASSUME NEW h \in Gens
      PROVE  /\ DOMAIN windows'[h] \subseteq Tokens
             /\ \A x \in DOMAIN windows'[h] :
                  windows'[h][x] \in [count : 1 .. Count, resetAt : Nat]
  <2>1. /\ DOMAIN windows[h] \subseteq Tokens
        /\ \A x \in DOMAIN windows[h] : windows[h][x] \in [count : 1 .. Count, resetAt : Nat]
    BY DEF TypeOK
  <2>2. CASE h # g
    BY <2>1, <2>2, Kept
  <2>3. CASE h = g
    <3>1. /\ DOMAIN windows'[g] = DOMAIN windows[g] \cup {t}
          /\ windows'[g][t] = w
          /\ \A x \in DOMAIN windows[g] : x # t => windows'[g][x] = windows[g][x]
      BY Kept
    <3> QED BY <2>1, <2>3, <3>1
  <2> QED BY <2>2, <2>3
<1> QED BY <1>1, <1>2

(* The window of an admission.                                             *)
LEMMA Consumed ==
  ASSUME TypeOK, NEW g \in Gens, NEW t \in Tokens, Limiter(g)!Current(t).count < Count
  PROVE  LET c == Limiter(g)!Consume(Limiter(g)!Current(t)) IN
         /\ c \in [count : 1 .. Count, resetAt : Nat]
         /\ c.resetAt >= now
         /\ \/ /\ t \in DOMAIN windows[g] /\ c.resetAt = windows[g][t].resetAt
               /\ c.count = windows[g][t].count + 1 /\ c.count > 1
            \/ /\ c.count = 1 /\ c.resetAt = now + Window
               /\ t \in DOMAIN windows[g] => now > windows[g][t].resetAt
<1> DEFINE w == Limiter(g)!Current(t)
           c == Limiter(g)!Consume(w)
<1>1. c = [count |-> w.count + 1, resetAt |-> w.resetAt]
  BY DEF Limiter!Consume
<1>2. now \in Nat /\ Window \in Nat /\ Count \in Nat
  BY GatewayAssumption DEF TypeOK
<1>3. CASE t \in DOMAIN windows[g] /\ ~ (now > windows[g][t].resetAt)
  <2>1. w = windows[g][t]
    BY <1>3, CurrentWindow
  <2>2. w.count \in 1 .. Count /\ w.resetAt \in Nat
    BY <1>3, <2>1 DEF TypeOK
  <2>3. c.count = w.count + 1 /\ c.resetAt = w.resetAt
    BY <1>1
  <2>4. w.count < Count
    OBVIOUS
  <2>5. c \in [count : 1 .. Count, resetAt : Nat]
    BY <1>1, <1>2, <2>2, <2>4
  <2> HIDE DEF c, w
  <2>6. c.resetAt >= now /\ c.count > 1
    BY <1>2, <1>3, <2>1, <2>2, <2>3
  <2> QED BY <1>3, <2>1, <2>3, <2>5, <2>6 DEF c, w
<1>4. CASE ~ (t \in DOMAIN windows[g] /\ ~ (now > windows[g][t].resetAt))
  <2>1. w = [count |-> 0, resetAt |-> now + Window]
    BY <1>4, CurrentWindow
  <2>2. c = [count |-> 1, resetAt |-> now + Window]
    BY <1>1, <2>1
  <2>3. c \in [count : 1 .. Count, resetAt : Nat] /\ c.resetAt >= now
    BY <1>2, <2>2, GatewayAssumption
  <2> QED BY <1>4, <2>2, <2>3
<1> QED BY <1>3, <1>4

-----------------------------------------------------------------------------
LEMMA TypeInit == Init => TypeOK
<1> SUFFICES ASSUME Init PROVE TypeOK
  OBVIOUS
<1>1. 1 \in Gens /\ Len(Group) \in Nat \ {0}
  BY GatewayAssumption DEF Gens
<1>2. now \in Nat /\ live \in Gens
  BY <1>1 DEF Init
<1>3. admitted \in [Tokens -> Seq(Admission)]
  BY DEF Init
<1>4. /\ DOMAIN windows = Gens
      /\ \A g \in Gens : DOMAIN windows[g] = {}
  BY DEF Init
<1>5. /\ token \in [Requests -> Tokens] /\ gen \in [Requests -> Gens]
      /\ member \in [Requests -> 1 .. Len(Group)]
  BY <1>1 DEF Init
<1>6. /\ lock \in [Gens -> [OAuth -> Requests \cup {NoOne}]]
      /\ valid \in [Gens -> [OAuth -> BOOLEAN]]
  BY DEF Init
<1>7. pc \in [Requests -> {"sent", "routed", "limited", "attempting", "refreshing",
                           "directed", "answered", "exhausted"}]
  BY DEF Init
<1> QED BY <1>2, <1>3, <1>4, <1>5, <1>6, <1>7 DEF TypeOK, Admission

LEMMA TypeStep == TypeOK /\ [Next]_vars => TypeOK'
<1> SUFFICES ASSUME TypeOK, [Next]_vars PROVE TypeOK'
  OBVIOUS
<1>1. CASE UNCHANGED vars
  BY <1>1 DEF TypeOK, vars
<1>2. CASE Reload
  <2>1. live' \in Gens
    BY <1>2, GatewayAssumption DEF Reload, TypeOK, Gens
  <2> QED BY <1>2, <2>1 DEF Reload, TypeOK
<1>3. CASE Tick
  <2>1. now' \in Nat
    BY <1>3 DEF Tick, TypeOK
  <2> QED BY <1>3, <2>1 DEF Tick, TypeOK
<1>4. ASSUME NEW g \in Gens, NEW p \in OAuth, Expire(g, p) PROVE TypeOK'
  <2>1. valid' \in [Gens -> [OAuth -> BOOLEAN]]
    BY <1>4 DEF Expire, TypeOK
  <2> QED BY <1>4, <2>1 DEF Expire, TypeOK
<1>5. ASSUME NEW q \in Requests, Route(q) PROVE TypeOK'
  BY <1>5 DEF Route, Goto, TypeOK
<1>6. ASSUME NEW q \in Requests, Limit(q) PROVE TypeOK'
  <2> DEFINE g == gen[q]
             t == token[q]
             w == Limiter(g)!Current(t)
  <2>1. g \in Gens /\ t \in Tokens
    BY DEF TypeOK
  <2>2. w.count >= Count /\ Keep(g, t, w)
    BY <1>6 DEF Limit
  <2>3. t \in DOMAIN windows[g] /\ w = windows[g][t]
    BY <2>1, <2>2, FullWindow
  <2>9. w \in [count : 1 .. Count, resetAt : Nat]
    BY <2>1, <2>3 DEF TypeOK
  <2> HIDE DEF g, t, w
  <2>4. /\ DOMAIN windows' = Gens
        /\ \A h \in Gens : /\ DOMAIN windows'[h] \subseteq Tokens
                           /\ \A x \in DOMAIN windows'[h] :
                                windows'[h][x] \in [count : 1 .. Count, resetAt : Nat]
    BY <2>1, <2>2, <2>9, KeptType
  <2>5. pc' \in [Requests -> {"sent", "routed", "limited", "attempting", "refreshing",
                              "directed", "answered", "exhausted"}]
    BY <1>6 DEF Limit, Goto, TypeOK
  <2> QED BY <1>6, <2>4, <2>5 DEF Limit, TypeOK
<1>7. ASSUME NEW q \in Requests, Admit(q) PROVE TypeOK'
  <2> DEFINE g == gen[q]
             t == token[q]
             c == Limiter(g)!Consume(Limiter(g)!Current(t))
             e == [at |-> now, gen |-> g, until |-> c.resetAt, nth |-> c.count]
  <2>1. g \in Gens /\ t \in Tokens /\ now \in Nat
    BY DEF TypeOK
  <2>2. /\ Limiter(g)!Current(t).count < Count /\ Keep(g, t, c)
        /\ admitted' = [admitted EXCEPT ![t] = Append(@, e)]
    BY <1>7 DEF Admit
  <2>3. c \in [count : 1 .. Count, resetAt : Nat]
    BY <2>1, <2>2, Consumed
  <2>4. c.resetAt \in Nat /\ c.count \in 1 .. Count
    BY <2>3
  <2> HIDE DEF g, t, c
  <2>5. /\ DOMAIN windows' = Gens
        /\ \A h \in Gens : /\ DOMAIN windows'[h] \subseteq Tokens
                           /\ \A x \in DOMAIN windows'[h] :
                                windows'[h][x] \in [count : 1 .. Count, resetAt : Nat]
    BY <2>1, <2>2, <2>3, KeptType
  <2>6. e \in Admission
    BY <2>1, <2>4 DEF Admission
  <2> HIDE DEF e
  <2>7. admitted' \in [Tokens -> Seq(Admission)]
    <3>1. admitted \in [Tokens -> Seq(Admission)]
      BY DEF TypeOK, Admission
    <3> QED BY <2>1, <2>2, <2>6, <3>1
  <2>8. pc' \in [Requests -> {"sent", "routed", "limited", "attempting", "refreshing",
                              "directed", "answered", "exhausted"}]
    BY <1>7 DEF Admit, Goto, TypeOK
  <2> QED BY <1>7, <2>5, <2>7, <2>8 DEF Admit, TypeOK, Admission
<1>8. ASSUME NEW q \in Requests, Direct(q) PROVE TypeOK'
  BY <1>8 DEF Direct, Goto, TypeOK
<1>9. ASSUME NEW q \in Requests, Refresh(q) PROVE TypeOK'
  <2>1. lock' \in [Gens -> [OAuth -> Requests \cup {NoOne}]]
    BY <1>9 DEF Refresh, SetLock, TypeOK
  <2> QED BY <1>9, <2>1 DEF Refresh, Goto, TypeOK
<1>10. ASSUME NEW q \in Requests, Refreshed(q) PROVE TypeOK'
  <2>1. lock' \in [Gens -> [OAuth -> Requests \cup {NoOne}]]
    BY <1>10 DEF Refreshed, SetLock, TypeOK
  <2>2. valid' \in [Gens -> [OAuth -> BOOLEAN]]
    <3>1. valid' = valid \/ valid' = [valid EXCEPT ![gen[q]][Provider(q)] = TRUE]
      BY <1>10 DEF Refreshed
    <3>2. valid \in [Gens -> [OAuth -> BOOLEAN]]
      BY DEF TypeOK
    <3>3. CASE valid' = valid
      BY <3>2, <3>3
    <3>4. CASE valid' = [valid EXCEPT ![gen[q]][Provider(q)] = TRUE]
      <4> DEFINE p == Provider(q)
                 g == gen[q]
      <4>1. valid' = [valid EXCEPT ![g][p] = TRUE]
        BY <3>4
      <4> HIDE DEF p, g
      <4>2. QED BY <3>2, <4>1
    <3> QED BY <3>1, <3>3, <3>4
  <2> QED BY <1>10, <2>1, <2>2 DEF Refreshed, Goto, TypeOK
<1>11. ASSUME NEW q \in Requests, Answered(q) PROVE TypeOK'
  BY <1>11 DEF Answered, Goto, TypeOK
<1>12. ASSUME NEW q \in Requests, Retry(q) PROVE TypeOK'
  <2>1. Len(Group) \in Nat
    BY GatewayAssumption
  <2>2. member' \in [Requests -> 1 .. Len(Group)]
    <3>1. member \in [Requests -> 1 .. Len(Group)] /\ member[q] \in 1 .. Len(Group)
      BY DEF TypeOK
    <3>2. \/ UNCHANGED member
          \/ member[q] < Len(Group) /\ member' = [member EXCEPT ![q] = member[q] + 1]
      BY <1>12 DEF Retry
    <3>3. member[q] < Len(Group) => member[q] + 1 \in 1 .. Len(Group)
      BY <2>1, <3>1
    <3> QED BY <3>1, <3>2, <3>3
  <2> QED BY <1>12, <2>2 DEF Retry, Goto, TypeOK
<1> QED
  BY <1>1, <1>2, <1>3, <1>4, <1>5, <1>6, <1>7, <1>8, <1>9, <1>10, <1>11, <1>12 DEF Next

-----------------------------------------------------------------------------
LEMMA AccountingInit == Init => Accounting
<1> SUFFICES ASSUME Init, NEW t \in Tokens, NEW n \in 1 .. Len(admitted[t]) PROVE FALSE
  BY DEF Accounting
<1> QED BY DEF Init

SameWindows == \A g \in Gens : /\ DOMAIN windows'[g] = DOMAIN windows[g]
                               /\ \A t \in DOMAIN windows[g] : windows'[g][t] = windows[g][t]

(* Nothing but an admission touches the log or, in what it counts, a       *)
(* window; and the clock only goes forward.                                *)
LEMMA AccountingKept ==
  ASSUME TypeOK, Accounting, admitted' = admitted, SameWindows,
         now' \in Nat, now' >= now
  PROVE  Accounting'
<1>1. ASSUME NEW t \in Tokens, NEW n \in 1 .. Len(admitted[t]) PROVE admitted[t][n].at <= now'
  <2>1. admitted[t] \in Seq(Admission)
    BY DEF TypeOK, Admission
  <2>2. admitted[t][n] \in Admission
    BY <2>1
  <2>3. admitted[t][n].at \in Nat /\ now \in Nat
    BY <2>2 DEF TypeOK, Admission
  <2>4. admitted[t][n].at <= now
    BY DEF Accounting
  <2> QED BY <2>3, <2>4
<1>2. ASSUME NEW t \in Tokens, NEW n \in 1 .. Len(admitted[t])
      PROVE  LET e == admitted[t][n] IN
             t \in DOMAIN windows'[e.gen] /\ CountedIn(e, windows'[e.gen][t])
  <2>1. admitted[t] \in Seq(Admission)
    BY DEF TypeOK, Admission
  <2>9. admitted[t][n] \in Admission
    BY <2>1
  <2>2. admitted[t][n].gen \in Gens
    BY <2>9 DEF Admission
  <2>3. /\ t \in DOMAIN windows[admitted[t][n].gen]
        /\ CountedIn(admitted[t][n], windows[admitted[t][n].gen][t])
    BY DEF Accounting
  <2> QED BY <2>2, <2>3 DEF SameWindows
<1> QED BY <1>1, <1>2 DEF Accounting, CountedIn, Later

LEMMA LengthKept ==
  ASSUME TypeOK, NoLongWindow, SameWindows, now' \in Nat, now' >= now
  PROVE  NoLongWindow'
<1> SUFFICES ASSUME NEW g \in Gens, NEW t \in DOMAIN windows[g]
             PROVE  windows[g][t].resetAt <= now' + Window
  BY DEF NoLongWindow, SameWindows
<1>1. windows[g][t].resetAt \in Nat /\ now \in Nat /\ Window \in Nat
  BY GatewayAssumption DEF TypeOK
<1>2. windows[g][t].resetAt <= now + Window
  BY DEF NoLongWindow
<1> QED BY <1>1, <1>2

(* A window counts what it counted before one more.                        *)
LEMMA StillCounted ==
  ASSUME NEW e \in Admission, NEW w \in [count : 1 .. Count, resetAt : Nat],
         NEW c \in [count : 1 .. Count, resetAt : Nat], CountedIn(e, w),
         \/ c.resetAt = w.resetAt /\ c.count = w.count + 1
         \/ c.resetAt > w.resetAt + Window
  PROVE  CountedIn(e, c)
<1>1. /\ e.until \in Nat /\ e.nth \in Nat /\ w.resetAt \in Nat /\ w.count \in Nat
      /\ c.resetAt \in Nat /\ c.count \in Nat /\ Window \in Nat
  BY GatewayAssumption DEF Admission
<1> QED BY <1>1 DEF CountedIn

(* A new admission comes after all that the generation has made.           *)
LEMMA NewIsLater ==
  ASSUME NEW d \in Admission, NEW e \in Admission,
         NEW w \in [count : 1 .. Count, resetAt : Nat], CountedIn(d, w),
         \/ e.until = w.resetAt /\ e.nth = w.count + 1 /\ e.at <= w.resetAt
         \/ e.until = e.at + Window /\ e.at > w.resetAt,
         e.until >= e.at,
         d.until + Window < w.resetAt => d.until < e.at
  PROVE  Later(d, e)
<1>1. /\ d.until \in Nat /\ d.nth \in Nat /\ w.resetAt \in Nat /\ w.count \in Nat
      /\ e.until \in Nat /\ e.nth \in Nat /\ e.at \in Nat /\ Window \in Nat
  BY GatewayAssumption DEF Admission
<1> QED BY <1>1 DEF CountedIn, Later

(* A request that is limited leaves the window it was limited by.          *)
LEMMA LimitKeeps ==
  ASSUME TypeOK, NEW q \in Requests, Limit(q) PROVE SameWindows
<1> DEFINE g == gen[q]
           t == token[q]
           w == Limiter(g)!Current(t)
<1>1. g \in Gens /\ t \in Tokens
  BY DEF TypeOK
<1>2. w.count >= Count /\ Keep(g, t, w)
  BY DEF Limit
<1>3. t \in DOMAIN windows[g] /\ w = windows[g][t]
  BY <1>1, <1>2, FullWindow
<1> HIDE DEF g, t, w
<1>4. /\ DOMAIN windows'[g] = DOMAIN windows[g] \cup {t}
      /\ windows'[g][t] = w
      /\ \A x \in DOMAIN windows[g] : x # t => windows'[g][x] = windows[g][x]
      /\ \A h \in Gens : h # g => windows'[h] = windows[h]
  BY <1>1, <1>2, Kept
<1>5. DOMAIN windows'[g] = DOMAIN windows[g]
  BY <1>3, <1>4
<1>6. \A x \in DOMAIN windows[g] : windows'[g][x] = windows[g][x]
  BY <1>3, <1>4
<1> QED BY <1>4, <1>5, <1>6 DEF SameWindows

(* An admission keeps the accounts.                                        *)
LEMMA AdmitStep ==
  ASSUME TypeOK, TypeOK', NoLongWindow, Accounting, NEW q \in Requests, Admit(q)
  PROVE  NoLongWindow' /\ Accounting'
<1> DEFINE g == gen[q]
           t == token[q]
           c == Limiter(g)!Consume(Limiter(g)!Current(t))
           e == [at |-> now, gen |-> g, until |-> c.resetAt, nth |-> c.count]
           Win == [count : 1 .. Count, resetAt : Nat]
<1>1. g \in Gens /\ t \in Tokens /\ now \in Nat /\ Window \in Nat /\ Count \in Nat
  BY GatewayAssumption DEF TypeOK
<1>2. /\ Limiter(g)!Current(t).count < Count /\ Keep(g, t, c)
      /\ admitted' = [admitted EXCEPT ![t] = Append(@, e)] /\ now' = now
  BY DEF Admit
<1>3. /\ c \in Win /\ c.resetAt >= now
      /\ \/ /\ t \in DOMAIN windows[g] /\ c.resetAt = windows[g][t].resetAt
            /\ c.count = windows[g][t].count + 1 /\ c.count > 1
         \/ /\ c.count = 1 /\ c.resetAt = now + Window
            /\ t \in DOMAIN windows[g] => now > windows[g][t].resetAt
  BY <1>1, <1>2, Consumed
<1>4. e.at = now /\ e.gen = g /\ e.until = c.resetAt /\ e.nth = c.count
  OBVIOUS
<1>5. /\ DOMAIN windows' = Gens
      /\ DOMAIN windows'[g] = DOMAIN windows[g] \cup {t}
      /\ windows'[g][t] = c
      /\ \A x \in DOMAIN windows[g] : x # t => windows'[g][x] = windows[g][x]
      /\ \A h \in Gens : h # g => windows'[h] = windows[h]
  BY <1>1, <1>2, Kept
<1>6. t \in DOMAIN windows[g] => windows[g][t] \in Win /\ windows[g][t].resetAt <= now + Window
  BY <1>1 DEF TypeOK, NoLongWindow
<1>7. c.resetAt \in Nat /\ c.count \in 1 .. Count
  BY <1>3
<1>8. e \in Admission
  BY <1>1, <1>7 DEF Admission
<1> HIDE DEF e, c, g, t
<1>9. NoLongWindow'
  <2> SUFFICES ASSUME NEW h \in Gens, NEW x \in DOMAIN windows'[h]
               PROVE  windows'[h][x].resetAt <= now + Window
    BY <1>2 DEF NoLongWindow
  <2>1. CASE h = g /\ x = t
    <3>1. c.resetAt <= now + Window
      BY <1>1, <1>3, <1>6, <1>7
    <3> QED BY <1>5, <2>1, <3>1
  <2>2. CASE h = g /\ x # t
    BY <1>1, <1>5, <2>2 DEF NoLongWindow
  <2>3. CASE h # g
    BY <1>5, <2>3 DEF NoLongWindow
  <2> QED BY <2>1, <2>2, <2>3
<1>10. ASSUME NEW u \in Tokens, u # t, NEW n \in 1 .. Len(admitted[u])
       PROVE  LET d == admitted[u][n] IN u \in DOMAIN windows'[d.gen] /\ windows'[d.gen][u] = windows[d.gen][u]
  <2>1. admitted[u] \in Seq(Admission)
    BY DEF TypeOK, Admission
  <2>2. admitted[u][n] \in Admission
    BY <2>1
  <2>3. admitted[u][n].gen \in Gens
    BY <2>2 DEF Admission
  <2>4. u \in DOMAIN windows[admitted[u][n].gen]
    BY DEF Accounting
  <2> QED BY <1>5, <1>10, <2>3, <2>4
<1>11. ASSUME NEW n \in 1 .. Len(admitted[t])
       PROVE  LET d == admitted[t][n] IN
              /\ d \in Admission /\ d.at <= now
              /\ t \in DOMAIN windows'[d.gen] /\ CountedIn(d, windows'[d.gen][t])
              /\ d.gen = g => Later(d, e)
  <2> DEFINE d == admitted[t][n]
             w == windows[g][t]
  <2>1. d \in Admission
    <3>1. admitted[t] \in Seq(Admission)
      BY <1>1 DEF TypeOK, Admission
    <3> QED BY <3>1
  <2>2. d.at \in Nat /\ d.gen \in Gens /\ d.until \in Nat
    BY <2>1 DEF Admission
  <2>3. /\ d.at <= now /\ t \in DOMAIN windows[d.gen] /\ CountedIn(d, windows[d.gen][t])
    BY <1>1 DEF Accounting
  <2> HIDE DEF d
  <2>4. CASE d.gen # g
    BY <1>5, <2>1, <2>2, <2>3, <2>4 DEF d
  <2>5. CASE d.gen = g
    <3>1. t \in DOMAIN windows[g] /\ CountedIn(d, w)
      BY <2>3, <2>5
    <3>2. w \in Win /\ w.resetAt <= now + Window
      BY <1>6, <3>1
    <3>3. w.resetAt \in Nat /\ w.count \in Nat
      BY <3>2
    <3> HIDE DEF w
    <3>4. \/ c.resetAt = w.resetAt /\ c.count = w.count + 1
          \/ c.resetAt = now + Window /\ now > w.resetAt
      BY <1>3, <3>1 DEF w
    <3>5. (c.resetAt = w.resetAt /\ c.count = w.count + 1) \/ c.resetAt > w.resetAt + Window
      BY <1>1, <1>7, <3>3, <3>4
    <3>6. CountedIn(d, c)
      BY <1>3, <2>1, <3>1, <3>2, <3>5, StillCounted
    <3>7. d.until + Window < w.resetAt => d.until < e.at
      BY <1>1, <1>4, <2>2, <3>2, <3>3
    <3>8. \/ e.until = w.resetAt /\ e.nth = w.count + 1 /\ e.at <= w.resetAt
          \/ e.until = e.at + Window /\ e.at > w.resetAt
      BY <1>1, <1>3, <1>4, <1>7, <3>3, <3>4
    <3>9. e.until >= e.at
      BY <1>3, <1>4
    <3>10. Later(d, e)
      BY <1>8, <2>1, <3>1, <3>2, <3>7, <3>8, <3>9, NewIsLater
    <3> QED BY <1>5, <2>1, <2>3, <2>5, <3>6, <3>10 DEF d
  <2> QED BY <2>4, <2>5
<1>12. /\ e.at <= now /\ e.at <= e.until
       /\ e.nth = 1 => e.until = e.at + Window
       /\ t \in DOMAIN windows'[e.gen] /\ CountedIn(e, windows'[e.gen][t])
  <2>1. e.at <= now /\ e.at <= e.until
    BY <1>1, <1>3, <1>4, <1>7
  <2>2. e.nth = 1 => e.until = e.at + Window
    BY <1>1, <1>3, <1>4, <1>7
  <2>3. CountedIn(e, c)
    BY <1>4, <1>7 DEF CountedIn
  <2> QED BY <1>4, <1>5, <2>1, <2>2, <2>3
<1>13. Accounting'
  <2> SUFFICES ASSUME NEW u \in Tokens, NEW n \in 1 .. Len(admitted'[u])
               PROVE  LET d == admitted'[u][n] IN
                      /\ d.at <= now /\ d.at <= d.until
                      /\ d.nth = 1 => d.until = d.at + Window
                      /\ u \in DOMAIN windows'[d.gen] /\ CountedIn(d, windows'[d.gen][u])
                      /\ \A m \in 1 .. n - 1 : /\ admitted'[u][m].at <= d.at
                                               /\ admitted'[u][m].gen = d.gen => Later(admitted'[u][m], d)
    BY <1>2 DEF Accounting, CountedIn, Later
  <2>1. admitted \in [Tokens -> Seq(Admission)]
    BY DEF TypeOK, Admission
  <2>2. CASE u # t
    <3>1. admitted'[u] = admitted[u]
      BY <1>2, <2>1, <2>2
    <3> QED BY <1>10, <2>2, <3>1 DEF Accounting
  <2>3. CASE u = t
    <3>1. /\ admitted[t] \in Seq(Admission) /\ Len(admitted[t]) \in Nat
          /\ admitted'[t] = Append(admitted[t], e)
      BY <1>1, <1>2, <2>1
    <3>2. /\ Len(admitted'[t]) = Len(admitted[t]) + 1
          /\ \A m \in 1 .. Len(admitted[t]) : admitted'[t][m] = admitted[t][m]
          /\ admitted'[t][Len(admitted[t]) + 1] = e
      BY <1>8, <3>1
    <3>3. CASE n \in 1 .. Len(admitted[t])
      <4>1. \A m \in 1 .. n - 1 : m \in 1 .. Len(admitted[t])
        BY <3>1, <3>3
      <4>2. admitted'[t][n] = admitted[t][n] /\ \A m \in 1 .. n - 1 : admitted'[t][m] = admitted[t][m]
        BY <3>2, <3>3, <4>1
      <4>3. LET d == admitted[t][n] IN
            /\ d.at <= now /\ d.at <= d.until
            /\ d.nth = 1 => d.until = d.at + Window
            /\ \A m \in 1 .. n - 1 : /\ admitted[t][m].at <= d.at
                                     /\ admitted[t][m].gen = d.gen => Later(admitted[t][m], d)
        BY <1>1, <3>3 DEF Accounting
      <4> QED BY <1>11, <2>3, <3>3, <4>2, <4>3
    <3>4. CASE n = Len(admitted[t]) + 1
      <4>1. \A m \in 1 .. n - 1 : m \in 1 .. Len(admitted[t]) /\ admitted'[t][m] = admitted[t][m]
        BY <3>1, <3>2, <3>4
      <4>2. admitted'[t][n] = e
        BY <3>2, <3>4
      <4>3. \A m \in 1 .. n - 1 : /\ admitted'[t][m].at <= e.at
                                  /\ admitted'[t][m].gen = e.gen => Later(admitted'[t][m], e)
        BY <1>4, <1>11, <4>1
      <4> QED BY <1>12, <2>3, <4>2, <4>3
    <3> QED BY <2>3, <3>1, <3>2, <3>3, <3>4
  <2> QED BY <2>2, <2>3
<1> QED BY <1>9, <1>13

(* A request that is not refreshing, before and after, leaves the sources. *)
LEMMA Bystander ==
  ASSUME SourcesHeld, NEW q \in Requests, lock' = lock,
         pc[q] # "refreshing", pc'[q] # "refreshing",
         \A x \in Requests \ {q} :
           pc'[x] = pc[x] /\ gen'[x] = gen[x] /\ member'[x] = member[x],
         NoOne \notin Requests, lock \in [Gens -> [OAuth -> Requests \cup {NoOne}]]
  PROVE  SourcesHeld'
<1>1. ASSUME NEW x \in Requests, pc'[x] = "refreshing"
      PROVE  Group[member'[x]] \in OAuth /\ lock'[gen'[x]][Group[member'[x]]] = x
  BY <1>1 DEF SourcesHeld, Provider
<1>2. ASSUME NEW g \in Gens, NEW p \in OAuth, lock'[g][p] # NoOne
      PROVE  LET x == lock'[g][p] IN pc'[x] = "refreshing" /\ gen'[x] = g /\ Group[member'[x]] = p
  <2> DEFINE x == lock[g][p]
  <2>1. x \in Requests /\ pc[x] = "refreshing" /\ gen[x] = g /\ Provider(x) = p
    BY <1>2 DEF SourcesHeld
  <2> HIDE DEF x
  <2>2. x # q
    BY <2>1
  <2>3. pc'[x] = "refreshing" /\ gen'[x] = g /\ Group[member'[x]] = p
    BY <2>1, <2>2 DEF Provider
  <2> QED BY <2>3 DEF x
<1> QED BY <1>1, <1>2 DEF SourcesHeld, Provider

(* A refresh takes a mutex that no one holds ...                           *)
LEMMA RefreshHolds ==
  ASSUME TypeOK, SourcesHeld, NEW q \in Requests, Refresh(q)
  PROVE  SourcesHeld'
<1> DEFINE g == gen[q]
           p == Provider(q)
<1>1. /\ g \in Gens /\ p \in OAuth /\ lock[g][p] = NoOne /\ NoOne \notin Requests
      /\ lock \in [Gens -> [OAuth -> Requests \cup {NoOne}]]
      /\ lock' = [lock EXCEPT ![g][p] = q]
      /\ pc[q] = "attempting" /\ pc' = [pc EXCEPT ![q] = "refreshing"] /\ pc'[q] = "refreshing"
      /\ gen' = gen /\ member' = member
      /\ \A x \in Requests \ {q} : pc'[x] = pc[x]
  BY GatewayAssumption DEF Refresh, SetLock, Goto, TypeOK
<1>2. \A x \in Requests : Group[member'[x]] = Provider(x)
  BY <1>1 DEF Provider
<1>3. g = gen[q] /\ p = Provider(q)
  OBVIOUS
<1> HIDE DEF g, p
<1>4. \A h \in Gens, o \in OAuth :
        lock'[h][o] = IF h = g /\ o = p THEN q ELSE lock[h][o]
  BY <1>1
<1>5. ASSUME NEW x \in Requests, pc'[x] = "refreshing"
      PROVE  Group[member'[x]] \in OAuth /\ lock'[gen'[x]][Group[member'[x]]] = x
  <2>1. CASE x = q
    BY <1>1, <1>2, <1>3, <1>4, <2>1
  <2>2. CASE x # q
    <3>1. Provider(x) \in OAuth /\ lock[gen[x]][Provider(x)] = x /\ gen[x] \in Gens
      BY <1>1, <1>5, <2>2 DEF SourcesHeld, TypeOK
    <3>2. ~ (gen[x] = g /\ Provider(x) = p)
      BY <1>1, <3>1
    <3> QED BY <1>1, <1>2, <1>4, <3>1, <3>2
  <2> QED BY <2>1, <2>2
<1>6. ASSUME NEW h \in Gens, NEW o \in OAuth, lock'[h][o] # NoOne
      PROVE  LET x == lock'[h][o] IN pc'[x] = "refreshing" /\ gen'[x] = h /\ Group[member'[x]] = o
  <2>1. CASE h = g /\ o = p
    <3>1. lock'[h][o] = q
      BY <1>4, <2>1
    <3> QED BY <1>1, <1>2, <1>3, <2>1, <3>1
  <2>2. CASE ~ (h = g /\ o = p)
    <3> DEFINE x == lock[h][o]
    <3>1. lock'[h][o] = x /\ x # NoOne
      BY <1>4, <1>6, <2>2
    <3>2. x \in Requests /\ pc[x] = "refreshing" /\ gen[x] = h /\ Provider(x) = o
      BY <1>1, <3>1 DEF SourcesHeld
    <3> HIDE DEF x
    <3>3. x # q
      BY <1>1, <3>2
    <3> QED BY <1>1, <1>2, <3>1, <3>2, <3>3
  <2> QED BY <2>1, <2>2
<1> QED BY <1>5, <1>6 DEF SourcesHeld, Provider

(* ... and gives back its own.                                             *)
LEMMA RefreshedReleases ==
  ASSUME TypeOK, SourcesHeld, NEW q \in Requests, Refreshed(q)
  PROVE  SourcesHeld'
<1> DEFINE g == gen[q]
           p == Provider(q)
<1>1. /\ g \in Gens /\ NoOne \notin Requests
      /\ lock \in [Gens -> [OAuth -> Requests \cup {NoOne}]]
      /\ lock' = [lock EXCEPT ![g][p] = NoOne]
      /\ pc[q] = "refreshing" /\ pc' = [pc EXCEPT ![q] = "directed"] /\ pc'[q] # "refreshing"
      /\ gen' = gen /\ member' = member
      /\ \A x \in Requests \ {q} : pc'[x] = pc[x]
  BY GatewayAssumption DEF Refreshed, SetLock, Goto, TypeOK
<1>2. \A x \in Requests : Group[member'[x]] = Provider(x)
  BY <1>1 DEF Provider
<1>3. g = gen[q] /\ p = Provider(q) /\ p \in OAuth /\ lock[g][p] = q
  BY <1>1 DEF SourcesHeld
<1> HIDE DEF g, p
<1>4. \A h \in Gens, o \in OAuth :
        lock'[h][o] = IF h = g /\ o = p THEN NoOne ELSE lock[h][o]
  BY <1>1, <1>3
<1>5. ASSUME NEW x \in Requests, pc'[x] = "refreshing"
      PROVE  Group[member'[x]] \in OAuth /\ lock'[gen'[x]][Group[member'[x]]] = x
  <2>1. x # q /\ pc[x] = "refreshing"
    BY <1>1, <1>5
  <2>2. Provider(x) \in OAuth /\ lock[gen[x]][Provider(x)] = x /\ gen[x] \in Gens
    BY <2>1 DEF SourcesHeld, TypeOK
  <2>3. ~ (gen[x] = g /\ Provider(x) = p)
    BY <1>3, <2>1, <2>2
  <2> QED BY <1>1, <1>2, <1>4, <2>2, <2>3
<1>6. ASSUME NEW h \in Gens, NEW o \in OAuth, lock'[h][o] # NoOne
      PROVE  LET x == lock'[h][o] IN pc'[x] = "refreshing" /\ gen'[x] = h /\ Group[member'[x]] = o
  <2> DEFINE x == lock[h][o]
  <2>1. lock'[h][o] = x /\ x # NoOne /\ ~ (h = g /\ o = p)
    BY <1>4, <1>6
  <2>2. x \in Requests /\ pc[x] = "refreshing" /\ gen[x] = h /\ Provider(x) = o
    BY <1>1, <2>1 DEF SourcesHeld
  <2> HIDE DEF x
  <2>3. x # q
    BY <1>3, <2>1, <2>2
  <2> QED BY <1>1, <1>2, <2>1, <2>2, <2>3
<1> QED BY <1>5, <1>6 DEF SourcesHeld, Provider

LEMMA SourcesStep == TypeOK /\ SourcesHeld /\ [Next]_vars => SourcesHeld'
<1> SUFFICES ASSUME TypeOK, SourcesHeld, [Next]_vars PROVE SourcesHeld'
  OBVIOUS
<1>1. /\ NoOne \notin Requests /\ lock \in [Gens -> [OAuth -> Requests \cup {NoOne}]]
  BY GatewayAssumption DEF TypeOK
<1>2. ASSUME UNCHANGED <<pc, gen, member, lock>> PROVE SourcesHeld'
  BY <1>2 DEF SourcesHeld, Provider
<1>3. CASE Reload \/ Tick \/ UNCHANGED vars
  BY <1>2, <1>3 DEF Reload, Tick, vars
<1>4. CASE \E g \in Gens, p \in OAuth : Expire(g, p)
  BY <1>2, <1>4 DEF Expire
<1>5. ASSUME NEW q \in Requests, NEW l, l # "refreshing", pc[q] # "refreshing",
             pc' = [pc EXCEPT ![q] = l], lock' = lock,
             \A x \in Requests \ {q} : gen'[x] = gen[x] /\ member'[x] = member[x]
      PROVE  SourcesHeld'
  <2>1. pc'[q] = l /\ \A x \in Requests \ {q} : pc'[x] = pc[x]
    BY <1>5 DEF TypeOK
  <2> QED BY <1>1, <1>5, <2>1, Bystander
<1>6. ASSUME NEW q \in Requests, Route(q) PROVE SourcesHeld'
  BY <1>5, <1>6 DEF Route, Goto, TypeOK
<1>7. ASSUME NEW q \in Requests, Limit(q) PROVE SourcesHeld'
  BY <1>5, <1>7 DEF Limit, Goto
<1>8. ASSUME NEW q \in Requests, Admit(q) PROVE SourcesHeld'
  BY <1>5, <1>8 DEF Admit, Goto
<1>9. ASSUME NEW q \in Requests, Direct(q) PROVE SourcesHeld'
  BY <1>5, <1>9 DEF Direct, Goto
<1>10. ASSUME NEW q \in Requests, Answered(q) PROVE SourcesHeld'
  BY <1>5, <1>10 DEF Answered, Goto
<1>11. ASSUME NEW q \in Requests, Retry(q) PROVE SourcesHeld'
  <2>1. \A x \in Requests \ {q} : gen'[x] = gen[x] /\ member'[x] = member[x]
    BY <1>11 DEF Retry, TypeOK
  <2>2. lock' = lock /\ pc[q] = "directed"
        /\ (pc' = [pc EXCEPT ![q] = "attempting"] \/ pc' = [pc EXCEPT ![q] = "exhausted"])
    BY <1>11 DEF Retry, Goto
  <2> QED BY <1>5, <2>1, <2>2
<1>12. ASSUME NEW q \in Requests, Refresh(q) \/ Refreshed(q) PROVE SourcesHeld'
  BY <1>12, RefreshHolds, RefreshedReleases
<1> QED
  BY <1>3, <1>4, <1>6, <1>7, <1>8, <1>9, <1>10, <1>11, <1>12 DEF Next

LEMMA Inductive == IInv /\ [Next]_vars => IInv'
<1> SUFFICES ASSUME IInv, [Next]_vars PROVE IInv'
  OBVIOUS
<1>1. TypeOK /\ NoLongWindow /\ Accounting /\ now \in Nat
  BY DEF IInv, TypeOK
<1>2. TypeOK' /\ SourcesHeld'
  BY <1>1, TypeStep, SourcesStep DEF IInv
<1>3. ASSUME admitted' = admitted, SameWindows, now' = now \/ now' = now + 1 PROVE IInv'
  <2>1. now' \in Nat /\ now' >= now
    BY <1>1, <1>3
  <2> QED BY <1>1, <1>2, <1>3, <2>1, AccountingKept, LengthKept DEF IInv
<1>4. ASSUME UNCHANGED <<windows, admitted, now>> PROVE IInv'
  BY <1>3, <1>4 DEF SameWindows
<1>5. CASE Tick
  BY <1>3, <1>5 DEF Tick, SameWindows
<1>6. ASSUME NEW q \in Requests, Admit(q) PROVE IInv'
  BY <1>1, <1>2, <1>6, AdmitStep DEF IInv
<1>7. ASSUME NEW q \in Requests, Limit(q) PROVE IInv'
  <2>1. admitted' = admitted /\ now' = now
    BY <1>7 DEF Limit
  <2> QED BY <1>1, <1>3, <1>7, <2>1, LimitKeeps
<1>8. CASE Reload
  BY <1>4, <1>8 DEF Reload
<1>9. CASE \E g \in Gens, p \in OAuth : Expire(g, p)
  BY <1>4, <1>9 DEF Expire
<1>10. ASSUME NEW q \in Requests,
              \/ Route(q) \/ Direct(q) \/ Refresh(q) \/ Refreshed(q) \/ Answered(q) \/ Retry(q)
       PROVE  IInv'
  BY <1>4, <1>10 DEF Route, Direct, Refresh, Refreshed, Answered, Retry
<1>11. CASE UNCHANGED vars
  BY <1>4, <1>11 DEF vars
<1> QED
  BY <1>5, <1>6, <1>7, <1>8, <1>9, <1>10, <1>11 DEF Next

(* In every state the log of admissions agrees with the windows of the     *)
(* generations: each window counts its generation's latest admissions, and *)
(* a generation opens a window only when its last one has ended            *)
(* (ratelimit.go:112, server.go:130).                                      *)
THEOREM Invariance == Spec => []IInv
<1>1. Init => IInv
  BY TypeInit, AccountingInit DEF IInv, NoLongWindow, SourcesHeld, Init
<1> QED
  BY <1>1, Inductive, PTL DEF Spec

-----------------------------------------------------------------------------
(* The place of an admission made between a and a + Window among those of  *)
(* its generation: of the window that ends in that time its number, of the *)
(* one after it those that follow, the last sharing the first's, which     *)
(* only a window opened at a or later could use as well.                   *)
Slot(e, a) == IF e.until <= a + Window THEN e.nth
              ELSE IF e.nth < Count THEN Count + e.nth ELSE 1

LEMMA SlotRange ==
  ASSUME NEW e \in Admission, NEW a \in Nat PROVE Slot(e, a) \in 1 .. 2 * Count - 1
<1>1. e.until \in Nat /\ e.nth \in 1 .. Count /\ Window \in Nat /\ Count \in Nat \ {0}
  BY GatewayAssumption DEF Admission
<1> QED BY <1>1 DEF Slot

LEMMA SlotsDiffer ==
  ASSUME NEW d \in Admission, NEW e \in Admission, NEW a \in Nat, Later(d, e),
         a <= d.at, d.at <= e.at, e.at <= a + Window,
         d.at <= d.until, d.nth = 1 => d.until = d.at + Window
  PROVE  Slot(d, a) # Slot(e, a)
<1>1. /\ d.until \in Nat /\ d.nth \in 1 .. Count /\ d.at \in Nat
      /\ e.until \in Nat /\ e.nth \in 1 .. Count /\ e.at \in Nat
      /\ Window \in Nat /\ Count \in Nat \ {0}
  BY GatewayAssumption DEF Admission
<1>2. CASE d.until = e.until /\ d.nth < e.nth
  BY <1>1, <1>2 DEF Slot
<1>3. CASE d.until < e.at /\ d.until + Window < e.until
  <2>1. d.until <= a + Window /\ ~ (e.until <= a + Window)
    BY <1>1, <1>3
  <2>2. d.nth # 1
    BY <1>1, <1>3
  <2> QED BY <1>1, <2>1, <2>2 DEF Slot
<1> QED BY <1>2, <1>3 DEF Later

(* Of the admissions between the i-th and the j-th, at most a window later,*)
(* no two of one generation have the same place.                           *)
LEMMA SlotsApart ==
  ASSUME IInv, NEW t \in Tokens, NEW i \in 1 .. Len(admitted[t]), NEW j \in 1 .. Len(admitted[t]),
         i <= j, admitted[t][j].at <= admitted[t][i].at + Window
  PROVE  /\ \A n \in i .. j : /\ admitted[t][n] \in Admission
                              /\ Slot(admitted[t][n], admitted[t][i].at) \in 1 .. 2 * Count - 1
         /\ \A m, n \in i .. j :
              m < n /\ admitted[t][m].gen = admitted[t][n].gen =>
                Slot(admitted[t][m], admitted[t][i].at) # Slot(admitted[t][n], admitted[t][i].at)
<1> DEFINE log == admitted[t]
           a == log[i].at
<1>1. log \in Seq(Admission)
  BY DEF IInv, TypeOK, Admission
<1>2. i .. j \subseteq 1 .. Len(log) /\ i \in Nat /\ j \in Nat /\ Len(log) \in Nat
  BY <1>1
<1>3. \A n \in 1 .. Len(log) : log[n] \in Admission
  BY <1>1
<1>4. a \in Nat /\ Window \in Nat /\ Count \in Nat \ {0}
  BY <1>3, GatewayAssumption DEF Admission
<1>5. \A n \in 1 .. Len(log) : /\ log[n].at <= log[n].until
                               /\ log[n].nth = 1 => log[n].until = log[n].at + Window
  BY DEF IInv, Accounting
<1>6. \A n \in 1 .. Len(log) : \A m \in 1 .. n - 1 :
        /\ log[m].at <= log[n].at
        /\ log[m].gen = log[n].gen => Later(log[m], log[n])
  BY DEF IInv, Accounting
<1>7. log[j].at <= a + Window
  OBVIOUS
<1> HIDE DEF log
<1>8. ASSUME NEW n \in i .. j PROVE a <= log[n].at /\ log[n].at <= a + Window
  <2>1. log[n].at \in Nat /\ log[i].at \in Nat /\ log[j].at \in Nat
    BY <1>2, <1>3 DEF Admission
  <2>2. a <= log[n].at
    <3>1. CASE n = i
      BY <2>1, <3>1
    <3>2. CASE n # i
      <4>1. i \in 1 .. n - 1 /\ n \in 1 .. Len(log)
        BY <1>2, <3>2
      <4> QED BY <1>6, <4>1
    <3> QED BY <3>1, <3>2
  <2>3. log[n].at <= log[j].at
    <3>1. CASE n = j
      BY <2>1, <3>1
    <3>2. CASE n # j
      <4>1. n \in 1 .. j - 1 /\ j \in 1 .. Len(log)
        BY <1>2, <3>2
      <4> QED BY <1>6, <4>1
    <3> QED BY <3>1, <3>2
  <2>4. a + Window \in Nat
    BY <1>4
  <2> HIDE DEF a
  <2> QED BY <1>7, <2>1, <2>2, <2>3, <2>4
<1> HIDE DEF a
<1>9. ASSUME NEW m \in i .. j, NEW n \in i .. j, m < n, log[m].gen = log[n].gen
      PROVE  Slot(log[m], a) # Slot(log[n], a)
  <2>1. m \in 1 .. n - 1 /\ m \in 1 .. Len(log) /\ n \in 1 .. Len(log)
    BY <1>2, <1>9
  <2>2. /\ log[m] \in Admission /\ log[n] \in Admission
        /\ Later(log[m], log[n]) /\ log[m].at <= log[n].at
        /\ log[m].at <= log[m].until
        /\ log[m].nth = 1 => log[m].until = log[m].at + Window
    BY <1>3, <1>5, <1>6, <1>9, <2>1
  <2>3. a <= log[m].at /\ log[n].at <= a + Window
    BY <1>8
  <2> QED BY <1>4, <2>2, <2>3, SlotsDiffer
<1>10. ASSUME NEW n \in i .. j
       PROVE  log[n] \in Admission /\ Slot(log[n], a) \in 1 .. 2 * Count - 1
  <2>1. log[n] \in Admission
    BY <1>2, <1>3
  <2> QED BY <1>4, <2>1, SlotRange
<1> QED BY <1>9, <1>10 DEF log, a

(* There are as many places as one generation may admit.                   *)
LEMMA Places ==
  IsFiniteSet(1 .. 2 * Count - 1) /\ Cardinality(1 .. 2 * Count - 1) = 2 * Count - 1
<1>1. 2 * Count - 1 \in Nat /\ 2 * Count - 1 >= 1
  BY GatewayAssumption
<1> QED BY <1>1, FS_Interval

(* One generation's admissions have room in its places.                    *)
LEMMA OwnSlots ==
  ASSUME IInv, NEW t \in Tokens, NEW i \in 1 .. Len(admitted[t]), NEW j \in 1 .. Len(admitted[t]),
         NEW g \in Gens,
         i <= j, admitted[t][j].at <= admitted[t][i].at + Window
  PROVE  Cardinality({n \in i .. j : admitted[t][n].gen = g}) <= 2 * Count - 1
<1> DEFINE log == admitted[t]
           a == log[i].at
           own == {n \in i .. j : log[n].gen = g}
           places == 1 .. 2 * Count - 1
           f == [n \in own |-> Slot(log[n], a)]
<1>1. /\ \A n \in i .. j : Slot(log[n], a) \in places
      /\ \A m, n \in i .. j : m < n /\ log[m].gen = log[n].gen => Slot(log[m], a) # Slot(log[n], a)
      /\ i .. j \subseteq Int
  BY SlotsApart
<1> HIDE DEF log, a, places
<1>2. f \in [own -> places]
  BY <1>1
<1>3. \A m, n \in own : f[m] = f[n] => m = n
  <2> SUFFICES ASSUME NEW m \in own, NEW n \in own, Slot(log[m], a) = Slot(log[n], a), m # n
               PROVE  FALSE
    OBVIOUS
  <2>1. m \in i .. j /\ n \in i .. j /\ log[m].gen = log[n].gen
    OBVIOUS
  <2>2. m < n \/ n < m
    BY <1>1, <2>1
  <2> QED BY <1>1, <2>1, <2>2
<1> HIDE DEF own
<1>4. f \in Injection(own, places)
  <2> HIDE DEF f
  <2> QED BY <1>2, <1>3 DEF Injection, IsInjective
<1>5. Cardinality(own) <= Cardinality(places)
  BY <1>4, Places, FS_Injection DEF places
<1> QED BY <1>5, Places DEF own, places, log

LEMMA Slots ==
  ASSUME IInv, NEW t \in Tokens, NEW i \in 1 .. Len(admitted[t]), NEW j \in 1 .. Len(admitted[t]),
         i <= j, admitted[t][j].at <= admitted[t][i].at + Window
  PROVE  j - i + 1 <= (2 * Count - 1) * Cardinality({admitted[t][n].gen : n \in i .. j})
<1> DEFINE log == admitted[t]
           a == log[i].at
           granting == {log[n].gen : n \in i .. j}
           places == 1 .. 2 * Count - 1
           f == [n \in i .. j |-> <<log[n].gen, Slot(log[n], a)>>]
<1>1. /\ \A n \in i .. j : log[n] \in Admission /\ Slot(log[n], a) \in places
      /\ \A m, n \in i .. j : m < n /\ log[m].gen = log[n].gen => Slot(log[m], a) # Slot(log[n], a)
  BY SlotsApart
<1>2. i \in Nat /\ j \in Nat /\ i .. j \subseteq Int
  OBVIOUS
<1>4. Count \in Nat \ {0}
  BY GatewayAssumption
<1> HIDE DEF log, a
<1>9. ASSUME NEW m \in i .. j, NEW n \in i .. j, m < n PROVE f[m] # f[n]
  BY <1>1, <1>9
<1>10. f \in [i .. j -> granting \X places]
  BY <1>1
<1>11. \A m, n \in i .. j : f[m] = f[n] => m = n
  <2> SUFFICES ASSUME NEW m \in i .. j, NEW n \in i .. j, f[m] = f[n], m # n PROVE FALSE
    OBVIOUS
  <2> HIDE DEF f
  <2>1. m < n \/ n < m
    BY <1>2
  <2> QED BY <1>9, <2>1
<1>12. IsFiniteSet(granting)
  <2>1. granting \subseteq Gens
    BY <1>1 DEF Admission
  <2>2. MaxGen \in Int /\ 1 \in Int
    BY GatewayAssumption
  <2>3. IsFiniteSet(Gens)
    BY <2>2, FS_Interval DEF Gens
  <2> QED BY <2>1, <2>3, FS_Subset
<1>13. IsFiniteSet(places) /\ Cardinality(places) = 2 * Count - 1
  BY Places
<1>14. Cardinality(i .. j) = j - i + 1
  BY <1>2, FS_Interval
<1>15. f \in Injection(i .. j, granting \X places)
  <2> HIDE DEF f
  <2> QED BY <1>10, <1>11 DEF Injection, IsInjective
<1> HIDE DEF f, granting, places
<1>16. /\ IsFiniteSet(granting \X places)
       /\ Cardinality(granting \X places) = Cardinality(granting) * Cardinality(places)
  BY <1>12, <1>13, FS_Product
<1>17. Cardinality(i .. j) <= Cardinality(granting \X places)
  BY <1>15, <1>16, FS_Injection
<1>18. Cardinality(granting) \in Nat
  BY <1>12, FS_CardinalityType
<1> DEFINE k == Cardinality(granting)
           c == 2 * Count - 1
<1>19. k * c = c * k /\ c \in Nat
  BY <1>4, <1>18
<1>20. j - i + 1 <= c * k
  <2> HIDE DEF k, c
  <2>1. Cardinality(granting \X places) = k * c
    BY <1>13, <1>16 DEF k, c
  <2> QED BY <1>14, <1>17, <1>19, <2>1
<1> QED BY <1>20 DEF granting, log

(* A generation, live or superseded, gives a token no more than its own    *)
(* limiter's quota of a window (server.go:130, ratelimit.go:112).          *)
THEOREM QuotaOfEachLoad == Spec => []QuotaPerGeneration
<1>1. IInv => QuotaPerGeneration
  <2> SUFFICES ASSUME IInv, NEW t \in Tokens, NEW g \in Gens,
                      NEW i \in 1 .. Len(admitted[t]), NEW j \in 1 .. Len(admitted[t]),
                      Cardinality({n \in i .. j : admitted[t][n].gen = g}) > 2 * Count - 1
               PROVE  admitted[t][j].at > admitted[t][i].at + Window
    BY DEF QuotaPerGeneration
  <2> DEFINE own == {n \in i .. j : admitted[t][n].gen = g}
             d == admitted[t][i]
             e == admitted[t][j]
  <2>1. admitted[t] \in Seq(Admission)
    BY DEF IInv, TypeOK, Admission
  <2>2. d \in Admission /\ e \in Admission /\ i \in Nat /\ j \in Nat
    BY <2>1
  <2>3. d.at \in Nat /\ e.at \in Nat /\ Window \in Nat /\ Count \in Nat \ {0}
    BY <2>2, GatewayAssumption DEF Admission
  <2>4. Cardinality(own) \in Nat
    <3>1. IsFiniteSet(i .. j)
      BY <2>2, FS_Interval
    <3> QED BY <3>1, FS_Subset, FS_CardinalityType
  <2>5. Cardinality(own) > 2 * Count - 1
    OBVIOUS
  <2>6. i <= j
    <3> SUFFICES ASSUME i > j PROVE FALSE
      BY <2>2
    <3>1. own = {}
      BY <2>2
    <3>2. Cardinality(own) = 0
      BY <3>1, FS_EmptySet
    <3> QED BY <2>3, <2>5, <3>2
  <2>7. e.at <= d.at + Window => Cardinality(own) <= 2 * Count - 1
    BY <2>6, OwnSlots
  <2> HIDE DEF own, d, e
  <2>8. e.at > d.at + Window
    BY <2>3, <2>4, <2>5, <2>7
  <2> QED BY <2>8 DEF d, e
<1> QED
  BY <1>1, Invariance, PTL

(* What a token's quota is worth over reloads: admissions that are more    *)
(* than 2 * Count - 1 for each generation that granted them span more than *)
(* a window, whatever is reloaded and however requests of superseded       *)
(* generations linger (server.go:130, ratelimit.go:112).                   *)
THEOREM QuotaOverReloads == Spec => []QuotaPerReload
<1>1. IInv => QuotaPerReload
  <2> SUFFICES ASSUME IInv, NEW t \in Tokens,
                      NEW i \in 1 .. Len(admitted[t]), NEW j \in 1 .. Len(admitted[t]),
                      j - i + 1 > (2 * Count - 1) * Cardinality({admitted[t][n].gen : n \in i .. j})
               PROVE  admitted[t][j].at > admitted[t][i].at + Window
    BY DEF QuotaPerReload
  <2> DEFINE granting == {admitted[t][n].gen : n \in i .. j}
             d == admitted[t][i]
             e == admitted[t][j]
             bound == (2 * Count - 1) * Cardinality(granting)
  <2>1. admitted[t] \in Seq(Admission)
    BY DEF IInv, TypeOK, Admission
  <2>2. d \in Admission /\ e \in Admission /\ i \in Nat /\ j \in Nat
    BY <2>1
  <2>3. d.at \in Nat /\ e.at \in Nat /\ Window \in Nat /\ Count \in Nat \ {0}
    BY <2>2, GatewayAssumption DEF Admission
  <2>4. CASE i <= j
    <3>1. SUFFICES ASSUME e.at <= d.at + Window PROVE FALSE
      <4> HIDE DEF d, e
      <4>1. e.at > d.at + Window
        BY <2>3, <3>1
      <4> QED BY <4>1 DEF d, e
    <3>2. j - i + 1 <= bound
      BY <2>4, <3>1, Slots
    <3>3. bound \in Int /\ j - i + 1 > bound
      <4>1. IsFiniteSet(i .. j)
        BY <2>2, FS_Interval
      <4>2. IsFiniteSet(granting)
        <5>1. granting \subseteq Gens
          <6> SUFFICES ASSUME NEW n \in i .. j PROVE admitted[t][n].gen \in Gens
            OBVIOUS
          <6>1. n \in 1 .. Len(admitted[t])
            BY <2>1
          <6>2. admitted[t][n] \in Admission
            BY <2>1, <6>1
          <6> QED BY <6>2 DEF Admission
        <5>2. MaxGen \in Int /\ 1 \in Int
          BY GatewayAssumption
        <5>3. IsFiniteSet(Gens)
          BY <5>2, FS_Interval DEF Gens
        <5> QED BY <5>1, <5>3, FS_Subset
      <4>3. Cardinality(granting) \in Nat
        BY <4>2, FS_CardinalityType
      <4> QED BY <2>3, <4>3
    <3> HIDE DEF bound
    <3> QED BY <2>2, <3>2, <3>3
  <2>5. CASE i > j
    <3>1. granting = {}
      BY <2>2, <2>5
    <3>2. Cardinality(granting) = 0
      BY <3>1, FS_EmptySet
    <3>3. bound = 0
      BY <2>3, <3>2
    <3>4. j - i + 1 <= 0 /\ j - i + 1 > bound
      BY <2>2, <2>5
    <3> HIDE DEF bound
    <3> QED BY <2>2, <3>3, <3>4
  <2> QED BY <2>2, <2>4, <2>5
<1> QED
  BY <1>1, Invariance, PTL
=============================================================================
