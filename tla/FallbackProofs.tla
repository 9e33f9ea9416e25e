--------------------------- MODULE FallbackProofs ---------------------------
(***************************************************************************)
(* Proofs about Fallback, for any providers, any groups, any set of them   *)
(* that failed to build, any statuses and any number of requests.          *)
(***************************************************************************)
EXTENDS Fallback, SequenceTheorems, WellFoundedInduction, TLAPS

(* A set of positions that is not empty has a last one.                    *)
LEMMA LastPosition ==
  ASSUME NEW n \in Nat, NEW T \in SUBSET (1 .. n), T # {}
  PROVE  \E g \in T : \A h \in T : h <= g
<1> DEFINE U == {n - g : g \in T}
<1>1. U \subseteq Nat /\ U # {}
  <2>1. \A g \in T : g \in 1 .. n
    OBVIOUS
  <2>2. \A g \in T : n - g \in Nat
    BY <2>1
  <2>3. PICK t \in T : TRUE
    OBVIOUS
  <2>4. n - t \in U
    BY <2>3
  <2> QED
    BY <2>2, <2>4
<1>2. PICK x \in U : \A y \in U : ~ (<<y, x>> \in OpToRel(<, Nat))
  BY <1>1, WFMin, NatLessThanWellFounded
<1>3. \A y \in U : ~ (y < x)
  BY <1>1, <1>2 DEF OpToRel
<1>4. PICK g \in T : x = n - g
  BY DEF U
<1>5. ASSUME NEW h \in T PROVE h <= g
  <2>1. n - h \in U
    OBVIOUS
  <2>2. ~ (n - h < n - g)
    BY <1>3, <1>4, <2>1
  <2> QED
    BY <2>2
<1> QED
  BY <1>5

(* A provider's group is one of the configured ones, or it has none.       *)
LEMMA GroupType == \A p : GroupOf(p) \in Seq(Providers) /\ Len(GroupOf(p)) \in Nat
<1> TAKE p
<1> DEFINE listing == {g \in 1 .. Len(Groups) : \E i \in 1 .. Len(Groups[g]) : Groups[g][i] = p}
<1>1. CASE listing = {}
  BY <1>1 DEF GroupOf
<1>2. CASE listing # {}
  <2>1. \E g \in listing : \A h \in listing : h <= g
    <3>1. listing \in SUBSET (1 .. Len(Groups)) /\ Len(Groups) \in Nat
      BY ProviderAssumption
    <3> HIDE DEF listing
    <3> QED
      BY <1>2, <3>1, LastPosition
  <2>2. (CHOOSE g \in listing : \A h \in listing : h <= g) \in 1 .. Len(Groups)
    BY <2>1
  <2>3. GroupOf(p) = Groups[CHOOSE g \in listing : \A h \in listing : h <= g]
    BY <1>2 DEF GroupOf
  <2> QED
    BY <2>2, <2>3, ProviderAssumption
<1> QED
  BY <1>1, <1>2

-----------------------------------------------------------------------------
USE DEF Sending

Untouched(x) ==
  /\ pc'[x] = pc[x] /\ want'[x] = want[x] /\ next'[x] = next[x]
  /\ attempt'[x] = attempt[x] /\ past'[x] = past[x]
  /\ chunks'[x] = chunks[x] /\ client'[x] = client[x]

(* A step of one request leaves what is known of the others.               *)
LEMMA Frame ==
  ASSUME NEW x \in Requests, Tracked(x), Untouched(x)
  PROVE  Tracked(x)'
<1> USE DEF Untouched, InGroup, InTransit
<1>1. GivenUpInOrder(x)' /\ AllWereTried(x)'
  BY DEF Tracked, GivenUpInOrder, AllWereTried
<1>2. OwnCredentials(x)' /\ HeardOne(x)'
  BY DEF Tracked, OwnCredentials, HeardOne
<1>3. TryingGroup(x)' /\ TryingDirect(x)' /\ CodeSoFar(x)'
  BY DEF Tracked, TryingGroup, TryingDirect, CodeSoFar
<1> QED
  BY <1>1, <1>2, <1>3 DEF Tracked

LEMMA InvInit == Init => IInv
<1> SUFFICES ASSUME Init PROVE IInv
  OBVIOUS
<1>1. NoAttempt \in Attempts /\ Nothing.from = {}
  BY DEF NoAttempt, Attempts, Nothing
<1>2. TypeOK
  BY <1>1, GroupType, StatusAssumption DEF Init, TypeOK, Nothing
<1>3. ASSUME NEW r \in Requests PROVE Tracked(r)
  <2>1. /\ pc[r] = "arriving" /\ past[r] = <<>> /\ client[r] = Nothing
        /\ attempt[r] = NoAttempt /\ Len(past[r]) = 0
        /\ 1 .. Len(past[r]) = {}
    BY <1>3 DEF Init
  <2> QED
    BY <2>1, <1>1 DEF Tracked, GivenUpInOrder, AllWereTried, OwnCredentials, HeardOne,
       TryingGroup, TryingDirect, CodeSoFar, InTransit, NoAttempt, Nothing
<1> QED
  BY <1>2, <1>3 DEF IInv

-----------------------------------------------------------------------------
(* Before an attempt.                                                      *)
LEMMA ArriveStep ==
  ASSUME IInv, NEW r \in Requests, Arrive(r)
  PROVE  TypeOK' /\ Tracked(r)' /\ \A x \in Requests \ {r} : Untouched(x)
<1>1. TypeOK /\ Tracked(r) /\ Len(GroupOf(want[r])) \in Nat
  BY GroupType DEF IInv
<1>2. InGroup(r) => Len(GroupOf(want[r])) >= 1
  BY GroupType DEF InGroup
<1>3. /\ pc[r] = "arriving" /\ past[r] = <<>> /\ client[r] = Nothing
      /\ pc' = [pc EXCEPT ![r] = "attempting"]
      /\ next' = [next EXCEPT ![r] = IF InGroup(r) THEN 1 ELSE 0]
      /\ UNCHANGED <<want, attempt, past, chunks, client, gone>>
  BY <1>1 DEF Arrive, Goto, Tracked, CodeSoFar
<1>4. TypeOK'
  <2>1. pc' \in [Requests -> {"arriving", "attempting", "body", "done", "exhausted",
                             "unread", "aborted"} \cup Sending]
    BY <1>1, <1>3 DEF TypeOK
  <2>2. next' \in [Requests -> Nat]
    BY <1>1, <1>3 DEF TypeOK
  <2>3. ASSUME NEW x \in Requests PROVE next'[x] <= Len(GroupOf(want'[x]))
    BY <1>1, <1>2, <1>3 DEF TypeOK
  <2> QED
    BY <1>1, <1>3, <2>1, <2>2, <2>3 DEF TypeOK
<1>5. /\ pc'[r] = "attempting" /\ next'[r] = IF InGroup(r) THEN 1 ELSE 0
      /\ Len(past[r]) = 0 /\ Nothing.from = {} /\ InGroup(r)' = InGroup(r)
  BY <1>1, <1>3 DEF TypeOK, Nothing, InGroup
<1>6. Tracked(r)'
  BY <1>1, <1>3, <1>5 DEF Tracked, GivenUpInOrder, AllWereTried, OwnCredentials, HeardOne,
     TryingGroup, TryingDirect, CodeSoFar, InTransit
<1> QED
  BY <1>1, <1>3, <1>4, <1>6 DEF Untouched, TypeOK

LEMMA BodyUnreadableStep ==
  ASSUME IInv, NEW r \in Requests, BodyUnreadable(r)
  PROVE  TypeOK' /\ Tracked(r)' /\ \A x \in Requests \ {r} : Untouched(x)
<1>1. TypeOK /\ Tracked(r)
  BY DEF IInv
<1>2. /\ pc[r] = "arriving" /\ past[r] = <<>> /\ client[r] = Nothing /\ InGroup(r)
      /\ pc' = [pc EXCEPT ![r] = "unread"]
      /\ client' = [client EXCEPT ![r] = [status |-> 502, chunks |-> 0, from |-> {Yai}]]
      /\ UNCHANGED <<want, next, attempt, past, chunks, gone>>
  <2>1. client[r] = Nothing /\ client[r].from \cup {Yai} = {Yai}
    BY <1>1 DEF BodyUnreadable, Tracked, CodeSoFar, Nothing
  <2> QED
    BY <1>1, <2>1 DEF BodyUnreadable, Goto, Tell, Tracked, CodeSoFar
<1>3. TypeOK'
  BY <1>1, <1>2, StatusAssumption DEF TypeOK
<1>4. /\ pc'[r] = "unread" /\ client'[r].from = {Yai} /\ Len(past[r]) = 0
      /\ InGroup(r)' = InGroup(r)
  BY <1>1, <1>2 DEF TypeOK, InGroup
<1>5. Tracked(r)'
  BY <1>1, <1>2, <1>4 DEF Tracked, GivenUpInOrder, AllWereTried, OwnCredentials, HeardOne,
     TryingGroup, TryingDirect, CodeSoFar, InTransit
<1> QED
  BY <1>1, <1>2, <1>3, <1>5 DEF Untouched, TypeOK


(* The provider tried next is a configured one, or the unknown one asked for. *)
LEMMA CandidateType ==
  ASSUME IInv, NEW r \in Requests, pc[r] = "attempting"
  PROVE  Candidate(r) \in Providers \cup {Unknown}
<1>1. TypeOK /\ Tracked(r) /\ GroupOf(want[r]) \in Seq(Providers)
  BY GroupType DEF IInv
<1>2. CASE InGroup(r)
  <2>1. next[r] = Len(past[r]) + 1 /\ Len(past[r]) \in Nat
    BY <1>1, <1>2 DEF Tracked, TryingGroup, TypeOK
  <2>2. next[r] \in 1 .. Len(GroupOf(want[r]))
    BY <1>1, <2>1 DEF TypeOK
  <2> QED
    BY <1>1, <1>2, <2>2 DEF Candidate
<1>3. CASE ~ InGroup(r)
  BY <1>1, <1>3 DEF Candidate, TypeOK
<1> QED
  BY <1>2, <1>3

LEMMA DirectStep ==
  ASSUME IInv, NEW r \in Requests, Direct(r)
  PROVE  TypeOK' /\ Tracked(r)' /\ \A x \in Requests \ {r} : Untouched(x)
<1>1. TypeOK /\ Tracked(r) /\ Candidate(r) \in Providers \cup {Unknown}
  BY CandidateType DEF IInv, Direct
<1>2. PICK tokenOk \in BOOLEAN :
        attempt' = [attempt EXCEPT ![r] =
          [to |-> Candidate(r), cred |-> Credential(Candidate(r), tokenOk),
           status |-> 0, code |-> 0]]
  BY DEF Direct
<1> DEFINE l == IF Candidate(r) \in Signing THEN "signing" ELSE "directed"
           c == Candidate(r)
           cr == Credential(c, tokenOk)
<1>3. cr \in {c, NoCred}
  BY DEF Credential
<1>4. /\ pc[r] = "attempting"
      /\ pc' = [pc EXCEPT ![r] = l]
      /\ chunks' = [chunks EXCEPT ![r] = 0]
      /\ UNCHANGED <<want, next, past, client, gone>>
  BY DEF Direct, Goto
<1>5. c = IF InGroup(r) THEN GroupOf(want[r])[next[r]] ELSE want[r]
  BY DEF Candidate
<1>6. Candidate(r) \in Built => Candidate(r) \in Providers
  BY ProviderAssumption
<1>7. attempt' = [attempt EXCEPT ![r] =
        [to |-> c, cred |-> cr, status |-> 0, code |-> 0]]
  BY <1>2
<1>8. c \in Providers
  BY <1>6 DEF Direct
<1>13. l \in Sending /\ l \notin {"arriving", "attempting", "body", "done", "exhausted"}
  BY DEF Sending
<1> HIDE DEF c, cr, l
<1>9. attempt' \in [Requests -> Attempts]
  BY <1>1, <1>3, <1>7, <1>8 DEF TypeOK, Attempts
<1>10. TypeOK'
  <2>1. pc' \in [Requests -> {"arriving", "attempting", "body", "done", "exhausted",
                             "unread", "aborted"} \cup Sending]
    BY <1>1, <1>4, <1>13 DEF TypeOK
  <2>2. \A x \in Requests : next'[x] <= Len(GroupOf(want'[x]))
    BY <1>1, <1>4 DEF TypeOK
  <2>3. chunks' \in [Requests -> 0 .. MaxChunks]
    BY <1>1, <1>4, StatusAssumption DEF TypeOK
  <2> QED
    BY <1>1, <1>4, <1>9, <2>1, <2>2, <2>3 DEF TypeOK
<1>11. /\ pc'[r] = l /\ chunks'[r] = 0
       /\ attempt'[r] = [to |-> c, cred |-> cr, status |-> 0, code |-> 0]
       /\ InGroup(r)' = InGroup(r)
  BY <1>1, <1>4, <1>7 DEF TypeOK, InGroup
<1>12. Tracked(r)'
  <2>1. GivenUpInOrder(r)' /\ AllWereTried(r)' /\ OwnCredentials(r)' /\ HeardOne(r)'
    BY <1>1, <1>3, <1>4, <1>11, <1>13 DEF Tracked, GivenUpInOrder, AllWereTried, OwnCredentials, HeardOne
  <2>2. TryingGroup(r)' /\ TryingDirect(r)' /\ CodeSoFar(r)'
    BY <1>1, <1>4, <1>5, <1>11, <1>13 DEF Tracked, TryingGroup, TryingDirect, CodeSoFar, InTransit
  <2> QED
    BY <2>1, <2>2 DEF Tracked
<1> QED
  BY <1>1, <1>4, <1>7, <1>10, <1>12 DEF Untouched, TypeOK

LEMMA NotFoundStep ==
  ASSUME IInv, NEW r \in Requests, NotFound(r)
  PROVE  TypeOK' /\ Tracked(r)' /\ \A x \in Requests \ {r} : Untouched(x)
<1>1. TypeOK /\ Tracked(r)
  BY DEF IInv
<1>2. /\ pc[r] = "attempting" /\ client[r] = Nothing
      /\ pc' = [pc EXCEPT ![r] = "done"]
      /\ client' = [client EXCEPT ![r] = [status |-> 404, chunks |-> 0, from |-> {Yai}]]
      /\ UNCHANGED <<want, next, attempt, past, chunks, gone>>
  <2>1. client[r] = Nothing /\ client[r].from \cup {Yai} = {Yai}
    BY <1>1 DEF NotFound, Tracked, TryingGroup, TryingDirect, Nothing
  <2> QED
    BY <1>1, <2>1 DEF NotFound, Goto, Tell
<1>3. TypeOK'
  BY <1>1, <1>2, StatusAssumption DEF TypeOK
<1>4. /\ pc'[r] = "done" /\ client'[r].from = {Yai} /\ InGroup(r)' = InGroup(r)
  BY <1>1, <1>2 DEF TypeOK, InGroup
<1>5. Tracked(r)'
  BY <1>1, <1>2, <1>4 DEF Tracked, GivenUpInOrder, AllWereTried, OwnCredentials, HeardOne,
     TryingGroup, TryingDirect, CodeSoFar, InTransit
<1> QED
  BY <1>1, <1>2, <1>3, <1>5 DEF Untouched, TypeOK

-----------------------------------------------------------------------------
(* During an attempt.                                                      *)
Transport(r) == Signed(r) \/ Dial(r) \/ Connect(r) \/ Written(r)

(* From one place of a round trip to the next, with nothing to be seen.    *)
LEMMA TransportMoves ==
  ASSUME NEW r, Transport(r)
  PROVE  \E l \in Sending : pc[r] \in Sending /\ GoesOn(r, pc[r], l)
<1>1. CASE Signed(r)
  BY <1>1 DEF Signed, GoesOn, Sending
<1>2. CASE Dial(r)
  BY <1>2 DEF Dial, GoesOn, Sending
<1>3. CASE Connect(r)
  BY <1>3 DEF Connect, GoesOn, Sending
<1>4. CASE Written(r)
  BY <1>4 DEF Written, GoesOn, Sending
<1> QED
  BY <1>1, <1>2, <1>3, <1>4 DEF Transport

LEMMA TransportStep ==
  ASSUME IInv, NEW r \in Requests, Transport(r)
  PROVE  TypeOK' /\ Tracked(r)' /\ \A x \in Requests \ {r} : Untouched(x)
<1>1. TypeOK /\ Tracked(r)
  BY DEF IInv
<1>2. PICK l \in Sending :
        /\ pc[r] \in Sending
        /\ pc' = [pc EXCEPT ![r] = l]
        /\ UNCHANGED <<want, next, attempt, past, chunks, client, gone>>
  BY TransportMoves DEF GoesOn, Goto
<1>3. TypeOK'
  BY <1>1, <1>2 DEF TypeOK
<1>4. pc'[r] = l /\ InGroup(r)' = InGroup(r)
  BY <1>1, <1>2 DEF TypeOK, InGroup
<1>5. \A k \in Sending : k \notin {"arriving", "attempting", "body", "done", "exhausted"}
  BY DEF Sending
<1>6. Tracked(r)'
  <2>1. GivenUpInOrder(r)' /\ AllWereTried(r)' /\ OwnCredentials(r)' /\ HeardOne(r)'
    BY <1>1, <1>2, <1>4, <1>5 DEF Tracked, GivenUpInOrder, AllWereTried, OwnCredentials, HeardOne
  <2>2. TryingGroup(r)' /\ TryingDirect(r)' /\ CodeSoFar(r)'
    BY <1>1, <1>2, <1>4, <1>5 DEF Tracked, TryingGroup, TryingDirect, CodeSoFar, InTransit
  <2> QED
    BY <2>1, <2>2 DEF Tracked
<1> QED
  BY <1>1, <1>2, <1>3, <1>6 DEF Untouched, TypeOK

LEMMA EarlyHintsStep ==
  ASSUME IInv, NEW r \in Requests, EarlyHints(r)
  PROVE  TypeOK' /\ Tracked(r)' /\ \A x \in Requests \ {r} : Untouched(x)
<1>1. TypeOK /\ Tracked(r)
  BY DEF IInv
<1>2. /\ pc[r] \in Sending /\ pc[r] # "body" /\ InGroup(r)
      /\ attempt' = [attempt EXCEPT ![r].code = Interim]
      /\ UNCHANGED <<pc, want, next, past, chunks, client, gone>>
  BY DEF EarlyHints, Sending
<1>3. /\ attempt' \in [Requests -> Attempts]
      /\ attempt'[r].to = attempt[r].to /\ attempt'[r].cred = attempt[r].cred
      /\ attempt'[r].status = attempt[r].status /\ attempt'[r].code = Interim
  <2> DEFINE a == [attempt[r] EXCEPT !.code = Interim]
  <2>1. attempt' = [attempt EXCEPT ![r] = a] /\ attempt[r] \in Attempts
    BY <1>1, <1>2 DEF TypeOK
  <2>2. /\ a \in Attempts
        /\ a.to = attempt[r].to /\ a.cred = attempt[r].cred
        /\ a.status = attempt[r].status /\ a.code = Interim
    BY <2>1 DEF Attempts
  <2> HIDE DEF a
  <2> QED
    BY <1>1, <2>1, <2>2 DEF TypeOK
<1>4. TypeOK'
  BY <1>1, <1>2, <1>3 DEF TypeOK
<1>5. InGroup(r)' = InGroup(r)
  BY <1>2 DEF InGroup
<1>6. Tracked(r)'
  <2>1. GivenUpInOrder(r)' /\ AllWereTried(r)' /\ OwnCredentials(r)' /\ HeardOne(r)'
    BY <1>1, <1>2, <1>3, <1>5 DEF Tracked, GivenUpInOrder, AllWereTried, OwnCredentials, HeardOne
  <2>2. TryingGroup(r)' /\ TryingDirect(r)'
    BY <1>1, <1>2, <1>3, <1>5 DEF Tracked, TryingGroup, TryingDirect, InTransit
  <2>3. CodeSoFar(r)'
    BY <1>1, <1>2, <1>3, <1>5 DEF Tracked, CodeSoFar
  <2> QED
    BY <2>1, <2>2, <2>3 DEF Tracked
<1> QED
  BY <1>1, <1>2, <1>4, <1>6 DEF Untouched, TypeOK

LEMMA CopyChunkStep ==
  ASSUME IInv, NEW r \in Requests, CopyChunk(r)
  PROVE  TypeOK' /\ Tracked(r)' /\ \A x \in Requests \ {r} : Untouched(x)
<1>1. TypeOK /\ Tracked(r)
  BY DEF IInv
<1>2. /\ pc[r] = "body" /\ chunks[r] < MaxChunks
      /\ chunks' = [chunks EXCEPT ![r] = chunks[r] + 1]
      /\ client' = IF InGroup(r) THEN client ELSE [client EXCEPT ![r].chunks = chunks[r] + 1]
      /\ UNCHANGED <<pc, want, next, attempt, past, gone>>
  BY DEF CopyChunk
<1>3. /\ chunks' \in [Requests -> 0 .. MaxChunks] /\ chunks'[r] = chunks[r] + 1
      /\ chunks[r] + 1 \in 0 .. MaxChunks
  BY <1>1, <1>2, StatusAssumption DEF TypeOK
<1>4. InGroup(r) => client' = client
  BY <1>2
<1>5. ~ InGroup(r) => /\ client[r] = [status |-> attempt[r].code,
                                      from |-> {attempt[r].to}, chunks |-> chunks[r]]
                      /\ client'[r] = [status |-> attempt[r].code,
                                       from |-> {attempt[r].to}, chunks |-> chunks[r] + 1]
  <2>1. ~ InGroup(r) => client[r] = [status |-> attempt[r].code,
                                     from |-> {attempt[r].to}, chunks |-> chunks[r]]
    BY <1>1, <1>2 DEF Tracked, TryingDirect
  <2>2. ~ InGroup(r) => client'[r] = [client[r] EXCEPT !.chunks = chunks[r] + 1]
    BY <1>1, <1>2 DEF TypeOK
  <2> QED
    BY <2>1, <2>2
<1>6. TypeOK'
  <2>1. client' \in [Requests -> [status : Nat, from : SUBSET (Providers \cup {Unknown, Yai}),
                                  chunks : 0 .. MaxChunks]]
    BY <1>1, <1>2, <1>3 DEF TypeOK
  <2> QED
    BY <1>1, <1>2, <1>3, <2>1 DEF TypeOK
<1>7. InGroup(r)' = InGroup(r)
  BY <1>2 DEF InGroup
<1>8. Tracked(r)'
  <2>1. GivenUpInOrder(r)' /\ AllWereTried(r)' /\ OwnCredentials(r)' /\ HeardOne(r)'
    BY <1>1, <1>2, <1>4, <1>5, <1>7 DEF Tracked, GivenUpInOrder, AllWereTried, OwnCredentials, HeardOne
  <2>2. TryingGroup(r)' /\ TryingDirect(r)' /\ CodeSoFar(r)'
    BY <1>1, <1>2, <1>3, <1>4, <1>5, <1>7 DEF Tracked, TryingGroup, TryingDirect, CodeSoFar, InTransit
  <2> QED
    BY <2>1, <2>2 DEF Tracked
<1> QED
  BY <1>1, <1>2, <1>6, <1>8 DEF Untouched, TypeOK

LEMMA BodyBreaksStep ==
  ASSUME IInv, NEW r \in Requests, BodyBreaks(r)
  PROVE  TypeOK' /\ Tracked(r)' /\ \A x \in Requests \ {r} : Untouched(x)
<1>1. TypeOK /\ Tracked(r)
  BY DEF IInv
<1>2. /\ pc[r] = "body" /\ pc' = [pc EXCEPT ![r] = "aborted"]
      /\ UNCHANGED <<want, next, attempt, past, chunks, client, gone>>
  BY DEF BodyBreaks, Goto
<1>3. TypeOK'
  BY <1>1, <1>2 DEF TypeOK
<1>4. pc'[r] = "aborted" /\ InGroup(r)' = InGroup(r)
  BY <1>1, <1>2 DEF TypeOK, InGroup
<1>5. Tracked(r)'
  BY <1>1, <1>2, <1>4 DEF Tracked, GivenUpInOrder, AllWereTried, OwnCredentials, HeardOne,
     TryingGroup, TryingDirect, CodeSoFar, InTransit
<1> QED
  BY <1>1, <1>2, <1>3, <1>5 DEF Untouched, TypeOK

LEMMA ClientLeavesStep ==
  ASSUME IInv, NEW r \in Requests, ClientLeaves(r)
  PROVE  TypeOK' /\ \A x \in Requests : Untouched(x)
  BY DEF IInv, ClientLeaves, TypeOK, Untouched

LEMMA RespondStep ==
  ASSUME IInv, NEW r \in Requests, Respond(r)
  PROVE  TypeOK' /\ Tracked(r)' /\ \A x \in Requests \ {r} : Untouched(x)
<1>1. TypeOK /\ Tracked(r) /\ Nothing.from = {}
  BY DEF IInv, Nothing
<1>2. PICK s \in Statuses :
        /\ attempt' = [attempt EXCEPT ![r] = Answered(r, s)]
        /\ IF InGroup(r) THEN UNCHANGED client ELSE Tell(r, attempt[r].to, s, 0)
  BY DEF Respond
<1> DEFINE c == Recorded(r, s)
           a == [to |-> attempt[r].to, cred |-> attempt[r].cred, status |-> s, code |-> c]
<1>3. c \in {s} \cup {i \in {Interim} : InGroup(r)}
  BY <1>1 DEF Recorded, Respond, Tracked, CodeSoFar
<1>4. /\ pc[r] \in Sending /\ pc[r] \in {"writing", "waiting"} /\ pc' = [pc EXCEPT ![r] = "body"]
      /\ UNCHANGED <<want, next, past, chunks, gone>>
  BY DEF Respond, Goto
<1>5. attempt' = [attempt EXCEPT ![r] = a] /\ attempt[r] \in Attempts
  BY <1>1, <1>2 DEF TypeOK, Answered
<1> HIDE DEF c
<1>6. a \in Attempts
  BY <1>3, <1>5 DEF Attempts
<1> HIDE DEF a
<1>7. InGroup(r) => client' = client
  BY <1>2
<1>8. ~ InGroup(r) => c = s /\ client' = [client EXCEPT ![r] =
        [status |-> s, chunks |-> 0, from |-> {attempt[r].to}]]
  <2>1. ~ InGroup(r) => client[r] = Nothing
    BY <1>1, <1>4 DEF Tracked, TryingDirect
  <2>2. ~ InGroup(r) => client[r].from \cup {attempt[r].to} = {attempt[r].to}
    BY <1>1, <2>1
  <2> QED
    BY <1>2, <1>3, <2>2 DEF Tell
<1>9. TypeOK'
  <2>1. attempt' \in [Requests -> Attempts]
    BY <1>1, <1>5, <1>6 DEF TypeOK
  <2>2. s \in Nat /\ 0 \in 0 .. MaxChunks /\ attempt[r].to \in Providers \cup {Unknown}
    BY <1>5, StatusAssumption DEF Attempts
  <2>3. client' \in [Requests -> [status : Nat, from : SUBSET (Providers \cup {Unknown, Yai}),
                                  chunks : 0 .. MaxChunks]]
    <3>1. CASE InGroup(r)
      BY <1>1, <1>7, <3>1 DEF TypeOK
    <3>2. CASE ~ InGroup(r)
      <4>1. [status |-> s, chunks |-> 0, from |-> {attempt[r].to}] \in
              [status : Nat, from : SUBSET (Providers \cup {Unknown, Yai}), chunks : 0 .. MaxChunks]
        BY <2>2
      <4> QED
        BY <1>1, <1>8, <3>2, <4>1 DEF TypeOK
    <3> QED
      BY <3>1, <3>2
  <2> QED
    BY <1>1, <1>4, <2>1, <2>3 DEF TypeOK
<1>10. /\ pc'[r] = "body" /\ InGroup(r)' = InGroup(r) /\ attempt'[r] = a
       /\ a.to = attempt[r].to /\ a.cred = attempt[r].cred /\ a.status = s /\ a.code = c
       /\ ~ InGroup(r) => client'[r] = [status |-> s, chunks |-> 0, from |-> {attempt[r].to}]
  BY <1>1, <1>4, <1>5, <1>8 DEF TypeOK, InGroup, a
<1>11. Tracked(r)'
  <2>1. GivenUpInOrder(r)' /\ AllWereTried(r)' /\ OwnCredentials(r)' /\ HeardOne(r)'
    BY <1>1, <1>4, <1>7, <1>10 DEF Tracked, GivenUpInOrder, AllWereTried, OwnCredentials, HeardOne
  <2>2. TryingGroup(r)' /\ CodeSoFar(r)'
    BY <1>1, <1>3, <1>4, <1>7, <1>10 DEF Tracked, TryingGroup, CodeSoFar, InTransit
  <2>3. chunks'[r] = 0 /\ past'[r] = past[r]
    BY <1>1, <1>4 DEF Tracked, CodeSoFar
  <2>4. TryingDirect(r)'
    BY <1>1, <1>4, <1>8, <1>10, <2>3 DEF Tracked, TryingDirect, InTransit
  <2> QED
    BY <2>1, <2>2, <2>4 DEF Tracked
<1> QED
  BY <1>1, <1>4, <1>5, <1>7, <1>8, <1>9, <1>11 DEF Untouched, TypeOK

-----------------------------------------------------------------------------
(* The end of an attempt.  A recorder's Code that is retriable is the      *)
(* status of a 429 or 5xx.                                                 *)
LEMMA RetriableFailed ==
  \A s \in {Interim, 502} \cup Statuses : IsRetriable(s) => Failed(s) /\ s # Interim
  BY StatusAssumption DEF Interim, IsRetriable, Failed

(* A status that is final is copied as it is.                              *)
LEMMA FinalCopied == \A s \in Statuses : Copied(s) = s
  BY StatusAssumption DEF Copied

LEMMA SettleStep ==
  ASSUME IInv, NEW r \in Requests, InTransit(r), InGroup(r),
         NEW s \in {Interim, 502} \cup Statuses, NEW n \in 0 .. MaxChunks,
         NEW who \in {Yai, attempt[r].to},
         IsRetriable(s) => attempt[r].status \in {0, s},
         who # Yai => s = attempt[r].code /\ n = chunks[r],
         Settle(r, who, s, n), UNCHANGED <<want, attempt, chunks, gone>>
  PROVE  TypeOK' /\ Tracked(r)' /\ \A x \in Requests \ {r} : Untouched(x)
<1> DEFINE group == GroupOf(want[r])
           f == [to |-> attempt[r].to, cred |-> attempt[r].cred,
                 status |-> attempt[r].status, code |-> s]
<1>0. /\ TypeOK /\ Tracked(r) /\ Nothing.from = {}
      /\ group \in Seq(Providers) /\ Len(group) \in Nat
  BY GroupType DEF IInv, Nothing
<1>1. /\ client[r] = Nothing /\ client[r].from = {}
      /\ next[r] = Len(past[r]) + 1 /\ Len(past[r]) \in Nat
      /\ attempt[r].to = group[next[r]]
      /\ next[r] <= Len(group)
  BY <1>0 DEF Tracked, TryingGroup, TypeOK
<1>2. [attempt[r] EXCEPT !.code = s] = f /\ f \in Attempts
  <2>1. attempt[r] \in Attempts
    BY <1>0 DEF TypeOK
  <2> QED
    BY <2>1 DEF Attempts
<1>3. Copied(s) \in Nat /\ 502 \in Nat /\ who \in Providers \cup {Unknown, Yai}
      /\ 0 \in 0 .. MaxChunks
  <2>1. attempt[r].to \in Providers \cup {Unknown}
    BY <1>0 DEF TypeOK, Attempts
  <2>2. Copied(s) \in Nat
    <3>1. \A x \in Statuses : x \in Nat
      BY StatusAssumption
    <3>2. s \in Nat
      BY <3>1 DEF Interim
    <3> QED
      BY <3>2 DEF Copied
  <2>3. 0 \in 0 .. MaxChunks
    BY StatusAssumption
  <2> QED
    BY <2>1, <2>2, <2>3
<1> HIDE DEF f
<1>4. UNCHANGED <<want, attempt, chunks, gone>> /\ InGroup(r)' = InGroup(r)
  BY DEF InGroup
<1>5. ASSUME NEW u \in Providers \cup {Unknown, Yai}, NEW st \in Nat, NEW m \in 0 .. MaxChunks,
             Tell(r, u, st, m)
      PROVE  /\ client' \in [Requests -> [status : Nat, from : SUBSET (Providers \cup {Unknown, Yai}),
                                          chunks : 0 .. MaxChunks]]
             /\ client'[r] = [status |-> st, chunks |-> m, from |-> {u}]
             /\ \A x \in Requests \ {r} : client'[x] = client[x]
  <2>1. client' = [client EXCEPT ![r] = [status |-> st, chunks |-> m, from |-> {u}]]
    <3>1. client[r].from \cup {u} = {u}
      BY <1>1
    <3> QED
      BY <1>5, <3>1 DEF Tell
  <2> QED
    BY <1>0, <1>5, <2>1 DEF TypeOK
<1>6. CASE /\ ~ IsRetriable(s)
           /\ Tell(r, who, Copied(s), n) /\ Goto(r, "done")
           /\ UNCHANGED <<next, past>>
  <2>1. /\ pc' = [pc EXCEPT ![r] = "done"] /\ pc'[r] = "done"
    BY <1>0, <1>6 DEF Goto, TypeOK
  <2>2. TypeOK'
    BY <1>0, <1>3, <1>4, <1>5, <1>6, <2>1 DEF TypeOK
  <2>3. client'[r] = [status |-> Copied(s), chunks |-> n, from |-> {who}]
    BY <1>3, <1>5, <1>6
  <2>4. GivenUpInOrder(r)' /\ AllWereTried(r)' /\ OwnCredentials(r)'
    BY <1>0, <1>4, <1>6, <2>1 DEF Tracked, GivenUpInOrder, AllWereTried, OwnCredentials
  <2>5. HeardOne(r)'
    BY <1>4, <2>1, <2>3 DEF HeardOne
  <2>6. TryingGroup(r)' /\ TryingDirect(r)' /\ CodeSoFar(r)'
    BY <1>4, <2>1 DEF TryingGroup, TryingDirect, CodeSoFar, InTransit
  <2>7. \A x \in Requests \ {r} : Untouched(x)
    BY <1>0, <1>3, <1>4, <1>5, <1>6, <2>1 DEF Untouched, TypeOK
  <2> QED
    BY <2>2, <2>4, <2>5, <2>6, <2>7 DEF Tracked
<1>7. ASSUME IsRetriable(s), past' = [past EXCEPT ![r] = Append(past[r], f)]
      PROVE  /\ past' \in [Requests -> Seq(Attempts)]
             /\ Len(past'[r]) = Len(past[r]) + 1
             /\ \A x \in Requests \ {r} : past'[x] = past[x]
             /\ GivenUpInOrder(r)' /\ OwnCredentials(r)'
  <2>1. past[r] \in Seq(Attempts) /\ past'[r] = Append(past[r], f)
        /\ past' \in [Requests -> Seq(Attempts)]
        /\ \A x \in Requests \ {r} : past'[x] = past[x]
    BY <1>0, <1>2, <1>7 DEF TypeOK
  <2>2. /\ Len(past'[r]) = Len(past[r]) + 1
        /\ past'[r][Len(past[r]) + 1] = f
        /\ \A i \in 1 .. Len(past[r]) : past'[r][i] = past[r][i]
    BY <1>2, <2>1
  <2>3. \A i \in 1 .. Len(past'[r]) : i \in 1 .. Len(past[r]) \/ i = Len(past[r]) + 1
    BY <1>1, <2>2
  <2>4. f.to = group[Len(past[r]) + 1] /\ f.code = s /\ f.status \in {0, s} /\ Failed(s)
        /\ Len(past[r]) + 1 <= Len(group) /\ f.cred \in {f.to, NoCred}
    BY <1>0, <1>1, <1>7, RetriableFailed DEF f, Tracked, OwnCredentials
  <2>5. \A i \in 1 .. Len(past[r]) :
          /\ i <= Len(group) /\ past[r][i].to = group[i] /\ Failed(past[r][i].code)
          /\ past[r][i].status \in {0, past[r][i].code}
          /\ past[r][i].cred \in {past[r][i].to, NoCred}
    BY <1>0 DEF Tracked, GivenUpInOrder, OwnCredentials
  <2>6. \A i \in 1 .. Len(past'[r]) :
          /\ i <= Len(group) /\ past'[r][i].to = group[i] /\ Failed(past'[r][i].code)
          /\ past'[r][i].status \in {0, past'[r][i].code}
          /\ past'[r][i].cred \in {past'[r][i].to, NoCred}
    BY <2>2, <2>3, <2>4, <2>5
  <2>7. attempt'[r].cred \in {attempt'[r].to, NoCred} /\ want'[r] = want[r]
    BY <1>0, <1>4 DEF Tracked, OwnCredentials
  <2>8. GivenUpInOrder(r)'
    BY <2>6, <2>7 DEF GivenUpInOrder, Failed
  <2>9. OwnCredentials(r)'
    BY <2>6, <2>7 DEF OwnCredentials
  <2> QED
    BY <2>1, <2>2, <2>8, <2>9
<1>8. CASE /\ IsRetriable(s) /\ next[r] < Len(group)
           /\ next' = [next EXCEPT ![r] = next[r] + 1]
           /\ past' = [past EXCEPT ![r] = Append(past[r], f)]
           /\ Goto(r, "attempting")
           /\ UNCHANGED client
  <2>1. /\ pc' = [pc EXCEPT ![r] = "attempting"] /\ pc'[r] = "attempting"
        /\ next'[r] = next[r] + 1 /\ next' \in [Requests -> Nat]
    BY <1>0, <1>8 DEF Goto, TypeOK
  <2>2. \A x \in Requests : next'[x] <= Len(GroupOf(want'[x]))
    BY <1>0, <1>1, <1>4, <1>8, <2>1 DEF TypeOK
  <2>3. TypeOK'
    BY <1>0, <1>4, <1>7, <1>8, <2>1, <2>2 DEF TypeOK
  <2>4. AllWereTried(r)' /\ HeardOne(r)' /\ TryingDirect(r)' /\ CodeSoFar(r)'
    BY <1>0, <1>1, <1>4, <1>8, <2>1 DEF Tracked, AllWereTried, HeardOne, TryingDirect, CodeSoFar
  <2>5. TryingGroup(r)'
    BY <1>1, <1>4, <1>7, <1>8, <2>1 DEF TryingGroup, InTransit
  <2>6. \A x \in Requests \ {r} : Untouched(x)
    BY <1>0, <1>4, <1>7, <1>8, <2>1 DEF Untouched, TypeOK
  <2> QED
    BY <1>7, <1>8, <2>3, <2>4, <2>5, <2>6 DEF Tracked
<1>9. CASE /\ IsRetriable(s) /\ next[r] = Len(group)
           /\ past' = [past EXCEPT ![r] = Append(past[r], f)]
           /\ Tell(r, Yai, 502, 0) /\ Goto(r, "exhausted")
           /\ UNCHANGED next
  <2>1. pc' = [pc EXCEPT ![r] = "exhausted"] /\ pc'[r] = "exhausted"
    BY <1>0, <1>9 DEF Goto, TypeOK
  <2>2. /\ client' \in [Requests -> [status : Nat, from : SUBSET (Providers \cup {Unknown, Yai}),
                                     chunks : 0 .. MaxChunks]]
        /\ \A x \in Requests \ {r} : client'[x] = client[x]
        /\ client'[r] = [status |-> 502, chunks |-> 0, from |-> {Yai}]
    <3>1. Tell(r, Yai, 502, 0) /\ 0 \in 0 .. MaxChunks /\ Yai \in Providers \cup {Unknown, Yai}
      BY <1>3, <1>9
    <3>2. 502 \in Nat
      OBVIOUS
    <3> HIDE DEF Tell
    <3> QED
      BY <1>5, <3>1, <3>2
  <2>3. TypeOK'
    BY <1>0, <1>4, <1>7, <1>9, <2>1, <2>2 DEF TypeOK
  <2>4. AllWereTried(r)' /\ HeardOne(r)'
    BY <1>1, <1>4, <1>7, <1>9, <2>1, <2>2 DEF AllWereTried, HeardOne
  <2>5. TryingGroup(r)' /\ TryingDirect(r)' /\ CodeSoFar(r)'
    BY <1>4, <2>1 DEF TryingGroup, TryingDirect, CodeSoFar, InTransit
  <2>6. \A x \in Requests \ {r} : Untouched(x)
    BY <1>0, <1>4, <1>7, <1>9, <2>1, <2>2 DEF Untouched, TypeOK
  <2> QED
    BY <1>7, <1>9, <2>3, <2>4, <2>5, <2>6 DEF Tracked
<1> QED
  BY <1>2, <1>6, <1>8, <1>9 DEF Settle

LEMMA RoundTripFailsStep ==
  ASSUME IInv, NEW r \in Requests, RoundTripFails(r)
  PROVE  TypeOK' /\ Tracked(r)' /\ \A x \in Requests \ {r} : Untouched(x)
<1>1. TypeOK /\ Tracked(r) /\ InTransit(r) /\ 0 \in 0 .. MaxChunks
  BY StatusAssumption DEF IInv, RoundTripFails, FailRoundTrip, InTransit
<1>2. UNCHANGED <<want, attempt, chunks, gone>>
  BY DEF RoundTripFails, FailRoundTrip
<1>3. CASE InGroup(r)
  <2>1. Settle(r, Yai, Recorded(r, 502), 0)
    BY <1>3 DEF RoundTripFails, FailRoundTrip
  <2>2. Recorded(r, 502) \in {Interim, 502} /\ attempt[r].status = 0
    BY <1>1, <1>3 DEF RoundTripFails, FailRoundTrip, Recorded, Tracked, CodeSoFar
  <2> QED
    BY <1>1, <1>2, <1>3, <2>1, <2>2, SettleStep
<1>4. CASE ~ InGroup(r)
  <2>1. /\ pc' = [pc EXCEPT ![r] = "done"] /\ UNCHANGED <<next, past>>
        /\ client[r] = Nothing /\ Tell(r, Yai, 502, 0)
    BY <1>1, <1>4 DEF RoundTripFails, FailRoundTrip, Goto, Tracked, TryingDirect
  <2>2. client' = [client EXCEPT ![r] = [status |-> 502, chunks |-> 0, from |-> {Yai}]]
    <3>1. client[r].from \cup {Yai} = {Yai}
      BY <2>1 DEF Nothing
    <3> QED
      BY <2>1, <3>1 DEF Tell
  <2>3. TypeOK'
    <3>1. [status |-> 502, chunks |-> 0, from |-> {Yai}] \in
            [status : Nat, from : SUBSET (Providers \cup {Unknown, Yai}), chunks : 0 .. MaxChunks]
      BY <1>1
    <3> QED
      BY <1>1, <1>2, <2>1, <2>2, <3>1 DEF TypeOK
  <2>4. pc'[r] = "done" /\ client'[r].from = {Yai} /\ InGroup(r)' = InGroup(r)
    BY <1>1, <1>2, <2>1, <2>2 DEF TypeOK, InGroup
  <2>5. Tracked(r)'
    BY <1>1, <1>2, <1>4, <2>1, <2>4 DEF Tracked, GivenUpInOrder, AllWereTried, OwnCredentials,
       HeardOne, TryingGroup, TryingDirect, CodeSoFar, InTransit
  <2> QED
    BY <1>1, <1>2, <2>1, <2>2, <2>3, <2>5 DEF Untouched, TypeOK
<1> QED
  BY <1>3, <1>4

LEMMA BodyEndsStep ==
  ASSUME IInv, NEW r \in Requests, BodyEnds(r)
  PROVE  TypeOK' /\ Tracked(r)' /\ \A x \in Requests \ {r} : Untouched(x)
<1>1. TypeOK /\ Tracked(r) /\ pc[r] = "body" /\ InTransit(r)
  BY DEF IInv, BodyEnds, InTransit
<1>2. UNCHANGED <<want, attempt, chunks, gone>>
  BY DEF BodyEnds
<1>3. attempt[r].status \in Statuses
      /\ attempt[r].code \in {attempt[r].status} \cup {s \in {Interim} : InGroup(r)}
  BY <1>1 DEF Tracked, CodeSoFar
<1>4. CASE InGroup(r)
  <2>1. Settle(r, attempt[r].to, attempt[r].code, chunks[r])
    BY <1>4 DEF BodyEnds
  <2>2. attempt[r].code \in {Interim, 502} \cup Statuses
    BY <1>3
  <2>3. IsRetriable(attempt[r].code) => attempt[r].status \in {0, attempt[r].code}
    BY <1>3, <2>2, RetriableFailed
  <2>4. chunks[r] \in 0 .. MaxChunks
    BY <1>1 DEF TypeOK
  <2> QED
    BY <1>1, <1>2, <1>4, <2>1, <2>2, <2>3, <2>4, SettleStep
<1>5. CASE ~ InGroup(r)
  <2>1. pc' = [pc EXCEPT ![r] = "done"] /\ UNCHANGED <<next, past, client>>
    BY <1>5 DEF BodyEnds, Goto
  <2>2. TypeOK'
    BY <1>1, <1>2, <2>1 DEF TypeOK
  <2>3. /\ client[r] = [status |-> attempt[r].code, from |-> {attempt[r].to}, chunks |-> chunks[r]]
        /\ Copied(attempt[r].code) = attempt[r].code
    <3>1. attempt[r].code \in Statuses
      BY <1>3, <1>5
    <3>2. Copied(attempt[r].code) = attempt[r].code
      BY <3>1, FinalCopied
    <3> QED
      BY <1>1, <1>5, <3>2 DEF Tracked, TryingDirect
  <2>4. pc'[r] = "done" /\ InGroup(r)' = InGroup(r)
    BY <1>1, <1>2, <2>1 DEF TypeOK, InGroup
  <2>5. HeardOne(r)'
    BY <1>2, <2>1, <2>3 DEF HeardOne
  <2>6. Tracked(r)'
    BY <1>1, <1>2, <1>5, <2>1, <2>4, <2>5 DEF Tracked, GivenUpInOrder, AllWereTried,
       OwnCredentials, TryingGroup, TryingDirect, CodeSoFar, InTransit
  <2> QED
    BY <1>1, <1>2, <2>1, <2>2, <2>6 DEF Untouched, TypeOK
<1> QED
  BY <1>4, <1>5

-----------------------------------------------------------------------------
LEMMA InvStep == IInv /\ [Next]_vars => IInv'
<1> SUFFICES ASSUME IInv, [Next]_vars PROVE IInv'
  OBVIOUS
<1>1. ASSUME NEW r \in Requests,
             TypeOK', Tracked(r)', \A x \in Requests \ {r} : Untouched(x)
      PROVE  IInv'
  BY <1>1, Frame DEF IInv
<1>2. ASSUME NEW r \in Requests,
             Arrive(r) \/ BodyUnreadable(r) \/ Direct(r) \/ NotFound(r) \/ Transport(r)
             \/ EarlyHints(r) \/ Respond(r) \/ RoundTripFails(r) \/ CopyChunk(r)
             \/ BodyEnds(r) \/ BodyBreaks(r)
      PROVE  IInv'
  BY <1>1, <1>2, ArriveStep, BodyUnreadableStep, DirectStep, NotFoundStep, TransportStep,
     EarlyHintsStep, RespondStep, RoundTripFailsStep, CopyChunkStep, BodyEndsStep, BodyBreaksStep
<1>3. ASSUME NEW r \in Requests, ClientLeaves(r) PROVE IInv'
  BY <1>3, ClientLeavesStep, Frame DEF IInv
<1>4. CASE UNCHANGED vars
  <2>1. \A x \in Requests : Untouched(x)
    BY <1>4 DEF vars, Untouched
  <2>2. TypeOK'
    BY <1>4 DEF IInv, vars, TypeOK
  <2> QED
    BY <2>1, <2>2, Frame DEF IInv
<1> QED
  BY <1>2, <1>3, <1>4 DEF Next, Transport

(* The inductive invariant: types, and what is known of every request.     *)
THEOREM Invariance == Spec => []IInv
<1> QED
  BY InvInit, InvStep, PTL DEF Spec

(* Every variable keeps its type.                                          *)
THEOREM TypeCorrect == Spec => []TypeOK
<1>1. IInv => TypeOK
  BY DEF IInv
<1> QED
  BY Invariance, <1>1, PTL

(* Members are tried in order, each only after the failure of the last.    *)
THEOREM OrderKept == Spec => []InOrderAfterFailure
<1>1. IInv => InOrderAfterFailure
  BY DEF IInv, Tracked, InOrderAfterFailure
<1> QED
  BY Invariance, <1>1, PTL

(* A group is declared failed only when all its members were tried.        *)
THEOREM ExhaustionHonest == Spec => []ExhaustedMeansAllFailed
<1>1. IInv => ExhaustedMeansAllFailed
  BY DEF IInv, Tracked, ExhaustedMeansAllFailed
<1> QED
  BY Invariance, <1>1, PTL

(* The client sees one answer, whole.                                      *)
THEOREM WholeAnswers == Spec => []OneVoice
<1>1. IInv => OneVoice
  BY DEF IInv, Tracked, OneVoice
<1> QED
  BY Invariance, <1>1, PTL

-----------------------------------------------------------------------------
(* The refinement of Failover.                                             *)
LEMMA PromiseInit == Init => Promise!Init
<1> SUFFICES ASSUME Init PROVE Promise!Init
  OBVIOUS
<1>1. ASSUME NEW r \in Requests
      PROVE  /\ Plan[r] \in Seq(Providers \cup {Unknown}) /\ Plan[r] # <<>>
             /\ Buffered[r] \in BOOLEAN
             /\ Verdicts[r] = <<>>
             /\ Open[r]
             /\ client[r] = Promise!Silence
  <2>1. want[r] \in Providers \cup {Unknown} /\ past[r] = <<>> /\ pc[r] = "arriving"
        /\ client[r] = Nothing
    BY DEF Init
  <2>2. GroupOf(want[r]) \in Seq(Providers \cup {Unknown})
    BY GroupType, SeqMonotonic
  <2>3. Verdicts[r] = <<>>
    BY <2>1 DEF Verdicts
  <2>4. /\ <<want[r]>> \in Seq(Providers \cup {Unknown}) /\ <<want[r]>> # <<>>
    BY <2>1
  <2>5. Plan[r] = IF GroupOf(want[r]) # <<>> THEN GroupOf(want[r]) ELSE <<want[r]>>
    BY DEF Plan, InGroup
  <2>6. Plan[r] \in Seq(Providers \cup {Unknown}) /\ Plan[r] # <<>>
    BY <2>2, <2>4, <2>5
  <2>7. Buffered[r] \in BOOLEAN
    BY DEF Buffered, InGroup
  <2>8. Open[r]
    BY <2>1 DEF Open
  <2>9. client[r] = Promise!Silence
    BY <2>1 DEF Nothing, Promise!Silence
  <2> QED
    BY <2>3, <2>6, <2>7, <2>8, <2>9
<1>2. /\ Plan = [r \in Requests |-> Plan[r]] /\ Buffered = [r \in Requests |-> Buffered[r]]
      /\ Verdicts = [r \in Requests |-> Verdicts[r]] /\ Open = [r \in Requests |-> Open[r]]
      /\ client = [r \in Requests |-> client[r]]
  BY DEF Plan, Buffered, Verdicts, Open, Init
<1>3. Plan \in [Requests -> Seq(Providers \cup {Unknown}) \ {<<>>}]
  BY <1>1, <1>2
<1>4. Buffered \in [Requests -> BOOLEAN]
  BY <1>1, <1>2
<1>5. Verdicts = [r \in Requests |-> <<>>]
  BY <1>1, <1>2
<1>6. client = [r \in Requests |-> Promise!Silence]
  BY <1>1, <1>2
<1>7. Open = [r \in Requests |-> TRUE]
  BY <1>1 DEF Open
<1> QED
  BY <1>3, <1>4, <1>5, <1>6, <1>7 DEF Promise!Init

(* What leaves pc, want and past leaves what they are mapped to.           *)
LEMMA Unmoved ==
  /\ UNCHANGED want => UNCHANGED <<Plan, Buffered>>
  /\ UNCHANGED past => UNCHANGED Verdicts
  /\ UNCHANGED pc => UNCHANGED Open
  BY DEF Plan, Buffered, Verdicts, Open, InGroup

(* A request moves on, or is over.                                         *)
LEMMA MovesOn ==
  ASSUME TypeOK, NEW r \in Requests, NEW l, pc' = [pc EXCEPT ![r] = l],
         pc[r] \notin {"done", "exhausted", "unread", "aborted"}
  PROVE  /\ Open[r]
         /\ l \notin {"done", "exhausted", "unread", "aborted"} => UNCHANGED Open
         /\ l \in {"done", "exhausted", "unread", "aborted"} => Promise!Close(r)
<1>1. \A x \in Requests : pc'[x] = IF x = r THEN l ELSE pc[x]
  BY DEF TypeOK
<1>2. Open[r]
  BY DEF Open
<1>3. ASSUME l \notin {"done", "exhausted", "unread", "aborted"}
      PROVE  UNCHANGED Open
  BY <1>1, <1>3 DEF Open
<1>4. ASSUME l \in {"done", "exhausted", "unread", "aborted"}
      PROVE  Open' = [Open EXCEPT ![r] = FALSE]
  BY <1>1, <1>4 DEF Open
<1> QED
  BY <1>2, <1>3, <1>4 DEF Promise!Close

(* An attempt given up is a verdict more.                                  *)
LEMMA Condemned ==
  ASSUME TypeOK, NEW r \in Requests, NEW f \in Attempts, IsRetriable(f.code),
         past' = [past EXCEPT ![r] = Append(past[r], f)]
  PROVE  Promise!Condemn(r, f.code)
<1> DEFINE S == {0, Interim, 502} \cup Statuses
           old == Verdicts[r]
           new == [i \in 1 .. Len(past[r]) + 1 |-> IF i = Len(past[r]) + 1 THEN f.code ELSE past[r][i].code]
<1>1. /\ past[r] \in Seq(Attempts) /\ Len(past[r]) \in Nat
      /\ \A i \in 1 .. Len(past[r]) : past[r][i] \in Attempts
  BY DEF TypeOK
<1>2. \A a \in Attempts : a.code \in S
  BY DEF Attempts
<1>3. past'[r] = Append(past[r], f) /\ \A x \in Requests \ {r} : past'[x] = past[x]
  BY DEF TypeOK
<1>4. /\ Len(past'[r]) = Len(past[r]) + 1
      /\ \A i \in 1 .. Len(past[r]) + 1 :
           past'[r][i] = IF i = Len(past[r]) + 1 THEN f ELSE past[r][i]
  BY <1>1, <1>3
<1>5. old = [i \in 1 .. Len(past[r]) |-> past[r][i].code]
  BY DEF Verdicts
<1>6. old \in Seq(S) /\ Len(old) = Len(past[r])
      /\ \A i \in 1 .. Len(past[r]) : old[i] = past[r][i].code
  <2> HIDE DEF S, old
  <2> QED
    BY <1>1, <1>2, <1>5
<1>7. Verdicts'[r] = new
  <2>1. Verdicts'[r] = [i \in 1 .. Len(past'[r]) |-> past'[r][i].code]
    BY DEF Verdicts
  <2> QED
    BY <1>1, <1>4, <2>1
<1>8. f.code \in S
  BY <1>2
<1> HIDE DEF S, old
<1>9. new = Append(old, f.code)
  <2>1. new \in Seq(S) /\ Len(new) = Len(past[r]) + 1
        /\ \A i \in 1 .. Len(past[r]) + 1 :
             new[i] = IF i = Len(past[r]) + 1 THEN f.code ELSE past[r][i].code
    <3>1. \A i \in 1 .. Len(past[r]) + 1 :
            (IF i = Len(past[r]) + 1 THEN f.code ELSE past[r][i].code) \in S
      BY <1>1, <1>2, <1>8
    <3> QED
      BY <1>1, <3>1
  <2> HIDE DEF new
  <2>2. Append(old, f.code) \in Seq(S) /\ Len(Append(old, f.code)) = Len(past[r]) + 1
        /\ \A i \in 1 .. Len(past[r]) + 1 :
             Append(old, f.code)[i] = IF i = Len(past[r]) + 1 THEN f.code ELSE past[r][i].code
    BY <1>1, <1>6, <1>8
  <2> QED
    BY <2>1, <2>2, SeqEqual
<1>10. \A x \in Requests \ {r} : Verdicts'[x] = Verdicts[x]
  BY <1>3 DEF Verdicts
<1>11. Verdicts' = [Verdicts EXCEPT ![r] = Append(old, f.code)]
  <2>1. /\ Verdicts = [x \in Requests |-> Verdicts[x]]
        /\ Verdicts' = [x \in Requests |-> Verdicts'[x]]
    BY DEF Verdicts
  <2> QED
    BY <1>7, <1>9, <1>10, <2>1
<1>12. Promise!Failure(f.code)
  BY DEF IsRetriable, Promise!Failure
<1> QED
  BY <1>11, <1>12 DEF Promise!Condemn, old

(* The end of a member's attempt is a verdict on it or the whole answer.   *)
LEMMA SettleRefined ==
  ASSUME IInv, NEW r \in Requests, InTransit(r), InGroup(r),
         NEW s \in {Interim, 502} \cup Statuses, NEW n \in 0 .. MaxChunks,
         NEW who \in {Yai, attempt[r].to},
         Settle(r, who, s, n), UNCHANGED want
  PROVE  Promise!GiveUp(r) \/ Promise!AllFailed(r) \/ Promise!Answer(r)
<1> DEFINE group == GroupOf(want[r])
           f == [to |-> attempt[r].to, cred |-> attempt[r].cred,
                 status |-> attempt[r].status, code |-> s]
<1>1. /\ TypeOK /\ Tracked(r) /\ Nothing.from = {}
      /\ group \in Seq(Providers) /\ Len(group) \in Nat
  BY GroupType DEF IInv, Nothing
<1>2. /\ client[r] = Nothing /\ client[r].from = {}
      /\ next[r] = Len(past[r]) + 1 /\ Len(past[r]) \in Nat
      /\ attempt[r].to = group[next[r]]
  BY <1>1 DEF Tracked, TryingGroup, TypeOK
<1>3. /\ Plan[r] = group /\ Buffered[r] /\ client[r] = Promise!Silence
      /\ Len(Verdicts[r]) = Len(past[r]) /\ Promise!Trying(r) = attempt[r].to
  <2>1. Plan[r] = group /\ Buffered[r]
    BY DEF Plan, Buffered
  <2>2. Verdicts[r] = [i \in 1 .. Len(past[r]) |-> past[r][i].code]
    BY DEF Verdicts
  <2>3. Len(Verdicts[r]) = Len(past[r])
    BY <1>2, <2>2
  <2>4. client[r] = Promise!Silence
    BY <1>2 DEF Nothing, Promise!Silence
  <2> QED
    BY <1>2, <2>1, <2>3, <2>4 DEF Promise!Trying
<1>4. f \in Attempts /\ f.code = s /\ [attempt[r] EXCEPT !.code = s] = f
  <2>1. attempt[r] \in Attempts
    BY <1>1 DEF TypeOK
  <2> QED
    BY <2>1 DEF Attempts
<1>5. ASSUME NEW u, NEW st, NEW m, Tell(r, u, st, m) PROVE Promise!Hear(r, u, st, m)
  <2>1. client[r].from \cup {u} = {u}
    BY <1>2
  <2> QED
    BY <1>5, <2>1 DEF Tell, Promise!Hear
<1>6. pc[r] \notin {"done", "exhausted", "unread", "aborted"}
  BY DEF InTransit
<1>7. UNCHANGED <<Plan, Buffered>>
  BY Unmoved
<1>8. /\ 502 \in Told
      /\ IsRetriable(s) => s \in Told /\ Promise!Failure(s)
      /\ ~ IsRetriable(s) => Copied(s) \in Told /\ ~ Promise!Failure(Copied(s))
  <2>1. 502 \in Told
    BY DEF Told
  <2>2. CASE s = Interim
    <3>1. s = 103 /\ ~ IsRetriable(s) /\ Copied(s) = 200
      BY <2>2 DEF Interim, IsRetriable, Copied
    <3> QED
      BY <2>1, <3>1 DEF Told, Promise!Failure
  <2>3. CASE s \in Statuses \cup {502}
    <3>1. s \in Nat /\ s >= 200 /\ s \in Told
      BY <2>3, StatusAssumption DEF Told
    <3>2. Copied(s) = s
      BY <3>1 DEF Copied
    <3> QED
      BY <2>1, <3>1, <3>2 DEF IsRetriable, Promise!Failure
  <2> QED
    BY <2>2, <2>3
<1> HIDE DEF f, group
<1>9. CASE /\ ~ IsRetriable(s)
           /\ Tell(r, who, Copied(s), n) /\ Goto(r, "done")
           /\ UNCHANGED <<next, past>>
  <2>1. Open[r] /\ Promise!Close(r)
    BY <1>1, <1>6, <1>9, MovesOn DEF Goto
  <2>2. Promise!Hear(r, who, Copied(s), n) /\ who \in {Promise!Trying(r), Yai}
    BY <1>3, <1>5, <1>9
  <2>3. UNCHANGED Verdicts
    BY <1>9, Unmoved
  <2>4. Promise!Answer(r)
    BY <1>3, <1>7, <1>8, <1>9, <2>1, <2>2, <2>3 DEF Promise!Answer
  <2> QED
    BY <2>4
<1>10. CASE /\ IsRetriable(s) /\ next[r] < Len(group)
            /\ next' = [next EXCEPT ![r] = next[r] + 1]
            /\ past' = [past EXCEPT ![r] = Append(past[r], f)]
            /\ Goto(r, "attempting")
            /\ UNCHANGED client
  <2>1. Open[r] /\ UNCHANGED Open
    <3>1. pc' = [pc EXCEPT ![r] = "attempting"]
      BY <1>10 DEF Goto
    <3>2. "attempting" \notin {"done", "exhausted", "unread", "aborted"}
      OBVIOUS
    <3> QED
      BY <1>1, <1>6, <3>1, <3>2, MovesOn
  <2>2. Promise!Condemn(r, s)
    BY <1>1, <1>4, <1>10, Condemned
  <2>3. Len(Verdicts[r]) + 1 < Len(Plan[r])
    BY <1>2, <1>3, <1>10
  <2>4. Promise!GiveUp(r)
    BY <1>3, <1>7, <1>8, <1>10, <2>1, <2>2, <2>3 DEF Promise!GiveUp
  <2> QED
    BY <2>4
<1>11. CASE /\ IsRetriable(s) /\ next[r] = Len(group)
            /\ past' = [past EXCEPT ![r] = Append(past[r], f)]
            /\ Tell(r, Yai, 502, 0) /\ Goto(r, "exhausted")
            /\ UNCHANGED next
  <2>1. Open[r] /\ Promise!Close(r)
    BY <1>1, <1>6, <1>11, MovesOn DEF Goto
  <2>2. Promise!Condemn(r, s)
    BY <1>1, <1>4, <1>11, Condemned
  <2>3. Len(Verdicts[r]) + 1 = Len(Plan[r]) /\ Promise!Hear(r, Yai, 502, 0)
    BY <1>2, <1>3, <1>5, <1>11
  <2>4. Promise!AllFailed(r)
    BY <1>3, <1>7, <1>8, <1>11, <2>1, <2>2, <2>3 DEF Promise!AllFailed
  <2> QED
    BY <2>4
<1> QED
  BY <1>4, <1>9, <1>10, <1>11 DEF Settle, group

(* The steps of one request.                                               *)
LEMMA RequestRefined ==
  ASSUME IInv, NEW r \in Requests, [Next]_vars,
         \/ Arrive(r) \/ BodyUnreadable(r) \/ Direct(r) \/ NotFound(r)
         \/ Transport(r) \/ EarlyHints(r) \/ Respond(r) \/ RoundTripFails(r)
         \/ CopyChunk(r) \/ BodyEnds(r) \/ BodyBreaks(r) \/ ClientLeaves(r)
  PROVE  Promise!Next \/ UNCHANGED Promise!vars
<1>1. TypeOK /\ Tracked(r) /\ Nothing.from = {} /\ Nothing = Promise!Silence
      /\ 0 \in 0 .. MaxChunks
  BY StatusAssumption DEF IInv, Nothing, Promise!Silence
<1>2. ASSUME UNCHANGED <<want, past, client>>, UNCHANGED Open
      PROVE  UNCHANGED Promise!vars
  BY <1>2, Unmoved DEF Promise!vars
<1>3. ASSUME NEW u, NEW st, NEW m, client[r] = Nothing, Tell(r, u, st, m)
      PROVE  Promise!Hear(r, u, st, m)
  <2>1. client[r].from \cup {u} = {u}
    BY <1>1, <1>3
  <2> QED
    BY <1>3, <2>1 DEF Tell, Promise!Hear
<1>4. ASSUME NEW l, pc' = [pc EXCEPT ![r] = l],
             pc[r] \notin {"done", "exhausted", "unread", "aborted"},
             l \notin {"done", "exhausted", "unread", "aborted"},
             UNCHANGED <<want, past, client>>
      PROVE  UNCHANGED Promise!vars
  BY <1>1, <1>2, <1>4, MovesOn
<1>5. ASSUME Arrive(r) \/ Direct(r) \/ Transport(r) \/ EarlyHints(r) \/ ClientLeaves(r)
      PROVE  UNCHANGED Promise!vars
  <2>1. CASE Arrive(r)
    BY <1>4, <2>1 DEF Arrive, Goto
  <2>2. CASE Direct(r)
    BY <1>4, <2>2 DEF Direct, Goto
  <2>3. CASE Transport(r)
    BY <1>4, <2>3, TransportMoves DEF GoesOn, Goto, Sending
  <2>4. CASE EarlyHints(r) \/ ClientLeaves(r)
    BY <1>2, <2>4, Unmoved DEF EarlyHints, ClientLeaves
  <2> QED
    BY <1>5, <2>1, <2>2, <2>3, <2>4
<1>6. ASSUME NEW st \in Told, client[r] = Nothing, past[r] = <<>>, Open[r],
             Tell(r, Yai, st, 0), Promise!Close(r), UNCHANGED <<want, past>>
      PROVE  Promise!Refuse(r)
  <2>1. Verdicts[r] = <<>>
    <3>1. Verdicts[r] = [i \in 1 .. Len(past[r]) |-> past[r][i].code]
      BY DEF Verdicts
    <3> QED
      BY <1>6, <3>1
  <2> QED
    BY <1>1, <1>3, <1>6, <2>1, Unmoved DEF Promise!Refuse
<1>7. CASE BodyUnreadable(r)
  <2>1. Open[r] /\ Promise!Close(r)
    BY <1>1, <1>7, MovesOn DEF BodyUnreadable, Goto
  <2>2. client[r] = Nothing /\ past[r] = <<>>
    BY <1>1, <1>7 DEF BodyUnreadable, Tracked, CodeSoFar
  <2>3. Promise!Refuse(r)
    BY <1>6, <1>7, <2>1, <2>2 DEF BodyUnreadable, Told
  <2> QED
    BY <2>3 DEF Promise!Next
<1>8. CASE NotFound(r)
  <2>1. Open[r] /\ Promise!Close(r) /\ client[r] = Nothing
    BY <1>1, <1>8, MovesOn DEF NotFound, Goto, Tracked, TryingGroup, TryingDirect
  <2>2. Tell(r, Yai, 404, 0) /\ UNCHANGED <<want, past>> /\ 404 \in Told
    BY <1>8 DEF NotFound, Told
  <2>3. ASSUME InGroup(r) PROVE Promise!Answer(r)
    <3>1. Promise!Hear(r, Yai, 404, 0) /\ ~ Promise!Failure(404)
      BY <1>3, <2>1, <2>2 DEF Promise!Failure
    <3>2. Buffered[r] /\ client[r] = Promise!Silence
      BY <1>1, <2>1, <2>3 DEF Buffered
    <3> QED
      BY <1>1, <2>1, <2>2, <3>1, <3>2, Unmoved DEF Promise!Answer
  <2>4. ASSUME ~ InGroup(r) PROVE Promise!Refuse(r)
    <3>1. past[r] = <<>>
      BY <1>1, <2>4 DEF Tracked, TryingDirect
    <3> QED
      BY <1>6, <2>1, <2>2, <3>1
  <2> QED
    BY <2>3, <2>4 DEF Promise!Next
<1>9. ASSUME ~ InGroup(r)
      PROVE  /\ past[r] = <<>> /\ ~ Buffered[r]
             /\ Promise!Trying(r) = want[r]
             /\ InTransit(r) => attempt[r].to = want[r]
  <2>1. past[r] = <<>>
    BY <1>1, <1>9 DEF Tracked, TryingDirect
  <2>2. InTransit(r) => attempt[r].to = want[r]
    BY <1>1, <1>9 DEF Tracked, TryingDirect
  <2>3. Plan[r] = <<want[r]>> /\ ~ Buffered[r]
    BY <1>9 DEF Buffered, Plan
  <2>4. Verdicts[r] = <<>>
    <3>1. Verdicts[r] = [i \in 1 .. Len(past[r]) |-> past[r][i].code]
      BY DEF Verdicts
    <3> QED
      BY <2>1, <3>1
  <2>5. Promise!Trying(r) = want[r]
    <3>1. Len(Verdicts[r]) + 1 = 1 /\ <<want[r]>>[1] = want[r]
      BY <2>4
    <3> QED
      BY <2>3, <3>1 DEF Promise!Trying
  <2> QED
    BY <2>1, <2>5, <2>2, <2>3
<1>10. CASE Respond(r)
  <2>1. PICK st \in Statuses :
          IF InGroup(r) THEN UNCHANGED client ELSE Tell(r, attempt[r].to, st, 0)
    BY <1>10 DEF Respond
  <2>2. /\ pc[r] \in {"writing", "waiting"} /\ pc[r] \in Sending /\ pc' = [pc EXCEPT ![r] = "body"]
        /\ UNCHANGED <<want, past>>
    BY <1>10 DEF Respond, Goto
  <2>3. CASE InGroup(r)
    BY <1>4, <2>1, <2>2, <2>3
  <2>4. CASE ~ InGroup(r)
    <3>1. client[r] = Nothing
      BY <1>1, <2>2, <2>4 DEF Tracked, TryingDirect
    <3>2. attempt[r].to = Promise!Trying(r) /\ ~ Buffered[r]
      BY <1>9, <2>2, <2>4 DEF InTransit
    <3>3. Promise!Hear(r, Promise!Trying(r), st, 0) /\ st \in Told
      BY <1>3, <2>1, <2>4, <3>1, <3>2 DEF Told
    <3>4. Open[r] /\ UNCHANGED Open
      <4>1. /\ pc[r] \notin {"done", "exhausted", "unread", "aborted"}
            /\ "body" \notin {"done", "exhausted", "unread", "aborted"}
        BY <2>2
      <4> QED
        BY <1>1, <2>2, <4>1, MovesOn
    <3>5. Promise!Begin(r)
      BY <1>1, <2>2, <3>1, <3>2, <3>3, <3>4, Unmoved DEF Promise!Begin
    <3> QED
      BY <3>5 DEF Promise!Next
  <2> QED
    BY <2>3, <2>4
<1>11. CASE RoundTripFails(r)
  <2>1. UNCHANGED want /\ InTransit(r) /\ pc[r] \in Sending
    BY <1>11 DEF RoundTripFails, FailRoundTrip, InTransit
  <2>2. CASE InGroup(r)
    <3>1. Settle(r, Yai, Recorded(r, 502), 0)
      BY <1>11, <2>2 DEF RoundTripFails, FailRoundTrip
    <3>2. Recorded(r, 502) \in {Interim, 502} \cup Statuses
      BY <1>1, <2>1, <2>2 DEF Recorded, Tracked, CodeSoFar
    <3>3. Promise!GiveUp(r) \/ Promise!AllFailed(r) \/ Promise!Answer(r)
      BY <1>1, <2>1, <2>2, <3>1, <3>2, SettleRefined
    <3> QED
      BY <3>3 DEF Promise!Next
  <2>3. CASE ~ InGroup(r)
    <3>1. Tell(r, Yai, 502, 0) /\ pc' = [pc EXCEPT ![r] = "done"] /\ UNCHANGED past
      BY <1>11, <2>3 DEF RoundTripFails, FailRoundTrip, Goto
    <3>2. client[r] = Nothing /\ past[r] = <<>>
      BY <1>1, <2>1, <2>3 DEF Tracked, TryingDirect
    <3>3. Open[r] /\ Promise!Close(r)
      BY <1>1, <2>1, <3>1, MovesOn
    <3>4. Promise!Refuse(r)
      BY <1>6, <2>1, <3>1, <3>2, <3>3 DEF Told
    <3> QED
      BY <3>4 DEF Promise!Next
  <2> QED
    BY <2>2, <2>3
<1>12. CASE CopyChunk(r)
  <2>1. /\ pc[r] = "body" /\ chunks[r] < MaxChunks /\ UNCHANGED <<pc, want, past>>
        /\ client' = IF InGroup(r) THEN client ELSE [client EXCEPT ![r].chunks = chunks[r] + 1]
    BY <1>12 DEF CopyChunk
  <2>2. CASE InGroup(r)
    BY <1>2, <2>1, <2>2, Unmoved
  <2>3. CASE ~ InGroup(r)
    <3>1. client[r] = [status |-> attempt[r].code, from |-> {attempt[r].to}, chunks |-> chunks[r]]
      BY <1>1, <2>1, <2>3 DEF Tracked, TryingDirect
    <3>2. client[r].from # Promise!Silence.from /\ client[r].chunks = chunks[r]
      BY <3>1 DEF Promise!Silence
    <3>3. Open[r] /\ ~ Buffered[r]
      BY <1>9, <2>1, <2>3 DEF Open
    <3>4. client' = [client EXCEPT ![r].chunks = client[r].chunks + 1]
      BY <2>1, <2>3, <3>2
    <3>5. Promise!Stream(r)
      BY <2>1, <3>2, <3>3, <3>4, Unmoved DEF Promise!Stream
    <3> QED
      BY <3>5 DEF Promise!Next
  <2> QED
    BY <2>2, <2>3
<1>13. ASSUME pc[r] = "body", NEW l \in {"done", "aborted"}, pc' = [pc EXCEPT ![r] = l],
              UNCHANGED <<want, past, client>>
       PROVE  Promise!End(r)
  <2>1. Open[r] /\ Promise!Close(r)
    BY <1>1, <1>13, MovesOn
  <2> QED
    BY <1>13, <2>1, Unmoved DEF Promise!End
<1>14. CASE BodyEnds(r)
  <2>1. UNCHANGED want /\ InTransit(r) /\ pc[r] = "body"
    BY <1>14 DEF BodyEnds, InTransit
  <2>2. CASE InGroup(r)
    <3>1. Settle(r, attempt[r].to, attempt[r].code, chunks[r])
      BY <1>14, <2>2 DEF BodyEnds
    <3>2. attempt[r].code \in {Interim, 502} \cup Statuses /\ chunks[r] \in 0 .. MaxChunks
      BY <1>1, <2>1 DEF Tracked, CodeSoFar, TypeOK
    <3>3. Promise!GiveUp(r) \/ Promise!AllFailed(r) \/ Promise!Answer(r)
      BY <2>1, <2>2, <3>1, <3>2, SettleRefined
    <3> QED
      BY <3>3 DEF Promise!Next
  <2>3. CASE ~ InGroup(r)
    <3>1. Promise!End(r)
      BY <1>13, <1>14, <2>1, <2>3 DEF BodyEnds, Goto
    <3> QED
      BY <3>1 DEF Promise!Next
  <2> QED
    BY <2>2, <2>3
<1>15. CASE BodyBreaks(r)
  <2>1. Promise!End(r)
    BY <1>13, <1>15 DEF BodyBreaks, Goto
  <2> QED
    BY <2>1 DEF Promise!Next
<1> QED
  BY <1>5, <1>7, <1>8, <1>10, <1>11, <1>12, <1>14, <1>15

(* Fallback implements Failover: whatever the attempts went through, the   *)
(* client's view is that of members given up in order and one answer.      *)
THEOREM Implementation == Spec => ImplementsFailover
<1>1. IInv /\ [Next]_vars => [Promise!Next]_(Promise!vars)
  <2> SUFFICES ASSUME IInv, [Next]_vars PROVE Promise!Next \/ UNCHANGED Promise!vars
    OBVIOUS
  <2>1. CASE UNCHANGED vars
    <3>1. UNCHANGED <<want, past, client, pc>>
      BY <2>1 DEF vars
    <3> QED
      BY <3>1, Unmoved DEF Promise!vars
  <2>2. CASE Next
    BY <2>2, RequestRefined DEF Next, Transport
  <2> QED
    BY <2>1, <2>2
<1> QED
  BY PromiseInit, <1>1, Invariance, PTL DEF Spec, ImplementsFailover, Promise!Spec
=============================================================================
