------------------------------ MODULE Fallback ------------------------------
(***************************************************************************)
(* A request's way through internal/fallback and internal/proxy: the group *)
(* of the requested provider is tried member by member, each attempt into  *)
(* a recorder, until one answers with something that is not retriable; a   *)
(* provider in no group is proxied straight to the client.                 *)
(* The reverse proxy, its transport and the recorder of Go's library, the  *)
(* upstreams and the client are external: an upstream may answer 1xx       *)
(* first, answer any status, send a body in pieces, break it off, stop     *)
(* reading, or never answer; the client may stop sending its body, and     *)
(* leave at any time.                                                      *)
(***************************************************************************)
EXTENDS Integers, Sequences

CONSTANTS Requests,
          Providers,  \* names in the configuration
          Groups,     \* fallback.groups: a sequence of sequences of names
          Built,      \* providers proxy.New kept; the others failed to build
          Keyed,      \* providers whose key is set by the director
          OAuth,      \* providers whose token comes from a token source
          Signing,    \* providers whose requests are signed, body and all
          Statuses,   \* final statuses the upstreams answer
          MaxChunks,  \* bound on the pieces of one body
          Unknown,    \* a requested name that is not configured
          Yai,        \* the proxy itself, as author of an answer
          Client,     \* the client's own credential
          NoCred

ASSUME ProviderAssumption ==
  /\ Groups \in Seq(Seq(Providers))
  /\ Built \subseteq Providers /\ Keyed \subseteq Providers /\ OAuth \subseteq Providers
  /\ Signing \subseteq Providers
  /\ Keyed \cap OAuth = {}
  /\ {Unknown, Yai, Client, NoCred} \cap Providers = {}
  /\ Yai # Unknown /\ Client # NoCred /\ Client # Unknown
ASSUME StatusAssumption == Statuses \subseteq 200 .. 599 /\ MaxChunks \in Nat

VARIABLES pc,      \* where each request is
          want,    \* the provider it names
          next,    \* the group position to try next; 0: not in a group
          attempt, \* the attempt being made: to whom, with whose credential,
                   \* its upstream's status, its recorder's Code
          past,    \* the attempts given up
          chunks,  \* pieces of the body copied in this attempt
          client,  \* what the client has seen: the status, whose bytes, how many pieces
          gone     \* the client has left and the server has noticed: its context is over

vars == <<pc, want, next, attempt, past, chunks, client, gone>>

-----------------------------------------------------------------------------
Interim == 103

(* The last group listing p wins; a provider in none has the empty group.  *)
GroupOf(p) ==
  LET listing == {g \in 1 .. Len(Groups) : \E i \in 1 .. Len(Groups[g]) : Groups[g][i] = p} IN
  IF listing = {} THEN <<>>
  ELSE Groups[CHOOSE g \in listing : \A h \in listing : h <= g]

InGroup(r) == GroupOf(want[r]) # <<>>

IsRetriable_allErrors(s) == s >= 400
IsRetriable(s) == s = 429 \/ s >= 500

(* The provider of the attempt about to be made.                           *)
Candidate(r) == IF InGroup(r) THEN GroupOf(want[r])[next[r]] ELSE want[r]

NoAttempt == [to |-> Unknown, cred |-> NoCred, status |-> 0, code |-> 0]
Nothing == [status |-> 0, from |-> {}, chunks |-> 0]

Init == /\ pc = [r \in Requests |-> "arriving"]
        /\ want \in [Requests -> Providers \cup {Unknown}]
        /\ next = [r \in Requests |-> 0]
        /\ attempt = [r \in Requests |-> NoAttempt]
        /\ past = [r \in Requests |-> <<>>]
        /\ chunks = [r \in Requests |-> 0]
        /\ client = [r \in Requests |-> Nothing]
        /\ gone = [r \in Requests |-> FALSE]

Goto(r, l) == pc' = [pc EXCEPT ![r] = l]

(* The client gets a status of who's, with n pieces of a body.             *)
Tell(r, who, s, n) ==
  client' = [client EXCEPT ![r] = [status |-> s, chunks |-> n,
                                   from |-> client[r].from \cup {who}]]

-----------------------------------------------------------------------------
(* Group lookup, and for a group the buffering of the request's body.      *)
Arrive(r) ==
  /\ pc[r] = "arriving"
  /\ next' = [next EXCEPT ![r] = IF InGroup(r) THEN 1 ELSE 0]
  /\ Goto(r, "attempting")
  /\ UNCHANGED <<want, attempt, past, chunks, client, gone>>

BodyUnreadable(r) ==
  /\ pc[r] = "arriving" /\ InGroup(r)
  /\ Tell(r, Yai, 502, 0)
  /\ Goto(r, "unread")
  /\ UNCHANGED <<want, next, attempt, past, chunks, gone>>

(* What the director leaves in the attempt's headers: the client's own     *)
(* credential deleted, the provider's set, unless its token source failed. *)
Credential(p, tokenOk) ==
  IF p \in Keyed \/ (p \in OAuth /\ tokenOk) THEN p ELSE NoCred

(* The proxy knows the provider: clone, director, and on to the transport. *)
Direct(r) ==
  /\ pc[r] = "attempting" /\ Candidate(r) \in Built
  /\ \E tokenOk \in BOOLEAN :
       attempt' = [attempt EXCEPT ![r] =
          [to |-> Candidate(r), cred |-> Credential(Candidate(r), tokenOk),
           status |-> 0, code |-> 0]]
  /\ chunks' = [chunks EXCEPT ![r] = 0]
  /\ Goto(r, IF Candidate(r) \in Signing THEN "signing" ELSE "directed")
  /\ UNCHANGED <<want, next, past, client, gone>>

(* copyRecorder: a recorded 1xx goes out as one, and the body then makes   *)
(* the connection answer 200.                                              *)
Copied(s) == IF s < 200 THEN 200 ELSE s

(* The end of an attempt in a group that left n pieces and Code s of who's *)
(* in the recorder: the client's answer, the next member, or no one left.  *)
Settle_forgetsLast(r, who, s, n) ==
  LET failed == Append(past[r], [attempt[r] EXCEPT !.code = s]) IN
  \/ /\ ~ IsRetriable(s)
     /\ Tell(r, who, Copied(s), n)
     /\ Goto(r, "done")
     /\ UNCHANGED <<next, past>>
  \/ /\ IsRetriable(s) /\ next[r] + 1 < Len(GroupOf(want[r]))
     /\ next' = [next EXCEPT ![r] = next[r] + 1]
     /\ past' = [past EXCEPT ![r] = failed]
     /\ Goto(r, "attempting")
     /\ UNCHANGED client
  \/ /\ IsRetriable(s) /\ next[r] + 1 >= Len(GroupOf(want[r]))
     /\ past' = [past EXCEPT ![r] = failed]
     /\ Tell(r, Yai, 502, 0)
     /\ Goto(r, "exhausted")
     /\ UNCHANGED next
Settle(r, who, s, n) ==
  LET failed == Append(past[r], [attempt[r] EXCEPT !.code = s]) IN
  \/ /\ ~ IsRetriable(s)
     /\ Tell(r, who, Copied(s), n)
     /\ Goto(r, "done")
     /\ UNCHANGED <<next, past>>
  \/ /\ IsRetriable(s) /\ next[r] < Len(GroupOf(want[r]))
     /\ next' = [next EXCEPT ![r] = next[r] + 1]
     /\ past' = [past EXCEPT ![r] = failed]
     /\ Goto(r, "attempting")
     /\ UNCHANGED client
  \/ /\ IsRetriable(s) /\ next[r] = Len(GroupOf(want[r]))
     /\ past' = [past EXCEPT ![r] = failed]
     /\ Tell(r, Yai, 502, 0)
     /\ Goto(r, "exhausted")
     /\ UNCHANGED next

(* The proxy does not know the provider: 404, which ends a group's round.  *)
NotFound(r) ==
  /\ pc[r] = "attempting" /\ Candidate(r) \notin Built
  /\ Tell(r, Yai, 404, 0)
  /\ Goto(r, "done")
  /\ UNCHANGED <<want, next, attempt, past, chunks, gone>>

-----------------------------------------------------------------------------
(* The places of a round trip: the signer reads the whole body; the        *)
(* transport looks at the context, gets a connection, writes the request   *)
(* with its body, which may come from the client all the while, and waits  *)
(* for a header.                                                           *)
Sending == {"signing", "directed", "dialling", "writing", "waiting"}

GoesOn(r, from, to) ==
  /\ pc[r] = from
  /\ Goto(r, to)
  /\ UNCHANGED <<want, next, attempt, past, chunks, client, gone>>

Signed(r) == GoesOn(r, "signing", "directed")

(* A context that is over fails the round trip before anything is sent.    *)
Dial(r) == ~ gone[r] /\ GoesOn(r, "directed", "dialling")

Connect(r) == GoesOn(r, "dialling", "writing")

(* Only now does ResponseHeaderTimeout start.                              *)
Written(r) == GoesOn(r, "writing", "waiting")

(* A 1xx is passed on at once; a recorder keeps it as its Code.            *)
EarlyHints(r) ==
  /\ pc[r] \in {"writing", "waiting"} /\ InGroup(r) /\ attempt[r].code = 0
  /\ attempt' = [attempt EXCEPT ![r].code = Interim]
  /\ UNCHANGED <<pc, want, next, past, chunks, client, gone>>

(* The Code left in a recorder that is now written s: the first one sticks.*)
Recorded(r, s) == IF InGroup(r) /\ attempt[r].code # 0 THEN attempt[r].code ELSE s

Answered(r, s) == [to |-> attempt[r].to, cred |-> attempt[r].cred,
                   status |-> s, code |-> Recorded(r, s)]

(* The final status reaches the recorder, or a direct client; it may come  *)
(* before the request is written.                                          *)
Respond_unrecorded(r) ==
  /\ pc[r] \in {"writing", "waiting"}
  /\ \E s \in Statuses :
       /\ attempt' = [attempt EXCEPT ![r] = Answered(r, s)]
       /\ Tell(r, attempt[r].to, s, 0)
  /\ Goto(r, "body")
  /\ UNCHANGED <<want, next, past, chunks, gone>>
Respond(r) ==
  /\ pc[r] \in {"writing", "waiting"}
  /\ \E s \in Statuses :
       /\ attempt' = [attempt EXCEPT ![r] = Answered(r, s)]
       /\ IF InGroup(r) THEN UNCHANGED client ELSE Tell(r, attempt[r].to, s, 0)
  /\ Goto(r, "body")
  /\ UNCHANGED <<want, next, past, chunks, gone>>

(* A body that cannot be read, no connection, no header in time, or the    *)
(* client gone: the proxy's error handler answers 502.                     *)
FailRoundTrip(r, places) ==
  /\ pc[r] \in places
  /\ IF InGroup(r) THEN Settle(r, Yai, Recorded(r, 502), 0)
     ELSE Tell(r, Yai, 502, 0) /\ Goto(r, "done") /\ UNCHANGED <<next, past>>
  /\ UNCHANGED <<want, attempt, chunks, gone>>
RoundTripFails_untimed(r) == FailRoundTrip(r, Sending \ {"waiting"})
RoundTripFails_detached(r) == FailRoundTrip(r, Sending \ {"writing"})
RoundTripFails(r) == FailRoundTrip(r, Sending)

(* A piece of the body is copied and flushed: to the recorder in a group.  *)
CopyChunk(r) ==
  /\ pc[r] = "body" /\ chunks[r] < MaxChunks
  /\ chunks' = [chunks EXCEPT ![r] = chunks[r] + 1]
  /\ client' = IF InGroup(r) THEN client ELSE [client EXCEPT ![r].chunks = chunks[r] + 1]
  /\ UNCHANGED <<pc, want, next, attempt, past, gone>>

BodyEnds(r) ==
  /\ pc[r] = "body"
  /\ IF InGroup(r) THEN Settle(r, attempt[r].to, attempt[r].code, chunks[r])
     ELSE Goto(r, "done") /\ UNCHANGED <<next, past, client>>
  /\ UNCHANGED <<want, attempt, chunks, gone>>

(* The upstream breaks off, or the client has left: the proxy panics with  *)
(* ErrAbortHandler, past the loop over the group.                          *)
BodyBreaks(r) ==
  /\ pc[r] = "body"
  /\ Goto(r, "aborted")
  /\ UNCHANGED <<want, next, attempt, past, chunks, client, gone>>

ClientLeaves(r) ==
  /\ ~ gone[r] /\ pc[r] \in {"arriving", "attempting", "body"} \cup Sending
  /\ gone' = [gone EXCEPT ![r] = TRUE]
  /\ UNCHANGED <<pc, want, next, attempt, past, chunks, client>>

Next == \E r \in Requests :
          \/ Arrive(r) \/ BodyUnreadable(r) \/ Direct(r) \/ NotFound(r)
          \/ Signed(r) \/ Dial(r) \/ Connect(r) \/ Written(r)
          \/ EarlyHints(r) \/ Respond(r) \/ RoundTripFails(r)
          \/ CopyChunk(r) \/ BodyEnds(r) \/ BodyBreaks(r) \/ ClientLeaves(r)

Spec == Init /\ [][Next]_vars

(* The handler's goroutine runs on; the dialer's timeouts end every wait   *)
(* for a connection and ResponseHeaderTimeout every wait for a header, but *)
(* nothing ends the reading and the writing of a request's body, nor the   *)
(* wait for the body of an answer.  A context that is over ends each.      *)
Fairness ==
  \A r \in Requests :
    /\ WF_vars(Direct(r) \/ NotFound(r))
    /\ WF_vars(pc[r] = "directed" /\ (Dial(r) \/ RoundTripFails(r)))
    /\ WF_vars(pc[r] \in {"dialling", "waiting"} /\ RoundTripFails(r))
    /\ WF_vars(gone[r] /\ \/ Arrive(r) \/ BodyUnreadable(r)
                          \/ Signed(r) \/ RoundTripFails(r) \/ BodyBreaks(r))

FairSpec == Spec /\ Fairness

-----------------------------------------------------------------------------
Failed(s) == s = 429 \/ s \in 500 .. 599
Attempts == [to : Providers \cup {Unknown}, cred : Providers \cup {NoCred, Client},
             status : {0} \cup Statuses, code : {0, Interim, 502} \cup Statuses]

(* Every variable has its type.                                            *)
TypeOK ==
  /\ pc \in [Requests -> {"arriving", "attempting", "body", "done", "exhausted",
                          "unread", "aborted"} \cup Sending]
  /\ want \in [Requests -> Providers \cup {Unknown}]
  /\ next \in [Requests -> Nat]
  /\ \A r \in Requests : next[r] <= Len(GroupOf(want[r]))
  /\ attempt \in [Requests -> Attempts]
  /\ past \in [Requests -> Seq(Attempts)]
  /\ chunks \in [Requests -> 0 .. MaxChunks]
  /\ client \in [Requests -> [status : Nat, from : SUBSET (Providers \cup {Unknown, Yai}),
                              chunks : 0 .. MaxChunks]]
  /\ gone \in [Requests -> BOOLEAN]

(* A group's members are tried in its order, each once, and the next one   *)
(* only after a complete 429 or 5xx of the one before (fallback.go:66-93). *)
GivenUpInOrder(r) ==
  \A i \in 1 .. Len(past[r]) :
    /\ i <= Len(GroupOf(want[r])) /\ past[r][i].to = GroupOf(want[r])[i]
    /\ Failed(past[r][i].code)
    /\ past[r][i].status \in {0, past[r][i].code}

InOrderAfterFailure == \A r \in Requests : GivenUpInOrder(r)

(* "All providers failed" is answered only after every member was tried    *)
(* and failed, and nothing else with it (fallback.go:96-97).               *)
AllWereTried(r) ==
  pc[r] = "exhausted" => /\ Len(past[r]) = Len(GroupOf(want[r]))
                         /\ client[r] = [status |-> 502, from |-> {Yai}, chunks |-> 0]

ExhaustedMeansAllFailed == \A r \in Requests : AllWereTried(r)

(* No attempt carries the client's credential or another provider's, not   *)
(* even when the token source failed or an earlier member had a key        *)
(* (proxy.go:184-213, fallback.go:68).                                     *)
OwnCredentials(r) ==
  /\ attempt[r].cred \in {attempt[r].to, NoCred}
  /\ \A i \in 1 .. Len(past[r]) : past[r][i].cred \in {past[r][i].to, NoCred}

(* The client never sees parts of two answers: nothing of an attempt given *)
(* up reaches it, and a provider's answer is complete and has the status   *)
(* the recorder kept (fallback.go:84-91).                                  *)
HeardOne(r) ==
  /\ \A a, b \in client[r].from : a = b
  /\ pc[r] = "done" /\ client[r].from # {Yai} =>
       client[r] = [status |-> Copied(attempt[r].code),
                    from |-> {attempt[r].to}, chunks |-> chunks[r]]

OneVoice == \A r \in Requests : HeardOne(r)

(* Once its client has left a request comes to its end, whatever its       *)
(* upstreams do and however many it has left to try (fallback.go:68).      *)
LeavingEnds ==
  \A r \in Requests : gone[r] ~> pc[r] \in {"done", "exhausted", "unread", "aborted"}

(* As long as no request's body is awaited for ever, each request gets     *)
(* past the headers of some upstream or is answered, however many members  *)
(* are unreachable or silent (proxy.go:109, :112).                         *)
BodiesMove == \A r \in Requests : []<>(pc[r] \notin {"signing", "writing"})

HeadersInTime ==
  BodiesMove => \A r \in Requests : pc[r] = "attempting" ~>
                  pc[r] \in {"body", "done", "exhausted", "aborted"}

-----------------------------------------------------------------------------
InTransit(r) == pc[r] \in Sending \cup {"body"}

(* While a group is being tried nothing has reached the client, one member *)
(* is at work and those before it are given up.                            *)
TryingGroup(r) ==
  InGroup(r) /\ (pc[r] = "attempting" \/ InTransit(r)) =>
    /\ next[r] = Len(past[r]) + 1
    /\ client[r] = Nothing
    /\ InTransit(r) => attempt[r].to = GroupOf(want[r])[next[r]]

(* A direct client has been sent what its provider's attempt has so far.   *)
TryingDirect(r) ==
  ~ InGroup(r) =>
    /\ past[r] = <<>>
    /\ InTransit(r) => attempt[r].to = want[r]
    /\ pc[r] \in {"attempting"} \cup Sending => client[r] = Nothing
    /\ pc[r] = "body" => client[r] = [status |-> attempt[r].code,
                                      from |-> {attempt[r].to}, chunks |-> chunks[r]]

(* What the recorder holds at each point of an attempt.                    *)
CodeSoFar(r) ==
  /\ pc[r] = "arriving" => past[r] = <<>> /\ client[r] = Nothing
  /\ pc[r] \in Sending =>
       /\ attempt[r].status = 0 /\ chunks[r] = 0
       /\ attempt[r].code \in {0} \cup {s \in {Interim} : InGroup(r)}
  /\ pc[r] = "body" =>
       /\ attempt[r].status \in Statuses
       /\ attempt[r].code \in {attempt[r].status} \cup {s \in {Interim} : InGroup(r)}

Tracked(r) == /\ GivenUpInOrder(r) /\ AllWereTried(r) /\ OwnCredentials(r) /\ HeardOne(r)
              /\ TryingGroup(r) /\ TryingDirect(r) /\ CodeSoFar(r)

IInv == TypeOK /\ \A r \in Requests : Tracked(r)

-----------------------------------------------------------------------------
(* A request's part in the failover: who may answer it, on which codes     *)
(* members were given up, whether it is still to be answered.              *)
Plan == [r \in Requests |-> IF InGroup(r) THEN GroupOf(want[r]) ELSE <<want[r]>>]
Buffered == [r \in Requests |-> InGroup(r)]
Verdicts == [r \in Requests |-> [i \in 1 .. Len(past[r]) |-> past[r][i].code]]
Open == [r \in Requests |-> pc[r] \notin {"done", "exhausted", "unread", "aborted"}]
Told == Statuses \cup {200, 404, 502}

(* The failover a client may rely on is what the attempts, the recorders   *)
(* and the streaming of a provider in no group amount to (fallback.go:46). *)
Promise == INSTANCE Failover WITH
  Upstreams <- Providers \cup {Unknown}, Statuses <- Told,
  plan <- Plan, buffered <- Buffered, verdicts <- Verdicts, heard <- client, open <- Open

ImplementsFailover == Promise!Spec

-----------------------------------------------------------------------------
(* "429 (rate limit) and 5xx (server errors) are retriable": no such       *)
(* answer of a member would be the end of the group (fallback.go:101).     *)
RetriableFailsOver ==
  \A r \in Requests : pc[r] = "done" /\ InGroup(r) => ~ Failed(attempt[r].status)
=============================================================================
