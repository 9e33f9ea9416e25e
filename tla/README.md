# Verification of yai

yai is a reverse proxy for LLM APIs: it authenticates clients with bearer
tokens, limits their rate, replaces their credential with that of the provider
they ask for, and tries the members of a fallback group until one answers. This
directory holds TLA+ models of its components, TLC configurations that check
them on small instances, and TLAPS proofs of theorems about them for every
value of their constants. `PROJECT.json` maps every definition to the source
lines it stands for.

Run from this directory:

    tlc -workers 4 -config MCRateLimit.cfg MCRateLimit
    tlapm RateLimitProofs.tla

## The system

| component | source | state | operations | interacts with |
|---|---|---|---|---|
| rate limiter | `internal/ratelimit` | a window (count, resetAt) per key, behind a mutex | `Allow`, `Cleanup`, `ParseLimit` | called by auth; built anew by each load |
| OAuth2 token sources | `internal/oauth2` | one cached token behind a mutex | `Token` (and `refresh`) | called by the proxy's director on every request |
| fallback | `internal/fallback` | provider to group map, fixed per generation | `ServeHTTP` | calls the proxy once per attempt, with a recorder |
| proxy | `internal/proxy` | a reverse proxy per provider, fixed per generation | `New`, `ServeHTTP`, `director` | token sources, AWS signer, upstreams |
| server | `internal/server` | the live components (an atomic value), the checker in charge, a mutex for reloads | `load`, `Reload`, `Stop`, two handlers | builds all of the above from a configuration |
| health checker | `internal/health` | a status per provider, a goroutine per provider | `Start`, `Stop`, `loop`, `check`, `AllStatuses` | started and stopped by the server; read by `/health` only |
| auth | `internal/auth` | none of its own | `Middleware` | the token map and its limiters |
| process | `cmd/yai` | signal channel, HTTP server, main goroutine | reload, shutdown | everything |
| telemetry | `internal/telemetry` | tracer and meter providers | `Middleware`, `Shutdown` | wraps fallback; shut down by the process |
| configuration | `internal/config` | none | `Parse`, `applyDefaults`, `validate` | read by the process and by reloads |
| usage and pricing | `internal/usage` | a price table behind a read-write lock | extractors, `Lookup`, `Set`, `Calculate` | nothing: not connected to the server |
| AWS signing | `internal/awssign` | resolved credentials | `NewSigner`, `Sign` | built by the proxy, used by its transport |

What is hard in it: requests that share a token source or a limiter; a reload
between any two steps of a request or of a health probe; upstreams that answer
1xx, fail, stall or break off; clients that stall or leave; signals that arrive
while the signal goroutine is busy; requests that begin while the server is
drained; exports that fail; time, for windows and expiries. The list of hazards,
each at its line and with the properties that cover it, is in `PROJECT.json`.

What makes each component correct, in a sentence:

* rate limiter: a key never gets more than a known quota per window's time, is
  never denied without having used its own, and is told truthfully when to return;
* token source: one refresh at a time and none without need; what comes from the
  cache is alive at its issuer, unless its lifetime wrapped around; a call always
  returns;
* fallback and proxy: members in order and only after a failure; the client hears
  one complete answer; members that never answer are got past, and what runs for
  a client that left comes to its end;
* server: the newest configuration wins, a failed reload changes nothing, one
  checker runs, and a request knows one configuration;
* process: no reload is forgotten, a shutdown ends and cuts nothing before its
  time is up; what the traces show was counted;
* configuration: what a file says of one entry decides that entry, whatever is
  wrong with the others;
* usage and pricing: what a whole event says last is what is kept, and its price
  stood in the table;
* AWS signing: the credentials come whole from one source, and the upstream can
  verify what was signed;
* all together: a token's quota is known over reloads, and one request holds up
  no other.

## Modules

`X.tla` models a component, `MCX.tla` gives its constants finite values,
`MCX*.cfg` are the runs, `XProofs.tla` holds the theorems. A definition whose
name has an underscore (`Lock_unserialised`) is a plausible wrong version of the
definition after it; no specification uses it, it exists to show that a property
notices it.

### RateLimit, and the abstract Quota

`RateLimit` is `Limiter`. `Allow` and `Cleanup` hold the mutex from beginning to
end, so each is one step; `Allow` is `Deny` or `Admit` as the code branches.
`windows` is `l.windows` (a partial function), `now` is `l.now()`. `log` and
`answer` are history: when each key was admitted and the last result it got.
`Quota` is what a client of the limiter may rely on: a log of admissions to which
one may be added unless `Bound` others were made within `Window`. The limiter
implements it with `Bound = 2 * Count - 1`, and no better: the last `Count - 1` of a
window and `Count` of the next are admitted together. All of both are not, since
the first of a window was admitted `Window` before its end. As a bound it says what
`TwoWindowBound` says of the log, so no run is spent on it; that nothing else the
limiter does shows in the log is the theorem `Implementation`.

### TokenSource, and the abstract TokenCache

Both sources have one shape: lock, return the cached token if `Valid`, else ask
the endpoint with the mutex held. `Call`, `Hit`, `Miss`, `Issue`, `Complete`,
`Fail` are the points at which another goroutine can come in between or the world
can act. `StampAtResponse` tells the two apart (`oauth2.go:116`, `:238`). A token
carries both the expiry the code computes and the one its issuer gave it; the
clock is one and the same, so skew between hosts is not modelled. `Margin` is the
60 s of `Valid`, `Timeout` the 10 s of the HTTP client; the assumption
`Timeout <= Margin` is true of these and needed. The product of `expires_in` and
a second is an int64 (`Wrap`, at `MaxInt`, with `Second` ticks to a second), and
the endpoint may send any int64. A lifetime too long for it makes the cached
expiry earlier than the true one, which costs refreshes; one below `Least` wraps
to a time far ahead, and what `CachedTokenLives` promises leaves those out.

`TokenCache` is what the director relies on, without locks: a valid token is
answered from the cache, else there is one refresh at a time, which ends with a
token that is cached as it is returned or with an error and the cache as it was.

### Fallback, and the abstract Failover

A request from its arrival at `fallback.Handler` to its end, through
`proxy.Proxy`, the director, the transport and the copy back. `past` is the
history of the attempts given up; `client` is all the client has seen.
`httputil.ReverseProxy`, `httptest.ResponseRecorder` and the transport are
modelled from their documented behaviour: a recorder keeps the first status
written to it, also a 1xx; a failed round trip is a 502; a body that breaks off is
a panic with `ErrAbortHandler`. A round trip has the places of `Sending`: the
signer of a `Signing` provider reads the whole body (`Signed`); the transport looks
at the context, for a request whose client has left is not sent (`Dial`), connects
(`Connect`) and writes the request with its body (`Written`), which may come from
the client all the while or find an upstream that does not read; only then does
the wait for a header begin that `ResponseHeaderTimeout` bounds. A body may stall
for ever, and an answer come before it is written. The transport is HTTP/1.1's,
since with a `DialContext` of its own Go does not try HTTP/2. `gone` is a client
that has left and whose leaving the server has noticed: while it waits for the
body of a request that nobody reads it may notice nothing. `MaxChunks` bounds the pieces of a body. Requests do not influence each other
here, so one is enough for TLC; the theorems hold for any number.

`Failover` is what a client may rely on, without attempts, recorders and
connections. A request has a plan of upstreams and a list of verdicts. A buffered
one (a provider in a group) hears nothing while upstreams are given up in the
order of the plan, each on a failure (`GiveUp`), until one whole answer that is no
failure (`Answer`) or, with the last verdict, that all failed (`AllFailed`). A
streamed one hears its only upstream (`Begin`, `Stream`, `End`). Only before anyone
was given up may the proxy turn the request down itself (`Refuse`: the body cannot
be read, no such provider). In Fallback the verdicts are the codes the recorders
kept, not the statuses the upstreams sent; finding 1 is the difference.

### Server, and the abstract ConfigRegister

`internal/server`, the checkers and the auth middleware. A load creates a
generation; `live` is the one in the atomic value, `owner` the one whose checker
`s.checker` is. `Reload` is `Lock`, then `ReloadFails` or `Parse`, `StopOld`,
`StartNew`, `Store`: every point at which a request, a probe or an edit of the
file can come in between. Opening, reading and parsing the file is one step: a
file that is replaced while it is read is not modelled. A provider's loop is
`Probed`, `Report`, then a select of `TickerFires` and `LoopEnds`; a probe that
was in flight when its checker was stopped may come out as `"cut"`. A request
loads `live` once (`Route`) and carries the generation with it. A GET of `/health`
is two steps, `HealthLoad` and `HealthRead`, with anything in between; `HealthAnswer`
is what the second reads of the checker that the first found. The limiter's
decision is free for a token that has one, since `RateLimit` models it.
`MaxGen` bounds the number of loads.

`ConfigRegister` is what an operator and a client may rely on: one register of
configurations. A reload takes what the file holds and publishes it before any
other takes anything; a request looks at the register once, and its answer is one
that the configuration it saw gives. In the server the register is written at
`Store` and read at `Route`, whatever the other steps do.

### Lifecycle

`main()` and the telemetry around a request. The channel of signals has one
place. `BeginShutdown` starts one context whose end (`ContextExpires`) may come at
any later time. Telemetry is closed in two parts, then the listener, then the
connections are awaited; `ListenAndServe` returns when the listener closes, and the
main goroutine waits for the signal goroutine. A connection is accepted only while
the listener is open (`Connect`), but a request may begin on it at any later time,
also during the drain (`Arrive`), unless net/http has closed it as idle first
(`CloseIdle`). Each `q` is one connection and its next request; the one after it
on the same connection is another `q`. That looking at a connection and
closing it are two steps in net/http, between which a request may come in and be
broken off, is left out, as is that a new connection counts as idle only after
five seconds of silence. A request that ends is first added to the metrics
(`Record`), then its span ends (`Finish`); one that panics skips the metrics
(`Abort`). Spans and counts leave on their own (`BatchLeaves`, `ReaderExports`) and
with the shutdown (`FlushTraces`, `CloseMetrics`); both of these share the
context, and lose what they hold when the collector fails or the time is up.
`MaxSignals` bounds the signals.

### Usage

`internal/usage`, with the caller its comments describe, since nothing calls it
yet: feed every chunk to the extractor, keep the last result that is not zero,
then `Calculate`. The network cuts and joins events as it likes (`Chunk`), and
tears them anywhere. `Lines` are the data lines that a chunk holds whole, comments
and `[DONE]` not among them; the first of them is read. `split` is history: a
chunk tore an event or brought several with data, and from then on events may
have been lost. Until then the usage kept must be the last that was said
(`WholeEventsCount`). `Lookup` is
`Exact`, or `Scan`, a `Visit` for each entry in any order, and `Found`, under the
read lock; `Set` waits for the readers, and new readers wait for it (`Want`).
Model names are sequences of letters, for their prefixes matter; a price is one
value, since only which one is found matters.

### Signer

`internal/awssign`. `NewSigner` is `Begin`, then `FromEnv` or `Open` and one step
per line of the credentials file (`Header`, `Assign`, `PassOver`, `FileEnds`). A
line is what `parseINI` takes it for. `Sign` is `signRequest` followed by what the
transport does to the headers afterwards (`Transmitted`): it writes the upstream's
Host and a length of its own (`Framing`: the Content-Length it knows, or chunks),
asks for gzip when nobody asked for anything (`Gzip`) and leaves an empty
User-Agent out (`Omitted`). A request whose body cannot be read is not sent. The
canonical request and the digest are reduced to the headers they cover, with
their values.

### Loading

A load from the decoded file to the stored components: `Parse` (defaults, then
every check of `validate`), `AddToken` per token entry, `Build`, `SkipSigner` or
`NewSigner` ... `SignerDone` per provider entry, with `Signer` as an instance, then
`Store`, which builds the fallback lookup. `Window` is `parseWindow`, with the
wrap-around of a `Duration` at `MaxInt`. What is left of the file is what decides:
whether an upstream is a URL, whether the fields an auth type needs are there and
whether the key file can be read.

### Gateway

The composition: requests of one generation share its limiter, `RateLimit` by
INSTANCE, and its token sources, whose mutex a refresh holds over its round trip;
a group's members are tried one after the other; a reload makes all of this
anew, while requests of earlier generations go on with what they were routed to.
A reload is one step, as `ImplementsRegister` allows. `admitted` is history: for
each admission its time, its generation, the end of the window it counted in and
its number there. `SourcesHeld` ties each mutex to the one request that refreshes
behind it.

## Runs

| run | instance | what it shows |
|---|---|---|
| limiter | 2 keys, 2 per window of 2 ticks, 5 ticks | `TwoWindowBound`, `DenyJustified`, `RetryAfterExact`, the inductive invariant |
| token_source | client credentials, 2 callers, lifetimes -6, 2 and 5 of seconds of 2 ticks, numbers up to 7, margin 2, timeout 1, 5 ticks | `CachedTokenLives`, `ImplementsCache`, `EveryCallReturns`, the inductive invariant |
| fallback | 1 request, 6 providers, 2 overlapping groups, statuses 200, 400, 429, 503, 2 pieces | `InOrderAfterFailure`, `ImplementsFailover`, `LeavingEnds`, `HeadersInTime`, the inductive invariant |
| fallback_interim | same | violated: a 1xx hides a retriable status (finding 1) |
| reloads | 2 callers of `Reload`, 4 files, 3 loads, 1 provider, 1 GET of `/health` | `NewestWins`, `LiveWatched`, `NoOrphanChecker`, `HealthTruthful`, `NeverBack`, `SupersededLoopsEnd` |
| server | 1 caller, 4 files, 2 loads, 2 providers, 1 request | `OneConfigPerAnswer`, `ImplementsRegister`, the inductive invariant |
| reload_panic | same, without requests | violated: a reload can bring the process down (finding 2) |
| lifecycle | 2 connections with a request each, 3 signals | `CutOnlyWhenExpired`, `NoTraceUncounted`, `HupServed`, `ShutdownEnds`, the inductive invariant |
| lifecycle_term | same | violated: a SIGTERM is lost (finding 3) |
| usage | an OpenAI stream of 2 events between a comment and `[DONE]`, an Anthropic one of 3, a table of 2 to 4 names, 1 writer | `WholeEventsCount`, `LookupIsAtomic`, `LockServesAll`, the inductive invariant |
| loading | files of up to 2 token or 2 provider entries of every kind, credentials files of up to 3 lines and some of up to 6, 3 environments, 4 requests to sign | `TokensAsWritten`, `ProvidersAsWritten`, `CredentialsRight`, `SignaturesVerify` |
| gateway | 3 requests with 1 token, a group of 2, 1 per window of 1 tick, 2 ticks, 2 loads | `QuotaPerReload`, `OthersGoOn`, the inductive invariant |

Why the bounds are enough. The limiter's bound on the span of admissions needs
2 * Count = 4 admissions of a key around two boundaries, and 5 ticks of
windows of 2 have those. Two callers are what one refresh can race with; a third
waits like the second. With seconds of 2 ticks and numbers up to 7, a lifetime of
5 wraps around to the past and one of -6 to the future, and 2 stays as it is.
The two groups overlap, contain a provider that was not
built, and are of length 3, so there is a first, a middle and a last member. Three
loads by two callers let either overtake the other, with a loop of a generation
before the last still running. Two loads are one reload, all that a request can
tell apart. Three signals are a full channel and one too many. The OpenAI
stream reports twice, a comment before and `[DONE]` after, each of which may share
a chunk with its neighbour; the Anthropic one spreads its usage over two events
with one between them; the table
has a name that begins with another, and a writer may add one longer than both and
the empty one. Two entries are enough for one to spoil the other; with a largest
number of 31 and a second of 10 ticks, 4 seconds and more wrap around. In Gateway
three requests with a quota of one are one more than two generations grant in one
window, and a third waits for a mutex that a second holds. One connection may be in
every state while the other is in any, which is all that an exit and an export
look at. The requests to sign have between them every header that the transport
rewrites or adds, known, unknown and no length, HEAD, and a body that breaks.

CHECK_DEADLOCK is off where the system ends: a request is answered, the clock or
the loads are used up, a file is loaded, the process exits.

### Fairness

* TokenSource: strong fairness of taking the mutex, which `sync.Mutex` gives (a
  waiter that starves is handed the lock), and weak fairness of a refresh ending,
  by the HTTP client's timeout.
* Fallback: the handler's goroutine goes on between attempts; the dialer and the
  TLS handshake have timeouts and `ResponseHeaderTimeout` ends the wait for a
  header, which starts when the request is written. Nothing ends the reading or
  writing of a request's body, nor the body of an answer, as long as the client
  stays: `HeadersInTime` is under the condition that no body stalls for ever on its
  way up (`BodiesMove`), and `LeavingEnds` rests on a context that is over, which ends
  all of them. Nothing is assumed of upstreams, bodies or clients. The
  timeouts are taken to be positive: `config.go:169` replaces 0 by two minutes,
  but a negative `read` leaves the wait for a header without a limit.
* Server: reloads and probes end (a probe by its timeout or by its cancelled
  context); strong fairness of a loop's end, since a `select` with several ready
  channels picks among them at random.
* Lifecycle: both goroutines go on and the context expires. Requests may last for
  ever, and connections stay silent for ever.
* Usage: a lookup that has begun goes on. `sync.RWMutex` lets a waiting writer in
  once the readers before it are gone (new ones wait, so weak fairness is enough)
  and waiting readers after a writer (strong fairness, since writers may come
  again). Nothing is assumed of the streams.
* Gateway: a routed request goes on to the limiter; strong fairness of the token
  source's mutex; a refresh ends, by the token client's 10 s. Upstreams may never
  answer, and a request that waits for one may wait for ever: no other does.

## Findings

In each of these TLC refutes what a comment of the code says.

1. `fallback.go:101` "429 (rate limit) and 5xx (server errors) are retriable": not
   after a 1xx, which is the status the recorder keeps.
2. `server.go:75` "old config stays active" if the new one is invalid: a negative
   health check interval is accepted and brings the process down.
3. `main.go:74` "SIGINT/SIGTERM for shutdown": dropped while a SIGHUP is waiting.

The models also show the following, which no run is spent on.

* `ratelimit.go:71` "sliding window counter": the windows are fixed, and
  `2 * Count - 1` requests fit within one window's time around a boundary
  (`TwoWindowBound` is tight).
* `ratelimit.go:98` RetryAfter ">0 when not allowed": it is 0 on a denial at the
  very end of a window (`Expired` is strict).
* `oauth2.go:30` "returns a valid access token": a token issued for a minute or
  less is returned and cached although `Valid` is false of it (`Complete` does not
  ask).
* `fallback.go:17` "tries the next provider": a group is always tried from its
  first member, whichever was asked for (`InOrderAfterFailure`).
* `README.md:10` "real-time flushing": a provider in a group is answered from a
  buffer (`TryingGroup`).
* `config.go:77` "overall request timeout": it covers the wait for the response's
  header, so `HeadersInTime` is all that holds. A client that stalls in the middle of
  its body, or an upstream that stops reading, holds the request up for as long as
  it likes: `main.go:69` sets no read timeout, and `ResponseHeaderTimeout` has not
  started (`Written`).
* `oauth2.go:116`, `:238`: an `expires_in` below about -9.2e9 wraps around to a
  time up to 292 years ahead, so a token that was never alive is answered from the
  cache until the process or the configuration goes (`Wrap`; `CachedTokenLives`
  excepts it).
* `telemetry.go:110` "Total proxy requests": those that break off are left out
  (`Abort`).
* `server.go:75` "swaps components atomically": true of what requests see
  (`ImplementsRegister`); in the middle of a reload `/health` still shows the old
  checker, stopped, with the probes this cuts off as failures. A GET that has
  loaded the components before the reload stores the new ones answers that even
  when the reload is over (`HealthTruthful` is about GETs that find the live ones,
  between reloads).
* `main.go:100` "flush pending data": telemetry is shut down before the drain, so
  the spans and counts of requests that end during it are lost (`EndSpan`,
  `Record`). The metrics' last export has what time the traces have left of the one
  context: with a collector that takes long, requests are in the traces and
  missing in the metrics (`CloseMetrics`).
* `usage.go:20` "last non-zero result wins": Anthropic's `message_delta` is the last
  one and has neither model nor input, so no price is found for the stream
  (`Report`, `Keep`).
* `sse.go:8` "find the "data: " line": of several data lines in one chunk all but
  the first are dropped, and an event torn between
  two chunks is in neither (`Lines`, `Held`), so usage is lost.
* A rate limit such as "5/99999999999s" parses, to a window that has wrapped
  around; a negative one limits nothing (`Window`). RateLimit assumes that windows
  are not negative.
* The signature covers every header present, also those that the transport leaves
  out or writes itself: an empty `User-Agent` (which `ReverseProxy` sets when the
  client sent none), an `Authorization`, which the signature's own replaces, a
  `Host` of `extra_headers`, which is sent as the upstream's, a `Content-Length` that
  is not the one sent, and an empty `Accept-Encoding`, which becomes gzip. Such
  requests cannot be verified (`Rewritten`; `SignatureVerifies` excepts them). What
  the transport adds afterwards, `Accept-Encoding: gzip` and the length or
  chunking of the body, leaves unsigned.
* A token listed twice, with a rate limit that does not parse in the second entry,
  keeps the first one's limit; a provider listed twice is served by the last entry
  that could be built (`TokensAsWritten`, `ProvidersAsWritten`).
* Every reload gives a token a fresh quota, on top of that of the generations
  whose requests are still on their way (`QuotaPerReload`).

## Theorems

All proofs are checked by tlapm, from the named assumptions on the constants
alone: `LimitAssumption`, `ClockAssumption`; `TimingAssumption`,
`CallerAssumption`; `ProviderAssumption`, `StatusAssumption`; `ConfigAssumption`,
`BoundAssumption`; `LifecycleAssumption`; `NameAssumption`, `ScriptAssumption`;
`WordAssumption`, `NoneAssumption`, `FileAssumption`, `RequestAssumption`;
`GatewayAssumption`. TLC
evaluates these too. Each module has an inductive invariant `IInv` of which the
others follow.

* RateLimitProofs. The property of the log alone is not inductive: it says nothing
  of the counter that decides. `Accounting` ties them: the window's count is the
  number of admissions made since it opened, all older ones lie before it, and
  those before the latest `Count` of these lie before the preceding one. The step
  that opens a window shifts this by one window, the step that admits extends it by
  one. `DenialOpen` ties a denial to the window that denied it, which gives the
  exactness of RetryAfter. That the limiter implements `Quota` (`ImplementsQuota`, a
  theorem only) follows: an admission that broke the quota would break
  `TwoWindowBound` in the next state. The bound rests on a
  window's first admission lying exactly `Window` before its end, so that it and any
  admission of a later window are more than `Window` apart.
* TokenSourceProofs. `FlightBounds` (a refresh is no older than the timeout) gives
  `ExpiryKnown` (the cached expiry is later than the true one by the timeout at
  most, for lifetimes that do not wrap from below: `Wrap` never makes one longer
  then), and with the margin that gives `CachedTokenLives`. The same bound is the
  `Slack` with which the source implements `TokenCache`.
* FallbackProofs. `Tracked` says of each point of a request what has been given
  up, what the recorder holds and what the client has seen; nothing has reached
  the client while a group is tried. It implies that the end of a group is
  announced only when all failed (`ExhaustedMeansAllFailed`) and that the client
  hears one author, with all that the recorder held (`OneVoice`); both are parts of
  `Tracked`, which the run checks within the inductive invariant, and theorems. For
  `ImplementsFailover` each action is mapped: `Settle` on a retriable code is
  `GiveUp` or, for the last member, `AllFailed` (`Condemned`, `SettleRefined`); the
  other steps of an attempt, those of `Sending` among them, move nothing a client
  can tell (`Unmoved`). That an attempt carries its own provider's credential or
  none, also after a failed token source (`OwnCredentials`), is a part of `Tracked`
  and holds by what the director deletes and sets.
* ServerProofs. `ReloadStands` follows a reload through its steps: who holds the
  mutex, which generation is in charge, whether its checker runs. `RequestStands`
  says that what a request has found is what its generation answers, and that this
  generation is not older than the one live when it was sent. Both are what the
  steps of `ConfigRegister` need; a cut probe can only be one of a stopped checker,
  and between reloads the live one runs, which gives `HealthTruthful` for a GET
  that found it. `NoOrphanChecker` covers the shutdown too: `Stop`
  finds no reload under way, so it stops the last checker there is.
* LifecycleProofs. Once the listener is closed it stays closed, so a drain that
  found no connection on which a request runs or may begin still finds none at the
  exit (`DrainHolds`); that none has a request in flight would not be enough. A span
  is taken only while the tracer is open, hence before the meter closes, and a
  request records before its span ends (`TracesFirst`, `Counted`, `Unended`); what
  was added then leaves or, with the meter's last export, is lost. `HupPending` is
  the
  safety half of `HupServed`: while a SIGHUP awaits its reload, the channel is not
  empty or the process is ending. So a SIGHUP that finds the channel full is dropped
  without harm; that what fills it is read in the end is for TLC to check.
* UsageProofs. `SearchStands` says what a search under the read lock has: the
  longest of the matching names it has visited, at the price that still stands,
  because no writer comes in. Two prefixes of one name that are of the same length
  are equal (`LookupDetermined`), so the order of the map does not matter.
  `WordStands` gives `WholeEventsCount`: as long as nothing is split, of the events a
  chunk brings at most one has data, it is the one read, and the others say nothing.
* LoadingProofs. `LoadStands` says of each loop that what it has made is what the
  entries before position `i` give, and `ResolutionStands` the same of the lines
  of the credentials file. A loop's step extends this by one entry. The signature
  (`SignaturesVerify`) is the fate of each header through `Prepared` and `Transmitted`;
  it needs `RequestAssumption`, that no Transfer-Encoding header comes to be signed,
  for net/http takes it out of what clients send.
* GatewayProofs. `Accounting` ties the log of a token to the windows of all
  generations: of two admissions by one generation the later has the higher number
  in the same window, or is in a window opened after the first had ended. Within
  one window's time this gives each admission a slot of its own among
  `2 * Count - 1` per generation, and `QuotaPerReload` is the pigeonhole principle.
  The bound is one less than twice the count because a window opened in that time
  outlasts it: the last admission of a second window and the first of a window
  opened at its start cannot both be there. The same slots bound each generation
  by itself, superseded or live (`QuotaPerGeneration`, a theorem only).
  `SourcesHeld` is the safety half of `OthersGoOn`: a mutex that is taken belongs to
  a request that is in its refresh and gives it back with the step that ends it.

| abstract specification | refinement | proved in |
|---|---|---|
| `Quota` | `RateLimit!Allowance`, a log of `2 * Count - 1` | RateLimitProofs |
| `TokenCache` | `TokenSource`, the holder of the mutex refreshes | TokenSourceProofs |
| `Failover` | `Fallback!Promise`, the codes on which members were given up | FallbackProofs |
| `ConfigRegister` | `Server!Register`, the live generation's configuration | ServerProofs |

Only model-checked: the liveness properties (`EveryCallReturns`, `LeavingEnds`, `HeadersInTime`,
`SupersededLoopsEnd`, `HupServed`, `ShutdownEnds`, `LockServesAll`, `OthersGoOn`),
which are out of the prover's reach. What of them is safety is in the inductive
invariants: `FlightBounds`, `HupPending`, `SourcesHeld`, `NoOrphanChecker`, and in
Usage that the lock is held by exactly the lookups that are searching.

## Not modelled

* Text: paths, bodies, JSON, log lines, YAML and
  the expansion of variables in it, the canonical request of AWS signing and its
  digest, the signing of a JWT.
* The arithmetic of `Cost`, which is floating point: Usage follows a price until it
  is multiplied.
* The request body that telemetry reads to find a model's name, the attributes of
  spans and the status the recorder in `telemetry/middleware.go` keeps.
* Clock skew between hosts; the collector behind telemetry; what runs the process
  (`deploy`).
* A configuration file that is replaced while it is read.
* In fallback the headers other than credentials; of net/http's connections what is
  said under Lifecycle.
* Two providers of one name in the health checker: names are unique in Server, and
  Loading shows which entry the proxy keeps.

## Plan

1. RateLimit, Quota and their proofs (done).
2. TokenSource, TokenCache and the proofs (done).
3. Fallback and its proofs (done).
4. Server with the checkers, ConfigRegister and the proofs (done).
5. Lifecycle and its proofs (done).
6. Usage and its proofs (done).
7. Loading with Signer, and their proofs (done).
8. Gateway and its proofs (done).
9. Failover, and the proof that Fallback implements it (done).
10. Left: the limiter inside Gateway as an implementation of RateLimit for each
    generation; Gateway on top of Fallback's attempts instead of the outcome of
    each; statuses in Lifecycle's metrics.
