------------------------------ MODULE Loading ------------------------------
(***************************************************************************)
(* What becomes of a configuration file when it is loaded: Parse fills in  *)
(* defaults and validates it, then load builds the token map, the proxy's  *)
(* providers and the fallback groups, entry by entry.  An entry that       *)
(* cannot be built is left out with a warning, and the load goes on.  The  *)
(* signers of AWS providers are built by Signer.                           *)
(* YAML, environment substitution, regular expressions and URLs are        *)
(* external: a file is here what they make of it.                          *)
(***************************************************************************)
EXTENDS Integers, Sequences

CONSTANTS Values, None, Profiles, Default, Disks, NoFile, Environments, Settings, Requests,
          Tokens, Names,
          Files,      \* what the configuration file can hold
          MaxInt,     \* the largest int64
          Length,     \* of a unit of time, in nanoseconds
          Unlimited

ASSUME WordAssumption ==
  /\ MaxInt \in Nat \ {0}
  /\ Length \in [{"ms", "s", "min", "hour", "day"} -> Nat \ {0}]
ASSUME NoneAssumption == None \notin Tokens \cup Names

VARIABLES env, disk, setting, step, at, inSection, creds, wire,
          cfg,      \* the configuration
          pc,       \* where the load is
          i,        \* the entry it is at
          tokenMap, \* from tokens to limits
          built,    \* p.providers, as the entry each name was built from
          groupOf   \* providerToGroup, as positions in the list of groups

signerVars == <<env, disk, setting, step, at, inSection, creds, wire>>
vars == <<signerVars, cfg, pc, i, tokenMap, built, groupOf>>

Aws == INSTANCE Signer

-----------------------------------------------------------------------------
Kinds == {"static", "query-param", "client-credentials", "azure-ad",
          "service-account", "aws-sigv4", "other"}
RateLimit == [count : Int, n : Nat, unit : {"ms", "s", "min", "hour", "day", "unknown", "absent"}]
TokenEntry == [name : BOOLEAN, token : Tokens \cup {None}, rateLimit : RateLimit]
(* Of a provider: what its kind of auth requires is there; what the token  *)
(* source reads can be read; what a signer is configured with.             *)
ProviderEntry == [name : Names \cup {None}, upstream : {"none", "malformed", "url"},
                  kind : Kinds, complete : BOOLEAN, readable : BOOLEAN,
                  aws : Aws!Setting, interval : Int]
File == [decodes : BOOLEAN, tokens : Seq(TokenEntry), providers : Seq(ProviderEntry),
         groups : Seq(Seq(Names \cup {None}))]

ASSUME FileAssumption ==
  /\ \A c \in Files : /\ c \in File
                      /\ \A j \in DOMAIN c.providers : c.providers[j].aws \in Settings
  /\ Settings \subseteq Aws!Setting /\ Environments \subseteq Aws!Environment
  /\ \A d \in Disks : d = NoFile \/ d \in Seq(Aws!Line)
  /\ NoFile \notin Seq(Aws!Line)

(* The reverse proxy leaves no hop-by-hop header to be signed.             *)
ASSUME RequestAssumption == \A r \in Requests : "Transfer-Encoding" \notin DOMAIN r.headers

Empty == [x \in {} |-> {}]

Init == /\ Aws!Init
        /\ cfg \in Files
        /\ pc = "parsing" /\ i = 1
        /\ tokenMap = Empty /\ built = Empty /\ groupOf = Empty

-----------------------------------------------------------------------------
(* applyDefaults: only a zero is taken for a missing duration.             *)
WithDefaults(c) ==
  [c EXCEPT !.providers = [j \in DOMAIN c.providers |->
     IF c.providers[j].interval = 0 THEN [c.providers[j] EXCEPT !.interval = 30 * Length["s"]]
     ELSE c.providers[j]]]

Valid(c) ==
  /\ c.tokens # <<>>
  /\ \A j \in DOMAIN c.tokens : c.tokens[j].name /\ c.tokens[j].token # None
  /\ \A j \in DOMAIN c.providers :
       LET p == c.providers[j] IN
       /\ p.name # None /\ p.upstream # "none" /\ p.kind # "other" /\ p.complete
       /\ p.kind = "aws-sigv4" => p.aws.region # None
  /\ \A g \in DOMAIN c.groups : \A k \in DOMAIN c.groups[g] :
       \E j \in DOMAIN c.providers : c.providers[j].name = c.groups[g][k]

Parse == /\ pc = "parsing"
         /\ IF cfg.decodes /\ Valid(WithDefaults(cfg))
            THEN cfg' = WithDefaults(cfg) /\ pc' = "tokens"
            ELSE pc' = "rejected" /\ UNCHANGED cfg
         /\ UNCHANGED <<signerVars, i, tokenMap, built, groupOf>>

-----------------------------------------------------------------------------
(* Durations wrap around, and Atoi stops at the largest number.            *)
Wrap(x) == ((x + MaxInt + 1) % (2 * (MaxInt + 1))) - (MaxInt + 1)
Atoi(n) == IF n > MaxInt THEN MaxInt ELSE n

Parses(l) == l.count \in 1 .. MaxInt /\ l.unit \in DOMAIN Length
Window(l) == Wrap(Atoi(l.n) * Length[l.unit])

(* What a token's entry lets it do.                                        *)
Info(l) == IF l.unit = "absent" THEN Unlimited
           ELSE [count |-> l.count, window |-> Window(l)]
Usable(e) == e.rateLimit.unit = "absent" \/ Parses(e.rateLimit)

Put(f, x, v) == [y \in DOMAIN f \cup {x} |-> IF y = x THEN v ELSE f[y]]

(* The loop of buildTokenMap: a rate_limit that does not parse costs the   *)
(* entry, not the others.                                                  *)
AddToken_unlimited ==
  LET e == cfg.tokens[i] IN
  /\ pc = "tokens" /\ i <= Len(cfg.tokens)
  /\ tokenMap' = Put(tokenMap, e.token, IF Usable(e) THEN Info(e.rateLimit) ELSE Unlimited)
  /\ i' = i + 1
  /\ UNCHANGED <<signerVars, cfg, pc, built, groupOf>>
AddToken ==
  LET e == cfg.tokens[i] IN
  /\ pc = "tokens" /\ i <= Len(cfg.tokens)
  /\ tokenMap' = IF Usable(e) THEN Put(tokenMap, e.token, Info(e.rateLimit)) ELSE tokenMap
  /\ i' = i + 1
  /\ UNCHANGED <<signerVars, cfg, pc, built, groupOf>>

TokensDone == /\ pc = "tokens" /\ i > Len(cfg.tokens)
              /\ pc' = "providers" /\ i' = 1
              /\ UNCHANGED <<signerVars, cfg, tokenMap, built, groupOf>>

-----------------------------------------------------------------------------
(* The loop of proxy.New: an upstream that is no URL, or a token source or *)
(* a signer that cannot be had, costs the entry.                           *)
At(kinds) == /\ pc = "providers" /\ i <= Len(cfg.providers)
             /\ cfg.providers[i].kind \in kinds

(* All that can fail but the signer.                                       *)
Sound(p) == p.upstream = "url" /\ (p.kind = "service-account" => p.readable)

Build_stops ==
  LET p == cfg.providers[i] IN
  /\ At(Kinds \ {"aws-sigv4"})
  /\ IF Sound(p) THEN built' = Put(built, p.name, i) /\ i' = i + 1
     ELSE i' = Len(cfg.providers) + 1 /\ UNCHANGED built
  /\ UNCHANGED <<signerVars, cfg, pc, tokenMap, groupOf>>
Build ==
  LET p == cfg.providers[i] IN
  /\ At(Kinds \ {"aws-sigv4"})
  /\ built' = IF Sound(p) THEN Put(built, p.name, i) ELSE built
  /\ i' = i + 1
  /\ UNCHANGED <<signerVars, cfg, pc, tokenMap, groupOf>>

SkipSigner ==
  /\ At({"aws-sigv4"}) /\ ~ Sound(cfg.providers[i])
  /\ i' = i + 1
  /\ UNCHANGED <<signerVars, cfg, pc, tokenMap, built, groupOf>>

NewSigner ==
  /\ At({"aws-sigv4"}) /\ Sound(cfg.providers[i])
  /\ Aws!Begin(cfg.providers[i].aws)
  /\ pc' = "signer"
  /\ UNCHANGED <<cfg, i, tokenMap, built, groupOf>>

Resolve == /\ pc = "signer" /\ Aws!Resolve
           /\ UNCHANGED <<cfg, pc, i, tokenMap, built, groupOf>>

SignerDone ==
  /\ pc = "signer" /\ step \in {"done", "failed"}
  /\ built' = IF step = "done" THEN Put(built, cfg.providers[i].name, i) ELSE built
  /\ pc' = "providers" /\ i' = i + 1
  /\ UNCHANGED <<signerVars, cfg, tokenMap, groupOf>>

(* fallback.New: of the groups that list a provider the last one has it.   *)
Listing(p) == {g \in DOMAIN cfg.groups : \E k \in DOMAIN cfg.groups[g] : cfg.groups[g][k] = p}

(* With the handler stored, the load is over.                              *)
Store == /\ pc = "providers" /\ i > Len(cfg.providers)
         /\ groupOf' = [p \in {q \in Names : Listing(q) # {}} |->
                          CHOOSE g \in Listing(p) : \A h \in Listing(p) : h <= g]
         /\ pc' = "stored"
         /\ UNCHANGED <<signerVars, cfg, i, tokenMap, built>>

(* A request for the provider whose signer was made last is signed.        *)
Sign == /\ pc = "stored" /\ \E r \in Requests : Aws!Sign(r)
        /\ UNCHANGED <<cfg, pc, i, tokenMap, built, groupOf>>

Next == \/ Parse \/ AddToken \/ TokensDone
        \/ Build \/ SkipSigner \/ NewSigner \/ Resolve \/ SignerDone
        \/ Store \/ Sign

Spec == Init /\ [][Next]_vars
-----------------------------------------------------------------------------
(* Every variable has its type.                                            *)
TypeOK ==
  /\ cfg \in File
  /\ pc \in {"parsing", "rejected", "tokens", "providers", "signer", "stored"}
  /\ i \in Nat \ {0}
  /\ DOMAIN tokenMap \subseteq Tokens
  /\ DOMAIN built \subseteq Names

(* The entries among the first n that give the token t something.          *)
Granting(n, t) == {j \in 1 .. n : cfg.tokens[j].token = t /\ Usable(cfg.tokens[j])}

(* The limit a token got is the one that was written, if a Duration can    *)
(* hold it.                                                                *)
AsWritten(limit, l) ==
  IF l.unit = "absent" THEN limit = Unlimited
  ELSE /\ limit.count = l.count
       /\ l.n * Length[l.unit] <= MaxInt => limit.window = l.n * Length[l.unit]

TokensSoFar(n) ==
  /\ DOMAIN tokenMap = {t \in Tokens : Granting(n, t) # {}}
  /\ \A t \in DOMAIN tokenMap : \E j \in Granting(n, t) :
       (\A k \in Granting(n, t) : k <= j) /\ AsWritten(tokenMap[t], cfg.tokens[j].rateLimit)

(* A token has the limit of the last of its entries that can be read, and  *)
(* is free of any only if that one says so; an entry that cannot be read   *)
(* changes neither this token's nor another's (server.go:122-133).         *)
TokensAsWritten == pc = "stored" => TokensSoFar(Len(cfg.tokens))

(* The entries among the first n that a provider p can be built from.      *)
Buildable(n, p) ==
  {j \in 1 .. n : /\ cfg.providers[j].name = p /\ Sound(cfg.providers[j])
                  /\ cfg.providers[j].kind = "aws-sigv4" => Aws!Available(cfg.providers[j].aws)}

ProvidersSoFar(n) ==
  /\ DOMAIN built = {p \in Names : Buildable(n, p) # {}}
  /\ \A p \in DOMAIN built :
       built[p] \in Buildable(n, p) /\ \A k \in Buildable(n, p) : k <= built[p]

(* A name is served by the last of its entries that can be built, and is   *)
(* missing only when none can: one entry that fails costs no other, and a  *)
(* group never has a member that was nowhere configured (proxy.go:63-131,  *)
(* config.go:257-263).                                                     *)
ProvidersAsWritten ==
  pc = "stored" =>
    /\ ProvidersSoFar(Len(cfg.providers))
    /\ \A p \in DOMAIN groupOf :
         p \in DOMAIN built \/ \E j \in DOMAIN cfg.providers :
                                 cfg.providers[j].name = p /\ j \notin Buildable(j, p)

(* Each provider's signer is one that Signer allows (awssign.go:52-79).    *)
CredentialsRight == Aws!OneSource

(* What it has signed can be verified, the transport's own headers and the *)
(* requests that Signer excepts aside (awssign.go:106-144).                *)
SignaturesVerify == Aws!SignatureVerifies

-----------------------------------------------------------------------------
(* Where the load stands.                                                  *)
LoadStands ==
  /\ \A j \in DOMAIN cfg.providers : cfg.providers[j].aws \in Settings
  /\ pc = "parsing" => i = 1
  /\ pc # "parsing" /\ pc # "rejected" => Valid(cfg)
  /\ pc \in {"parsing", "rejected"} => tokenMap = Empty
  /\ pc \in {"parsing", "rejected", "tokens"} => built = Empty
  /\ pc # "stored" => groupOf = Empty
  /\ pc = "tokens" => i <= Len(cfg.tokens) + 1 /\ TokensSoFar(i - 1)
  /\ pc \in {"providers", "signer"} =>
       TokensSoFar(Len(cfg.tokens)) /\ ProvidersSoFar(i - 1) /\ i <= Len(cfg.providers) + 1
  /\ pc = "signer" =>
       /\ i <= Len(cfg.providers)
       /\ cfg.providers[i].kind = "aws-sigv4" /\ Sound(cfg.providers[i])
       /\ setting = cfg.providers[i].aws

IInv == TypeOK /\ LoadStands /\ TokensAsWritten /\ ProvidersAsWritten
=============================================================================
