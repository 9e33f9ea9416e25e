------------------------------- MODULE Signer -------------------------------
(***************************************************************************)
(* internal/awssign: a signer takes its credentials from the provider's    *)
(* configuration, else from the environment, else from a profile of the    *)
(* shared credentials file, which is read line by line, and signs the      *)
(* headers of every request with them.  NewSigner may be called again and  *)
(* again, for one provider after the other.                                *)
(* The environment, the file and the transport that sends a signed request *)
(* are external.                                                           *)
(***************************************************************************)
EXTENDS Integers, Sequences

CONSTANTS Values,    \* regions, keys, secrets, session tokens
          None,      \* the empty string
          Profiles,
          Default,   \* the profile named default
          Disks,     \* contents the credentials file can have
          NoFile,    \* it cannot be read
          Environments,
          Settings,  \* Configs that NewSigner is called with
          Requests   \* requests as they can come to be signed: their headers,
                     \* as a function from names, the Content-Length the
                     \* transport writes for them, None or "unknown", whether
                     \* they are HEAD requests and the body can be read

VARIABLES env,       \* the AWS_* variables
          disk,      \* the credentials file
          setting,   \* the Config of the last call of NewSigner
          step,      \* where that call is
          at,        \* the line to read next
          inSection, \* parseINI is in a section of the profile
          creds,     \* the credentials found so far
          wire       \* the request signed last

vars == <<env, disk, setting, step, at, inSection, creds, wire>>

-----------------------------------------------------------------------------
Fields == {"key", "secret", "session"}
Credentials == [Fields -> Values \cup {None}]
NoCredentials == [f \in Fields |-> None]

Environment == [key : Values \cup {None}, secret : Values \cup {None},
                session : Values \cup {None}, profile : Profiles \cup {None}]
Setting == [region : Values \cup {None}, key : Values \cup {None},
            secret : Values \cup {None}, profile : Profiles \cup {None}]

(* A line opens a section, sets a field, or is blank, a comment or of no   *)
(* use.                                                                    *)
Line == [kind : {"header", "set", "other"}, name : Profiles, field : Fields,
         value : Values \cup {None}]

NoSetting == [region |-> None, key |-> None, secret |-> None, profile |-> None]
NoRequest == [headers |-> <<>>, length |-> None, head |-> FALSE, readable |-> TRUE]
NothingSent == [request |-> NoRequest, signed |-> <<>>, sent |-> <<>>]

Init == /\ env \in Environments /\ disk \in Disks
        /\ setting = NoSetting
        /\ step = "idle"
        /\ at = 1 /\ inSection = FALSE
        /\ creds = NoCredentials
        /\ wire = NothingSent

Static(s) == s.key # None /\ s.secret # None

(* The profile that is looked for in the file.                             *)
Profile(s) == IF s.profile # None THEN s.profile
              ELSE IF env.profile # None THEN env.profile ELSE Default

-----------------------------------------------------------------------------
(* NewSigner: no region is an error, and half a pair of keys no pair.      *)
Begin(s) ==
  /\ step \in {"idle", "failed", "done"}
  /\ setting' = s
  /\ at' = 1 /\ inSection' = FALSE
  /\ \/ /\ s.region = None
        /\ creds' = NoCredentials /\ step' = "failed"
     \/ /\ s.region # None /\ Static(s)
        /\ creds' = [NoCredentials EXCEPT !["key"] = s.key, !["secret"] = s.secret]
        /\ step' = "done"
     \/ /\ s.region # None /\ ~ Static(s)
        /\ creds' = NoCredentials /\ step' = "resolving"
  /\ UNCHANGED <<env, disk, wire>>

(* resolveCredentials: a key in the environment settles it.                *)
FromEnv ==
  /\ step = "resolving" /\ env.key # None
  /\ creds' = [f \in Fields |-> env[f]]
  /\ step' = "done"
  /\ UNCHANGED <<env, disk, setting, at, inSection, wire>>

Open == /\ step = "resolving" /\ env.key = None
        /\ step' = IF disk = NoFile THEN "failed" ELSE "reading"
        /\ UNCHANGED <<env, disk, setting, at, inSection, creds, wire>>

Header_once ==
  /\ step = "reading" /\ at <= Len(disk) /\ disk[at].kind = "header"
  /\ inSection' = (inSection \/ disk[at].name = Profile(setting))
  /\ at' = at + 1
  /\ UNCHANGED <<env, disk, setting, step, creds, wire>>
Header ==
  /\ step = "reading" /\ at <= Len(disk) /\ disk[at].kind = "header"
  /\ inSection' = (disk[at].name = Profile(setting))
  /\ at' = at + 1
  /\ UNCHANGED <<env, disk, setting, step, creds, wire>>

Assign ==
  /\ step = "reading" /\ at <= Len(disk) /\ disk[at].kind = "set" /\ inSection
  /\ creds' = [creds EXCEPT ![disk[at].field] = disk[at].value]
  /\ at' = at + 1
  /\ UNCHANGED <<env, disk, setting, step, inSection, wire>>

PassOver ==
  /\ step = "reading" /\ at <= Len(disk)
  /\ disk[at].kind = "other" \/ (disk[at].kind = "set" /\ ~ inSection)
  /\ at' = at + 1
  /\ UNCHANGED <<env, disk, setting, step, inSection, creds, wire>>

(* Credentials without a key id are none.                                  *)
FileEnds ==
  /\ step = "reading" /\ at > Len(disk)
  /\ step' = IF creds["key"] # None THEN "done" ELSE "failed"
  /\ UNCHANGED <<env, disk, setting, at, inSection, creds, wire>>

Resolve == FromEnv \/ Open \/ Header \/ Assign \/ PassOver \/ FileEnds

-----------------------------------------------------------------------------
(* Header.Get(x) is not empty.                                             *)
Has(h, x) == x \in DOMAIN h /\ h[x] # None

(* What the headers h become once signRequest has put in its own: all of   *)
(* them are signed, a Host of extra_headers in place of the upstream's.    *)
Added == {"X-Amz-Date", "X-Amz-Content-Sha256"}
           \cup {x \in {"X-Amz-Security-Token"} : creds["session"] # None}

Prepared(h) ==
  [x \in DOMAIN h \cup Added \cup {"Host"} |->
     CASE x \in Added -> IF x = "X-Amz-Security-Token" THEN creds["session"] ELSE "computed"
       [] x = "Host" /\ ~ Has(h, x) -> "upstream"
       [] OTHER -> h[x]]

Signed_sessionLast(h) ==
  [x \in DOMAIN Prepared(h) \ {"X-Amz-Security-Token"} |-> Prepared(h)[x]]
Signed(h) == Prepared(h)

(* What the transport writes for a request r whose headers are h by then:  *)
(* a Host and a length of its own, no empty User-Agent, a wish for gzip.   *)
Framing(r) == {x \in {"Content-Length"} : r.length \notin {None, "unknown"}}
                \cup {x \in {"Transfer-Encoding"} : r.length = "unknown"}
Gzip(h, r) == {x \in {"Accept-Encoding"} : ~ Has(h, x) /\ ~ Has(h, "Range") /\ ~ r.head}
Omitted(h) == {"Content-Length"} \cup {x \in {"User-Agent"} : ~ Has(h, x)}

Transmitted(h, r) ==
  [x \in (DOMAIN h \ Omitted(h)) \cup {"Host", "Authorization"} \cup Framing(r) \cup Gzip(h, r) |->
     CASE x = "Host" -> "upstream"
       [] x = "Authorization" -> "signature"
       [] x \in Framing(r) -> IF x = "Content-Length" THEN r.length ELSE "chunked"
       [] x \in Gzip(h, r) -> "gzip"
       [] OTHER -> h[x]]

(* RoundTrip: the signature becomes the Authorization header, in place of  *)
(* any that extra_headers set; what cannot be read is not sent.            *)
Sign(r) ==
  /\ step = "done"
  /\ \/ ~ r.readable /\ wire' = NothingSent
     \/ /\ r.readable
        /\ wire' = [request |-> r, signed |-> Signed(r.headers),
                    sent |-> Transmitted(Prepared(r.headers), r)]
  /\ UNCHANGED <<env, disk, setting, step, at, inSection, creds>>

Next == Resolve \/ (\E s \in Settings : Begin(s)) \/ \E r \in Requests : Sign(r)

Spec == Init /\ [][Next]_vars

-----------------------------------------------------------------------------
(* Every variable has its type.                                            *)
TypeOK ==
  /\ env \in Environment /\ disk \in Seq(Line) \cup {NoFile}
  /\ setting \in Setting
  /\ step \in {"idle", "resolving", "reading", "done", "failed"}
  /\ at \in Nat \ {0} /\ inSection \in BOOLEAN
  /\ creds \in Credentials

(* Line n is in a section of the profile p.                                *)
InProfile(n, p) ==
  \E h \in 1 .. n - 1 : /\ disk[h].kind = "header" /\ disk[h].name = p
                        /\ \A k \in h + 1 .. n - 1 : disk[k].kind # "header"

(* The first n lines of the file give the field f of profile p the value   *)
(* v: that of the last line that sets it in a section of p.                *)
Setters(n, p, f) == {k \in 1 .. n : /\ disk[k].kind = "set" /\ disk[k].field = f
                                    /\ InProfile(k, p)}
Gives(n, p, f, v) ==
  \/ Setters(n, p, f) = {} /\ v = None
  \/ \E k \in Setters(n, p, f) :
       disk[k].value = v /\ \A j \in Setters(n, p, f) : j <= k

FileHas(p) == disk # NoFile /\ ~ Gives(Len(disk), p, "key", None)

(* Somewhere there are credentials for a signer with the setting s.        *)
Available(s) == Static(s) \/ env.key # None \/ FileHas(Profile(s))

(* Whatever sources hold parts of credentials, a signer has those of the   *)
(* first that has any and of no other: the static pair only when whole,    *)
(* the environment's whatever its secret, else what the last lines of the  *)
(* profile's sections say; and it is refused only when there are none      *)
(* (awssign.go:65-76, :239-266, :283-309).                                 *)
OneSource ==
  /\ step = "done" =>
       /\ Available(setting)
       /\ IF Static(setting)
          THEN /\ creds["key"] = setting.key /\ creds["secret"] = setting.secret
               /\ creds["session"] = None
          ELSE IF env.key # None THEN \A f \in Fields : creds[f] = env[f]
          ELSE \A f \in Fields : Gives(Len(disk), Profile(setting), f, creds[f])
  /\ step = "failed" /\ setting.region # None => ~ Available(setting)

(* A request whose headers the transport does not send as they are.        *)
Rewritten(r) ==
  \/ "Authorization" \in DOMAIN r.headers
  \/ "Host" \in DOMAIN r.headers /\ r.headers["Host"] \notin {None, "upstream"}
  \/ /\ "Content-Length" \in DOMAIN r.headers
     /\ r.headers["Content-Length"] # r.length \/ r.length \in {None, "unknown"}
  \/ \E x \in {"User-Agent", "Accept-Encoding"} : x \in DOMAIN r.headers /\ r.headers[x] = None

(* What is signed leaves with the value that was signed, and what leaves   *)
(* is signed but for the signature and what the transport adds: so the     *)
(* upstream can verify it, Host and every X-Amz- header included.  This    *)
(* fails for a request without User-Agent, with an Authorization, Host or  *)
(* Content-Length of extra_headers, an empty Accept-Encoding or a length   *)
(* that is not sent on (awssign.go:106-144, proxy.go:107-117, :267-272).   *)
SignatureVerifies ==
  /\ DOMAIN wire.sent \ {"Authorization", "Accept-Encoding", "Content-Length",
                         "Transfer-Encoding"} \subseteq DOMAIN wire.signed
  /\ \/ Rewritten(wire.request)
     \/ \A x \in DOMAIN wire.signed : x \in DOMAIN wire.sent /\ wire.sent[x] = wire.signed[x]

-----------------------------------------------------------------------------
(* Where the resolution stands.                                            *)
ResolutionStands ==
  /\ step \in {"resolving", "reading"} => setting.region # None /\ ~ Static(setting)
  /\ step = "resolving" => creds = NoCredentials /\ at = 1 /\ inSection = FALSE
  /\ step = "reading" =>
       /\ env.key = None /\ disk # NoFile /\ at <= Len(disk) + 1
       /\ inSection <=> InProfile(at, Profile(setting))
       /\ \A f \in Fields : Gives(at - 1, Profile(setting), f, creds[f])

IInv == TypeOK /\ ResolutionStands /\ OneSource /\ SignatureVerifies
=============================================================================
