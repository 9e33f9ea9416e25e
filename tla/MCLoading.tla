------------------------------ MODULE MCLoading ------------------------------
(* Files with up to two token entries of every kind, or with up to two     *)
(* provider entries of every kind, and groups over them; credentials files *)
(* of two profiles.  The largest number is 31, a second has 10 ticks: four *)
(* seconds wrap around to a negative window, seven to a short one.         *)
EXTENDS Loading

CONSTANTS t1, t2, a, b, k1, k2, prod, work

MCLength == [u \in {"ms", "s", "min", "hour", "day"} |->
               CASE u = "ms" -> 1 [] u = "s" -> 10 [] u = "min" -> 20
                 [] u = "hour" -> 25 [] u = "day" -> 30]

Upto(S, n) == UNION {[1 .. m -> S] : m \in 0 .. n}

Limited(c, m, u) == [count |-> c, n |-> m, unit |-> u]
MCLimits == {Limited(0, 0, "absent"), Limited(5, 1, "unknown"), Limited(0, 1, "s"),
             Limited(5, 0, "s"), Limited(5, 3, "s"), Limited(2, 7, "s"), Limited(5, 99, "ms"),
             Limited(2, 1, "hour")}
MCTokenEntries == {[name |-> TRUE, token |-> t1, rateLimit |-> l] : l \in MCLimits}
                  \cup {[name |-> n, token |-> t, rateLimit |-> Limited(0, 0, "absent")] :
                          n \in BOOLEAN, t \in {t2, None}}

AwsConfig(r, key, secret, prof) == [region |-> r, key |-> key, secret |-> secret, profile |-> prof]
MCSettings == {AwsConfig(k1, None, None, None), AwsConfig(k1, k1, None, work), AwsConfig(k1, k1, k2, None),
               AwsConfig(None, None, None, None)}
Provider(n, u, k, c, r, s, t) ==
  [name |-> n, upstream |-> u, kind |-> k, complete |-> c, readable |-> r,
   aws |-> s, interval |-> t]
Plain == AwsConfig(None, None, None, None)
MCProviderEntries ==
  {Provider(a, "url", "static", TRUE, TRUE, Plain, 0),
   Provider(a, "malformed", "static", TRUE, TRUE, Plain, -1),
   Provider(b, "url", "service-account", TRUE, FALSE, Plain, 5),
   Provider(b, "malformed", "aws-sigv4", TRUE, TRUE, AwsConfig(k1, k1, k2, None), 5),
   Provider(None, "url", "static", TRUE, TRUE, Plain, 5),
   Provider(b, "url", "query-param", FALSE, TRUE, Plain, 5)}
  \cup {Provider(b, "url", "aws-sigv4", TRUE, TRUE, s, 5) : s \in MCSettings}

MCFile(d, ts, ps, gs) == [decodes |-> d, tokens |-> ts, providers |-> ps, groups |-> gs]
OneToken == <<[name |-> TRUE, token |-> t1, rateLimit |-> Limited(5, 3, "s")]>>
MCFiles == {MCFile(TRUE, ts, <<>>, <<>>) : ts \in Upto(MCTokenEntries, 2)}
           \cup {MCFile(TRUE, OneToken, ps, gs) : ps \in Upto(MCProviderEntries, 2),
                   gs \in {<<>>, <<<<a, b>>>>, <<<<b>>, <<b, a>>>>}}
           \cup {MCFile(FALSE, <<>>, <<>>, <<>>)}

OpenSection(x) == [kind |-> "header", name |-> x, field |-> "key", value |-> None]
Sets(f, v) == [kind |-> "set", name |-> prod, field |-> f, value |-> v]
Comment == [OpenSection(prod) EXCEPT !.kind = "other"]
MCLines == {OpenSection(prod), OpenSection(work), Sets("key", k1), Sets("secret", k2)}
MCDisks == Upto(MCLines, 3) \cup {NoFile,
            <<Sets("key", k1), OpenSection(prod)>>,
            <<OpenSection(prod), Sets("key", k1), Comment, Sets("secret", k2), Sets("session", k1)>>,
            <<OpenSection(prod), Sets("key", k1), OpenSection(work), Sets("secret", k2)>>,
            <<OpenSection(work), Sets("key", k1), OpenSection(prod), Sets("secret", k2)>>,
            <<OpenSection(prod), Sets("key", k1), OpenSection(work), Sets("key", k2), OpenSection(prod), Sets("secret", k1)>>,
            <<OpenSection(work), Sets("key", k1), Sets("key", None)>>}
Env(key, secret, prof) == [key |-> key, secret |-> secret, session |-> None, profile |-> prof]
MCEnvironments == {Env(None, None, None), Env(None, k1, work), Env(k2, None, None)}

Request(h, length, head, r) == [headers |-> h, length |-> length, head |-> head, readable |-> r]
MCRequests ==
  {Request([x \in {"User-Agent", "Accept", "Content-Length"} |-> k1], k1, FALSE, TRUE),
   Request([x \in {"User-Agent", "Range", "Host"} |-> IF x = "Host" THEN None ELSE k1], "unknown", FALSE, TRUE),
   Request([x \in {"User-Agent", "Authorization"} |-> IF x = "User-Agent" THEN None ELSE k1], None, TRUE, TRUE),
   Request([x \in {"Content-Length"} |-> k1], k1, FALSE, FALSE)}
=============================================================================
