---------------------------- MODULE LoadingProofs ----------------------------
(* Proofs about Loading and, in it, Signer.                                *)
EXTENDS Loading, TLAPS

USE DEF Aws!Fields

-----------------------------------------------------------------------------
(* What the file says does not change with the state of the reading.       *)
LEMMA FileStays ==
  ASSUME disk' = disk
  PROVE  /\ \A n, p : Aws!InProfile(n, p)' = Aws!InProfile(n, p)
         /\ \A n, p, f : Aws!Setters(n, p, f)' = Aws!Setters(n, p, f)
         /\ \A n, p, f, v : Aws!Gives(n, p, f, v)' = Aws!Gives(n, p, f, v)
         /\ \A p : Aws!FileHas(p)' = Aws!FileHas(p)
<1>1. \A n, p : Aws!InProfile(n, p)' = Aws!InProfile(n, p)
  BY DEF Aws!InProfile
<1>2. \A n, p, f : Aws!Setters(n, p, f)' = Aws!Setters(n, p, f)
  BY <1>1 DEF Aws!Setters
<1>3. \A n, p, f, v : Aws!Gives(n, p, f, v)' = Aws!Gives(n, p, f, v)
  BY <1>2 DEF Aws!Gives
<1>4. \A p : Aws!FileHas(p)' = Aws!FileHas(p)
  BY <1>3 DEF Aws!FileHas
<1> QED BY <1>1, <1>2, <1>3, <1>4

(* Credentials that are there stay there as long as the disk and the       *)
(* environment do.                                                         *)
LEMMA AvailableStays ==
  ASSUME disk' = disk, env' = env
  PROVE  \A s : Aws!Available(s)' = Aws!Available(s) /\ Aws!Profile(s)' = Aws!Profile(s)
<1>1. \A s : Aws!Profile(s)' = Aws!Profile(s)
  BY DEF Aws!Profile
<1>2. \A p : Aws!FileHas(p)' = Aws!FileHas(p)
  BY FileStays
<1>3. \A s : Aws!Available(s)' = Aws!Available(s)
  BY <1>1, <1>2 DEF Aws!Available, Aws!Static
<1> QED BY <1>1, <1>3

(* A file of no lines gives nothing.                                       *)
LEMMA NothingRead ==
  \A p, f : Aws!Gives(0, p, f, None)
BY DEF Aws!Gives, Aws!Setters

(* A line that sets nothing of the profile leaves what the file gives.     *)
LEMMA LinePassed ==
  ASSUME NEW n \in Nat \ {0}, NEW p, NEW f, NEW v,
         ~ (disk[n].kind = "set" /\ disk[n].field = f /\ Aws!InProfile(n, p)),
         Aws!Gives(n - 1, p, f, v)
  PROVE  Aws!Gives(n, p, f, v)
<1>1. Aws!Setters(n, p, f) = Aws!Setters(n - 1, p, f)
  BY DEF Aws!Setters
<1> QED BY <1>1 DEF Aws!Gives

(* A line that sets a field of the profile decides it.                     *)
LEMMA LineDecides ==
  ASSUME NEW n \in Nat \ {0}, NEW p, NEW f,
         disk[n].kind = "set", disk[n].field = f, Aws!InProfile(n, p)
  PROVE  Aws!Gives(n, p, f, disk[n].value)
<1>1. n \in Aws!Setters(n, p, f) /\ \A j \in Aws!Setters(n, p, f) : j <= n
  BY DEF Aws!Setters
<1> QED BY <1>1 DEF Aws!Gives

(* A file gives a field one value only.                                    *)
LEMMA GivesOne ==
  ASSUME NEW n \in Nat, NEW p, NEW f, NEW v, NEW w,
         Aws!Gives(n, p, f, v), Aws!Gives(n, p, f, w)
  PROVE  v = w
<1>1. Aws!Setters(n, p, f) \subseteq 1 .. n
  BY DEF Aws!Setters
<1>2. CASE Aws!Setters(n, p, f) = {}
  BY <1>2 DEF Aws!Gives
<1>3. CASE Aws!Setters(n, p, f) # {}
  <2>1. PICK j \in Aws!Setters(n, p, f) :
          disk[j].value = v /\ \A k \in Aws!Setters(n, p, f) : k <= j
    BY <1>3 DEF Aws!Gives
  <2>2. PICK k \in Aws!Setters(n, p, f) :
          disk[k].value = w /\ \A l \in Aws!Setters(n, p, f) : l <= k
    BY <1>3 DEF Aws!Gives
  <2>3. j = k
    BY <1>1, <2>1, <2>2
  <2> QED BY <2>1, <2>2, <2>3
<1> QED BY <1>2, <1>3

(* The section that the next line is in.                                   *)
LEMMA NextSection ==
  ASSUME NEW n \in Nat \ {0}, NEW p
  PROVE  Aws!InProfile(n + 1, p) <=>
           IF disk[n].kind = "header" THEN disk[n].name = p ELSE Aws!InProfile(n, p)
<1>1. CASE disk[n].kind = "header"
  <2>1. ASSUME disk[n].name = p PROVE Aws!InProfile(n + 1, p)
    <3>1. n \in 1 .. (n + 1) - 1 /\ \A k \in n + 1 .. (n + 1) - 1 : disk[k].kind # "header"
      OBVIOUS
    <3> QED BY <1>1, <2>1, <3>1 DEF Aws!InProfile
  <2>2. ASSUME Aws!InProfile(n + 1, p) PROVE disk[n].name = p
    <3>1. PICK h \in 1 .. (n + 1) - 1 :
            /\ disk[h].kind = "header" /\ disk[h].name = p
            /\ \A k \in h + 1 .. (n + 1) - 1 : disk[k].kind # "header"
      BY <2>2 DEF Aws!InProfile
    <3>2. h = n
      BY <1>1, <3>1
    <3> QED BY <3>1, <3>2
  <2> QED BY <1>1, <2>1, <2>2
<1>2. CASE disk[n].kind # "header"
  <2>1. ASSUME Aws!InProfile(n, p) PROVE Aws!InProfile(n + 1, p)
    <3>1. PICK h \in 1 .. n - 1 :
            /\ disk[h].kind = "header" /\ disk[h].name = p
            /\ \A k \in h + 1 .. n - 1 : disk[k].kind # "header"
      BY <2>1 DEF Aws!InProfile
    <3>2. h \in 1 .. (n + 1) - 1 /\ \A k \in h + 1 .. (n + 1) - 1 : disk[k].kind # "header"
      BY <1>2, <3>1
    <3> QED BY <3>1, <3>2 DEF Aws!InProfile
  <2>2. ASSUME Aws!InProfile(n + 1, p) PROVE Aws!InProfile(n, p)
    <3>1. PICK h \in 1 .. (n + 1) - 1 :
            /\ disk[h].kind = "header" /\ disk[h].name = p
            /\ \A k \in h + 1 .. (n + 1) - 1 : disk[k].kind # "header"
      BY <2>2 DEF Aws!InProfile
    <3>2. h \in 1 .. n - 1 /\ \A k \in h + 1 .. n - 1 : disk[k].kind # "header"
      BY <1>2, <3>1
    <3> QED BY <3>1, <3>2 DEF Aws!InProfile
  <2> QED BY <1>2, <2>1, <2>2
<1> QED BY <1>1, <1>2

-----------------------------------------------------------------------------
LEMMA SignerInit == Init => Aws!IInv
<1> SUFFICES ASSUME Init PROVE Aws!IInv
  OBVIOUS
<1> USE DEF Init, Aws!Init
<1>1. setting \in Aws!Setting
  BY DEF Aws!NoSetting, Aws!Setting
<1>2. creds \in Aws!Credentials
  BY DEF Aws!NoCredentials, Aws!Credentials
<1>3. env \in Aws!Environment /\ disk \in Seq(Aws!Line) \cup {NoFile}
  BY FileAssumption
<1>4. Aws!TypeOK
  <2>1. inSection \in BOOLEAN
    BY Zenon
  <2>2. at \in Nat \ {0} /\ step \in {"idle", "resolving", "reading", "done", "failed"}
    OBVIOUS
  <2> QED BY <1>1, <1>2, <1>3, <2>1, <2>2, Zenon DEF Aws!TypeOK
<1>5. Aws!ResolutionStands /\ Aws!OneSource
  BY DEF Aws!ResolutionStands, Aws!OneSource
<1>6. Aws!SignatureVerifies
  BY DEF Aws!SignatureVerifies, Aws!NothingSent
<1> QED BY <1>4, <1>5, <1>6 DEF Aws!IInv

(* A call of NewSigner.                                                    *)
LEMMA SignerBegins ==
  ASSUME Aws!IInv, NEW s \in Settings, Aws!Begin(s)
  PROVE  Aws!IInv'
<1> s \in Aws!Setting
  BY FileAssumption
<1> USE DEF Aws!Begin
<1>1. disk' = disk /\ env' = env /\ wire' = wire /\ setting' = s /\ at' = 1 /\ inSection' = FALSE
  OBVIOUS
<1>2. creds' \in Aws!Credentials
  <2>1. Aws!NoCredentials \in Aws!Credentials
    BY DEF Aws!NoCredentials, Aws!Credentials
  <2>2. s.key \in Values \cup {None} /\ s.secret \in Values \cup {None}
    BY DEF Aws!Setting
  <2> QED BY <2>1, <2>2 DEF Aws!Credentials
<1>3. Aws!TypeOK'
  <2>1. inSection' \in BOOLEAN
    BY <1>1, Zenon
  <2>2. at' \in Nat \ {0} /\ step' \in {"idle", "resolving", "reading", "done", "failed"}
    OBVIOUS
  <2>3. env' \in Aws!Environment /\ disk' \in Seq(Aws!Line) \cup {NoFile}
    BY <1>1 DEF Aws!TypeOK, Aws!IInv
  <2> QED BY <1>1, <1>2, <2>1, <2>2, <2>3, Zenon DEF Aws!TypeOK
<1>4. Aws!ResolutionStands'
  BY <1>1 DEF Aws!ResolutionStands, Aws!Static
<1>5. Aws!OneSource'
  <2>1. CASE s.region = None
    BY <2>1, <1>1 DEF Aws!OneSource
  <2>2. CASE s.region # None /\ Aws!Static(s)
    <3>1. /\ step' = "done"
          /\ creds' = [Aws!NoCredentials EXCEPT !["key"] = s.key, !["secret"] = s.secret]
      BY <2>2
    <3>2. creds'["key"] = s.key /\ creds'["secret"] = s.secret /\ creds'["session"] = None
      BY <3>1 DEF Aws!NoCredentials
    <3>3. Aws!Available(setting)' /\ Aws!Static(setting)'
      BY <2>2, <1>1 DEF Aws!Available, Aws!Static
    <3> QED BY <1>1, <3>1, <3>2, <3>3 DEF Aws!OneSource
  <2>3. CASE s.region # None /\ ~ Aws!Static(s)
    BY <2>3, <1>1 DEF Aws!OneSource
  <2> QED BY <2>1, <2>2, <2>3
<1>6. Aws!SignatureVerifies'
  BY <1>1 DEF Aws!SignatureVerifies, Aws!IInv
<1> QED BY <1>3, <1>4, <1>5, <1>6 DEF Aws!IInv

(* A step of the resolution: the loop over the lines keeps what the lines  *)
(* read so far give.                                                       *)
LEMMA SignerResolves ==
  ASSUME Aws!IInv, Aws!Resolve
  PROVE  Aws!IInv'
<1> DEFINE p == Aws!Profile(setting)
<1>1. disk' = disk /\ env' = env /\ setting' = setting /\ wire' = wire
  BY DEF Aws!Resolve, Aws!FromEnv, Aws!Open, Aws!Header, Aws!Assign, Aws!PassOver, Aws!FileEnds
<1>2. /\ \A n, x : Aws!InProfile(n, x)' = Aws!InProfile(n, x)
      /\ \A n, x, f, v : Aws!Gives(n, x, f, v)' = Aws!Gives(n, x, f, v)
      /\ \A x : Aws!FileHas(x)' = Aws!FileHas(x)
  BY <1>1, FileStays
<1>3. Aws!Available(setting)' = Aws!Available(setting) /\ Aws!Profile(setting)' = p
  BY <1>1, AvailableStays
<1>4. Aws!Static(setting)' = Aws!Static(setting)
  BY <1>1 DEF Aws!Static
<1>5. Aws!TypeOK /\ Aws!ResolutionStands /\ Aws!OneSource
  BY DEF Aws!IInv
<1>6. Aws!SignatureVerifies'
  BY <1>1 DEF Aws!SignatureVerifies, Aws!IInv
<1> HIDE DEF p
<1>7. CASE Aws!FromEnv
  <2> USE DEF Aws!FromEnv
  <2>1. \A f \in Aws!Fields : creds'[f] = env[f]
    BY <1>7
  <2>2. creds' \in Aws!Credentials
    BY <1>7, <1>5 DEF Aws!Credentials, Aws!TypeOK, Aws!Environment
  <2>3. Aws!TypeOK'
    BY <1>7, <1>5, <2>2 DEF Aws!TypeOK
  <2>4. Aws!ResolutionStands'
    BY <1>7 DEF Aws!ResolutionStands
  <2>5. Aws!Available(setting) /\ ~ Aws!Static(setting)
    BY <1>7, <1>5 DEF Aws!Available, Aws!ResolutionStands
  <2>6. Aws!OneSource'
    BY <1>7, <1>1, <1>3, <1>4, <2>1, <2>5 DEF Aws!OneSource
  <2> QED BY <2>3, <2>4, <2>6, <1>6 DEF Aws!IInv
<1>8. CASE Aws!Open
  <2> USE DEF Aws!Open
  <2>1. Aws!TypeOK'
    BY <1>8, <1>5 DEF Aws!TypeOK
  <2>2. /\ creds = Aws!NoCredentials /\ at = 1 /\ inSection = FALSE
        /\ setting.region # None /\ ~ Aws!Static(setting)
    BY <1>8, <1>5 DEF Aws!ResolutionStands
  <2>3. ~ Aws!InProfile(1, p)
    BY DEF Aws!InProfile
  <2>4. \A f \in Aws!Fields : Aws!Gives(0, p, f, creds[f])
    BY <2>2, NothingRead DEF Aws!NoCredentials
  <2>5. disk # NoFile => 1 <= Len(disk) + 1
    BY <1>5, FileAssumption DEF Aws!TypeOK
  <2>6. Aws!ResolutionStands'
    <3>1. /\ step' \in {"failed", "reading"} /\ env.key = None
          /\ at' = 1 /\ inSection' = FALSE /\ creds' = creds
          /\ step' = "reading" => disk # NoFile
      BY <1>8, <2>2
    <3>2. \A f \in Aws!Fields : Aws!Gives(at' - 1, p, f, creds'[f])
      BY <2>4, <3>1
    <3> QED BY <1>1, <1>2, <1>3, <1>4, <2>2, <2>3, <2>5, <3>1, <3>2 DEF Aws!ResolutionStands
  <2>7. step' = "failed" => ~ Aws!Available(setting)
    BY <1>8, <2>2 DEF Aws!Available, Aws!FileHas
  <2>8. Aws!OneSource'
    BY <1>8, <1>3, <2>7 DEF Aws!OneSource
  <2> QED BY <2>1, <2>6, <2>8, <1>6 DEF Aws!IInv
<1>9. CASE Aws!Header
  <2> USE DEF Aws!Header
  <2>1. /\ step = "reading" /\ step' = step /\ creds' = creds /\ at' = at + 1
        /\ at \in Nat \ {0} /\ at <= Len(disk) /\ disk[at].kind = "header"
        /\ inSection' = (disk[at].name = p)
    BY <1>9, <1>5 DEF p, Aws!TypeOK
  <2>2. Aws!TypeOK'
    <3>1. inSection' \in BOOLEAN
      BY <2>1, Zenon
    <3>2. at' \in Nat \ {0}
      BY <2>1
    <3> QED BY <1>1, <1>5, <2>1, <3>1, <3>2, Zenon DEF Aws!TypeOK
  <2>3. inSection' <=> Aws!InProfile(at', p)
    BY <2>1, NextSection, Zenon
  <2>4. \A f \in Aws!Fields : Aws!Gives(at' - 1, p, f, creds'[f])
    <3> SUFFICES ASSUME NEW f \in Aws!Fields PROVE Aws!Gives(at' - 1, p, f, creds'[f])
      OBVIOUS
    <3>1. Aws!Gives(at - 1, p, f, creds[f])
      BY <2>1, <1>5 DEF Aws!ResolutionStands, p
    <3>2. Aws!Gives(at, p, f, creds[f])
      BY <2>1, <3>1, LinePassed
    <3> QED BY <2>1, <3>2
  <2>5. at' <= Len(disk) + 1
    <3>1. Len(disk) \in Nat
      BY <2>1, <1>5, FileAssumption DEF Aws!TypeOK, Aws!ResolutionStands
    <3> QED BY <2>1, <3>1
  <2>6. Aws!ResolutionStands'
    BY <1>1, <1>2, <1>3, <1>4, <1>5, <2>1, <2>3, <2>4, <2>5 DEF Aws!ResolutionStands
  <2>7. Aws!OneSource'
    BY <2>1 DEF Aws!OneSource
  <2> QED BY <2>2, <2>6, <2>7, <1>6 DEF Aws!IInv
<1>10. CASE Aws!Assign
  <2> USE DEF Aws!Assign
  <2>1. /\ step = "reading" /\ step' = step /\ inSection' = inSection /\ at' = at + 1
        /\ at \in Nat \ {0} /\ at <= Len(disk) /\ disk[at].kind = "set" /\ inSection
        /\ creds' = [creds EXCEPT ![disk[at].field] = disk[at].value]
    BY <1>10, <1>5 DEF Aws!TypeOK
  <2>2. disk \in Seq(Aws!Line) /\ Len(disk) \in Nat
    BY <2>1, <1>5, FileAssumption DEF Aws!TypeOK, Aws!ResolutionStands
  <2>3. disk[at] \in Aws!Line
    BY <2>1, <2>2
  <2>4. disk[at].field \in Aws!Fields /\ disk[at].value \in Values \cup {None}
    BY <2>3 DEF Aws!Line
  <2>5. creds \in Aws!Credentials
    BY <1>5 DEF Aws!TypeOK
  <2>6. /\ creds' \in Aws!Credentials
        /\ \A f \in Aws!Fields :
             creds'[f] = IF f = disk[at].field THEN disk[at].value ELSE creds[f]
    BY <2>1, <2>4, <2>5 DEF Aws!Credentials
  <2>7. Aws!TypeOK'
    <3>1. at' \in Nat \ {0}
      BY <2>1
    <3> QED BY <1>1, <1>5, <2>1, <2>6, <3>1, Zenon DEF Aws!TypeOK
  <2>8. Aws!InProfile(at, p)
    BY <2>1, <1>5 DEF Aws!ResolutionStands, p
  <2>9. Aws!InProfile(at', p)
    BY <2>1, <2>8, NextSection
  <2>10. \A f \in Aws!Fields : Aws!Gives(at' - 1, p, f, creds'[f])
    <3> SUFFICES ASSUME NEW f \in Aws!Fields PROVE Aws!Gives(at' - 1, p, f, creds'[f])
      OBVIOUS
    <3>1. Aws!Gives(at - 1, p, f, creds[f])
      BY <2>1, <1>5 DEF Aws!ResolutionStands, p
    <3>2. CASE f = disk[at].field
      <4>1. Aws!Gives(at, p, f, disk[at].value)
        BY <2>1, <2>8, <3>2, LineDecides
      <4> QED BY <2>1, <2>6, <3>2, <4>1
    <3>3. CASE f # disk[at].field
      <4>1. Aws!Gives(at, p, f, creds[f])
        BY <2>1, <3>1, <3>3, LinePassed
      <4> QED BY <2>1, <2>6, <3>3, <4>1
    <3> QED BY <3>2, <3>3
  <2>11. Aws!ResolutionStands'
    <3>1. at' <= Len(disk) + 1
      BY <2>1, <2>2
    <3> QED BY <1>1, <1>2, <1>3, <1>4, <1>5, <2>1, <2>9, <2>10, <3>1 DEF Aws!ResolutionStands
  <2>12. Aws!OneSource'
    BY <2>1 DEF Aws!OneSource
  <2> QED BY <2>7, <2>11, <2>12, <1>6 DEF Aws!IInv
<1>11. CASE Aws!PassOver
  <2> USE DEF Aws!PassOver
  <2>1. /\ step = "reading" /\ step' = step /\ creds' = creds /\ at' = at + 1
        /\ inSection' = inSection
        /\ at \in Nat \ {0} /\ at <= Len(disk) /\ disk[at].kind # "header"
        /\ disk[at].kind = "set" => ~ inSection
    BY <1>11, <1>5 DEF Aws!TypeOK
  <2>2. Aws!TypeOK'
    <3>1. at' \in Nat \ {0}
      BY <2>1
    <3> QED BY <1>1, <1>5, <2>1, <3>1, Zenon DEF Aws!TypeOK
  <2>3. inSection <=> Aws!InProfile(at, p)
    BY <2>1, <1>5 DEF Aws!ResolutionStands, p
  <2>4. inSection' <=> Aws!InProfile(at', p)
    <3>1. Aws!InProfile(at + 1, p) <=> Aws!InProfile(at, p)
      BY <2>1, NextSection
    <3> QED BY <2>1, <2>3, <3>1, Zenon
  <2>5. \A f \in Aws!Fields : Aws!Gives(at' - 1, p, f, creds'[f])
    <3> SUFFICES ASSUME NEW f \in Aws!Fields PROVE Aws!Gives(at' - 1, p, f, creds'[f])
      OBVIOUS
    <3>1. Aws!Gives(at - 1, p, f, creds[f])
      BY <2>1, <1>5 DEF Aws!ResolutionStands, p
    <3>2. ~ (disk[at].kind = "set" /\ disk[at].field = f /\ Aws!InProfile(at, p))
      BY <2>1, <2>3, Zenon
    <3>3. Aws!Gives(at, p, f, creds[f])
      BY <2>1, <3>1, <3>2, LinePassed
    <3> QED BY <2>1, <3>3
  <2>6. at' <= Len(disk) + 1
    <3>1. Len(disk) \in Nat
      BY <2>1, <1>5, FileAssumption DEF Aws!TypeOK, Aws!ResolutionStands
    <3> QED BY <2>1, <3>1
  <2>7. Aws!ResolutionStands'
    BY <1>1, <1>2, <1>3, <1>4, <1>5, <2>1, <2>4, <2>5, <2>6 DEF Aws!ResolutionStands
  <2>8. Aws!OneSource'
    BY <2>1 DEF Aws!OneSource
  <2> QED BY <2>2, <2>7, <2>8, <1>6 DEF Aws!IInv
<1>12. CASE Aws!FileEnds
  <2> USE DEF Aws!FileEnds
  <2>1. /\ step = "reading" /\ creds' = creds /\ at' = at /\ inSection' = inSection
        /\ step' = (IF creds["key"] # None THEN "done" ELSE "failed")
    BY <1>12
  <2>2. Aws!TypeOK'
    BY <1>12, <1>5, Zenon DEF Aws!TypeOK
  <2>3. Aws!ResolutionStands'
    BY <2>1 DEF Aws!ResolutionStands
  <2>4. /\ setting.region # None /\ ~ Aws!Static(setting) /\ env.key = None /\ disk # NoFile
        /\ \A f \in Aws!Fields : Aws!Gives(at - 1, p, f, creds[f])
    BY <2>1, <1>5 DEF Aws!ResolutionStands, p
  <2>5. at - 1 = Len(disk) /\ Len(disk) \in Nat
    <3>1. Len(disk) \in Nat /\ at <= Len(disk) + 1 /\ at \in Nat
      BY <2>1, <2>4, <1>5, FileAssumption DEF Aws!TypeOK, Aws!ResolutionStands
    <3> QED BY <1>12, <3>1
  <2>6. \A f \in Aws!Fields : Aws!Gives(Len(disk), p, f, creds[f])
    BY <2>4, <2>5
  <2>7. Aws!Available(setting) <=> creds["key"] # None
    <3>1. Aws!Gives(Len(disk), p, "key", creds["key"])
      BY <2>6
    <3>2. Aws!Gives(Len(disk), p, "key", None) <=> creds["key"] = None
      BY <3>1, <2>5, GivesOne
    <3> QED BY <2>4, <3>2 DEF Aws!Available, Aws!FileHas, p
  <2>8. Aws!OneSource'
    BY <1>1, <1>2, <1>3, <1>4, <2>1, <2>4, <2>6, <2>7 DEF Aws!OneSource
  <2> QED BY <2>2, <2>3, <2>8, <1>6 DEF Aws!IInv
<1> QED BY <1>7, <1>8, <1>9, <1>10, <1>11, <1>12 DEF Aws!Resolve

(* A signed request.                                                       *)
LEMMA SignerSigns ==
  ASSUME Aws!IInv, NEW r \in Requests, Aws!Sign(r)
  PROVE  Aws!IInv'
<1> USE DEF Aws!Sign
<1>1. /\ disk' = disk /\ env' = env /\ setting' = setting /\ step' = step
      /\ creds' = creds /\ at' = at /\ inSection' = inSection
  OBVIOUS
<1>2. /\ \A n, x : Aws!InProfile(n, x)' = Aws!InProfile(n, x)
      /\ \A n, x, f, v : Aws!Gives(n, x, f, v)' = Aws!Gives(n, x, f, v)
  BY <1>1, FileStays
<1>3. \A s : Aws!Available(s)' = Aws!Available(s) /\ Aws!Profile(s)' = Aws!Profile(s)
  BY <1>1, AvailableStays
<1>4. Aws!TypeOK'
  BY <1>1, Zenon DEF Aws!TypeOK, Aws!IInv
<1>5. Aws!ResolutionStands'
  BY <1>1, <1>2, <1>3 DEF Aws!ResolutionStands, Aws!IInv, Aws!Static
<1>6. Aws!OneSource'
  BY <1>1, <1>2, <1>3 DEF Aws!OneSource, Aws!IInv, Aws!Static
<1>7. Aws!SignatureVerifies'
  <2> DEFINE h == r.headers
             p == Aws!Prepared(h)
             t == Aws!Transmitted(p, r)
  <2>1. CASE wire' = Aws!NothingSent
    BY <2>1 DEF Aws!SignatureVerifies, Aws!NothingSent
  <2>2. CASE wire' = [request |-> r, signed |-> p, sent |-> t]
    <3>1. DOMAIN t = (DOMAIN p \ Aws!Omitted(p)) \cup {"Host", "Authorization"}
                       \cup Aws!Framing(r) \cup Aws!Gzip(p, r)
      BY DEF Aws!Transmitted
    <3>2. /\ Aws!Framing(r) \subseteq {"Content-Length", "Transfer-Encoding"}
          /\ Aws!Gzip(p, r) \subseteq {"Accept-Encoding"}
      BY DEF Aws!Framing, Aws!Gzip
    <3>3. DOMAIN p = DOMAIN h \cup Aws!Added \cup {"Host"}
      BY DEF Aws!Prepared
    <3>4. Aws!Added \subseteq {"X-Amz-Date", "X-Amz-Content-Sha256", "X-Amz-Security-Token"}
      BY DEF Aws!Added
    <3>5. DOMAIN t \ {"Authorization", "Accept-Encoding", "Content-Length", "Transfer-Encoding"}
            \subseteq DOMAIN p
      BY <3>1, <3>2, <3>3
    <3>6. ASSUME ~ Aws!Rewritten(r), NEW x \in DOMAIN p PROVE x \in DOMAIN t /\ t[x] = p[x]
      <4>1. x \in Aws!Added \cup {"Host"} \/ p[x] = h[x]
        BY DEF Aws!Prepared
      <4>2. x # "Authorization"
        BY <3>3, <3>4, <3>6 DEF Aws!Rewritten
      <4>3. CASE x = "Host"
        <5>1. t[x] = "upstream"
          BY <3>1, <3>2, <4>3 DEF Aws!Transmitted
        <5>2. p[x] = "upstream"
          BY <3>3, <3>4, <3>6, <4>3 DEF Aws!Prepared, Aws!Has, Aws!Rewritten
        <5> QED BY <3>1, <4>3, <5>1, <5>2
      <4>4. CASE x = "Content-Length"
        <5>1. /\ x \in DOMAIN h /\ p[x] = h[x] /\ h[x] = r.length
              /\ x \in Aws!Framing(r)
          BY <3>3, <3>4, <3>6, <4>1, <4>4 DEF Aws!Rewritten, Aws!Framing
        <5>2. x \in DOMAIN t /\ t[x] = r.length
          BY <3>1, <3>2, <4>4, <5>1 DEF Aws!Transmitted
        <5> QED BY <5>1, <5>2
      <4>5. CASE x \notin {"Host", "Content-Length"}
        <5>1. x \notin Aws!Omitted(p)
          BY <3>3, <3>4, <3>6, <4>1, <4>5 DEF Aws!Omitted, Aws!Has, Aws!Rewritten
        <5>2. x \notin Aws!Framing(r)
          BY <3>2, <3>3, <3>4, <4>5, RequestAssumption
        <5>3. x \notin Aws!Gzip(p, r)
          BY <3>2, <3>3, <3>4, <3>6, <4>1, <4>5 DEF Aws!Gzip, Aws!Has, Aws!Rewritten
        <5> QED BY <3>1, <4>2, <4>5, <5>1, <5>2, <5>3 DEF Aws!Transmitted
      <4> QED BY <4>3, <4>4, <4>5
    <3> QED
      BY <2>2, <3>5, <3>6 DEF Aws!SignatureVerifies
  <2> QED BY <2>1, <2>2 DEF Aws!Signed
<1> QED BY <1>4, <1>5, <1>6, <1>7 DEF Aws!IInv

LEMMA SignerStays ==
  ASSUME Aws!IInv, UNCHANGED signerVars
  PROVE  Aws!IInv'
<1>1. /\ disk' = disk /\ env' = env /\ setting' = setting /\ step' = step /\ wire' = wire
      /\ creds' = creds /\ at' = at /\ inSection' = inSection
  BY DEF signerVars
<1>2. /\ \A n, x : Aws!InProfile(n, x)' = Aws!InProfile(n, x)
      /\ \A n, x, f, v : Aws!Gives(n, x, f, v)' = Aws!Gives(n, x, f, v)
  BY <1>1, FileStays
<1>3. \A s : Aws!Available(s)' = Aws!Available(s) /\ Aws!Profile(s)' = Aws!Profile(s)
  BY <1>1, AvailableStays
<1>4. Aws!TypeOK'
  BY <1>1, Zenon DEF Aws!TypeOK, Aws!IInv
<1>5. Aws!ResolutionStands'
  BY <1>1, <1>2, <1>3 DEF Aws!ResolutionStands, Aws!IInv, Aws!Static
<1>6. Aws!OneSource'
  BY <1>1, <1>2, <1>3 DEF Aws!OneSource, Aws!IInv, Aws!Static
<1>7. Aws!SignatureVerifies'
  BY <1>1 DEF Aws!SignatureVerifies, Aws!IInv
<1> QED BY <1>4, <1>5, <1>6, <1>7 DEF Aws!IInv

-----------------------------------------------------------------------------
(* A number that a Duration can hold does not wrap around.                 *)
LEMMA SmallRemainder ==
  ASSUME NEW m \in Nat \ {0}, NEW x \in 0 .. m - 1
  PROVE  x % m = x
OBVIOUS

LEMMA WrapFits ==
  ASSUME NEW x \in 0 .. MaxInt
  PROVE  Wrap(x) = x
<1> DEFINE m == 2 * (MaxInt + 1)
<1>1. MaxInt \in Nat /\ m \in Nat \ {0} /\ x + MaxInt + 1 \in 0 .. m - 1
  BY WordAssumption
<1>2. (x + MaxInt + 1) % m = x + MaxInt + 1
  BY <1>1, SmallRemainder
<1> QED BY <1>1, <1>2 DEF Wrap

LEMMA ProductBounds ==
  ASSUME NEW n \in Nat, NEW l \in Nat \ {0}
  PROVE  n * l \in Nat /\ n <= n * l
<1>1. l - 1 \in Nat
  OBVIOUS
<1>2. n * (l - 1) \in Nat
  BY <1>1
<1>3. n * l = n * (l - 1) + n
  BY <1>1
<1> QED BY <1>2, <1>3

(* A usable entry's token gets what the entry says.                        *)
LEMMA InfoAsWritten ==
  ASSUME NEW l \in RateLimit, l.unit = "absent" \/ Parses(l)
  PROVE  AsWritten(Info(l), l)
<1>1. CASE l.unit = "absent"
  BY <1>1 DEF AsWritten, Info
<1>2. CASE l.unit # "absent"
  <2>1. l.n \in Nat /\ Length[l.unit] \in Nat \ {0}
    BY <1>2, WordAssumption DEF RateLimit, Parses
  <2>2. Info(l) = [count |-> l.count, window |-> Window(l)]
    BY <1>2 DEF Info
  <2>3. ASSUME l.n * Length[l.unit] <= MaxInt PROVE Window(l) = l.n * Length[l.unit]
    <3>1. l.n * Length[l.unit] \in Nat /\ l.n <= l.n * Length[l.unit]
      BY <2>1, ProductBounds
    <3>2. l.n <= MaxInt /\ l.n * Length[l.unit] \in 0 .. MaxInt
      BY <2>1, <2>3, <3>1, WordAssumption
    <3>3. Atoi(l.n) = l.n
      BY <2>1, <3>2, WordAssumption DEF Atoi
    <3> QED BY <3>2, <3>3, WrapFits DEF Window
  <2> QED BY <1>2, <2>2, <2>3 DEF AsWritten
<1> QED BY <1>1, <1>2

(* One more entry of the token map.                                        *)
LEMMA TokensOneMore ==
  ASSUME cfg \in File, NEW n \in 1 .. Len(cfg.tokens), TokensSoFar(n - 1), NEW m,
         cfg.tokens[n].token \in Tokens,
         m = IF Usable(cfg.tokens[n])
             THEN Put(tokenMap, cfg.tokens[n].token, Info(cfg.tokens[n].rateLimit)) ELSE tokenMap
  PROVE  /\ DOMAIN m = {t \in Tokens : Granting(n, t) # {}}
         /\ \A t \in DOMAIN m : \E j \in Granting(n, t) :
              (\A k \in Granting(n, t) : k <= j) /\ AsWritten(m[t], cfg.tokens[j].rateLimit)
<1> DEFINE e == cfg.tokens[n]
<1>1. n \in Nat \ {0} /\ n - 1 \in Nat /\ e.rateLimit \in RateLimit
  <2>1. cfg.tokens \in Seq(TokenEntry)
    BY DEF File
  <2>2. e \in TokenEntry
    BY <2>1
  <2> QED BY <2>2 DEF TokenEntry
<1>2. /\ DOMAIN tokenMap = {t \in Tokens : Granting(n - 1, t) # {}}
      /\ \A t \in DOMAIN tokenMap : \E j \in Granting(n - 1, t) :
           /\ \A k \in Granting(n - 1, t) : k <= j
           /\ AsWritten(tokenMap[t], cfg.tokens[j].rateLimit)
  BY DEF TokensSoFar
<1>3. \A t : t # e.token \/ ~ Usable(e) => Granting(n, t) = Granting(n - 1, t)
  BY <1>1 DEF Granting
<1>4. CASE Usable(e)
  <2>1. n \in Granting(n, e.token) /\ \A k \in Granting(n, e.token) : k <= n
    BY <1>1, <1>4 DEF Granting
  <2>2. m = [y \in DOMAIN tokenMap \cup {e.token} |->
               IF y = e.token THEN Info(e.rateLimit) ELSE tokenMap[y]]
    BY <1>4 DEF Put
  <2>3. AsWritten(Info(e.rateLimit), e.rateLimit)
    BY <1>1, <1>4, InfoAsWritten DEF Usable
  <2>4. AsWritten(m[e.token], cfg.tokens[n].rateLimit)
    BY <2>2, <2>3
  <2>5. DOMAIN m = {t \in Tokens : Granting(n, t) # {}}
    BY <1>2, <1>3, <2>1, <2>2
  <2>6. ASSUME NEW t \in DOMAIN m, t # e.token
        PROVE  \E j \in Granting(n, t) :
                 (\A k \in Granting(n, t) : k <= j) /\ AsWritten(m[t], cfg.tokens[j].rateLimit)
    <3>1. t \in DOMAIN tokenMap /\ m[t] = tokenMap[t] /\ Granting(n, t) = Granting(n - 1, t)
      BY <1>3, <2>2, <2>6
    <3> QED BY <1>2, <3>1
  <2> QED BY <2>1, <2>4, <2>5, <2>6
<1>5. CASE ~ Usable(e)
  BY <1>2, <1>3, <1>5
<1> QED BY <1>4, <1>5

(* One more provider, built or left out.                                   *)
LEMMA ProvidersOneMore ==
  ASSUME NEW n \in Nat \ {0}, ProvidersSoFar(n - 1), NEW p \in Names, NEW m,
         cfg.providers[n].name = p,
         m = IF n \in Buildable(n, p) THEN Put(built, p, n) ELSE built
  PROVE  /\ DOMAIN m = {x \in Names : Buildable(n, x) # {}}
         /\ \A x \in DOMAIN m : m[x] \in Buildable(n, x) /\ \A k \in Buildable(n, x) : k <= m[x]
<1>1. /\ DOMAIN built = {x \in Names : Buildable(n - 1, x) # {}}
      /\ \A x \in DOMAIN built :
           built[x] \in Buildable(n - 1, x) /\ \A k \in Buildable(n - 1, x) : k <= built[x]
  BY DEF ProvidersSoFar
<1>2. \A x : x # p \/ n \notin Buildable(n, p) => Buildable(n, x) = Buildable(n - 1, x)
  BY DEF Buildable
<1>3. CASE n \in Buildable(n, p)
  <2>1. m = [y \in DOMAIN built \cup {p} |-> IF y = p THEN n ELSE built[y]]
    BY <1>3 DEF Put
  <2>2. \A k \in Buildable(n, p) : k <= n
    BY DEF Buildable
  <2>3. DOMAIN m = {x \in Names : Buildable(n, x) # {}}
    BY <1>1, <1>2, <1>3, <2>1
  <2>4. ASSUME NEW x \in DOMAIN m
        PROVE  m[x] \in Buildable(n, x) /\ \A k \in Buildable(n, x) : k <= m[x]
    <3>1. CASE x = p
      BY <1>3, <2>1, <2>2, <3>1
    <3>2. CASE x # p
      BY <1>1, <1>2, <2>1, <3>2
    <3> QED BY <3>1, <3>2
  <2> QED BY <2>3, <2>4
<1>4. CASE n \notin Buildable(n, p)
  BY <1>1, <1>2, <1>4
<1> QED BY <1>3, <1>4

-----------------------------------------------------------------------------
LEMMA TokensStay ==
  ASSUME cfg' = cfg, tokenMap' = tokenMap
  PROVE  \A n : TokensSoFar(n)' = TokensSoFar(n)
<1>1. \A n, t : Granting(n, t)' = Granting(n, t)
  BY DEF Granting
<1> QED BY <1>1 DEF TokensSoFar

LEMMA BuildableStays ==
  ASSUME cfg'.providers = cfg.providers, disk' = disk, env' = env
  PROVE  \A n, p : Buildable(n, p)' = Buildable(n, p)
<1>1. \A s : Aws!Available(s)' = Aws!Available(s)
  BY AvailableStays
<1> QED BY <1>1 DEF Buildable

LEMMA ProvidersStay ==
  ASSUME cfg' = cfg, disk' = disk, env' = env, built' = built
  PROVE  \A n : ProvidersSoFar(n)' = ProvidersSoFar(n)
<1>1. \A n, p : Buildable(n, p)' = Buildable(n, p)
  BY BuildableStays
<1> QED BY <1>1 DEF ProvidersSoFar

(* Nothing is granted and nothing built by no entries.                     *)
LEMMA NoEntries ==
  /\ \A t : Granting(0, t) = {}
  /\ \A p : Buildable(0, p) = {}
BY DEF Granting, Buildable

(* Parse leaves a file that is one.                                        *)
LEMMA DefaultsTyped ==
  ASSUME NEW c \in File, \A j \in DOMAIN c.providers : c.providers[j].aws \in Settings
  PROVE  /\ WithDefaults(c) \in File
         /\ \A j \in DOMAIN WithDefaults(c).providers : WithDefaults(c).providers[j].aws \in Settings
<1> DEFINE ps == [j \in DOMAIN c.providers |->
              IF c.providers[j].interval = 0
              THEN [c.providers[j] EXCEPT !.interval = 30 * Length["s"]] ELSE c.providers[j]]
<1>1. c.providers \in Seq(ProviderEntry)
  BY DEF File
<1>2. \A j \in DOMAIN c.providers : ps[j] \in ProviderEntry /\ ps[j].aws = c.providers[j].aws
  <2> SUFFICES ASSUME NEW j \in DOMAIN c.providers
               PROVE  ps[j] \in ProviderEntry /\ ps[j].aws = c.providers[j].aws
    OBVIOUS
  <2>1. c.providers[j] \in ProviderEntry /\ 30 * Length["s"] \in Int
    BY <1>1, WordAssumption
  <2> QED BY <2>1 DEF ProviderEntry
<1>3. ps \in Seq(ProviderEntry) /\ DOMAIN ps = DOMAIN c.providers
  <2>1. DOMAIN c.providers = 1 .. Len(c.providers) /\ Len(c.providers) \in Nat
    BY <1>1
  <2>2. ps \in [1 .. Len(c.providers) -> ProviderEntry]
    BY <1>2, <2>1
  <2> QED BY <2>1, <2>2
<1> HIDE DEF ps
<1>4. WithDefaults(c) = [c EXCEPT !.providers = ps]
  BY DEF WithDefaults, ps
<1>5. WithDefaults(c) \in File /\ WithDefaults(c).providers = ps
  BY <1>3, <1>4 DEF File
<1> QED BY <1>2, <1>3, <1>5

-----------------------------------------------------------------------------
LEMMA LoadInit == Init => IInv
<1> SUFFICES ASSUME Init PROVE IInv
  OBVIOUS
<1> USE DEF Init
<1>1. cfg \in File /\ \A j \in DOMAIN cfg.providers : cfg.providers[j].aws \in Settings
  BY FileAssumption
<1>2. DOMAIN Empty = {}
  BY DEF Empty
<1>3. TypeOK
  BY <1>1, <1>2 DEF TypeOK
<1>4. LoadStands
  BY <1>1 DEF LoadStands
<1> QED BY <1>3, <1>4 DEF IInv, TokensAsWritten, ProvidersAsWritten

LEMMA LoadStep == IInv /\ Aws!IInv /\ [Next]_vars => IInv'
<1> SUFFICES ASSUME IInv, Aws!IInv, [Next]_vars PROVE IInv'
  OBVIOUS
<1> USE DEF signerVars
<1>1. /\ TypeOK /\ LoadStands /\ TokensAsWritten /\ ProvidersAsWritten
      /\ cfg \in File /\ i \in Nat \ {0}
      /\ \A j \in DOMAIN cfg.providers : cfg.providers[j].aws \in Settings
  BY DEF IInv, TypeOK, LoadStands
<1>2. /\ cfg.tokens \in Seq(TokenEntry) /\ cfg.providers \in Seq(ProviderEntry)
      /\ Len(cfg.tokens) \in Nat /\ Len(cfg.providers) \in Nat
      /\ DOMAIN cfg.tokens = 1 .. Len(cfg.tokens)
      /\ DOMAIN cfg.providers = 1 .. Len(cfg.providers)
  BY <1>1 DEF File
<1>3. CASE Parse
  <2>1. /\ pc = "parsing" /\ tokenMap' = tokenMap /\ built' = built /\ groupOf' = groupOf /\ i' = i
        /\ tokenMap = Empty /\ built = Empty /\ groupOf = Empty
    BY <1>1, <1>3 DEF Parse, LoadStands
  <2>2. /\ cfg' \in File /\ \A j \in DOMAIN cfg'.providers : cfg'.providers[j].aws \in Settings
        /\ pc' \in {"tokens", "rejected"} /\ (pc' = "tokens" => Valid(cfg'))
    BY <1>1, <1>3, DefaultsTyped DEF Parse
  <2>3. TypeOK'
    BY <1>1, <2>1, <2>2 DEF TypeOK
  <2>4. pc' = "tokens" => i' <= Len(cfg'.tokens) + 1 /\ TokensSoFar(i - 1)'
    <3>1. i = 1
      BY <1>1, <2>1 DEF LoadStands
    <3>2. cfg'.tokens \in Seq(TokenEntry)
      BY <2>2 DEF File
    <3>3. \A t : Granting(0, t)' = {}
      BY DEF Granting
    <3>4. TokensSoFar(0)'
      BY <2>1, <3>3 DEF TokensSoFar, Empty
    <3>5. (i - 1)' = 0 /\ i' = 1
      BY <2>1, <3>1
    <3> QED BY <3>2, <3>4, <3>5, <2>1
  <2>5. LoadStands'
    BY <2>1, <2>2, <2>4 DEF LoadStands
  <2> QED BY <2>2, <2>3, <2>5 DEF IInv, TokensAsWritten, ProvidersAsWritten
<1>4. CASE AddToken
  <2>1. /\ pc = "tokens" /\ pc' = pc /\ cfg' = cfg /\ built' = built /\ groupOf' = groupOf
        /\ i' = i + 1 /\ i \in 1 .. Len(cfg.tokens)
        /\ tokenMap' = IF Usable(cfg.tokens[i])
                       THEN Put(tokenMap, cfg.tokens[i].token, Info(cfg.tokens[i].rateLimit))
                       ELSE tokenMap
    BY <1>1, <1>2, <1>4 DEF AddToken
  <2>2. TokensSoFar(i - 1) /\ Valid(cfg) /\ built = Empty /\ groupOf = Empty
    BY <1>1, <2>1 DEF LoadStands
  <2>3. cfg.tokens[i].token \in Tokens
    <3>1. cfg.tokens[i] \in TokenEntry /\ cfg.tokens[i].token # None
      BY <1>2, <2>1, <2>2 DEF Valid
    <3> QED BY <3>1 DEF TokenEntry
  <2>4. \A n : n = i => TokensSoFar(n)'
    <3> SUFFICES ASSUME NEW n, n = i PROVE TokensSoFar(n)'
      OBVIOUS
    <3>1. \A t : Granting(n, t)' = Granting(n, t)
      BY <2>1 DEF Granting
    <3>2. /\ DOMAIN tokenMap' = {t \in Tokens : Granting(n, t) # {}}
          /\ \A t \in DOMAIN tokenMap' : \E j \in Granting(n, t) :
               /\ \A k \in Granting(n, t) : k <= j
               /\ AsWritten(tokenMap'[t], cfg.tokens[j].rateLimit)
      BY <1>1, <2>1, <2>2, <2>3, TokensOneMore
    <3> QED BY <2>1, <3>1, <3>2 DEF TokensSoFar
  <2>5. TokensSoFar(i - 1)'
    <3>1. (i - 1)' = i
      BY <1>1, <2>1
    <3> QED BY <2>4, <3>1
  <2>6. TypeOK'
    <3>1. DOMAIN tokenMap' \subseteq Tokens
      BY <2>4 DEF TokensSoFar
    <3> QED BY <1>1, <2>1, <3>1 DEF TypeOK
  <2>7. LoadStands'
    <3>1. Valid(cfg)'
      BY <2>1, <2>2 DEF Valid
    <3> QED BY <1>1, <1>2, <2>1, <2>2, <2>5, <3>1 DEF LoadStands
  <2> QED BY <2>1, <2>6, <2>7 DEF IInv, TokensAsWritten, ProvidersAsWritten
<1>5. CASE TokensDone
  <2>1. /\ pc = "tokens" /\ pc' = "providers" /\ i' = 1 /\ i > Len(cfg.tokens)
        /\ cfg' = cfg /\ tokenMap' = tokenMap /\ built' = built /\ groupOf' = groupOf
    BY <1>5 DEF TokensDone
  <2>2. /\ TokensSoFar(i - 1) /\ i <= Len(cfg.tokens) + 1 /\ Valid(cfg)
        /\ built = Empty /\ groupOf = Empty
    BY <1>1, <2>1 DEF LoadStands
  <2>3. TokensSoFar(Len(cfg.tokens))'
    <3>1. i - 1 = Len(cfg.tokens)
      BY <1>1, <1>2, <2>1, <2>2
    <3>2. \A n : TokensSoFar(n)' = TokensSoFar(n)
      BY <2>1, TokensStay
    <3> QED BY <2>1, <2>2, <3>1, <3>2
  <2>4. ProvidersSoFar(i - 1)'
    <3>1. \A p : Buildable(0, p)' = {}
      BY DEF Buildable
    <3>2. ProvidersSoFar(0)'
      BY <2>1, <2>2, <3>1 DEF ProvidersSoFar, Empty
    <3>3. (i - 1)' = 0
      BY <2>1
    <3> QED BY <3>2, <3>3
  <2>5. TypeOK'
    BY <1>1, <2>1 DEF TypeOK
  <2>6. LoadStands'
    <3>1. Valid(cfg)'
      BY <2>1, <2>2 DEF Valid
    <3> QED BY <1>1, <1>2, <2>1, <2>2, <2>3, <2>4, <3>1 DEF LoadStands
  <2> QED BY <2>1, <2>5, <2>6 DEF IInv, TokensAsWritten, ProvidersAsWritten
<1>6. ASSUME pc \in {"providers", "signer"}, pc' = "providers", i \in 1 .. Len(cfg.providers),
             i' = i + 1,
             cfg' = cfg, tokenMap' = tokenMap, groupOf' = groupOf, env' = env, disk' = disk,
             built' = IF i \in Buildable(i, cfg.providers[i].name)
                      THEN Put(built, cfg.providers[i].name, i) ELSE built
      PROVE  IInv'
  <2>1. /\ TokensSoFar(Len(cfg.tokens)) /\ ProvidersSoFar(i - 1) /\ Valid(cfg)
        /\ groupOf = Empty
    BY <1>1, <1>6 DEF LoadStands
  <2>2. cfg.providers[i].name \in Names
    <3>1. cfg.providers[i] \in ProviderEntry /\ cfg.providers[i].name # None
      BY <1>2, <1>6, <2>1 DEF Valid
    <3> QED BY <3>1 DEF ProviderEntry
  <2>3. \A n : n = i => ProvidersSoFar(n)'
    <3> SUFFICES ASSUME NEW n, n = i PROVE ProvidersSoFar(n)'
      OBVIOUS
    <3>1. \A p : Buildable(n, p)' = Buildable(n, p)
      BY <1>6, BuildableStays
    <3>2. /\ DOMAIN built' = {x \in Names : Buildable(n, x) # {}}
          /\ \A x \in DOMAIN built' :
               built'[x] \in Buildable(n, x) /\ \A k \in Buildable(n, x) : k <= built'[x]
      BY <1>1, <1>6, <2>1, <2>2, ProvidersOneMore
    <3> QED BY <3>1, <3>2 DEF ProvidersSoFar
  <2>4. ProvidersSoFar(i - 1)'
    <3>1. (i - 1)' = i
      BY <1>1, <1>6
    <3> QED BY <2>3, <3>1
  <2>5. TokensSoFar(Len(cfg.tokens))'
    BY <1>6, <2>1, TokensStay
  <2>6. TypeOK'
    <3>1. DOMAIN built' \subseteq Names
      BY <2>3 DEF ProvidersSoFar
    <3> QED BY <1>1, <1>6, <3>1 DEF TypeOK
  <2>7. LoadStands'
    <3>1. Valid(cfg)'
      BY <1>6, <2>1 DEF Valid
    <3> QED BY <1>1, <1>2, <1>6, <2>1, <2>4, <2>5, <3>1 DEF LoadStands
  <2> QED BY <1>6, <2>6, <2>7 DEF IInv, TokensAsWritten, ProvidersAsWritten
<1>7. CASE Build
  <2>1. /\ pc = "providers" /\ i \in 1 .. Len(cfg.providers)
        /\ cfg.providers[i].kind # "aws-sigv4"
        /\ pc' = pc /\ i' = i + 1
        /\ cfg' = cfg /\ tokenMap' = tokenMap /\ groupOf' = groupOf /\ env' = env /\ disk' = disk
        /\ built' = IF Sound(cfg.providers[i]) THEN Put(built, cfg.providers[i].name, i)
                    ELSE built
    BY <1>1, <1>2, <1>7 DEF Build, At
  <2>2. i \in Buildable(i, cfg.providers[i].name) <=> Sound(cfg.providers[i])
    BY <2>1 DEF Buildable
  <2> QED BY <1>6, <2>1, <2>2
<1>8. CASE SkipSigner
  <2>1. /\ pc = "providers" /\ i \in 1 .. Len(cfg.providers) /\ ~ Sound(cfg.providers[i])
        /\ pc' = pc /\ i' = i + 1 /\ built' = built
        /\ cfg' = cfg /\ tokenMap' = tokenMap /\ groupOf' = groupOf /\ env' = env /\ disk' = disk
    BY <1>1, <1>2, <1>8 DEF SkipSigner, At
  <2>2. i \notin Buildable(i, cfg.providers[i].name)
    BY <2>1 DEF Buildable
  <2> QED BY <1>6, <2>1, <2>2
<1>9. ASSUME pc' = "signer", i' = i, cfg' = cfg, tokenMap' = tokenMap, built' = built,
             groupOf' = groupOf, env' = env, disk' = disk,
             pc \in {"providers", "signer"}, i \in 1 .. Len(cfg.providers),
             cfg.providers[i].kind = "aws-sigv4", Sound(cfg.providers[i]),
             setting' = cfg.providers[i].aws
      PROVE  IInv'
  <2>1. /\ TokensSoFar(Len(cfg.tokens)) /\ ProvidersSoFar(i - 1) /\ Valid(cfg)
        /\ groupOf = Empty
    BY <1>1, <1>9 DEF LoadStands
  <2>2. TokensSoFar(Len(cfg.tokens))'
    BY <1>9, <2>1, TokensStay
  <2>3. ProvidersSoFar(i - 1)'
    BY <1>9, <2>1, ProvidersStay
  <2>4. TypeOK'
    BY <1>1, <1>9 DEF TypeOK
  <2>5. LoadStands'
    <3>1. Valid(cfg)' /\ Sound(cfg.providers[i])'
      BY <1>9, <2>1 DEF Valid, Sound
    <3> QED BY <1>1, <1>2, <1>9, <2>1, <2>2, <2>3, <3>1 DEF LoadStands
  <2> QED BY <1>9, <2>4, <2>5 DEF IInv, TokensAsWritten, ProvidersAsWritten
<1>10. CASE NewSigner
  BY <1>1, <1>2, <1>9, <1>10 DEF NewSigner, At, Aws!Begin
<1>11. CASE Resolve
  <2>1. /\ pc = "signer" /\ setting' = setting /\ env' = env /\ disk' = disk
        /\ pc' = pc /\ i' = i /\ cfg' = cfg /\ tokenMap' = tokenMap /\ built' = built
        /\ groupOf' = groupOf
    BY <1>11 DEF Resolve, Aws!Resolve, Aws!FromEnv, Aws!Open, Aws!Header, Aws!Assign,
                 Aws!PassOver, Aws!FileEnds
  <2>2. /\ i \in 1 .. Len(cfg.providers)
        /\ cfg.providers[i].kind = "aws-sigv4" /\ Sound(cfg.providers[i])
        /\ setting = cfg.providers[i].aws
    BY <1>1, <1>2, <2>1 DEF LoadStands
  <2> QED BY <1>9, <2>1, <2>2
<1>12. CASE SignerDone
  <2>1. /\ pc = "signer" /\ step \in {"done", "failed"}
        /\ pc' = "providers" /\ i' = i + 1
        /\ cfg' = cfg /\ tokenMap' = tokenMap /\ groupOf' = groupOf /\ env' = env /\ disk' = disk
        /\ built' = IF step = "done" THEN Put(built, cfg.providers[i].name, i) ELSE built
    BY <1>12 DEF SignerDone
  <2>2. /\ i \in 1 .. Len(cfg.providers) /\ Valid(cfg)
        /\ cfg.providers[i].kind = "aws-sigv4" /\ Sound(cfg.providers[i])
        /\ setting = cfg.providers[i].aws
    BY <1>1, <1>2, <2>1 DEF LoadStands
  <2>3. setting.region # None
    BY <1>2, <2>2 DEF Valid
  <2>4. step = "done" <=> Aws!Available(cfg.providers[i].aws)
    BY <2>1, <2>2, <2>3 DEF Aws!IInv, Aws!OneSource
  <2>5. i \in Buildable(i, cfg.providers[i].name) <=> step = "done"
    BY <2>2, <2>4 DEF Buildable
  <2> QED BY <1>6, <2>1, <2>2, <2>5
<1>13. CASE Store
  <2>1. /\ pc = "providers" /\ i > Len(cfg.providers) /\ pc' = "stored" /\ i' = i
        /\ cfg' = cfg /\ tokenMap' = tokenMap /\ built' = built /\ env' = env /\ disk' = disk
        /\ DOMAIN groupOf' = {q \in Names : Listing(q) # {}}
    BY <1>13 DEF Store
  <2>2. /\ TokensSoFar(Len(cfg.tokens)) /\ ProvidersSoFar(i - 1) /\ Valid(cfg)
        /\ i <= Len(cfg.providers) + 1
    BY <1>1, <2>1 DEF LoadStands
  <2>3. i - 1 = Len(cfg.providers)
    BY <1>1, <1>2, <2>1, <2>2
  <2>4. TokensSoFar(Len(cfg.tokens))'
    BY <2>1, <2>2, TokensStay
  <2>5. ProvidersSoFar(Len(cfg.providers))
    BY <2>2, <2>3
  <2>6. ProvidersSoFar(Len(cfg.providers))'
    BY <2>1, <2>5, ProvidersStay
  <2>7. \A p \in DOMAIN groupOf' :
          p \in DOMAIN built \/ \E j \in DOMAIN cfg.providers :
                                  cfg.providers[j].name = p /\ j \notin Buildable(j, p)
    <3> SUFFICES ASSUME NEW p \in DOMAIN groupOf', p \notin DOMAIN built
                 PROVE  \E j \in DOMAIN cfg.providers :
                          cfg.providers[j].name = p /\ j \notin Buildable(j, p)
      OBVIOUS
    <3>1. p \in Names /\ Listing(p) # {}
      BY <2>1
    <3>2. PICK g \in DOMAIN cfg.groups : \E k \in DOMAIN cfg.groups[g] : cfg.groups[g][k] = p
      BY <3>1 DEF Listing
    <3>3. PICK j \in DOMAIN cfg.providers : cfg.providers[j].name = p
      BY <2>2, <3>2 DEF Valid
    <3>4. Buildable(Len(cfg.providers), p) = {}
      BY <2>5, <3>1 DEF ProvidersSoFar
    <3>5. j \in Buildable(j, p) => j \in Buildable(Len(cfg.providers), p)
      BY <1>2 DEF Buildable
    <3> QED BY <3>3, <3>4, <3>5
  <2>8. TypeOK'
    BY <1>1, <2>1 DEF TypeOK
  <2>9. Valid(cfg)'
    BY <2>1, <2>2 DEF Valid
  <2>10. LoadStands'
    BY <1>1, <2>1, <2>9 DEF LoadStands
  <2>11. TokensAsWritten'
    BY <2>4 DEF TokensAsWritten
  <2>12. ProvidersAsWritten'
    <3>1. \A n, p : Buildable(n, p)' = Buildable(n, p)
      BY <2>1, BuildableStays
    <3> QED BY <2>1, <2>6, <2>7, <3>1 DEF ProvidersAsWritten
  <2> QED BY <2>8, <2>10, <2>11, <2>12 DEF IInv
<1>14. ASSUME pc' = pc, i' = i, cfg' = cfg, tokenMap' = tokenMap, built' = built,
              groupOf' = groupOf, env' = env, disk' = disk, setting' = setting
       PROVE  IInv'
  <2>1. /\ \A n : TokensSoFar(n)' = TokensSoFar(n)
        /\ \A n : ProvidersSoFar(n)' = ProvidersSoFar(n)
        /\ \A n, p : Buildable(n, p)' = Buildable(n, p)
    BY <1>14, TokensStay, ProvidersStay, BuildableStays
  <2>2. TypeOK'
    BY <1>1, <1>14 DEF TypeOK
  <2>3. LoadStands'
    BY <1>1, <1>14, <2>1 DEF LoadStands, Valid, Sound
  <2>4. TokensAsWritten' /\ ProvidersAsWritten'
    BY <1>1, <1>14, <2>1 DEF TokensAsWritten, ProvidersAsWritten
  <2> QED BY <2>2, <2>3, <2>4 DEF IInv
<1>15. CASE Sign
  BY <1>14, <1>15 DEF Sign, Aws!Sign
<1>16. CASE UNCHANGED vars
  BY <1>14, <1>16 DEF vars
<1> QED BY <1>3, <1>4, <1>5, <1>7, <1>8, <1>10, <1>11, <1>12, <1>13, <1>15, <1>16 DEF Next

LEMMA SignerStep == IInv /\ Aws!IInv /\ [Next]_vars => Aws!IInv'
<1> SUFFICES ASSUME IInv, Aws!IInv, [Next]_vars PROVE Aws!IInv'
  OBVIOUS
<1>1. CASE NewSigner
  <2>1. cfg.providers[i].aws \in Settings
    <3>1. i \in DOMAIN cfg.providers
      BY <1>1 DEF IInv, TypeOK, File, NewSigner, At
    <3> QED BY <3>1 DEF IInv, LoadStands
  <2> QED BY <1>1, <2>1, SignerBegins DEF NewSigner
<1>2. CASE Resolve
  BY <1>2, SignerResolves DEF Resolve
<1>3. CASE Sign
  BY <1>3, SignerSigns DEF Sign
<1>4. CASE UNCHANGED signerVars
  BY <1>4, SignerStays
<1> QED BY <1>1, <1>2, <1>3, <1>4 DEF Next, vars, Parse, AddToken, TokensDone, Build,
                                      SkipSigner, SignerDone, Store

-----------------------------------------------------------------------------
(* The loops' invariants hold throughout a load, of whatever file, and     *)
(* those of the signers on the way, whatever requests they sign.           *)
THEOREM Invariance == Spec => [](IInv /\ Aws!IInv)
<1>1. Init => IInv /\ Aws!IInv
  BY LoadInit, SignerInit
<1>2. (IInv /\ Aws!IInv) /\ [Next]_vars => (IInv /\ Aws!IInv)'
  BY LoadStep, SignerStep
<1> QED BY <1>1, <1>2, PTL DEF Spec

(* Every token gets what the last of its entries that can be read says.    *)
THEOREM TokenLimits == Spec => []TokensAsWritten
<1>1. IInv => TokensAsWritten
  BY DEF IInv
<1> QED BY <1>1, Invariance, PTL

(* A provider is missing only when no entry of its name can be built.      *)
THEOREM BuiltProviders == Spec => []ProvidersAsWritten
<1>1. IInv => ProvidersAsWritten
  BY DEF IInv
<1> QED BY <1>1, Invariance, PTL

(* A signer's credentials are those of one source, the first that has any. *)
THEOREM OneSourcePerSigner == Spec => []CredentialsRight
<1>1. Aws!IInv => CredentialsRight
  BY DEF Aws!IInv, CredentialsRight
<1> QED BY <1>1, Invariance, PTL

(* What is signed leaves with the value that was signed, and what leaves   *)
(* is signed but for what the transport itself adds; a request that        *)
(* Rewritten names is sent otherwise than it was signed.                   *)
THEOREM Signatures == Spec => []SignaturesVerify
<1>1. Aws!IInv => SignaturesVerify
  BY DEF Aws!IInv, SignaturesVerify
<1> QED BY <1>1, Invariance, PTL
=============================================================================
