---------------------------- MODULE UsageProofs ----------------------------
(***************************************************************************)
(* Proofs about Usage, for any scripts of any providers, any chunking, any *)
(* table and any number of streams and writers.                            *)
(***************************************************************************)
EXTENDS Usage, TLAPS

USE NameAssumption, ScriptAssumption

(* Of two names of the same length that a model begins with there is one:  *)
(* the longest prefix, and so the price, does not depend on the map's      *)
(* order.                                                                  *)
LEMMA PrefixDetermined ==
  ASSUME NEW m \in Names, NEW j \in Names, NEW k \in Names,
         IsPrefix(j, m), IsPrefix(k, m), Len(j) = Len(k)
  PROVE  j = k
<1>1. j \in Seq(Letters) /\ k \in Seq(Letters) /\ m \in Seq(Letters)
  OBVIOUS
<1>2. SubSeq(j, 1, Len(j)) = j /\ SubSeq(k, 1, Len(k)) = k
  BY <1>1
<1> QED
  BY <1>2 DEF IsPrefix

UsageType == [model : Names, input : Nat, output : Nat, total : Nat]

(* A report is well formed.                                                *)
LEMMA ReportType == ASSUME NEW p, NEW e \in Event PROVE Report(p, e) \in UsageType
<1>1. /\ e.model \in Names /\ e.input \in Nat /\ e.output \in Nat /\ e.total \in Nat
      /\ e.type \in {"start", "delta", "body", "other"} /\ e.usage \in BOOLEAN
  BY DEF Event
<1>2. Zero \in UsageType
  BY DEF Zero, UsageType
<1>3. Whole(e) \in UsageType
  <2>1. (IF e.total = 0 THEN e.input + e.output ELSE e.total) \in Nat
    BY <1>1
  <2> QED
    BY <1>1, <2>1 DEF Whole, UsageType
<1>4. CASE ~ e.usage \/ (p = "anthropic" /\ e.type = "other")
  <2>1. Report(p, e) = Zero
    BY <1>1, <1>4 DEF Report
  <2> QED
    BY <1>2, <2>1
<1>5. CASE e.usage /\ p # "anthropic"
  BY <1>3, <1>5 DEF Report
<1>6. CASE e.usage /\ p = "anthropic" /\ e.type = "body"
  <2>1. Report(p, e) = [model |-> e.model, input |-> e.input, output |-> e.output,
                        total |-> e.input + e.output]
    BY <1>6 DEF Report, Whole
  <2>2. e.input + e.output \in Nat
    BY <1>1
  <2> QED
    BY <1>1, <2>1, <2>2 DEF UsageType
<1>7. CASE e.usage /\ p = "anthropic" /\ e.type \in {"start", "delta"}
  <2>1. Report(p, e) \in {[model |-> e.model, input |-> e.input, output |-> 0, total |-> 0],
                          [model |-> <<>>, input |-> 0, output |-> e.output, total |-> 0]}
    BY <1>7 DEF Report, Zero
  <2> QED
    BY <1>1, <2>1 DEF UsageType
<1> QED
  BY <1>1, <1>4, <1>5, <1>6, <1>7

(* u is the last word of s on the usage before event n.                    *)
WordBy(s, u, n) ==
  \/ u = Zero /\ \A i \in 1 .. n - 1 : Said(s, i) = Zero
  \/ \E i \in 1 .. n - 1 : u = Said(s, i) /\ \A j \in i + 1 .. n - 1 : Said(s, j) = Zero

(* Events that say nothing leave the last word as it is.                   *)
LEMMA LastStands ==
  ASSUME NEW s, NEW u, NEW m \in Nat \ {0}, NEW n \in Nat, m <= n, WordBy(s, u, m),
         \A i \in m .. n - 1 : Said(s, i) = Zero
  PROVE  WordBy(s, u, n)
<1>1. CASE u = Zero /\ \A i \in 1 .. m - 1 : Said(s, i) = Zero
  <2>1. \A i \in 1 .. n - 1 : Said(s, i) = Zero
    BY <1>1
  <2> QED
    BY <1>1, <2>1 DEF WordBy
<1>2. ASSUME NEW i \in 1 .. m - 1, u = Said(s, i), \A j \in i + 1 .. m - 1 : Said(s, j) = Zero
      PROVE  WordBy(s, u, n)
  <2>1. i \in 1 .. n - 1 /\ \A j \in i + 1 .. n - 1 : Said(s, j) = Zero
    BY <1>2
  <2> QED
    BY <1>2, <2>1 DEF WordBy
<1> QED
  BY <1>1, <1>2 DEF WordBy

-----------------------------------------------------------------------------
LEMMA InitInv == Init => IInv
<1> SUFFICES ASSUME Init PROVE IInv
  OBVIOUS
<1>1. TypeOK
  <2>1. Zero \in [model : Names, input : Nat, output : Nat, total : Nat]
    BY DEF Zero
  <2> QED
    BY <2>1 DEF Init, TypeOK, Range
<1>2. WordStands
  <2>1. \A s \in Streams : kept[s] = Zero /\ at[s] = 1 /\ ~ torn[s]
    BY DEF Init
  <2> QED
    BY <2>1 DEF WordStands, WholeEventsCount, LastWord
<1>3. SearchStands
  BY DEF Init, SearchStands
<1> QED
  BY <1>1, <1>2, <1>3 DEF IInv

(* A chunk without a torn event and with one event that has data at most   *)
(* brings the last word up to date.                                        *)
LEMMA ChunkWord ==
  ASSUME TypeOK, WordStands, NEW s \in Streams, NEW n \in at[s] .. Len(Script[s]) + 1,
         NEW tear \in BOOLEAN, Chunk(s, n, tear), ~ split'[s]
  PROVE  WordBy(s, kept'[s], n)
<1> DEFINE m == at[s]
<1>1. m \in Nat \ {0} /\ Len(Script[s]) \in Nat /\ n \in Nat /\ m <= n /\ n - 1 <= Len(Script[s])
  BY DEF TypeOK
<1>2. split'[s] = \/ split[s] \/ tear
                  \/ \E i, j \in Held(s, n) : i # j /\ Script[s][i].data /\ Script[s][j].data
  BY DEF Chunk, TypeOK
<1>3. /\ ~ split[s] /\ ~ torn[s]
      /\ \A i, j \in Held(s, n) : Script[s][i].data /\ Script[s][j].data => i = j
  BY <1>2 DEF WordStands
<1>4. Held(s, n) = m .. n - 1
  BY <1>3 DEF Held
<1>5. WordBy(s, kept[s], m)
  BY <1>3 DEF WordStands, WholeEventsCount, LastWord, WordBy
<1>6. ASSUME NEW i \in m .. n - 1, i \notin Lines(s, n) PROVE Said(s, i) = Zero
  <2>1. i \in 1 .. Len(Script[s]) /\ ~ Script[s][i].data
    BY <1>1, <1>4, <1>6 DEF Lines
  <2> QED
    BY <2>1 DEF Said, Report
<1>7. CASE Lines(s, n) = {} /\ kept' = kept
  BY <1>1, <1>5, <1>6, <1>7, LastStands
<1>8. ASSUME NEW i \in Lines(s, n), Keep(s, Said(s, i)) PROVE WordBy(s, kept'[s], n)
  <2>1. i \in m .. n - 1 /\ \A j \in m .. n - 1 : j # i => Said(s, j) = Zero
    BY <1>3, <1>4, <1>6 DEF Lines
  <2>2. kept'[s] = IF Said(s, i) = Zero THEN kept[s] ELSE Said(s, i)
    BY <1>8 DEF Keep, TypeOK
  <2>3. CASE Said(s, i) = Zero
    <3>1. \A j \in m .. n - 1 : Said(s, j) = Zero
      BY <2>1, <2>3
    <3> QED
      BY <1>1, <1>5, <2>2, <2>3, <3>1, LastStands
  <2>4. CASE Said(s, i) # Zero
    <3>1. i \in 1 .. n - 1
      BY <1>1, <2>1
    <3>2. ASSUME NEW j \in i + 1 .. n - 1 PROVE Said(s, j) = Zero
      <4>1. j \in m .. n - 1 /\ j # i
        BY <1>1, <2>1
      <4> QED
        BY <2>1, <4>1
    <3> QED
      BY <2>2, <2>4, <3>1, <3>2 DEF WordBy
  <2> QED
    BY <2>3, <2>4
<1> QED
  BY <1>7, <1>8 DEF Chunk, Said

LEMMA ChunkInv ==
  ASSUME IInv, NEW s \in Streams, NEW n \in at[s] .. Len(Script[s]) + 1, NEW tear \in BOOLEAN,
         Chunk(s, n, tear)
  PROVE  IInv'
<1> USE DEF IInv
<1>1. kept' \in [Streams -> UsageType]
  <2>1. CASE kept' = kept
    BY <2>1 DEF TypeOK, UsageType
  <2>2. ASSUME NEW i \in Lines(s, n), Keep(s, Report(Provider[s], Script[s][i]))
        PROVE  kept' \in [Streams -> UsageType]
    <3>1. i \in 1 .. Len(Script[s])
      <4>1. at[s] \in Nat \ {0} /\ Len(Script[s]) \in Nat /\ n \in Int
        BY DEF TypeOK
      <4> QED
        BY <2>2, <4>1 DEF Lines, Held
    <3> DEFINE u == Report(Provider[s], Script[s][i])
    <3>2. u \in UsageType
      BY <3>1, ReportType
    <3> HIDE DEF u
    <3>3. kept' = [kept EXCEPT ![s] = IF u = Zero THEN @ ELSE u]
      BY <2>2 DEF Keep, u
    <3>4. kept \in [Streams -> UsageType]
      BY DEF TypeOK, UsageType
    <3> QED
      BY <3>2, <3>3, <3>4
  <2> QED
    BY <2>1, <2>2 DEF Chunk
<1>2. TypeOK'
  <2>1. n \in Nat \ {0}
    BY DEF TypeOK
  <2>2. split' \in [Streams -> BOOLEAN] /\ torn' \in [Streams -> BOOLEAN]
    BY Zenon DEF TypeOK, Chunk
  <2> QED
    BY <1>1, <2>1, <2>2 DEF TypeOK, Chunk, UsageType, lookupVars
<1>3. SearchStands'
  <2>1. pc[s] = "streaming" /\ \A x \in Streams : x # s => kept'[x] = kept[x]
    BY <1>1 DEF Chunk, Keep, TypeOK
  <2>2. UNCHANGED <<pc, todo, best, price, readers, prices>>
    BY DEF Chunk, lookupVars
  <2> QED
    BY <2>1, <2>2 DEF SearchStands, Matches
<1>4. WordStands'
  <2> SUFFICES ASSUME NEW x \in Streams
               PROVE  (~ split'[x] => LastWord(x, kept[x])') /\ (torn'[x] => split'[x])
    BY DEF WordStands, WholeEventsCount
  <2>1. CASE x = s
    <3>1. ~ split'[s] => WordBy(s, kept'[s], n)
      BY ChunkWord
    <3>2. at'[s] = n
      BY DEF Chunk, TypeOK
    <3>3. torn'[s] => split'[s]
      BY Zenon DEF Chunk, TypeOK
    <3> QED
      BY <2>1, <3>1, <3>2, <3>3 DEF WordBy, LastWord
  <2>2. CASE x # s
    <3>1. /\ at'[x] = at[x] /\ kept'[x] = kept[x]
          /\ split'[x] = split[x] /\ torn'[x] = torn[x]
      BY <2>2 DEF Chunk, Keep, TypeOK
    <3> QED
      BY <3>1 DEF WordStands, WholeEventsCount, LastWord
  <2> QED
    BY <2>1, <2>2
<1> QED
  BY <1>1, <1>2, <1>3, <1>4

(* Elsewhere the streams rest.                                             *)
LEMMA WordRests == ASSUME WordStands, UNCHANGED streamVars PROVE WordStands'
BY DEF WordStands, WholeEventsCount, LastWord, streamVars

LEMMA LookupInv ==
  ASSUME IInv, NEW s \in Streams, End(s) \/ Exact(s) \/ Scan(s) \/ Found(s)
  PROVE  IInv'
<1> USE DEF IInv
<1>1. TypeOK'
  <2>1. CASE End(s)
    BY <2>1 DEF End, TypeOK, streamVars
  <2>2. CASE Exact(s)
    <3>1. prices[kept[s].model] \in Range(Defaults)
      BY <2>2 DEF Exact, TypeOK
    <3> QED
      BY <2>2, <3>1 DEF Exact, TypeOK, streamVars
  <2>3. CASE Scan(s)
    BY <2>3 DEF Scan, TypeOK, streamVars
  <2>4. CASE Found(s)
    BY <2>4 DEF Found, Forget, TypeOK, streamVars
  <2> QED
    BY <2>1, <2>2, <2>3, <2>4
<1>2. WordStands'
  BY WordRests DEF End, Exact, Scan, Found
<1>3. SearchStands'
  <2> USE DEF streamVars, TypeOK
  <2>1. CASE End(s)
    BY <2>1 DEF End, SearchStands, Matches
  <2>2. CASE Exact(s)
    BY <2>2 DEF Exact, SearchStands, Matches
  <2>3. CASE Scan(s)
    BY <2>3 DEF Scan, SearchStands, Matches
  <2>4. CASE Found(s)
    BY <2>4 DEF Found, Forget, SearchStands, Matches
  <2> QED
    BY <2>1, <2>2, <2>3, <2>4
<1> QED
  BY <1>1, <1>2, <1>3

(* Whatever name comes next, the longest so far is kept.                   *)
LEMMA VisitInv ==
  ASSUME IInv, NEW s \in Streams, NEW k \in todo[s], Visit(s, k)
  PROVE  IInv'
<1> USE DEF IInv
<1>1. /\ pc[s] = "scanning" /\ k \in DOMAIN prices /\ k \in Names
      /\ prices[k] \in Range(Defaults) /\ best[s] \in Names
      /\ Len(k) \in Nat /\ Len(best[s]) \in Nat
  <2>1. pc[s] = "scanning" /\ k \in DOMAIN prices /\ k \in Names /\ best[s] \in Names
    BY DEF Visit, SearchStands, TypeOK
  <2> QED
    BY <2>1 DEF TypeOK
<1>2. TypeOK'
  BY <1>1 DEF Visit, TypeOK, streamVars
<1>3. WordStands'
  BY WordRests DEF Visit
<1>4. SearchStands'
  <2> DEFINE m == kept[s].model
  <2>1. /\ UNCHANGED <<pc, kept, prices, readers>>
        /\ \A x \in Streams : x # s => best'[x] = best[x] /\ price'[x] = price[x] /\ todo'[x] = todo[x]
        /\ todo'[s] = todo[s] \ {k}
        /\ best'[s] = IF Better(s, k) THEN k ELSE best[s]
        /\ price'[s] = IF Better(s, k) THEN prices[k] ELSE price[s]
    BY DEF Visit, TypeOK, streamVars
  <2>2. Matches(m)' = Matches(m) /\ \A x \in Streams : Matches(kept[x].model)' = Matches(kept[x].model)
    BY <2>1 DEF Matches
  <2>3. ASSUME NEW j \in Matches(m) PROVE Len(j) \in Nat
    BY DEF Matches, TypeOK
  <2>4. Len(<<>>) = 0
    OBVIOUS
  <2>5. CASE Better(s, k)
    <3>1. k \in Matches(m) /\ Len(k) > Len(best[s])
      BY <1>1, <2>4, <2>5 DEF Better, Matches
    <3>2. \A j \in Matches(m) \ todo'[s] : Len(j) <= Len(best'[s])
      BY <1>1, <2>1, <2>3, <2>5, <3>1 DEF SearchStands
    <3>3. best'[s] \in Matches(m) \ todo'[s] /\ price'[s] = prices[best'[s]]
      BY <2>1, <2>5, <3>1
    <3> QED
      BY <1>1, <2>1, <2>2, <3>2, <3>3, SMTT(60) DEF SearchStands
  <2>6. CASE ~ Better(s, k)
    <3>1. k \in Matches(m) => Len(k) <= Len(best[s])
      BY <1>1, <2>6 DEF Better, Matches
    <3>2. \A j \in Matches(m) \ todo'[s] : Len(j) <= Len(best'[s])
      BY <1>1, <2>1, <2>6, <3>1 DEF SearchStands
    <3>3. \/ best'[s] = <<>> /\ price'[s] = NoPrice
          \/ best'[s] \in Matches(m) \ todo'[s] /\ price'[s] = prices[best'[s]]
      BY <1>1, <2>1, <2>6 DEF SearchStands
    <3> QED
      BY <1>1, <2>1, <2>2, <3>2, <3>3 DEF SearchStands
  <2> QED
    BY <2>5, <2>6
<1> QED
  BY <1>2, <1>3, <1>4

LEMMA WriteInv ==
  ASSUME IInv, NEW w \in Writers, Want(w) \/ \E u \in Updates : Set(w, u[1], u[2])
  PROVE  IInv'
<1> USE DEF IInv, streamVars, lookupVars
<1>1. CASE Want(w)
  <2>1. TypeOK'
    BY <1>1 DEF Want, TypeOK
  <2>2. WordStands' /\ SearchStands'
    BY <1>1, WordRests DEF Want, SearchStands, Matches
  <2> QED
    BY <2>1, <2>2
<1>2. ASSUME NEW u \in Updates, Set(w, u[1], u[2]) PROVE IInv'
  <2>1. u[1] \in Names /\ u[2] \in Range(Defaults)
    OBVIOUS
  <2>2. /\ DOMAIN prices' = DOMAIN prices \cup {u[1]}
        /\ \A k \in DOMAIN prices' : prices'[k] = IF k = u[1] THEN u[2] ELSE prices[k]
    BY <1>2 DEF Set
  <2>3. TypeOK'
    BY <1>2, <2>1, <2>2 DEF Set, TypeOK
  <2>4. WordStands'
    BY <1>2, WordRests DEF Set
  <2>5. SearchStands'
    BY <1>2 DEF Set, SearchStands
  <2> QED
    BY <2>3, <2>4, <2>5
<1> QED
  BY <1>1, <1>2

(* IInv is an invariant: the last word on the usage is kept as long as no  *)
(* event is torn or hidden, a search holds the lock and has the longest of *)
(* the names it has seen so far.                                           *)
THEOREM Invariance == Spec => []IInv
<1>1. IInv /\ [Next]_vars => IInv'
  <2>1. IInv /\ UNCHANGED vars => IInv'
    <3> SUFFICES ASSUME IInv, UNCHANGED vars PROVE IInv'
      OBVIOUS
    <3>1. TypeOK'
      BY DEF IInv, TypeOK, vars, streamVars, lookupVars
    <3>2. WordStands' /\ SearchStands'
      BY WordRests DEF IInv, SearchStands, Matches, vars, streamVars, lookupVars
    <3> QED
      BY <3>1, <3>2 DEF IInv
  <2> QED
    BY <2>1, ChunkInv, LookupInv, VisitInv, WriteInv DEF Next
<1> QED
  BY InitInv, <1>1, PTL DEF Spec

(* However the network cuts and joins whole events, as long as no chunk    *)
(* brings two with data, the last word of the stream is kept.              *)
THEOREM LastWordKept == Spec => []WholeEventsCount
<1>1. IInv => WholeEventsCount
  BY DEF IInv, WordStands
<1> QED
  BY Invariance, <1>1, PTL

(* A lookup answers what the table holds at that moment.                   *)
THEOREM AtomicLookup == Spec => LookupIsAtomic
<1>1. IInv /\ [Next]_vars =>
        [\A s \in Streams : pc[s] # "done" /\ pc'[s] = "done" => bill'[s] \in Offers(kept[s].model)]_vars
  <2> SUFFICES ASSUME IInv, [Next]_vars, NEW s \in Streams, pc[s] # "done", pc'[s] = "done"
               PROVE  bill'[s] \in Offers(kept[s].model)
    OBVIOUS
  <2>1. Exact(s) \/ Found(s)
    <3>1. \E x \in Streams : pc' = [pc EXCEPT ![x] = "done"] /\ (Exact(x) \/ Found(x))
      BY DEF IInv, TypeOK, Next, Chunk, End, Exact, Scan, Found, Visit, Want, Set, vars, lookupVars
    <3> QED
      BY <3>1 DEF IInv, TypeOK
  <2>2. CASE Exact(s)
    BY <2>2 DEF Exact, Offers, IInv, TypeOK
  <2>3. CASE Found(s)
    <3> DEFINE m == kept[s].model
    <3>1. /\ m \notin DOMAIN prices /\ todo[s] = {} /\ bill'[s] = price[s]
          /\ \/ best[s] = <<>> /\ price[s] = NoPrice
             \/ best[s] \in Matches(m) /\ price[s] = prices[best[s]]
          /\ \A k \in Matches(m) : Len(k) <= Len(best[s])
      BY <2>3 DEF Found, IInv, SearchStands, TypeOK
    <3>2. CASE best[s] = <<>> /\ price[s] = NoPrice
      <4>1. \A k \in Matches(m) : k \in Seq(Letters) /\ k # <<>>
        BY DEF Matches, IInv, TypeOK
      <4>2. \A k \in Matches(m) : Len(k) > 0
        BY <4>1
      <4>3. Matches(m) = {}
        BY <3>1, <3>2, <4>1, <4>2
      <4> QED
        BY <3>1, <3>2, <4>3 DEF Offers
    <3>3. CASE best[s] \in Matches(m) /\ price[s] = prices[best[s]]
      BY <3>1, <3>3 DEF Offers
    <3> QED
      BY <3>1, <3>2, <3>3
  <2> QED
    BY <2>1, <2>2, <2>3
<1> QED
  BY Invariance, <1>1, PTL DEF Spec, LookupIsAtomic

(* What a lookup answers does not depend on the order in which the map is  *)
(* gone through: the table offers one price for a name.                    *)
THEOREM LookupDetermined ==
  ASSUME TypeOK, NEW m \in Names, NEW p \in Offers(m), NEW q \in Offers(m)
  PROVE  p = q
<1>1. CASE m \in DOMAIN prices \/ Matches(m) = {}
  BY <1>1 DEF Offers
<1>2. CASE m \notin DOMAIN prices /\ Matches(m) # {}
  <2>1. PICK j \in Matches(m), k \in Matches(m) :
          /\ p = prices[j] /\ q = prices[k]
          /\ Len(j) <= Len(k) /\ Len(k) <= Len(j)
    BY <1>2 DEF Offers
  <2>2. /\ j \in Names /\ k \in Names /\ IsPrefix(j, m) /\ IsPrefix(k, m)
        /\ Len(j) \in Nat /\ Len(k) \in Nat
    BY DEF Matches, TypeOK
  <2> QED
    BY <2>1, <2>2, PrefixDetermined
<1> QED
  BY <1>1, <1>2
=============================================================================
