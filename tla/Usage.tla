------------------------------- MODULE Usage -------------------------------
(***************************************************************************)
(* internal/usage: what a response is taken to have used, and its price.   *)
(* A caller feeds the chunks of a streamed response to an extractor, keeps *)
(* the last result that is not zero and looks up its price in a table that *)
(* others may write to.  The caller is external, as nothing in the         *)
(* repository uses the package yet: it does what the comments of Extractor *)
(* ask of it.  So is the network, which cuts a stream into chunks anywhere.*)
(***************************************************************************)
EXTENDS Integers, SequencesExt

CONSTANTS Streams,
          Provider,  \* per stream, "openai", "anthropic" or "gemini"
          Script,    \* per stream, the events its provider sends
          Writers,   \* callers of Set
          Names,     \* model names, as sequences of Letters
          Letters, Defaults, Updates, NoPrice

Event == [data : BOOLEAN, type : {"start", "delta", "body", "other"}, usage : BOOLEAN,
          model : Names, input : Nat, output : Nat, total : Nat]

ASSUME NameAssumption ==
  /\ Names \subseteq Seq(Letters) /\ <<>> \in Names
  /\ DOMAIN Defaults \subseteq Names /\ Updates \subseteq Names \X (Range(Defaults) \ {NoPrice})
  /\ NoPrice \notin Range(Defaults)

(* A line without data says nothing of the usage.                          *)
ASSUME ScriptAssumption ==
  \A s \in Streams : /\ Script[s] \in Seq(Event)
                     /\ \A i \in 1 .. Len(Script[s]) :
                          Script[s][i].usage => Script[s][i].data

VARIABLES at,      \* per stream, the next event to arrive
          torn,    \* it has arrived in part
          kept,    \* the usage kept
          split,   \* history: a chunk tore an event or held several with data
          pc, todo, best, price, \* a caller's way through Lookup
          bill,    \* the price it got
          prices,  \* pt.prices
          readers, \* who holds pt.mu for reading
          waiting  \* who waits to hold it for writing

streamVars == <<at, torn, kept, split>>
lookupVars == <<pc, todo, best, price, bill, readers>>
vars == <<streamVars, lookupVars, prices, waiting>>

Zero == [model |-> <<>>, input |-> 0, output |-> 0, total |-> 0]

Init == /\ at = [s \in Streams |-> 1]
        /\ torn = [s \in Streams |-> FALSE]
        /\ kept = [s \in Streams |-> Zero]
        /\ split = [s \in Streams |-> FALSE]
        /\ pc = [s \in Streams |-> "streaming"]
        /\ todo = [s \in Streams |-> {}]
        /\ best = [s \in Streams |-> <<>>]
        /\ price = [s \in Streams |-> NoPrice]
        /\ bill = [s \in Streams |-> NoPrice]
        /\ prices = Defaults
        /\ readers = {} /\ waiting = {}

-----------------------------------------------------------------------------
(* Extract: the total is the provider's, or the sum.                       *)
Whole(e) == [model |-> e.model, input |-> e.input, output |-> e.output,
             total |-> IF e.total = 0 THEN e.input + e.output ELSE e.total]

(* What an event says of the usage: Anthropic's first one names the model  *)
(* and the input, the last one only the output.                            *)
Report(p, e) ==
  IF ~ e.usage THEN Zero
  ELSE IF p # "anthropic" THEN Whole(e)
  ELSE CASE e.type = "body" -> [Whole(e) EXCEPT !.total = e.input + e.output]
         [] e.type = "start" -> [Zero EXCEPT !.model = e.model, !.input = e.input]
         [] e.type = "delta" -> [Zero EXCEPT !.output = e.output]
         [] e.type = "other" -> Zero

Keep(s, u) == kept' = [kept EXCEPT ![s] = IF u = Zero THEN @ ELSE u]

(* The events that a chunk from here to event n holds whole; the rest of   *)
(* an event torn before it is no data line.                                *)
Held(s, n) == (IF torn[s] THEN at[s] + 1 ELSE at[s]) .. n - 1

(* Of their lines, those with data.                                        *)
Lines_first(s, n) == {i \in Held(s, n) : \A j \in Held(s, n) : i <= j}
Lines(s, n) == {i \in Held(s, n) : Script[s][i].data}

(* A chunk arrives: of its lines with data only the first is read, and one *)
(* that is torn is not JSON.                                               *)
Chunk(s, n, tear) ==
  /\ pc[s] = "streaming"
  /\ n > at[s] \/ (n = at[s] /\ tear /\ ~ torn[s])
  /\ tear => n <= Len(Script[s]) /\ Script[s][n].type # "body"
  /\ at' = [at EXCEPT ![s] = n]
  /\ torn' = [torn EXCEPT ![s] = tear]
  /\ split' = [split EXCEPT ![s] = @ \/ tear \/ \E i, j \in Held(s, n) :
                  i # j /\ Script[s][i].data /\ Script[s][j].data]
  /\ \/ Lines(s, n) = {} /\ UNCHANGED kept
     \/ \E i \in Lines(s, n) : /\ \A j \in Lines(s, n) : i <= j
                               /\ Keep(s, Report(Provider[s], Script[s][i]))
  /\ UNCHANGED <<lookupVars, prices, waiting>>

(* The stream ends, or breaks off.                                         *)
End(s) == /\ pc[s] = "streaming"
          /\ pc' = [pc EXCEPT ![s] = "billing"]
          /\ UNCHANGED <<streamVars, todo, best, price, bill, readers, prices, waiting>>

-----------------------------------------------------------------------------
(* Calculate is Lookup, whose price is then multiplied by the usage.  A    *)
(* read lock is not given while a writer waits.  A name in the table is    *)
(* found at once, under the lock ...                                       *)
Exact(s) == /\ pc[s] = "billing" /\ waiting = {}
            /\ kept[s].model \in DOMAIN prices
            /\ bill' = [bill EXCEPT ![s] = prices[kept[s].model]]
            /\ pc' = [pc EXCEPT ![s] = "done"]
            /\ UNCHANGED <<streamVars, todo, best, price, readers, prices, waiting>>

(* ... else the table is searched, in any order, for a name it begins with.*)
Scan_unlocked(s) ==
  /\ pc[s] = "billing" /\ waiting = {}
  /\ kept[s].model \notin DOMAIN prices
  /\ pc' = [pc EXCEPT ![s] = "scanning"]
  /\ todo' = [todo EXCEPT ![s] = DOMAIN prices]
  /\ UNCHANGED <<streamVars, best, price, bill, readers, prices, waiting>>
Scan(s) == /\ pc[s] = "billing" /\ waiting = {}
           /\ kept[s].model \notin DOMAIN prices
           /\ pc' = [pc EXCEPT ![s] = "scanning"]
           /\ todo' = [todo EXCEPT ![s] = DOMAIN prices]
           /\ readers' = readers \cup {s}
           /\ UNCHANGED <<streamVars, best, price, bill, prices, waiting>>

Better_any(s, k) == IsPrefix(k, kept[s].model) /\ Len(k) > 0
Better(s, k) == IsPrefix(k, kept[s].model) /\ Len(k) > Len(best[s])

Visit(s, k) ==
  /\ pc[s] = "scanning" /\ k \in todo[s]
  /\ todo' = [todo EXCEPT ![s] = @ \ {k}]
  /\ best' = [best EXCEPT ![s] = IF Better(s, k) THEN k ELSE @]
  /\ price' = [price EXCEPT ![s] = IF Better(s, k) THEN prices[k] ELSE @]
  /\ UNCHANGED <<streamVars, pc, bill, readers, prices, waiting>>

(* The search's locals are gone when it returns.                          *)
Forget(s) == /\ best' = [best EXCEPT ![s] = <<>>]
             /\ price' = [price EXCEPT ![s] = NoPrice]

Found_keepsLock(s) ==
  /\ pc[s] = "scanning" /\ todo[s] = {}
  /\ bill' = [bill EXCEPT ![s] = price[s]]
  /\ pc' = [pc EXCEPT ![s] = "done"]
  /\ readers' = IF best[s] = <<>> THEN readers ELSE readers \ {s}
  /\ Forget(s)
  /\ UNCHANGED <<streamVars, todo, prices, waiting>>
Found(s) == /\ pc[s] = "scanning" /\ todo[s] = {}
            /\ bill' = [bill EXCEPT ![s] = price[s]]
            /\ pc' = [pc EXCEPT ![s] = "done"]
            /\ readers' = readers \ {s}
            /\ Forget(s)
            /\ UNCHANGED <<streamVars, todo, prices, waiting>>

(* Set: it comes to the lock, and has it once the readers are gone.        *)
Want(w) == /\ w \notin waiting
           /\ waiting' = waiting \cup {w}
           /\ UNCHANGED <<streamVars, lookupVars, prices>>

Set(w, k, p) == /\ w \in waiting /\ readers = {}
                /\ waiting' = waiting \ {w}
                /\ prices' = [x \in DOMAIN prices \cup {k} |-> IF x = k THEN p ELSE prices[x]]
                /\ UNCHANGED <<streamVars, lookupVars>>

Next == \/ \E s \in Streams :
             \/ \E n \in at[s] .. Len(Script[s]) + 1, tear \in BOOLEAN : Chunk(s, n, tear)
             \/ End(s) \/ Exact(s) \/ Scan(s) \/ Found(s)
             \/ \E k \in todo[s] : Visit(s, k)
        \/ \E w \in Writers : Want(w) \/ \E u \in Updates : Set(w, u[1], u[2])

Spec == Init /\ [][Next]_vars

(* Callers go on; sync.RWMutex lets in those who wait in the end: writers  *)
(* once the readers before them are gone, readers between two writers.     *)
Fairness == /\ \A s \in Streams : /\ WF_vars(Found(s) \/ \E k \in todo[s] : Visit(s, k))
                                  /\ SF_vars(Exact(s) \/ Scan(s))
            /\ \A w \in Writers : WF_vars(\E u \in Updates : Set(w, u[1], u[2]))

FairSpec == Spec /\ Fairness

-----------------------------------------------------------------------------
(* Every variable has its type.                                            *)
TypeOK ==
  /\ at \in [Streams -> Nat \ {0}]
  /\ torn \in [Streams -> BOOLEAN] /\ split \in [Streams -> BOOLEAN]
  /\ kept \in [Streams -> [model : Names, input : Nat, output : Nat, total : Nat]]
  /\ pc \in [Streams -> {"streaming", "billing", "scanning", "done"}]
  /\ best \in [Streams -> Names]
  /\ todo \in [Streams -> SUBSET Names]
  /\ price \in [Streams -> Range(Defaults) \cup {NoPrice}]
  /\ bill \in [Streams -> Range(Defaults) \cup {NoPrice}]
  /\ DOMAIN prices \in SUBSET Names
  /\ \A k \in DOMAIN prices : prices[k] \in Range(Defaults)
  /\ readers \in SUBSET Streams /\ waiting \in SUBSET Writers

Said(s, i) == Report(Provider[s], Script[s][i])

(* Of the events before the next one, this is the last word on the usage.  *)
LastWord(s, u) ==
  \/ u = Zero /\ \A i \in 1 .. at[s] - 1 : Said(s, i) = Zero
  \/ \E i \in 1 .. at[s] - 1 :
       u = Said(s, i) /\ \A j \in i + 1 .. at[s] - 1 : Said(s, j) = Zero

(* As long as no chunk tears an event or brings several with data, "the    *)
(* last non-zero result wins": the usage kept is what the last event that  *)
(* has any says, whatever comments and [DONE]s come before or after it in  *)
(* its chunk (usage.go:18-20, sse.go:7-21).                                *)
WholeEventsCount == \A s \in Streams : ~ split[s] => LastWord(s, kept[s])

(* The names in the table that m begins with; the empty one does not count.*)
Matches(m) == {k \in DOMAIN prices : k # <<>> /\ IsPrefix(k, m)}

(* What the table as it is now has for m.                                  *)
Offers(m) == IF m \in DOMAIN prices THEN {prices[m]}
             ELSE IF Matches(m) = {} THEN {NoPrice}
             ELSE {prices[k] : k \in {k \in Matches(m) : \A j \in Matches(m) : Len(j) <= Len(k)}}

(* A lookup answers what the table has for the name at that moment, the    *)
(* name itself before its longest prefix, in whatever order the map is     *)
(* gone through and whoever writes meanwhile (pricing.go:51-77).           *)
LookupIsAtomic ==
  [][\A s \in Streams : pc[s] # "done" /\ pc'[s] = "done" => bill'[s] \in Offers(kept[s].model)]_vars

(* Everyone who comes to the table's lock gets it: lookups that find       *)
(* nothing give it back as well (pricing.go:52-53, :78-80).                *)
LockServesAll == /\ \A s \in Streams : pc[s] = "billing" ~> pc[s] = "done"
                 /\ \A w \in Writers : w \in waiting ~> w \notin waiting

-----------------------------------------------------------------------------
(* A search holds the lock, and has the longest of the names it has seen.  *)
SearchStands ==
  \A s \in Streams :
    /\ pc[s] = "scanning" <=> s \in readers
    /\ pc[s] = "scanning" =>
         /\ kept[s].model \notin DOMAIN prices /\ todo[s] \subseteq DOMAIN prices
         /\ \/ best[s] = <<>> /\ price[s] = NoPrice
            \/ /\ best[s] \in Matches(kept[s].model) \ todo[s]
               /\ price[s] = prices[best[s]]
         /\ \A k \in Matches(kept[s].model) \ todo[s] : Len(k) <= Len(best[s])
    /\ pc[s] # "scanning" => best[s] = <<>> /\ price[s] = NoPrice

(* A torn event is remembered, and the last word stands.                   *)
WordStands == WholeEventsCount /\ \A s \in Streams : torn[s] => split[s]

IInv == TypeOK /\ WordStands /\ SearchStands
=============================================================================
