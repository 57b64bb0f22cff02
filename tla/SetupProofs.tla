------------------------------ MODULE SetupProofs ------------------------------
(* The proofs about Setup, for every number of domains.  The inductive        *)
(* invariant SInv says how far the domain that holds init_mutex is, what each *)
(* hook is made of, how many domains are in a minor collection, and what the  *)
(* collection under way has left to scan.                                     *)
EXTENDS Setup, TLAPS, FiniteSetTheorems

-----------------------------------------------------------------------------
(* The inductive invariant.                                                *)

Installing == {"exchange", "record", "run"}
WithMutex == {"test", "unlock"} \cup Installing

\* The mutex, and what a domain knows at each place.
Mutex ==
  /\ \A d \in Domains : at[d] \in WithMutex <=> init_mutex = d
  /\ \A d \in Domains : at[d] \in Installing => status = "NOT_SETUP"
  /\ \A d \in Domains : at[d] \in {"unlock", "create"} => status = "RUNNING"
  /\ \A d \in Domains : at[d] \notin {"exchange", "record"} => nth[d] = 1
  /\ pools # {} \/ holds # {} => status = "RUNNING"

\* Domains are in the library, or in the collection, or nowhere.
Places ==
  /\ \A d \in Domains : at[d] \in Creating => d \in running \ leaving /\ gc = "none"
  /\ gc # "none" => \A d \in running : at[d] \in Collecting
  /\ \A d \in Domains : at[d] \in Collecting => d \in running /\ gc # "none"
  /\ \A d \in Domains : at[d] \in {"mark", "done"} =>
       gc = "major" /\ \A e \in running : at[e] \in {"mark", "done"}

\* The hook k has been exchanged.
Exchanged(k) ==
  \/ status = "RUNNING"
  \/ \E d \in Domains :
       \/ at[d] = "run"
       \/ /\ at[d] \in {"exchange", "record"}
          /\ \E i \in 1 .. nth[d] : Hooks[i] = k /\ (i = nth[d] => at[d] = "record")

Is(k, h, p, o) == hook[k] = h /\ prev[k] = p /\ other[k] = o

\* In front is boxroot, the other library, or none; the one behind, if any, is
\* known, save by boxroot while it is recording.
HookShapes ==
  \A k \in HookNames :
    /\ ~ Exchanged(k) => Is(k, NULL, NULL, "absent") \/ Is(k, "other", NULL, NULL)
    /\ Exchanged(k) => \/ Is(k, "bxr", NULL, "absent") \/ Is(k, "other", NULL, "bxr")
                       \/ Is(k, "bxr", "other", NULL) \/ Is(k, "bxr", NULL, NULL)
    /\ Is(k, "bxr", NULL, NULL) <=>
         \E d \in Domains : at[d] = "record" /\ Hooks[nth[d]] = k /\ old[d] = "other"
    /\ \A d \in Domains : at[d] = "record" /\ Hooks[nth[d]] = k =>
         prev[k] = NULL /\ old[d] \in {NULL, "other"}

Callbacks ==
  /\ status = "RUNNING" => {"scan", "terminated"} \subseteq callback
  /\ \A d \in Domains :
       /\ at[d] \in Installing => "scan" \in callback
       /\ at[d] = "run" \/ (at[d] \in {"exchange", "record"} /\ nth[d] = 4) =>
            "terminated" \in callback

\* The domains between their two hooks of a minor collection.
InMinor == {d \in Domains : at[d] \in {"scan", "end"}}
Counter ==
  in_minor_collection = IF status = "RUNNING" THEN Cardinality(InMinor) ELSE 0

\* Where a domain is before it scans for the kind of the collection.
ToScan == {"begin", "scan"} \cup (IF gc = "major" THEN {"end", "barrier", "mark"} ELSE {})

\* Roots are in rings that some domain has scanned or will scan.
Reached ==
  /\ holds \subseteq pools \cup {Orphan}
  /\ LeavesAtOnce =>
       /\ gc # "none" => leaving = {}
       /\ holds \subseteq (running \ leaving) \cup {Orphan}
       /\ gc # "none" =>
            /\ \A d \in holds \ {Orphan} : at[d] \in ToScan \/ d \in scanned
            /\ Orphan \in holds =>
                 \/ running \cap pools = {}
                 \/ \E d \in running \cap pools : at[d] \in ToScan

SInv == TypeOK /\ Mutex /\ Places /\ HookShapes /\ Callbacks /\ Counter /\ Reached

-----------------------------------------------------------------------------
(* The chain of a hook.                                                    *)

\* Chain(k) is the function it is defined to be.
LEMMA ChainIs ==
  ASSUME NEW k
  PROVE  /\ Chain(k)[0] = hook[k]
         /\ \A n \in {1, 2} : Chain(k)[n] =
              CASE Chain(k)[n - 1] = "bxr" -> prev[k]
                [] Chain(k)[n - 1] = "other" -> other[k]
                [] OTHER -> NULL
<1> DEFINE F(c) == [n \in 0 .. 2 |->
                      IF n = 0 THEN hook[k]
                      ELSE CASE c[n - 1] = "bxr" -> prev[k]
                             [] c[n - 1] = "other" -> other[k]
                             [] OTHER -> NULL]
           Behind(x) == CASE x = "bxr" -> prev[k] [] x = "other" -> other[k] [] OTHER -> NULL
           g == [n \in 0 .. 2 |-> IF n = 0 THEN hook[k]
                                 ELSE IF n = 1 THEN Behind(hook[k])
                                 ELSE Behind(Behind(hook[k]))]
<1>1. g = F(g)
  OBVIOUS
<1>2. Chain(k) = CHOOSE c : c = F(c)
  BY DEF Chain
<1>3. Chain(k) = F(Chain(k))
  <2> HIDE DEF F, g
  <2> QED BY <1>1, <1>2, Zenon
<1> QED BY <1>3

LEMMA ChainOf ==
  ASSUME NEW k
  PROVE  /\ Is(k, NULL, NULL, "absent") =>
              Chain(k)[0] = NULL /\ Chain(k)[1] = NULL /\ Chain(k)[2] = NULL
         /\ Is(k, "other", NULL, NULL) =>
              Chain(k)[0] = "other" /\ Chain(k)[1] = NULL /\ Chain(k)[2] = NULL
         /\ Is(k, "bxr", NULL, "absent") \/ Is(k, "bxr", NULL, NULL) =>
              Chain(k)[0] = "bxr" /\ Chain(k)[1] = NULL /\ Chain(k)[2] = NULL
         /\ Is(k, "other", NULL, "bxr") =>
              Chain(k)[0] = "other" /\ Chain(k)[1] = "bxr" /\ Chain(k)[2] = NULL
         /\ Is(k, "bxr", "other", NULL) =>
              Chain(k)[0] = "bxr" /\ Chain(k)[1] = "other" /\ Chain(k)[2] = NULL
BY ChainIs, NullAssumption DEF Is

\* A hook is called once it is exchanged, the other one unless boxroot is
\* between its exchange and its record, and the chain ends.
LEMMA WhatIsCalled ==
  ASSUME HookShapes, NEW k \in HookNames
  PROVE  /\ Chain(k)[2] = NULL
         /\ Calls(k, "bxr") <=> Exchanged(k)
         /\ other[k] # "absent" /\ ~ Recording(k) => Calls(k, "other")
<1>1. \A library : Calls(k, library) <=>
        Chain(k)[0] = library \/ Chain(k)[1] = library \/ Chain(k)[2] = library
  BY DEF Calls
<1>2. CASE ~ Exchanged(k)
  <2>1. Is(k, NULL, NULL, "absent") \/ Is(k, "other", NULL, NULL)
    BY <1>2 DEF HookShapes
  <2> QED BY <1>1, <1>2, <2>1, ChainOf, NullAssumption DEF Is
<1>3. CASE Exchanged(k)
  <2>1. \/ Is(k, "bxr", NULL, "absent") \/ Is(k, "other", NULL, "bxr")
        \/ Is(k, "bxr", "other", NULL) \/ Is(k, "bxr", NULL, NULL)
    BY <1>3 DEF HookShapes
  <2>2. Is(k, "bxr", NULL, NULL) => Recording(k)
    BY DEF HookShapes, Recording
  <2> QED BY <1>1, <1>3, <2>1, <2>2, ChainOf, NullAssumption DEF Is
<1> QED BY <1>2, <1>3

-----------------------------------------------------------------------------
(* The properties follow from the invariant.                               *)

LEMMA ChainedFromInv == ASSUME SInv, QuietInstall PROVE HooksAreChained
<1>1. \A k \in HookNames : status = "RUNNING" => Exchanged(k)
  BY DEF Exchanged
<1>2. gc # "none" => \A d \in Domains : at[d] # "record"
  BY DEF SInv, Places, Creating
<1>3. \A k \in HookNames : MayBeCalled(k) => ~ Recording(k)
  BY <1>2 DEF MayBeCalled, Recording
<1> QED BY <1>1, <1>3, WhatIsCalled DEF HooksAreChained, SInv

LEMMA ReadyFromInv == ASSUME SInv PROVE HooksAreReady
<1>1. Calls("scan", "bxr") => "scan" \in callback
  <2>1. Exchanged("scan") => status = "RUNNING" \/ \E d \in Domains : at[d] \in Installing
    BY DEF Exchanged, Installing
  <2> QED BY <2>1, WhatIsCalled DEF SInv, Callbacks, HookNames
<1>2. Calls("terminated", "bxr") => "terminated" \in callback
  <2>1. ASSUME Exchanged("terminated"), status # "RUNNING"
        PROVE  \E d \in Domains :
                 at[d] = "run" \/ (at[d] \in {"exchange", "record"} /\ nth[d] = 4)
    BY <2>1 DEF Exchanged, Hooks, SInv, TypeOK
  <2> QED BY <2>1, WhatIsCalled DEF SInv, Callbacks, HookNames
<1>3. holds # {} => \A k \in HookNames : Calls(k, "bxr")
  BY WhatIsCalled DEF SInv, Mutex, Exchanged
<1> QED BY <1>1, <1>2, <1>3 DEF HooksAreReady

LEMMA KindFromInv == ASSUME SInv PROVE KindIsRight
<1>1. IsFiniteSet(InMinor)
  BY DomainAssumption, FS_Subset DEF InMinor
<1>2. ASSUME NEW d \in Domains, at[d] \in {"scan", "end"}, Enters(d)
      PROVE  bxr_in_minor_collection
  <2>1. d \in InMinor
    BY <1>2 DEF InMinor
  <2>2. Cardinality(InMinor) # 0
    BY <1>1, <2>1, FS_EmptySet
  <2> QED BY <1>2, <2>2 DEF SInv, Counter, Enters, bxr_in_minor_collection
<1>3. ASSUME NEW d \in Domains, at[d] = "mark"
      PROVE  ~ bxr_in_minor_collection
  <2>1. InMinor = {}
    BY <1>3 DEF InMinor, SInv, Places, Collecting, Creating
  <2> QED BY <2>1, FS_EmptySet DEF SInv, Counter, bxr_in_minor_collection
<1> QED BY <1>2, <1>3 DEF KindIsRight

LEMMA ReachedFromInv == ASSUME SInv, LeavesAtOnce PROVE RootsAreReached
<1>1. holds \subseteq running \cup {Orphan}
  BY DEF SInv, Reached
<1>2. ASSUME gc # "none", Finished, NEW r \in holds
      PROVE  r \in scanned \/ (r = Orphan /\ running \cap pools = {})
  <2>1. \A d \in running : at[d] \notin ToScan
    BY <1>2 DEF Finished, ToScan, SInv, TypeOK
  <2> QED BY <1>1, <1>2, <2>1 DEF SInv, Reached
<1> QED BY <1>1, <1>2 DEF RootsAreReached


-----------------------------------------------------------------------------
(* The invariant is inductive: what a step leaves alone.                   *)

\* A step that changes no hook, and moves no domain that installs them.
LEMMA HooksStay ==
  ASSUME HookShapes, Callbacks, UNCHANGED <<status, hooks>>,
         \A d \in Domains :
           at[d] \in Installing \/ at'[d] \in Installing => at'[d] = at[d]
  PROVE  HookShapes' /\ Callbacks'
<1>1. \A k : Exchanged(k)' <=> Exchanged(k)
  BY DEF Exchanged, Installing, hooks
<1>2. HookShapes'
  BY <1>1 DEF HookShapes, Is, Installing, hooks
<1>3. Callbacks'
  BY DEF Callbacks, Installing, hooks
<1> QED BY <1>2, <1>3

\* A step that moves no domain to or from its part of a minor collection.
LEMMA CounterStays ==
  ASSUME Counter, UNCHANGED <<status, in_minor_collection>>,
         \A d \in Domains : at'[d] \in {"scan", "end"} <=> at[d] \in {"scan", "end"}
  PROVE  Counter'
<1>1. InMinor' = InMinor
  BY DEF InMinor
<1> QED BY <1>1 DEF Counter

\* No domain is in its part of a minor collection outside of collections.
LEMMA CounterOutside ==
  ASSUME SInv, gc = "none"
  PROVE  in_minor_collection = 0 /\ InMinor = {}
<1>1. InMinor = {}
  BY DEF InMinor, SInv, Places, Collecting
<1> QED BY <1>1, FS_EmptySet DEF SInv, Counter

\* A step of the library on one domain, outside of collections.
LEMMA CallStep ==
  ASSUME SInv, NEW d \in Domains, NEW l \in {"idle"} \cup Creating,
         d \in running \ leaving, gc = "none", at[d] \in {"idle"} \cup Creating,
         Goto(d, l), UNCHANGED runtime
  PROVE  Places'
BY DEF Goto, SInv, TypeOK, Places, Creating, Collecting, runtime

\* The same, and the hooks do not change.
LEMMA CallKeepsHooks ==
  ASSUME SInv, NEW d \in Domains, NEW l \in ({"idle"} \cup Creating) \ Installing,
         d \in running \ leaving, gc = "none",
         at[d] \in ({"idle"} \cup Creating) \ Installing,
         Goto(d, l), UNCHANGED <<status, hooks, in_minor_collection, runtime, scanned>>,
         init_mutex' \in Domains \cup {NULL}, Mutex', Reached',
         pools' \subseteq Domains, holds' \subseteq Domains \cup {Orphan}
  PROVE  SInv'
<1>1. /\ at' \in [Domains -> {"idle"} \cup Creating \cup Collecting]
      /\ at'[d] = l /\ \A e \in Domains \ {d} : at'[e] = at[e]
      /\ \A e \in Domains : at'[e] \in {"scan", "end"} <=> at[e] \in {"scan", "end"}
  BY DEF SInv, TypeOK, Goto, Creating
<1>2. Places'
  BY CallStep
<1>3. HookShapes' /\ Callbacks'
  BY <1>1, HooksStay DEF SInv
<1>4. Counter'
  BY <1>1, CounterStays DEF SInv
<1>5. TypeOK'
  BY <1>1 DEF SInv, TypeOK, hooks, runtime
<1> QED BY <1>2, <1>3, <1>4, <1>5 DEF SInv

LEMMA CreateSlowStep ==
  ASSUME SInv, NEW d \in Domains, bxr_create_slow(d)
  PROVE  SInv'
<1> DEFINE l == IF status = "RUNNING" THEN "create" ELSE "lock"
<1>1. /\ d \in running \ leaving /\ gc = "none" /\ at[d] = "idle" /\ Goto(d, l)
      /\ UNCHANGED <<status, init_mutex, hooks, in_minor_collection, pools, holds, runtime, scanned>>
  BY DEF bxr_create_slow, CanCall
<1>2. Mutex'
  BY <1>1 DEF SInv, TypeOK, Mutex, Goto, WithMutex, Installing, hooks
<1>3. Reached'
  BY <1>1 DEF SInv, Reached, runtime
<1> QED BY <1>1, <1>2, <1>3, CallKeepsHooks DEF Creating, Installing, SInv, TypeOK

LEMMA LockInitStep ==
  ASSUME SInv, NEW d \in Domains, LockInit(d)
  PROVE  SInv'
<1>1. /\ at[d] = "lock" /\ init_mutex = NULL /\ init_mutex' = d /\ Goto(d, "test")
      /\ UNCHANGED <<status, hooks, in_minor_collection, pools, holds, runtime, scanned>>
      /\ d \in running \ leaving /\ gc = "none"
  BY DEF LockInit, SInv, Places, Creating
<1>2. Mutex'
  BY <1>1, DomainAssumption DEF SInv, TypeOK, Mutex, Goto, WithMutex, Installing, hooks
<1>3. Reached'
  BY <1>1 DEF SInv, Reached, runtime
<1> QED BY <1>1, <1>2, <1>3, CallKeepsHooks DEF Creating, Installing, SInv, TypeOK

LEMMA UnlockInitStep ==
  ASSUME SInv, NEW d \in Domains, UnlockInit(d)
  PROVE  SInv'
<1>1. /\ at[d] = "unlock" /\ init_mutex' = NULL /\ Goto(d, "create")
      /\ UNCHANGED <<status, hooks, in_minor_collection, pools, holds, runtime, scanned>>
      /\ d \in running \ leaving /\ gc = "none"
  BY DEF UnlockInit, SInv, Places, Creating
<1>2. Mutex'
  BY <1>1, DomainAssumption DEF SInv, TypeOK, Mutex, Goto, WithMutex, Installing, hooks
<1>3. Reached'
  BY <1>1 DEF SInv, Reached, runtime
<1> QED BY <1>1, <1>2, <1>3, CallKeepsHooks DEF Creating, Installing, SInv, TypeOK

LEMMA CreateRootStep ==
  ASSUME SInv, NEW d \in Domains, CreateRoot(d)
  PROVE  SInv'
<1>1. /\ at[d] = "create" /\ Goto(d, "idle")
      /\ UNCHANGED <<status, init_mutex, hooks, in_minor_collection, runtime, scanned>>
      /\ pools' \in {pools, pools \cup {d}} /\ holds' \in {holds, holds \cup {d}}
      /\ d \in holds' => d \in pools' \/ d \in holds
      /\ d \in running \ leaving /\ gc = "none" /\ status = "RUNNING"
  BY DEF CreateRoot, SInv, Places, Mutex, Creating
<1>2. Mutex'
  BY <1>1 DEF SInv, TypeOK, Mutex, Goto, WithMutex, Installing, hooks
<1>3. Reached'
  BY <1>1 DEF SInv, Reached, runtime
<1> QED BY <1>1, <1>2, <1>3, CallKeepsHooks DEF Creating, Installing, SInv, TypeOK


-----------------------------------------------------------------------------
(* The steps that install the hooks.                                       *)

\* As long as no domain installs the hooks, none is exchanged.
LEMMA NoneExchanged ==
  ASSUME NEW k, status # "RUNNING", \A d \in Domains : at[d] \notin Installing
  PROVE  ~ Exchanged(k)
BY DEF Exchanged, Installing

\* While domain d installs them: those before the current one, and the current
\* one when it is recording.
LEMMA WhichExchanged ==
  ASSUME SInv, NEW d \in Domains, at[d] \in {"exchange", "record"}, NEW k
  PROVE  Exchanged(k) <=>
           \E i \in 1 .. nth[d] : Hooks[i] = k /\ (i = nth[d] => at[d] = "record")
<1>1. status # "RUNNING" /\ \A e \in Domains \ {d} : at[e] \notin Installing
  BY DEF SInv, Mutex, WithMutex, Installing
<1>2. at[d] # "run"
  OBVIOUS
<1> QED BY <1>1, <1>2 DEF Exchanged, Installing

LEMMA SetupStep ==
  ASSUME SInv, NEW d \in Domains, setup(d)
  PROVE  SInv'
<1>1. /\ at[d] = "test" /\ d \in running \ leaving /\ gc = "none"
      /\ UNCHANGED <<status, init_mutex, nth, old, hook, prev, other, in_minor_collection, pools,
                     holds, runtime, scanned>>
      /\ nth[d] = 1 /\ init_mutex = d
  BY DEF setup, SetupUnless, SInv, Places, Creating, Mutex, WithMutex
<1>2. CASE status # "NOT_SETUP"
  <2>1. Goto(d, "unlock") /\ UNCHANGED callback /\ status = "RUNNING"
    BY <1>2 DEF setup, SetupUnless, SInv, TypeOK
  <2>2. Mutex'
    BY <1>1, <2>1 DEF SInv, TypeOK, Mutex, Goto, WithMutex, Installing
  <2>3. Reached'
    BY <1>1, <2>1 DEF SInv, Reached, runtime
  <2> QED
    BY <1>1, <2>1, <2>2, <2>3, CallKeepsHooks DEF Creating, Installing, SInv, TypeOK, hooks
<1>3. CASE status = "NOT_SETUP"
  <2>1. Goto(d, "exchange") /\ callback' = callback \cup {"scan"}
    BY <1>3 DEF setup, SetupUnless
  <2>2. /\ at' \in [Domains -> {"idle"} \cup Creating \cup Collecting]
        /\ at'[d] = "exchange" /\ \A e \in Domains \ {d} : at'[e] = at[e]
        /\ \A e \in Domains : at[e] \notin Installing
    BY <1>1, <2>1 DEF SInv, TypeOK, Goto, Creating, Mutex, WithMutex, Installing
  <2>3. Places'
    BY <1>1, <2>1, CallStep DEF Creating
  <2>4. Mutex'
    BY <1>1, <1>3, <2>2 DEF SInv, Mutex, WithMutex, Installing
  <2>5. \A k : ~ Exchanged(k) /\ ~ Exchanged(k)'
    <3>1. \A k : ~ Exchanged(k)
      BY <1>3, <2>2, NoneExchanged
    <3>2. \A k : ~ Exchanged(k)'
      BY <1>1, <1>3, <2>2 DEF Exchanged, Installing
    <3> QED BY <3>1, <3>2
  <2>6. HookShapes'
    BY <1>1, <2>2, <2>5 DEF SInv, HookShapes, Is, Installing
  <2>7. Callbacks'
    BY <1>1, <1>3, <2>1, <2>2 DEF SInv, Callbacks, Installing
  <2>8. Counter'
    BY <1>1, <2>2, CounterStays DEF SInv
  <2>9. Reached'
    BY <1>1 DEF SInv, Reached, runtime
  <2>10. TypeOK'
    BY <1>1, <2>1, <2>2 DEF SInv, TypeOK, runtime
  <2> QED BY <2>3, <2>4, <2>6, <2>7, <2>8, <2>9, <2>10 DEF SInv
<1> QED BY <1>2, <1>3

LEMMA SetRunningStep ==
  ASSUME SInv, NEW d \in Domains, SetRunning(d)
  PROVE  SInv'
<1>1. /\ at[d] = "run" /\ status' = "RUNNING" /\ Goto(d, "unlock")
      /\ UNCHANGED <<init_mutex, hooks, in_minor_collection, pools, holds, runtime, scanned>>
      /\ d \in running \ leaving /\ gc = "none" /\ init_mutex = d
  BY DEF SetRunning, SInv, Places, Creating, Mutex, WithMutex, Installing
<1>2. /\ at' \in [Domains -> {"idle"} \cup Creating \cup Collecting]
      /\ at'[d] = "unlock" /\ \A e \in Domains \ {d} : at'[e] = at[e] /\ at[e] \notin Installing
  BY <1>1 DEF SInv, TypeOK, Goto, Creating, Mutex, WithMutex, Installing
<1>3. Places'
  BY <1>1, CallStep DEF Creating
<1>4. Mutex'
  BY <1>1, <1>2 DEF SInv, Mutex, WithMutex, Installing, hooks
<1>5. \A k : Exchanged(k) /\ Exchanged(k)'
  BY <1>1 DEF Exchanged
<1>6. HookShapes'
  BY <1>1, <1>2, <1>5 DEF SInv, HookShapes, Is, Installing, hooks
<1>7. Callbacks'
  BY <1>1, <1>2 DEF SInv, Callbacks, Installing, hooks
<1>8. Counter'
  <2>1. InMinor' = InMinor
    BY <1>1, <1>2 DEF InMinor
  <2> QED BY <1>1, <2>1, CounterOutside, FS_EmptySet DEF Counter
<1>9. Reached'
  BY <1>1 DEF SInv, Reached, runtime
<1>10. TypeOK'
  BY <1>1, <1>2 DEF SInv, TypeOK, runtime, hooks
<1> QED BY <1>3, <1>4, <1>6, <1>7, <1>8, <1>9, <1>10 DEF SInv


LEMMA ExchangeStep ==
  ASSUME SInv, NEW d \in Domains, bxr_setup_hooks(d), at[d] = "exchange"
  PROVE  SInv'
<1>0. PICK k0 \in HookNames : k0 = Hooks[nth[d]]
  BY DEF SInv, TypeOK, Hooks, HookNames
<1>1. /\ old' = [old EXCEPT ![d] = hook[k0]] /\ hook' = [hook EXCEPT ![k0] = "bxr"]
      /\ Goto(d, "record") /\ UNCHANGED <<nth, prev, callback>>
      /\ UNCHANGED <<status, init_mutex, other, in_minor_collection, pools, holds, runtime, scanned>>
      /\ d \in running \ leaving /\ gc = "none" /\ init_mutex = d /\ status = "NOT_SETUP"
  BY <1>0 DEF bxr_setup_hooks, InstallHooks, SInv, Places, Creating, Mutex, WithMutex, Installing
<1>2. /\ at' \in [Domains -> {"idle"} \cup Creating \cup Collecting]
      /\ at'[d] = "record"
      /\ \A e \in Domains \ {d} : at'[e] = at[e] /\ at[e] \notin Installing
  BY <1>1 DEF SInv, TypeOK, Goto, Creating, Mutex, WithMutex, Installing
<1>3. /\ nth[d] \in 1 .. 4 /\ k0 = Hooks[nth[d]] /\ Hooks[1] = "scan" /\ Hooks[2] = "begin"
      /\ Hooks[3] = "end" /\ Hooks[4] = "terminated"
  BY <1>0 DEF SInv, TypeOK, Hooks, HookNames
<1>4. Places'
  BY <1>1, CallStep DEF Creating
<1>5. Mutex'
  BY <1>1, <1>2 DEF SInv, Mutex, WithMutex, Installing
<1>6. \A k : /\ Exchanged(k)' <=> Exchanged(k) \/ k = k0
             /\ ~ Exchanged(k0)
  <2>1. \A k : Exchanged(k) <=> \E i \in 1 .. nth[d] : Hooks[i] = k /\ i # nth[d]
    BY WhichExchanged
  <2>2. \A k : Exchanged(k)' <=> \E i \in 1 .. nth[d] : Hooks[i] = k
    BY <1>1, <1>2 DEF Exchanged, Installing
  <2>3. \A k : (\E i \in 1 .. nth[d] : Hooks[i] = k)
                 <=> (\E i \in 1 .. nth[d] : Hooks[i] = k /\ i # nth[d]) \/ k = k0
    BY <1>3
  <2>4. ~ \E i \in 1 .. nth[d] : Hooks[i] = k0 /\ i # nth[d]
    BY <1>3
  <2> QED BY <2>1, <2>2, <2>3, <2>4
<1>7. /\ Is(k0, NULL, NULL, "absent") \/ Is(k0, "other", NULL, NULL)
      /\ hook \in [HookNames -> {NULL, "other", "bxr"}]
      /\ old \in [Domains -> {NULL, "other", "bxr"}]
  BY <1>3, <1>6 DEF SInv, HookShapes, TypeOK
<1>8. HookShapes'
  <2>1. ASSUME NEW k \in HookNames, k # k0
        PROVE  /\ ~ Exchanged(k)' =>
                     Is(k, NULL, NULL, "absent")' \/ Is(k, "other", NULL, NULL)'
               /\ Exchanged(k)' =>
                     \/ Is(k, "bxr", NULL, "absent")' \/ Is(k, "other", NULL, "bxr")'
                     \/ Is(k, "bxr", "other", NULL)' \/ Is(k, "bxr", NULL, NULL)'
               /\ ~ Is(k, "bxr", NULL, NULL)'
    <3>1. \A h, p, o : Is(k, h, p, o)' <=> Is(k, h, p, o)
      BY <1>1, <1>7, <2>1 DEF Is
    <3>2. ~ Is(k, "bxr", NULL, NULL)
      BY <1>2 DEF SInv, HookShapes, Installing
    <3> QED BY <1>6, <2>1, <3>1, <3>2 DEF SInv, HookShapes
  <2>2. /\ Is(k0, "bxr", NULL, "absent")' \/ Is(k0, "bxr", NULL, NULL)'
        /\ Is(k0, "bxr", NULL, NULL)' <=> old'[d] = "other"
        /\ old'[d] \in {NULL, "other"} /\ prev'[k0] = NULL
    BY <1>1, <1>3, <1>7, NullAssumption DEF Is
  <2>3. \A e \in Domains : at'[e] = "record" <=> e = d
    BY <1>2 DEF Installing
  <2>4. Hooks[nth'[d]] = k0
    BY <1>0, <1>1
  <2> QED BY <1>3, <1>6, <2>1, <2>2, <2>3, <2>4 DEF HookShapes
<1>9. Callbacks'
  BY <1>1, <1>2 DEF SInv, Callbacks, Installing
<1>10. Counter'
  BY <1>1, <1>2, CounterStays DEF SInv
<1>11. Reached'
  BY <1>1 DEF SInv, Reached, runtime
<1>12. TypeOK'
  BY <1>1, <1>2, <1>3, <1>7 DEF SInv, TypeOK, runtime
<1> QED BY <1>4, <1>5, <1>8, <1>9, <1>10, <1>11, <1>12 DEF SInv

LEMMA RecordStep ==
  ASSUME SInv, NEW d \in Domains, bxr_setup_hooks(d), at[d] = "record"
  PROVE  SInv'
<1>0. PICK k0 \in HookNames : k0 = Hooks[nth[d]]
  BY DEF SInv, TypeOK, Hooks, HookNames
<1>1. /\ old' = [old EXCEPT ![d] = NULL] /\ prev' = [prev EXCEPT ![k0] = old[d]]
      /\ callback' = callback \cup (IF k0 = "end" THEN {"terminated"} ELSE {})
      /\ IF k0 = "terminated" THEN Goto(d, "run") /\ nth' = [nth EXCEPT ![d] = 1]
         ELSE Goto(d, "exchange") /\ nth' = [nth EXCEPT ![d] = nth[d] + 1]
      /\ UNCHANGED <<status, init_mutex, hook, other, in_minor_collection, pools, holds,
                     runtime, scanned>>
      /\ d \in running \ leaving /\ gc = "none" /\ init_mutex = d /\ status = "NOT_SETUP"
  BY <1>0 DEF bxr_setup_hooks, InstallHooks, SInv, Places, Creating, Mutex, WithMutex, Installing
<1>2. /\ nth[d] \in 1 .. 4 /\ k0 = Hooks[nth[d]] /\ Hooks[1] = "scan" /\ Hooks[2] = "begin"
      /\ Hooks[3] = "end" /\ Hooks[4] = "terminated"
  BY <1>0 DEF SInv, TypeOK, Hooks, HookNames
<1>3. /\ at' \in [Domains -> {"idle"} \cup Creating \cup Collecting]
      /\ IF nth[d] = 4 THEN at'[d] = "run" /\ nth'[d] = 1
         ELSE at'[d] = "exchange" /\ nth'[d] = nth[d] + 1
      /\ nth' \in [Domains -> 1 .. 4]
      /\ \A e \in Domains \ {d} :
           at'[e] = at[e] /\ nth'[e] = nth[e] /\ at[e] \notin Installing
  BY <1>1, <1>2 DEF SInv, TypeOK, Goto, Creating, Mutex, WithMutex, Installing
<1>4. Places'
  BY <1>1, CallStep DEF Creating
<1>5. Mutex'
  BY <1>1, <1>3 DEF SInv, Mutex, WithMutex, Installing
<1>6. \A k \in HookNames : Exchanged(k)' <=> Exchanged(k)
  <2>1. \A k : Exchanged(k) <=> \E i \in 1 .. nth[d] : Hooks[i] = k
    BY WhichExchanged
  <2>2. CASE nth[d] = 4
    <3>1. \A k \in HookNames : \E i \in 1 .. 4 : Hooks[i] = k
      BY <1>2 DEF HookNames
    <3>2. \A k : Exchanged(k)'
      BY <1>3, <2>2 DEF Exchanged
    <3> QED BY <2>1, <2>2, <3>1, <3>2
  <2>3. CASE nth[d] # 4
    <3>1. \A k : Exchanged(k)' <=> \E i \in 1 .. nth[d] + 1 : Hooks[i] = k /\ i # nth[d] + 1
      BY <1>1, <1>3, <2>3 DEF Exchanged, Installing
    <3> QED BY <1>2, <2>1, <3>1
  <2> QED BY <2>2, <2>3
<1>7. /\ prev \in [HookNames -> {NULL, "other", "bxr"}]
      /\ old \in [Domains -> {NULL, "other", "bxr"}]
      /\ old[d] \in {NULL, "other"} /\ prev[k0] = NULL /\ Exchanged(k0)
  <2>1. Exchanged(k0)
    BY <1>2, WhichExchanged
  <2> QED BY <1>2, <2>1 DEF SInv, HookShapes, TypeOK
<1>8. \/ Is(k0, "bxr", NULL, "absent") /\ old[d] = NULL
      \/ Is(k0, "other", NULL, "bxr") /\ old[d] = NULL
      \/ Is(k0, "bxr", NULL, NULL) /\ old[d] = "other"
  <2>1. Is(k0, "bxr", NULL, NULL) <=> old[d] = "other"
    BY <1>2, <1>3 DEF SInv, HookShapes, Installing
  <2>2. \/ Is(k0, "bxr", NULL, "absent") \/ Is(k0, "other", NULL, "bxr")
        \/ Is(k0, "bxr", NULL, NULL)
    BY <1>2, <1>7, NullAssumption DEF SInv, HookShapes, Is
  <2> QED BY <1>7, <2>1, <2>2, NullAssumption DEF Is
<1>9. HookShapes'
  <2>1. \A e \in Domains : at'[e] # "record"
    BY <1>3 DEF Installing
  <2>2. ASSUME NEW k \in HookNames, k # k0
        PROVE  /\ ~ Exchanged(k)' =>
                     Is(k, NULL, NULL, "absent")' \/ Is(k, "other", NULL, NULL)'
               /\ Exchanged(k)' =>
                     \/ Is(k, "bxr", NULL, "absent")' \/ Is(k, "other", NULL, "bxr")'
                     \/ Is(k, "bxr", "other", NULL)'
               /\ ~ Is(k, "bxr", NULL, NULL)'
    <3>1. \A h, p, o : Is(k, h, p, o)' <=> Is(k, h, p, o)
      BY <1>1, <1>7, <2>2 DEF Is
    <3>2. ~ Is(k, "bxr", NULL, NULL)
      BY <1>2, <1>3, <2>2 DEF SInv, HookShapes, Installing
    <3> QED BY <1>6, <2>2, <3>1, <3>2 DEF SInv, HookShapes
  <2>3. /\ \/ Is(k0, "bxr", NULL, "absent")' \/ Is(k0, "other", NULL, "bxr")'
           \/ Is(k0, "bxr", "other", NULL)'
        /\ ~ Is(k0, "bxr", NULL, NULL)'
    BY <1>1, <1>2, <1>7, <1>8, NullAssumption DEF Is
  <2> QED BY <1>2, <1>6, <1>7, <2>1, <2>2, <2>3 DEF HookShapes
<1>10. Callbacks'
  BY <1>1, <1>2, <1>3 DEF SInv, Callbacks, Installing
<1>11. Counter'
  BY <1>1, <1>3, CounterStays DEF SInv
<1>12. Reached'
  BY <1>1 DEF SInv, Reached, runtime
<1>13. TypeOK'
  BY <1>1, <1>2, <1>3, <1>7 DEF SInv, TypeOK, runtime
<1> QED BY <1>4, <1>5, <1>9, <1>10, <1>11, <1>12, <1>13 DEF SInv

LEMMA InstallOtherStep ==
  ASSUME SInv, NEW k0 \in HookNames, InstallOther(k0)
  PROVE  SInv'
<1>1. /\ gc = "none" /\ other[k0] = "absent"
      /\ other' = [other EXCEPT ![k0] = hook[k0]] /\ hook' = [hook EXCEPT ![k0] = "other"]
      /\ UNCHANGED <<status, init_mutex, at, nth, old, prev, callback, in_minor_collection,
                     pools, holds, runtime, scanned>>
      /\ hook \in [HookNames -> {NULL, "other", "bxr"}]
      /\ other \in [HookNames -> {NULL, "absent", "bxr"}]
  BY DEF InstallOther, runtime, SInv, TypeOK
<1>2. \A k : Exchanged(k)' <=> Exchanged(k)
  BY <1>1 DEF Exchanged
<1>3. /\ ~ Exchanged(k0) => Is(k0, NULL, NULL, "absent")
      /\ Exchanged(k0) => Is(k0, "bxr", NULL, "absent")
      /\ ~ Is(k0, "bxr", NULL, NULL)
  BY <1>1, NullAssumption DEF SInv, HookShapes, Is
<1>4. /\ ~ Exchanged(k0) => Is(k0, "other", NULL, NULL)'
      /\ Exchanged(k0) => Is(k0, "other", NULL, "bxr")'
      /\ ~ Is(k0, "bxr", NULL, NULL)'
  BY <1>1, <1>3, NullAssumption DEF Is
<1>5. \A k \in HookNames \ {k0} : \A h, p, o : Is(k, h, p, o)' <=> Is(k, h, p, o)
  BY <1>1 DEF Is
<1>6. HookShapes'
  <2>1. ASSUME NEW k \in HookNames
        PROVE  /\ ~ Exchanged(k)' =>
                     Is(k, NULL, NULL, "absent")' \/ Is(k, "other", NULL, NULL)'
               /\ Exchanged(k)' =>
                     \/ Is(k, "bxr", NULL, "absent")' \/ Is(k, "other", NULL, "bxr")'
                     \/ Is(k, "bxr", "other", NULL)' \/ Is(k, "bxr", NULL, NULL)'
               /\ Is(k, "bxr", NULL, NULL)' <=> Is(k, "bxr", NULL, NULL)
    BY <1>2, <1>3, <1>4, <1>5 DEF SInv, HookShapes
  <2> QED BY <1>1, <2>1 DEF SInv, HookShapes
<1>7. Mutex' /\ Places' /\ Callbacks'
  BY <1>1 DEF SInv, Mutex, Places, Callbacks, runtime
<1>8. Counter'
  BY <1>1, CounterStays DEF SInv
<1>9. Reached'
  BY <1>1 DEF SInv, Reached, runtime
<1>10. TypeOK'
  <2>1. hook[k0] \in {NULL, "bxr"}
    BY <1>3, NullAssumption DEF Is
  <2> QED BY <1>1, <2>1 DEF SInv, TypeOK, runtime
<1> QED BY <1>6, <1>7, <1>8, <1>9, <1>10 DEF SInv


-----------------------------------------------------------------------------
(* The steps of the runtime and of the hooks.                              *)

LEMMA DeleteLastStep ==
  ASSUME SInv, NEW r, DeleteLast(r)
  PROVE  SInv'
<1>1. /\ r \in holds /\ holds' = holds \ {r}
      /\ UNCHANGED <<status, init_mutex, at, hooks, in_minor_collection, pools, runtime, scanned>>
  BY DEF DeleteLast
<1>2. HookShapes' /\ Callbacks'
  BY <1>1, HooksStay DEF SInv
<1>3. Mutex' /\ Places'
  BY <1>1 DEF SInv, Mutex, Places, hooks, runtime
<1>4. Counter'
  BY <1>1, CounterStays DEF SInv
<1>5. Reached'
  BY <1>1 DEF SInv, Reached, ToScan, runtime
<1>6. TypeOK'
  BY <1>1 DEF SInv, TypeOK, hooks, runtime
<1> QED BY <1>2, <1>3, <1>4, <1>5, <1>6 DEF SInv

\* What a domain in a collection leaves alone.
LEMMA CollectorStep ==
  ASSUME SInv, NEW d \in Domains, at[d] \in Collecting, NEW l \in Collecting,
         at' = [at EXCEPT ![d] = l],
         l \in {"mark", "done"} <=> at[d] \in {"mark", "done"},
         UNCHANGED <<status, init_mutex, hooks, pools, runtime>>,
         holds' # {} => holds # {}
  PROVE  /\ Mutex' /\ Places' /\ HookShapes' /\ Callbacks'
         /\ gc # "none" /\ d \in running
<1>1. /\ at \in [Domains -> {"idle"} \cup Creating \cup Collecting]
      /\ at'[d] = l /\ \A e \in Domains \ {d} : at'[e] = at[e]
      /\ gc # "none" /\ d \in running /\ running \subseteq Domains
  BY DEF SInv, TypeOK, Places
<1>2. HookShapes' /\ Callbacks'
  BY <1>1, HooksStay DEF SInv, Installing, Collecting
<1>3. Mutex'
  BY <1>1 DEF SInv, Mutex, WithMutex, Installing, Collecting, hooks
<1>4. Places'
  BY <1>1 DEF SInv, Places, Creating, Collecting, runtime
<1> QED BY <1>1, <1>2, <1>3, <1>4

\* A domain enters the part of the collection that the counter counts.
LEMMA BeginStep ==
  ASSUME SInv, NEW d \in Domains, record_minor_begin(d)
  PROVE  SInv'
<1>1. /\ at[d] = "begin" /\ at' = [at EXCEPT ![d] = "scan"]
      /\ in_minor_collection' = in_minor_collection + (IF Calls("begin", "bxr") THEN 1 ELSE 0)
      /\ UNCHANGED <<status, init_mutex, hooks, pools, holds, runtime, scanned>>
  BY DEF record_minor_begin, TimingHook, Goto
<1>2. /\ Mutex' /\ Places' /\ HookShapes' /\ Callbacks'
      /\ gc # "none" /\ d \in running
  BY <1>1, CollectorStep DEF Collecting
<1>3. /\ at \in [Domains -> {"idle"} \cup Creating \cup Collecting]
      /\ at'[d] = "scan" /\ \A e \in Domains \ {d} : at'[e] = at[e]
  BY <1>1 DEF SInv, TypeOK
<1>4. Calls("begin", "bxr") <=> status = "RUNNING"
  <2>1. Exchanged("begin") <=> status = "RUNNING"
    BY <1>2 DEF Exchanged, SInv, Places, Creating
  <2> QED BY <2>1, WhatIsCalled DEF SInv, HookNames
<1>5. Counter' /\ in_minor_collection' \in 0 .. Cardinality(Domains)
  <2>1. InMinor' = InMinor \cup {d} /\ d \notin InMinor
    BY <1>1, <1>3 DEF InMinor
  <2>2. IsFiniteSet(InMinor) /\ Cardinality(InMinor) \in Nat
        /\ Cardinality(InMinor') = Cardinality(InMinor) + 1
    <3>1. IsFiniteSet(InMinor)
      BY DomainAssumption, FS_Subset DEF InMinor
    <3>2. Cardinality(InMinor \cup {d}) = Cardinality(InMinor) + 1
      BY <2>1, <3>1, FS_AddElement
    <3> QED BY <2>1, <3>1, <3>2, FS_CardinalityType
  <2>3. Cardinality(InMinor') \in 0 .. Cardinality(Domains)
    <3>1. InMinor' \subseteq Domains
      BY <2>1 DEF InMinor
    <3> QED BY <3>1, DomainAssumption, FS_Subset, FS_CardinalityType
  <2>4. Counter'
    BY <1>1, <1>4, <2>2 DEF SInv, Counter
  <2> QED BY <1>1, <2>3, <2>4 DEF Counter, SInv, TypeOK
<1>6. Reached'
  BY <1>1, <1>3 DEF SInv, Reached, ToScan, runtime
<1>7. TypeOK'
  BY <1>1, <1>5 DEF SInv, TypeOK, Collecting, hooks, runtime
<1> QED BY <1>2, <1>5, <1>6, <1>7 DEF SInv

LEMMA EndStep ==
  ASSUME SInv, NEW d \in Domains, record_minor_end(d)
  PROVE  SInv'
<1>1. /\ at[d] = "end" /\ at' = [at EXCEPT ![d] = "barrier"]
      /\ in_minor_collection' = in_minor_collection - (IF Calls("end", "bxr") THEN 1 ELSE 0)
      /\ UNCHANGED <<status, init_mutex, hooks, pools, holds, runtime, scanned>>
  BY DEF record_minor_end, TimingHook, Goto
<1>2. /\ Mutex' /\ Places' /\ HookShapes' /\ Callbacks'
      /\ gc # "none" /\ d \in running
  BY <1>1, CollectorStep DEF Collecting
<1>3. /\ at \in [Domains -> {"idle"} \cup Creating \cup Collecting]
      /\ at'[d] = "barrier" /\ \A e \in Domains \ {d} : at'[e] = at[e]
  BY <1>1 DEF SInv, TypeOK
<1>4. Calls("end", "bxr") <=> status = "RUNNING"
  <2>1. Exchanged("end") <=> status = "RUNNING"
    BY <1>2 DEF Exchanged, SInv, Places, Creating
  <2> QED BY <2>1, WhatIsCalled DEF SInv, HookNames
<1>5. Counter' /\ in_minor_collection' \in 0 .. Cardinality(Domains)
  <2>1. InMinor' = InMinor \ {d} /\ d \in InMinor
    BY <1>1, <1>3 DEF InMinor
  <2>2. IsFiniteSet(InMinor) /\ Cardinality(InMinor) \in Nat
        /\ Cardinality(InMinor') = Cardinality(InMinor) - 1
    <3>1. IsFiniteSet(InMinor)
      BY DomainAssumption, FS_Subset DEF InMinor
    <3>2. Cardinality(InMinor \ {d}) = Cardinality(InMinor) - 1
      BY <2>1, <3>1, FS_RemoveElement
    <3> QED BY <2>1, <3>1, <3>2, FS_CardinalityType
  <2>3. Cardinality(InMinor') \in 0 .. Cardinality(Domains)
    <3>1. InMinor' \subseteq Domains
      BY <2>1 DEF InMinor
    <3> QED BY <3>1, DomainAssumption, FS_Subset, FS_CardinalityType
  <2>4. Counter'
    BY <1>1, <1>4, <2>2 DEF SInv, Counter
  <2> QED BY <1>1, <2>3, <2>4 DEF Counter, SInv, TypeOK
<1>6. Reached'
  BY <1>1, <1>3 DEF SInv, Reached, ToScan, runtime
<1>7. TypeOK'
  BY <1>1, <1>5 DEF SInv, TypeOK, Collecting, hooks, runtime
<1> QED BY <1>2, <1>5, <1>6, <1>7 DEF SInv

\* Whoever scans adopts the orphans, and scans them.
LEMMA ScanStep ==
  ASSUME SInv, NEW d \in Domains, scan_roots(d)
  PROVE  SInv'
<1> DEFINE l == IF at[d] = "scan" THEN "end" ELSE "done"
<1>1. /\ at[d] \in {"scan", "mark"} /\ at' = [at EXCEPT ![d] = l]
      /\ UNCHANGED <<status, init_mutex, hooks, in_minor_collection, pools, runtime>>
      /\ IF Enters(d)
         THEN /\ holds' = IF Orphan \in holds THEN (holds \ {Orphan}) \cup {d} ELSE holds
              /\ scanned' = scanned \cup {d}
         ELSE UNCHANGED <<holds, scanned>>
  BY DEF scan_roots, ScanRoots, Goto
<1>2. /\ Mutex' /\ Places' /\ HookShapes' /\ Callbacks'
      /\ gc # "none" /\ d \in running
  <2>1. /\ l \in Collecting /\ at[d] \in Collecting
        /\ l \in {"mark", "done"} <=> at[d] \in {"mark", "done"}
        /\ holds' # {} => holds # {}
    BY <1>1 DEF Collecting
  <2> HIDE DEF l
  <2> QED BY <1>1, <2>1, CollectorStep
<1>3. /\ at \in [Domains -> {"idle"} \cup Creating \cup Collecting]
      /\ at'[d] = l /\ \A e \in Domains \ {d} : at'[e] = at[e]
      /\ gc \in {"minor", "major"} /\ running \subseteq Domains
      /\ holds \subseteq Domains \cup {Orphan} /\ Orphan \notin Domains
  BY <1>1, <1>2, DomainAssumption DEF SInv, TypeOK
<1>4. Counter'
  <2>1. \A e \in Domains : at'[e] \in {"scan", "end"} <=> at[e] \in {"scan", "end"}
    BY <1>1, <1>3
  <2> QED BY <1>1, <2>1, CounterStays DEF SInv
<1>5. Enters(d) <=> d \in pools /\ status = "RUNNING"
  <2>1. status = "RUNNING" => Exchanged("scan")
    BY DEF Exchanged
  <2> QED BY <2>1, WhatIsCalled DEF SInv, HookNames, Enters
<1>6. Reached'
  <2>1. CASE Enters(d)
    <3>1. holds' \subseteq pools' \cup {Orphan}
      BY <1>1, <1>5, <2>1 DEF SInv, Reached
    <3>2. LeavesAtOnce => leaving = {}
      BY <1>2 DEF SInv, Reached
    <3>3. ASSUME LeavesAtOnce, NEW e \in holds' \ {Orphan}
          PROVE  at'[e] \in ToScan' \/ e \in scanned'
      BY <1>1, <1>2, <1>3, <2>1, <3>3 DEF SInv, Reached, ToScan, runtime
    <3>4. Orphan \notin holds'
      BY <1>1, <1>3, <2>1
    <3>5. LeavesAtOnce => holds' \subseteq (running' \ leaving') \cup {Orphan}
      BY <1>1, <1>2, <2>1, <3>2 DEF SInv, Reached, runtime
    <3> QED BY <1>1, <3>1, <3>2, <3>3, <3>4, <3>5 DEF Reached, runtime
  <2>2. CASE ~ Enters(d)
    <3>1. UNCHANGED <<holds, scanned, pools, running, leaving, gc>>
      BY <1>1, <2>2 DEF runtime
    <3>2. holds # {} => d \notin pools
      BY <1>5, <2>2 DEF SInv, Mutex
    <3>3. holds # {} => \A e \in (holds \cup pools) \ {Orphan} :
            e \in Domains => at'[e] = at[e]
      BY <1>3, <3>2 DEF SInv, Reached
    <3> QED BY <1>3, <3>1, <3>2, <3>3 DEF SInv, Reached, ToScan
  <2> QED BY <2>1, <2>2
<1>7. TypeOK'
  BY <1>1, <1>2, <1>3 DEF SInv, TypeOK, Collecting, hooks, runtime
<1> QED BY <1>2, <1>4, <1>6, <1>7 DEF SInv


\* The roots of a domain that terminates become orphans: the hook is in place
\* whenever there is a root.
LEMMA TerminationStep ==
  ASSUME SInv, NEW d \in Domains, domain_termination_callback(d)
  PROVE  SInv'
<1>1. /\ d \in running \ leaving /\ gc = "none" /\ at[d] = "idle"
      /\ leaving' = leaving \cup {d}
      /\ UNCHANGED <<status, init_mutex, at, hooks, in_minor_collection, pools, running, gc, scanned>>
  BY DEF domain_termination_callback, CanCall
<1>2. holds' = IF d \in holds THEN (holds \ {d}) \cup {Orphan} ELSE holds
  <2>1. holds # {} => Exchanged("terminated")
    BY DEF SInv, Mutex, Exchanged
  <2>2. d \in holds => Calls("terminated", "bxr")
    BY <2>1, WhatIsCalled DEF SInv, HookNames
  <2> QED BY <2>2 DEF domain_termination_callback
<1>3. HookShapes' /\ Callbacks'
  BY <1>1, HooksStay DEF SInv
<1>4. Mutex' /\ Places'
  BY <1>1, <1>2 DEF SInv, Mutex, Places, Creating, Collecting, hooks
<1>5. Counter'
  BY <1>1, CounterStays DEF SInv
<1>6. Reached'
  BY <1>1, <1>2, DomainAssumption DEF SInv, Reached
<1>7. TypeOK'
  BY <1>1, <1>2 DEF SInv, TypeOK, hooks
<1> QED BY <1>3, <1>4, <1>5, <1>6, <1>7 DEF SInv

LEMMA LeaveStep ==
  ASSUME SInv, NEW d \in Domains, Leave(d)
  PROVE  SInv'
<1>1. /\ d \in leaving /\ gc = "none"
      /\ running' = running \ {d} /\ leaving' = leaving \ {d}
      /\ UNCHANGED <<status, init_mutex, at, hooks, in_minor_collection, pools, holds, gc, scanned>>
  BY DEF Leave
<1>2. HookShapes' /\ Callbacks'
  BY <1>1, HooksStay DEF SInv
<1>3. Mutex' /\ Places'
  BY <1>1 DEF SInv, Mutex, Places, Creating, Collecting, hooks
<1>4. Counter'
  BY <1>1, CounterStays DEF SInv
<1>5. Reached'
  BY <1>1 DEF SInv, Reached
<1>6. TypeOK'
  BY <1>1 DEF SInv, TypeOK, hooks
<1> QED BY <1>2, <1>3, <1>4, <1>5, <1>6 DEF SInv

LEMMA SpawnStep ==
  ASSUME SInv, NEW d \in Domains, Spawn(d)
  PROVE  SInv'
<1>1. /\ d \notin running /\ gc = "none" /\ running' = running \cup {d}
      /\ UNCHANGED <<status, init_mutex, at, hooks, in_minor_collection, pools, holds, leaving,
                     gc, scanned>>
  BY DEF Spawn
<1>2. HookShapes' /\ Callbacks'
  BY <1>1, HooksStay DEF SInv
<1>3. Mutex' /\ Places'
  BY <1>1 DEF SInv, Mutex, Places, Creating, Collecting, hooks
<1>4. Counter'
  BY <1>1, CounterStays DEF SInv
<1>5. Reached'
  BY <1>1 DEF SInv, Reached
<1>6. TypeOK'
  BY <1>1 DEF SInv, TypeOK, hooks
<1> QED BY <1>2, <1>3, <1>4, <1>5, <1>6 DEF SInv

LEMMA StopTheWorldStep ==
  ASSUME SInv, NEW kind \in {"minor", "major"}, StopTheWorld(kind)
  PROVE  SInv'
<1>1. /\ gc = "none" /\ gc' = kind /\ scanned' = {}
      /\ LeavesAtOnce => leaving = {}
      /\ \A d \in running : at[d] = "idle"
      /\ at' = [d \in Domains |-> IF d \in running THEN "begin" ELSE at[d]]
      /\ UNCHANGED <<status, init_mutex, hooks, in_minor_collection, pools, holds, running, leaving>>
  BY DEF StopTheWorld
<1>2. /\ \A d \in Domains : at[d] = "idle"
      /\ \A d \in Domains : at'[d] = IF d \in running THEN "begin" ELSE "idle"
      /\ running \subseteq Domains
  BY <1>1 DEF SInv, TypeOK, Places, Creating, Collecting
<1>3. HookShapes' /\ Callbacks'
  BY <1>1, <1>2, HooksStay DEF SInv, Installing
<1>4. Mutex' /\ Places'
  BY <1>1, <1>2 DEF SInv, Mutex, WithMutex, Installing, Places, Creating, Collecting, hooks
<1>5. Counter'
  BY <1>1, <1>2, CounterStays DEF SInv
<1>6. Reached'
  <2>1. LeavesAtOnce => holds \ {Orphan} \subseteq running
    BY DEF SInv, Reached
  <2> QED BY <1>1, <1>2, <2>1 DEF SInv, Reached, ToScan
<1>7. TypeOK'
  BY <1>1, <1>2 DEF SInv, TypeOK, Creating, Collecting, hooks
<1> QED BY <1>3, <1>4, <1>5, <1>6, <1>7 DEF SInv

\* No domain has marked before the barrier is passed.
LEMMA BarrierStep ==
  ASSUME SInv, NEW d \in Domains, Barrier(d)
  PROVE  SInv'
<1>1. /\ at[d] = "barrier" /\ gc = "major" /\ scanned' = {}
      /\ \A e \in running : at[e] \in {"barrier", "mark", "done"}
      /\ at' = [e \in Domains |-> IF at[e] = "barrier" THEN "mark" ELSE at[e]]
      /\ UNCHANGED <<status, init_mutex, hooks, in_minor_collection, pools, holds, runtime>>
  BY DEF Barrier
<1>2. /\ d \in running /\ running \subseteq Domains
      /\ \A e \in Domains : at[e] \notin {"mark", "done"}
      /\ \A e \in running : at[e] = "barrier"
      /\ \A e \in Domains \ running : at[e] = "idle"
  BY <1>1 DEF SInv, TypeOK, Places, Creating, Collecting
<1>3. \A e \in Domains : at'[e] = IF e \in running THEN "mark" ELSE "idle"
  BY <1>1, <1>2
<1>4. HookShapes' /\ Callbacks'
  BY <1>1, <1>2, <1>3, HooksStay DEF SInv, Installing
<1>5. Mutex' /\ Places'
  BY <1>1, <1>2, <1>3
  DEF SInv, Mutex, WithMutex, Installing, Places, Creating, Collecting, hooks, runtime
<1>6. Counter'
  BY <1>1, <1>2, <1>3, CounterStays DEF SInv
<1>7. Reached'
  <2>1. LeavesAtOnce => holds \ {Orphan} \subseteq running
    BY DEF SInv, Reached
  <2> QED BY <1>1, <1>2, <1>3, <2>1 DEF SInv, Reached, ToScan, runtime
<1>8. TypeOK'
  BY <1>1, <1>2, <1>3 DEF SInv, TypeOK, Creating, Collecting, hooks, runtime
<1> QED BY <1>4, <1>5, <1>6, <1>7, <1>8 DEF SInv

LEMMA ResumeStep ==
  ASSUME SInv, ResumeTheWorld
  PROVE  SInv'
<1>1. /\ gc \in {"minor", "major"} /\ gc' = "none" /\ at' = [d \in Domains |-> "idle"]
      /\ \A d \in running : at[d] = IF gc = "minor" THEN "barrier" ELSE "done"
      /\ UNCHANGED <<status, init_mutex, hooks, in_minor_collection, pools, holds, running,
                     leaving, scanned>>
  BY DEF ResumeTheWorld, Finished, SInv, TypeOK
<1>2. \A d \in Domains : at[d] \in {"idle", "barrier", "done"} /\ at'[d] = "idle"
  BY <1>1 DEF SInv, TypeOK, Places, Creating, Collecting
<1>3. HookShapes' /\ Callbacks'
  BY <1>1, <1>2, HooksStay DEF SInv, Installing
<1>4. Mutex' /\ Places'
  BY <1>1, <1>2 DEF SInv, Mutex, WithMutex, Installing, Places, Creating, Collecting, hooks
<1>5. Counter'
  BY <1>1, <1>2, CounterStays DEF SInv
<1>6. Reached'
  BY <1>1 DEF SInv, Reached
<1>7. TypeOK'
  BY <1>1, <1>2 DEF SInv, TypeOK, hooks
<1> QED BY <1>3, <1>4, <1>5, <1>6, <1>7 DEF SInv

-----------------------------------------------------------------------------
(* The theorems.                                                           *)

LEMMA SetupInit == Init => SInv
<1> SUFFICES ASSUME Init PROVE SInv
  OBVIOUS
<1>1. TypeOK
  <2>1. Cardinality(Domains) \in Nat
    BY DomainAssumption, FS_CardinalityType
  <2> QED BY <2>1, DomainAssumption DEF Init, TypeOK
<1>2. Mutex /\ Places
  BY DomainAssumption DEF Init, Mutex, WithMutex, Installing, Places, Creating, Collecting
<1>3. \A k : ~ Exchanged(k)
  BY DEF Init, Exchanged
<1>4. HookShapes /\ Callbacks
  BY <1>3, NullAssumption DEF Init, HookShapes, Is, Callbacks, Installing
<1>5. Counter /\ Reached
  BY DEF Init, Counter, Reached
<1> QED BY <1>1, <1>2, <1>4, <1>5 DEF SInv

LEMMA SetupNext == SInv /\ [Next]_vars => SInv'
<1> SUFFICES ASSUME SInv, [Next]_vars PROVE SInv'
  OBVIOUS
<1>1. ASSUME NEW d \in Domains, DomainStep(d) PROVE SInv'
  <2>1. CASE bxr_setup_hooks(d)
    <3>1. at[d] \in {"exchange", "record"}
      BY <2>1 DEF bxr_setup_hooks, InstallHooks
    <3> QED BY <2>1, <3>1, ExchangeStep, RecordStep
  <2> QED
    BY <1>1, <2>1, LockInitStep, SetupStep, SetRunningStep, UnlockInitStep, CreateRootStep,
       BeginStep, ScanStep, EndStep, BarrierStep, LeaveStep
    DEF DomainStep
<1>2. CASE UNCHANGED vars
  <2>1. UNCHANGED <<status, init_mutex, at, hooks, in_minor_collection, pools, holds,
                    runtime, scanned>>
    BY <1>2 DEF vars
  <2>2. HookShapes' /\ Callbacks'
    BY <2>1, HooksStay DEF SInv
  <2>3. Mutex' /\ Places' /\ Reached' /\ TypeOK'
    BY <2>1 DEF SInv, Mutex, Places, Reached, ToScan, TypeOK, hooks, runtime
  <2>4. Counter'
    BY <2>1, CounterStays DEF SInv
  <2> QED BY <2>2, <2>3, <2>4 DEF SInv
<1> QED
  BY <1>1, <1>2, CreateSlowStep, TerminationStep, SpawnStep, DeleteLastStep,
     InstallOtherStep, StopTheWorldStep, ResumeStep
  DEF Next

LEMMA SetupInvariance == Spec => []SInv
BY SetupInit, SetupNext, PTL DEF Spec

\* Every state of every execution is well typed; in particular the counter of
\* the domains in a minor collection never exceeds their number nor goes below 0.
THEOREM SetupTypeCorrect == Spec => []TypeOK
<1>1. SInv => TypeOK
  BY DEF SInv
<1> QED BY <1>1, SetupInvariance, PTL

\* Whichever domains create their first roots at the same time, and wherever the
\* hooks of another library come in between, each hook calls every library that
\* has installed one, boxroot once, and ends; provided no domain terminates
\* between the exchange of the termination hook and its record
\* (boxroot/ocaml_hooks.c installs it outside of any stop-the-world section).
THEOREM HooksChained == ASSUME QuietInstall PROVE Spec => []HooksAreChained
<1>1. SInv => HooksAreChained
  BY ChainedFromInv
<1> QED BY <1>1, SetupInvariance, PTL

\* However many domains collect, and wherever each of them is, a domain between
\* its own two hooks reads the counter as not zero, and after the barrier of a
\* major collection reads it as zero.
THEOREM KindCorrect == Spec => []KindIsRight
<1>1. SInv => KindIsRight
  BY KindFromInv
<1> QED BY <1>1, SetupInvariance, PTL

\* A hook that the runtime calls finds its callback, and there is no root before
\* all the hooks are in place.
THEOREM HooksReady == Spec => []HooksAreReady
<1>1. SInv => HooksAreReady
  BY ReadyFromInv
<1> QED BY <1>1, SetupInvariance, PTL

\* At the end of a collection the roots of every domain have been scanned, those
\* of terminated domains too if a running domain has ever created a root;
\* provided a domain takes part in no collection after its termination hook.
THEOREM RootsReached == ASSUME LeavesAtOnce PROVE Spec => []RootsAreReached
<1>1. SInv => RootsAreReached
  BY ReachedFromInv
<1> QED BY <1>1, SetupInvariance, PTL

=============================================================================
