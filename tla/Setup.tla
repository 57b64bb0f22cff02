-------------------------------- MODULE Setup --------------------------------
(***************************************************************************)
(* How boxroot gets into the OCaml 5 runtime: setup of boxroot/boxroot.c,  *)
(* made by the first creation of a domain, the hooks that                  *)
(* boxroot/ocaml_hooks.c puts in front of those of other libraries, and    *)
(* what the collector and terminating domains then call.                   *)
(*                                                                         *)
(* Domains run in parallel outside of stop-the-world sections: a step of   *)
(* setup is one access to the memory they share.  Of the pools there is    *)
(* whether the rings of a domain exist and whether they hold roots.        *)
(***************************************************************************)
EXTENDS Integers, FiniteSets

CONSTANTS
  Domains, MainDomain,
  Orphan,        \* the orphan rings
  NULL,
  OtherHooks,    \* the hooks that another library uses
  QuietInstall,  \* environment: no domain terminates between the exchange of
                 \* the termination hook and the record of the previous one
  LeavesAtOnce   \* environment: a domain takes part in no collection once it
                 \* has run its termination hook

ASSUME DomainAssumption == MainDomain \in Domains /\ {Orphan, NULL} \cap Domains = {}
                           /\ IsFiniteSet(Domains)
ASSUME NullAssumption == NULL \notin {"other", "bxr", "absent"}
ASSUME EnvironmentAssumption == OtherHooks \subseteq {"scan", "begin", "end", "terminated"}
                                /\ {QuietInstall, LeavesAtOnce} \subseteq BOOLEAN

VARIABLES
  status,      \* BOXROOT_NOT_SETUP or BOXROOT_RUNNING
  init_mutex,  \* the domain that holds it, or NULL
  at,          \* where each domain is
  nth,         \* the hook each domain is installing in bxr_setup_hooks
  old,         \* what its exchange has returned
  hook,        \* the hooks of the runtime
  prev,        \* prev_*_hook
  other,       \* the same in another library, or "absent"
  callback,    \* the callbacks that are not NULL
  in_minor_collection,
  pools,       \* the domains d for which pools[d] # NULL
  holds,       \* the rings with live roots
  running,     \* runtime: the domains that are running
  leaving,     \* runtime: those that have run their termination hook
  gc,          \* runtime: the collection under way
  scanned      \* the rings scanned by the collection for its kind

hooks == <<nth, old, hook, prev, other, callback>>
runtime == <<running, leaving, gc>>
vars == <<status, init_mutex, at, hooks, in_minor_collection, pools, holds,
          runtime, scanned>>

Hooks == <<"scan", "begin", "end", "terminated">>
HookNames == {"scan", "begin", "end", "terminated"}

Creating == {"lock", "test", "exchange", "record", "run", "unlock", "create"}
Collecting == {"begin", "scan", "end", "barrier", "mark", "done"}

TypeOK ==
  /\ status \in {"NOT_SETUP", "RUNNING"}
  /\ init_mutex \in Domains \cup {NULL}
  /\ at \in [Domains -> {"idle"} \cup Creating \cup Collecting]
  /\ nth \in [Domains -> 1 .. 4]
  /\ old \in [Domains -> {NULL, "other", "bxr"}]
  /\ hook \in [HookNames -> {NULL, "other", "bxr"}]
  /\ prev \in [HookNames -> {NULL, "other", "bxr"}]
  /\ other \in [HookNames -> {NULL, "absent", "bxr"}]
  /\ callback \subseteq {"scan", "terminated"}
  /\ in_minor_collection \in 0 .. Cardinality(Domains)
  /\ pools \subseteq Domains
  /\ holds \subseteq Domains \cup {Orphan}
  /\ leaving \subseteq running /\ running \subseteq Domains
  /\ gc \in {"none", "minor", "major"}
  /\ scanned \subseteq Domains

Init ==
  /\ status = "NOT_SETUP" /\ init_mutex = NULL
  /\ at = [d \in Domains |-> "idle"]
  /\ nth = [d \in Domains |-> 1] /\ old = [d \in Domains |-> NULL]
  /\ hook = [k \in HookNames |-> NULL] /\ prev = [k \in HookNames |-> NULL]
  /\ other = [k \in HookNames |-> "absent"]
  /\ callback = {} /\ in_minor_collection = 0
  /\ pools = {} /\ holds = {}
  /\ running = {MainDomain} /\ leaving = {} /\ gc = "none" /\ scanned = {}

Goto(d, l) == at' = [at EXCEPT ![d] = l]
CanCall(d) == d \in running \ leaving /\ gc = "none" /\ at[d] = "idle"

-----------------------------------------------------------------------------
(* boxroot_create, when it finds that it has to be set up.                 *)

\* The test of the status comes before the mutex.
bxr_create_slow(d) ==
  /\ CanCall(d)
  /\ Goto(d, IF status = "RUNNING" THEN "create" ELSE "lock")
  /\ UNCHANGED <<status, init_mutex, hooks, in_minor_collection, pools, holds, runtime, scanned>>

LockInit(d) ==
  /\ at[d] = "lock" /\ init_mutex = NULL
  /\ init_mutex' = d /\ Goto(d, "test")
  /\ UNCHANGED <<status, hooks, in_minor_collection, pools, holds, runtime, scanned>>

\* bxr_setup_hooks is called, unless the library is set up.
SetupUnless(d, is_setup, out) ==
  /\ at[d] = "test"
  /\ IF is_setup THEN Goto(d, out) /\ UNCHANGED callback
     ELSE Goto(d, "exchange") /\ callback' = callback \cup {"scan"}
  /\ UNCHANGED <<status, init_mutex, nth, old, hook, prev, other, in_minor_collection, pools,
                 holds, runtime, scanned>>

\* MUTANT: the status is not read again.
Mut_setup_again(d) == SetupUnless(d, FALSE, "unlock")

\* MUTANT: a domain that comes second does not unlock.
Mut_setup_out(d) == SetupUnless(d, status # "NOT_SETUP", "create")

\* With the mutex, the status is read again.
setup(d) == SetupUnless(d, status # "NOT_SETUP", "unlock")

SetRunning(d) ==
  /\ at[d] = "run"
  /\ status' = "RUNNING" /\ Goto(d, "unlock")
  /\ UNCHANGED <<init_mutex, hooks, in_minor_collection, pools, holds, runtime, scanned>>

UnlockInit(d) ==
  /\ at[d] = "unlock"
  /\ init_mutex' = NULL /\ Goto(d, "create")
  /\ UNCHANGED <<status, hooks, in_minor_collection, pools, holds, runtime, scanned>>

\* The exchange of a hook, then the record of the previous one.  The termination
\* callback is set once hook `last` is recorded.
InstallHooks(d, last) ==
  LET k == Hooks[nth[d]] IN
  /\ \/ /\ at[d] = "exchange"
        /\ old' = [old EXCEPT ![d] = hook[k]]
        /\ hook' = [hook EXCEPT ![k] = "bxr"]
        /\ Goto(d, "record")
        /\ UNCHANGED <<nth, prev, callback>>
     \/ /\ at[d] = "record"
        /\ prev' = [prev EXCEPT ![k] = old[d]]
        /\ old' = [old EXCEPT ![d] = NULL]
        /\ callback' = callback \cup (IF k = last THEN {"terminated"} ELSE {})
        /\ IF k = "terminated" THEN Goto(d, "run") /\ nth' = [nth EXCEPT ![d] = 1]
           ELSE Goto(d, "exchange") /\ nth' = [nth EXCEPT ![d] = @ + 1]
        /\ UNCHANGED hook
  /\ UNCHANGED <<status, init_mutex, other, in_minor_collection, pools, holds, runtime, scanned>>

\* MUTANT: the termination callback after its hook.
Mut_bxr_setup_hooks(d) == InstallHooks(d, "terminated")
bxr_setup_hooks(d) == InstallHooks(d, "end")

\* The rings of the domain, then a pool and the root, if there is memory.
CreateRoot(d) ==
  /\ at[d] = "create"
  /\ pools' \in {pools, pools \cup {d}}
  /\ holds' \in {holds, IF d \in pools' THEN holds \cup {d} ELSE holds}
  /\ Goto(d, "idle")
  /\ UNCHANGED <<status, init_mutex, hooks, in_minor_collection, runtime, scanned>>

\* boxroot_delete of the last root of some rings, with or without a lock.
DeleteLast(r) ==
  /\ r \in holds /\ holds' = holds \ {r}
  /\ UNCHANGED <<status, init_mutex, at, hooks, in_minor_collection, pools, runtime, scanned>>

-----------------------------------------------------------------------------
(* The hooks.                                                              *)

\* The libraries called by hook k, each by the one before; a library that is
\* met again would be called for ever.
Chain(k) ==
  LET c[n \in 0 .. 2] ==
        IF n = 0 THEN hook[k]
        ELSE CASE c[n - 1] = "bxr" -> prev[k]
               [] c[n - 1] = "other" -> other[k]
               [] OTHER -> NULL
  IN c
Calls(k, library) == \E n \in 0 .. 2 : Chain(k)[n] = library

\* Another library puts its own hook in front, and knows the previous one.
InstallOther(k) ==
  /\ gc = "none" /\ k \in OtherHooks /\ other[k] = "absent"
  /\ other' = [other EXCEPT ![k] = hook[k]]
  /\ hook' = [hook EXCEPT ![k] = "other"]
  /\ UNCHANGED <<status, init_mutex, at, nth, old, prev, callback, in_minor_collection,
                 pools, holds, runtime, scanned>>

\* The hook is in place, what it is to call before is not known yet.
Recording(k) == \E d \in Domains : at[d] = "record" /\ Hooks[nth[d]] = k

bxr_in_minor_collection == in_minor_collection # 0

TimingHook(d, l, count, next) ==
  /\ at[d] = l
  /\ in_minor_collection' = count
  /\ Goto(d, next)
  /\ UNCHANGED <<status, init_mutex, hooks, pools, holds, runtime, scanned>>

\* MUTANT: the hook only calls the one before.
Mut_record_minor_begin(d) == TimingHook(d, "begin", in_minor_collection, "scan")
record_minor_begin(d) ==
  TimingHook(d, "begin", in_minor_collection + (IF Calls("begin", "bxr") THEN 1 ELSE 0), "scan")

\* MUTANT: the counter is reset, as if one domain collected at a time.
Mut_record_minor_end(d) == TimingHook(d, "end", 0, "barrier")
record_minor_end(d) ==
  TimingHook(d, "end", in_minor_collection - (IF Calls("end", "bxr") THEN 1 ELSE 0), "barrier")

\* scanning_callback: does nothing before setup, or in a domain without rings.
Enters(d) == Calls("scan", "bxr") /\ status = "RUNNING" /\ d \in pools

\* The rings of the domain are scanned, with the orphans if it adopts them.
ScanRoots(d, adopts) ==
  /\ at[d] \in {"scan", "mark"}
  /\ IF Enters(d)
     THEN /\ holds' = IF Orphan \in holds /\ adopts THEN (holds \ {Orphan}) \cup {d} ELSE holds
          /\ scanned' = scanned \cup {d}
     ELSE UNCHANGED <<holds, scanned>>
  /\ Goto(d, IF at[d] = "scan" THEN "end" ELSE "done")
  /\ UNCHANGED <<status, init_mutex, hooks, in_minor_collection, pools, runtime>>

\* MUTANT: the domain adopts orphans only if it has no root of its own.
Mut_scan_roots(d) == ScanRoots(d, d \notin holds)
scan_roots(d) == ScanRoots(d, TRUE)

\* domain_terminated_hook, and orphan_pools.
domain_termination_callback(d) ==
  /\ CanCall(d) /\ d # MainDomain
  /\ QuietInstall => ~ Recording("terminated")
  /\ holds' = IF Calls("terminated", "bxr") /\ d \in holds
              THEN (holds \ {d}) \cup {Orphan} ELSE holds
  /\ leaving' = leaving \cup {d}
  /\ UNCHANGED <<status, init_mutex, at, hooks, in_minor_collection, pools, running, gc, scanned>>

-----------------------------------------------------------------------------
(* The runtime.                                                            *)

Leave(d) ==
  /\ d \in leaving /\ gc = "none"
  /\ running' = running \ {d} /\ leaving' = leaving \ {d}
  /\ UNCHANGED <<status, init_mutex, at, hooks, in_minor_collection, pools, holds, gc, scanned>>

Spawn(d) ==
  /\ d \notin running /\ gc = "none"
  /\ running' = running \cup {d}
  /\ UNCHANGED <<status, init_mutex, at, hooks, in_minor_collection, pools, holds, leaving,
                 gc, scanned>>

\* A domain that waits for init_mutex, or holds it, keeps its domain lock.
StopTheWorld(kind) ==
  /\ gc = "none" /\ \A d \in running : at[d] = "idle"
  /\ LeavesAtOnce => leaving = {}
  /\ gc' = kind /\ scanned' = {}
  /\ at' = [d \in Domains |-> IF d \in running THEN "begin" ELSE at[d]]
  /\ UNCHANGED <<status, init_mutex, hooks, in_minor_collection, pools, holds, running, leaving>>

\* Each domain runs its part of the minor collection at its own pace; a major
\* collection goes on once all have done theirs.
Barrier(d) ==
  /\ at[d] = "barrier"
  /\ \A e \in running : at[e] \in {"barrier", "mark", "done"}
  /\ gc = "major"
  /\ at' = [e \in Domains |-> IF at[e] = "barrier" THEN "mark" ELSE at[e]]
  /\ scanned' = {}
  /\ UNCHANGED <<status, init_mutex, hooks, in_minor_collection, pools, holds, runtime>>

Finished == \A d \in running : at[d] = IF gc = "minor" THEN "barrier" ELSE "done"

ResumeTheWorld ==
  /\ gc # "none" /\ Finished
  /\ gc' = "none"
  /\ at' = [d \in Domains |-> "idle"]
  /\ UNCHANGED <<status, init_mutex, hooks, in_minor_collection, pools, holds, running,
                 leaving, scanned>>

\* What a domain goes on to do by itself.
DomainStep(d) ==
  \/ LockInit(d) \/ setup(d) \/ bxr_setup_hooks(d) \/ SetRunning(d) \/ UnlockInit(d)
  \/ CreateRoot(d)
  \/ record_minor_begin(d) \/ scan_roots(d) \/ record_minor_end(d) \/ Barrier(d)
  \/ Leave(d)

Next ==
  \/ \E d \in Domains :
       DomainStep(d) \/ bxr_create_slow(d) \/ domain_termination_callback(d) \/ Spawn(d)
  \/ \E r \in Domains \cup {Orphan} : DeleteLast(r)
  \/ \E k \in HookNames : InstallOther(k)
  \/ \E kind \in {"minor", "major"} : StopTheWorld(kind)
  \/ ResumeTheWorld

Spec == Init /\ [][Next]_vars

\* A thread that is not blocked runs on, and a stop-the-world section goes to
\* its end. Nothing says that domains create, terminate or collect.
Fairness == (\A d \in Domains : WF_vars(DomainStep(d))) /\ WF_vars(ResumeTheWorld)
FairSpec == Spec /\ Fairness

-----------------------------------------------------------------------------
(* Properties.                                                             *)

\* Each hook, whenever it may be called, calls every library that has installed
\* one, boxroot among them, and comes to an end: whichever domains create their
\* first root at the same time, boxroot installs its hooks once.
MayBeCalled(k) ==
  IF k = "terminated" THEN QuietInstall => ~ Recording(k) ELSE gc # "none"
HooksAreChained ==
  \A k \in HookNames :
    /\ Chain(k)[2] = NULL
    /\ status = "RUNNING" => Calls(k, "bxr")
    /\ other[k] # "absent" /\ MayBeCalled(k) => Calls(k, "other")

\* Between its own hooks a domain sees a minor collection, whatever the others
\* have reached; after the barrier none does: roots are promoted in a minor
\* collection only, and free pools released in a major one only.
KindIsRight ==
  \A d \in Domains :
    /\ at[d] \in {"scan", "end"} /\ Enters(d) => bxr_in_minor_collection
    /\ at[d] = "mark" => ~ bxr_in_minor_collection

\* A hook that is called finds its callback, and no domain has a root before
\* the hooks that will look after it are there, though the status is read
\* without the mutex.
HooksAreReady ==
  /\ Calls("scan", "bxr") => "scan" \in callback
  /\ Calls("terminated", "bxr") => "terminated" \in callback
  /\ holds # {} => \A k \in HookNames : Calls(k, "bxr")

\* A collection scans the roots of all domains, and those of domains that have
\* terminated as long as one that has created a root is running.
RootsAreReached ==
  /\ holds \subseteq running \cup {Orphan}
  /\ gc # "none" /\ Finished =>
       \A r \in holds : r \in scanned \/ (r = Orphan /\ running \cap pools = {})

\* A creation returns, although it may wait for a mutex with its domain lock
\* held, and a collection ends.
CallsReturn == \A d \in Domains : at[d] # "idle" ~> at[d] = "idle"
=============================================================================
