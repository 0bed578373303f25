------------------------------ MODULE Account ------------------------------
(***************************************************************************)
(* The life of an account's entry with one site: the entry's upgrade to a  *)
(* site sub-entry and the move of its Store, setup, the scheduled          *)
(* attempts, the queue for the run lock, reloads, the conversion of 2.1    *)
(* mappings, and stops of Home Assistant (sites.py, __init__.py, meters.py *)
(* and the scheduling half of manager.py).  What a run does to the         *)
(* statistics is in UsageImport and SecondaryChain; here it only advances  *)
(* the marker and the chains.                                              *)
(*                                                                         *)
(* Home Assistant keeps config entries in memory and writes them to disk a *)
(* little later; the integration's Stores are on disk once saved.          *)
(***************************************************************************)
EXTENDS AttemptTimes, Sequences

CONSTANTS
  Days,       \* the days of the instance
  Mappings,   \* 2.1 mappings of a sensor, by sub-entry: an import and an export
  Budgets     \* bounds on the events of one behaviour: how many of each kind

Events == {"crash", "run_now", "fail", "reload", "mode", "convert", "remove"}

Grid == "grid"   \* the sub-entry of a grid meter

ASSUME AccountAssumption ==
  /\ Days \in Nat \ {0} /\ Budgets \subseteq [Events -> Nat]
  /\ {Grid, "usage"} \cap Mappings = {}

VARIABLES
  now,        \* the time, in instants
  published,  \* the last day that Amber has published
  entry,      \* the config entry in memory: version, site sub-entry, mappings
  saved,      \* and on disk
  stores,     \* the Store under the entry's key and under the site's key
  upgrade,    \* the step of an upgrade in progress
  manager,    \* the manager, while the entry is loaded
  waiting,    \* the runs that wait for the lock
  run,        \* the run that holds it
  converting, \* a conversion holds the lock
  reload,     \* a reload is scheduled
  issue,      \* the Repairs issue that the import is behind
  reached,    \* the last day of the usage chain and of each mapping's chain
  excused,    \* today's attempts were disturbed (bounds of BehindIsReported)
  left        \* the bounded events that may still happen

loadVars == <<entry, saved, stores, upgrade, converting, reload, reached>>
runVars == <<waiting, run, issue>>
vars == <<now, published, loadVars, manager, runVars, excused, left>>

-----------------------------------------------------------------------------

NoRun == [trigger |-> "none", final |-> FALSE, started |-> 0]
Asked(trigger, final) == [trigger |-> trigger, final |-> final, started |-> 0]
Unloaded == [loaded |-> FALSE, mode |-> "full", status |-> "never_run", timer |-> 0, chains |-> {}]

NoStore == [exists |-> FALSE, marker |-> 0, lastRun |-> "never_run", chains |-> <<>>]
Store == stores["site"]

\* Chain keys: the sub-entry, and the side of a grid meter.
OldKey(m) == <<m, "">>
NewKey(m) == <<Grid, m>>

\* The chain keys of a set of mappings.
KeysOf(subs) == {OldKey(m) : m \in subs \ {Grid}}
                \cup (IF Grid \in subs THEN {NewKey(m) : m \in Mappings} ELSE {})
StoreOf(past) ==
  IF past = 0 THEN NoStore
  ELSE [exists |-> TRUE, marker |-> past, lastRun |-> "caught_up",
        chains |-> [k \in KeysOf(Mappings) |-> past]]
KeyOf(m) == IF Grid \in entry.maps THEN NewKey(m) ELSE OldKey(m)
MappingOf(key) == IF key[1] = Grid THEN key[2] ELSE key[1]

LastDay == DayOf(now) - 1
ReachedBy(keys, chains) == \A k \in keys : k \in DOMAIN chains /\ chains[k] >= LastDay
CaughtUpWith(marker, chains) ==
  /\ manager.mode = "full" => marker >= LastDay
  /\ ReachedBy(manager.chains, chains)
CaughtUp == CaughtUpWith(Store.marker, Store.chains)

Spend(event) == left[event] > 0 /\ left' = [left EXCEPT ![event] = @ - 1]

Statuses == {"never_run", "running", "waiting", "caught_up", "failed"}

TypeOK ==
  /\ now \in 0..(Days * Slots) /\ published \in 0..Days
  /\ saved.version \in {1, 2} /\ entry.version \in {1, 2}
  /\ entry.maps \subseteq Mappings \cup {Grid} /\ entry.tagged \subseteq entry.maps
  /\ \A key \in DOMAIN stores : stores[key].lastRun \in Statuses
  /\ manager.status \in Statuses /\ (manager.loaded => entry.version = 2)
  /\ manager.timer # 0 => manager.loaded /\ manager.mode = "full"
  /\ (waiting # <<>> \/ run # NoRun \/ converting) => manager.loaded
  /\ run # NoRun => ~converting

\* An entry of version 2 is new, with an empty Store; one of version 1 may have imported a
\* day before the upgrade, with its mappings.
Init ==
  /\ \E version \in {1, 2}, past \in {0, 1} :
       /\ version = 2 => past = 0
       /\ now = past * Slots /\ published = past
       /\ entry = [version |-> version, site |-> version = 2, maps |-> Mappings,
                   tagged |-> IF version = 2 THEN Mappings ELSE {}]
       /\ stores = [entry |-> [StoreOf(past) EXCEPT !.exists = version = 1],
                    site  |-> [NoStore EXCEPT !.exists = version = 2]]
       /\ reached = [m \in Mappings \cup {"usage"} |-> past]
  /\ saved = entry /\ upgrade = "none" /\ manager = Unloaded
  /\ waiting = <<>> /\ run = NoRun /\ converting = FALSE /\ reload = FALSE
  /\ issue = FALSE /\ excused = TRUE
  /\ left \in Budgets

-----------------------------------------------------------------------------
(* Time and the surroundings *)

Due == manager.timer # 0 /\ manager.timer <= now

\* Bound: a timer that is due fires, and a run that has the lock takes it, before time
\* passes; a run ends within two instants (attempts are hours apart).
MayPass == ~Due /\ (run = NoRun => waiting = <<>>) /\ (run # NoRun => run.started = now)

Tick ==
  /\ now < Days * Slots /\ MayPass
  /\ now' = now + 1
  /\ excused' = IF now' % Slots = 0 THEN ~manager.loaded \/ manager.mode = "recovery"
                ELSE excused
  /\ UNCHANGED <<published, loadVars, manager, runVars, left>>

\* Bound: Amber publishes at the end of a day or later, one day after the other.
Publish ==
  /\ published < LastDay /\ run = NoRun
  /\ published' = published + 1
  /\ UNCHANGED <<now, loadVars, manager, runVars, excused, left>>

Persist ==
  /\ saved # entry /\ saved' = entry
  /\ UNCHANGED <<now, published, entry, stores, upgrade, converting, reload, reached, manager,
                 runVars, excused, left>>

-----------------------------------------------------------------------------
(* Upgrade of a version 1 entry, at every setup until it has been completed *)

BeginUpgrade ==
  /\ ~manager.loaded /\ entry.version = 1 /\ upgrade = "none"
  /\ entry' = [entry EXCEPT !.site = TRUE, !.tagged = entry.maps]
  /\ upgrade' = "move"
  /\ UNCHANGED <<now, published, saved, stores, converting, reload, reached, manager, runVars,
                 excused, left>>

\* A store at the new key wins; the old one goes once the new one has been read back.
CopyStore ==
  /\ upgrade = "move"
  /\ IF stores["site"].exists \/ ~stores["entry"].exists
     THEN UNCHANGED stores
     ELSE stores' = [stores EXCEPT !["site"] = stores["entry"]]
  /\ upgrade' = "copied"
  /\ UNCHANGED <<now, published, entry, saved, converting, reload, reached, manager, runVars,
                 excused, left>>

RemoveOldStore ==
  /\ upgrade = "copied"
  /\ stores' = [stores EXCEPT !["entry"] = NoStore]
  /\ upgrade' = "moved"
  /\ UNCHANGED <<now, published, entry, saved, converting, reload, reached, manager, runVars,
                 excused, left>>

FinishUpgradeEarly ==   \* mutant: the entry's version is raised before the store is moved
  /\ upgrade = "move"
  /\ entry' = [entry EXCEPT !.version = 2] /\ upgrade' = "none"
  /\ UNCHANGED <<now, published, saved, stores, converting, reload, reached, manager, runVars,
                 excused, left>>
FinishUpgrade ==
  /\ upgrade = "moved"
  /\ entry' = [entry EXCEPT !.version = 2] /\ upgrade' = "none"
  /\ UNCHANGED <<now, published, saved, stores, converting, reload, reached, manager, runVars,
                 excused, left>>

-----------------------------------------------------------------------------
(* Setup, reload, settings *)

TimerFor(mode, status) == IF mode = "recovery" THEN 0 ELSE NextAttempt(now, status = "waiting")

\* Setup forgets the chains of removed mappings; a run is due if there is no marker yet, or
\* the last one was interrupted.
NeedsStartupFirst(store) == store.marker = 0   \* mutant: an interrupted run is not resumed
NeedsStartupRun(store) == store.marker = 0 \/ store.lastRun = "running"

Setup ==
  /\ ~manager.loaded /\ upgrade = "none" /\ entry.version = 2
  /\ LET kept == {k \in DOMAIN Store.chains : k[1] \in entry.maps} IN
     stores' = [stores EXCEPT !["site"] = [@ EXCEPT !.exists = TRUE,
                  !.chains = [k \in kept |-> Store.chains[k]]]]
  /\ manager' = [loaded |-> TRUE, mode |-> manager.mode, status |-> Store.lastRun,
                 timer |-> TimerFor(manager.mode, Store.lastRun), chains |-> KeysOf(entry.maps)]
  /\ waiting' = IF NeedsStartupRun(Store) THEN <<Asked("startup", FALSE)>> ELSE <<>>
  /\ reload' = FALSE /\ excused' = TRUE
  /\ UNCHANGED <<now, published, entry, saved, upgrade, converting, reached, run, issue, left>>

\* An unload cancels the timer and the background runs.  Bound: not one that a service
\* started, which would go on beside the new manager (told in the README).
Cancels == \A r \in {run} \cup {waiting[i] : i \in DOMAIN waiting} : r.trigger # "service"

Unload ==
  /\ manager.loaded /\ ~converting /\ Cancels
  /\ (reload /\ UNCHANGED left) \/ Spend("reload")
  /\ manager' = [Unloaded EXCEPT !.mode = manager.mode]
  /\ waiting' = <<>> /\ run' = NoRun /\ excused' = TRUE
  /\ UNCHANGED <<now, published, loadVars, issue>>

\* New options are applied in place: the timer is set again.  Bound: not once a reload is
\* scheduled.
WithMode(mode) == [manager EXCEPT !.mode = mode, !.timer = TimerFor(mode, manager.status)]
UpdateSettings ==
  /\ manager.loaded /\ ~reload /\ Spend("mode")
  /\ \E mode \in {"full", "recovery"} : manager' = WithMode(mode)
  /\ excused' = TRUE
  /\ UNCHANGED <<now, published, loadVars, runVars>>

\* The user removes a mapping: its statistics stay, its chain is forgotten at the reload.
RemoveMapping ==
  /\ manager.loaded /\ ~converting /\ Spend("remove")
  /\ \E m \in entry.maps \ {Grid} :
       entry' = [entry EXCEPT !.maps = @ \ {m}, !.tagged = @ \ {m}]
  /\ reload' = TRUE
  /\ UNCHANGED <<now, published, saved, stores, upgrade, converting, reached, manager, runVars,
                 excused>>

-----------------------------------------------------------------------------
(* Attempts and runs *)

\* The timer fires: it is set again before the attempt runs; one that finds everything
\* imported only clears the issue.
OnTimer ==
  /\ Due
  /\ manager' = [manager EXCEPT !.timer = TimerFor(manager.mode, manager.status)]
  /\ IF CaughtUp THEN issue' = FALSE /\ UNCHANGED waiting
     ELSE /\ waiting' = Append(waiting, Asked("scheduled", IsFinal(manager.timer)))
          /\ UNCHANGED issue
  /\ UNCHANGED <<now, published, loadVars, run, excused, left>>

RunNow ==
  /\ manager.loaded /\ Spend("run_now")
  /\ waiting' = Append(waiting, Asked("service", FALSE))
  /\ UNCHANGED <<now, published, loadVars, manager, run, issue, excused>>

LockFreeOfRuns == run = NoRun   \* mutant: a conversion does not hold the lock
LockFree == run = NoRun /\ ~converting

StartRun ==
  /\ LockFree /\ waiting # <<>>
  /\ run' = [Head(waiting) EXCEPT !.started = now] /\ waiting' = Tail(waiting)
  /\ manager' = [manager EXCEPT !.status = "running"]
  /\ stores' = [stores EXCEPT !["site"].lastRun = "running"]
  /\ UNCHANGED <<now, published, entry, saved, upgrade, converting, reload, reached, issue,
                 excused, left>>

\* The usage chain decides the status of a run; where no usage is written, the chains do.
Outcome(ok, marker, chains) ==
  IF ~ok THEN "failed"
  ELSE IF IF manager.mode = "full" THEN marker >= LastDay ELSE ReachedBy(manager.chains, chains)
  THEN "caught_up" ELSE "waiting"

\* A final daytime attempt that is still waiting leaves the day to the evening retries.
StaysFinalUnlessWaiting(status) == run.final /\ status # "waiting"   \* mutant
StaysFinal(status) ==
  run.final /\ ~(status = "waiting" /\ manager.mode = "full" /\ EveningRetryAfter(run.started))

TimerAfterUnmoved(status) == manager.timer   \* mutant: not scheduled again after a run
TimerAfter(status) == IF manager.timer = 0 THEN 0 ELSE TimerFor(manager.mode, status)

\* Bounds: what disturbs the reports of a day.  An attempt that became due just before the
\* timer is set again is dropped, and an evening run that leaves anything behind without
\* waiting for Amber ends the retries without a final attempt (both told in the README).
Disturbs(status, caughtUp) ==
  \/ Due
  \/ ~caughtUp /\ status # "waiting" /\ ~run.final /\ now >= LastDaytime(DayOf(run.started))

Brought(chains, keys, day) ==
  [k \in keys \cup DOMAIN chains |-> IF k \in keys THEN day ELSE chains[k]]

\* A run that succeeds brings the usage chain to the last published day, and its chains;
\* one that fails may have stopped anywhere, and a chain may stop by itself.
EndRun ==
  /\ run # NoRun
  /\ \E ok \in BOOLEAN, marker \in Store.marker..published, wrote \in SUBSET manager.chains :
       LET whole  == ok /\ wrote = manager.chains
           chains == Brought(Store.chains, wrote, published)
           status == Outcome(ok, marker, chains) IN
       /\ whole \/ left["fail"] > 0
       /\ left' = IF whole THEN left ELSE [left EXCEPT !["fail"] = @ - 1]
       /\ manager.mode = "recovery" => marker = Store.marker
       /\ ok /\ manager.mode = "full" => marker = published
       /\ stores' = [stores EXCEPT !["site"] =
            [@ EXCEPT !.marker = marker, !.lastRun = status, !.chains = chains]]
       /\ reached' = [m \in DOMAIN reached |->
            IF m = "usage" THEN marker
            ELSE IF \E k \in wrote : MappingOf(k) = m THEN published ELSE reached[m]]
       /\ manager' = [manager EXCEPT !.status = status, !.timer = TimerAfter(status)]
       /\ issue' = (~CaughtUpWith(marker, chains) /\ (issue \/ StaysFinal(status)))
       /\ excused' = (excused \/ Disturbs(status, CaughtUpWith(marker, chains)))
  /\ run' = NoRun
  /\ UNCHANGED <<now, published, entry, saved, upgrade, converting, reload, waiting>>

-----------------------------------------------------------------------------
(* Conversion of the 2.1 mappings to a grid meter, under the lock *)

\* Two mappings, of an import and an export, become the two sides of one grid meter.
Convertible == entry.maps = Mappings

\* The chains move to their new keys first; no chain runs until the reload.
ChainsKeepRunning == manager.chains   \* mutant: a queued run writes the old chains again
ChainsAfterConversion == {}

ConvertChains ==
  /\ manager.loaded /\ LockFree /\ waiting = <<>> /\ ~reload
  /\ Convertible /\ Spend("convert")
  /\ LET chains == Store.chains
         moved(k) == IF k[1] \in Mappings THEN NewKey(k[1]) ELSE k IN
     stores' = [stores EXCEPT !["site"].chains =
       [k \in {moved(o) : o \in DOMAIN chains} |->
          chains[CHOOSE o \in DOMAIN chains : moved(o) = k]]]
  /\ manager' = [manager EXCEPT !.chains = ChainsAfterConversion]
  /\ converting' = TRUE /\ excused' = TRUE
  /\ UNCHANGED <<now, published, entry, saved, upgrade, reload, reached, runVars>>

ReplaceMappings ==
  /\ converting
  /\ entry' = [entry EXCEPT !.maps = {Grid}, !.tagged = {Grid}]
  /\ converting' = FALSE /\ reload' = TRUE
  /\ UNCHANGED <<now, published, saved, stores, upgrade, reached, manager, runVars, excused,
                 left>>

-----------------------------------------------------------------------------

\* Bound: Home Assistant does not stop between the save of moved chains and that of the
\* mappings they belong to (what is lost then is told in the README).
Split == \E k \in DOMAIN Store.chains : k[1] = Grid /\ Grid \notin saved.maps

Crash ==
  /\ Spend("crash") /\ ~Split
  /\ entry' = saved /\ upgrade' = "none"
  /\ manager' = [Unloaded EXCEPT !.mode = manager.mode]
  /\ waiting' = <<>> /\ run' = NoRun /\ converting' = FALSE /\ reload' = FALSE
  /\ issue' = FALSE /\ excused' = TRUE
  /\ UNCHANGED <<now, published, saved, stores, reached>>

Upgrading == BeginUpgrade \/ CopyStore \/ RemoveOldStore \/ FinishUpgrade
Running == OnTimer \/ StartRun \/ EndRun \/ ReplaceMappings

Next ==
  \/ Tick \/ Publish \/ Persist
  \/ Upgrading \/ Setup \/ Unload \/ UpdateSettings \/ RemoveMapping
  \/ Running \/ RunNow \/ ConvertChains \/ Crash

Spec == Init /\ [][Next]_vars

\* Home Assistant sets an entry up, runs its tasks and fires its timers; nothing obliges
\* it to stop, Amber to publish or the user to act.
FairSpec == Spec /\ WF_vars(Upgrading) /\ WF_vars(Setup) /\ WF_vars(Running)
                 /\ WF_vars(reload /\ Unload)
=============================================================================
