---------------------------- MODULE AccountProofs ----------------------------
(***************************************************************************)
(* Proofs about Account, for every set of mappings, every calendar of      *)
(* attempts and every number of events: the upgrade of a version 1 entry,  *)
(* types, the timer, what the site's Store keeps, and the report at the    *)
(* end of a day.                                                           *)
(***************************************************************************)
EXTENDS AccountProperties, TLAPS, WellFoundedInduction

-----------------------------------------------------------------------------
(* The times of the attempts *)

\* A set of naturals that is not empty has a least element.
LEMMA LeastOfSome ==
  ASSUME NEW S \in SUBSET Nat, S # {}
  PROVE  \E d \in S : \A e \in S : d <= e
<1>1. PICK d \in S : \A e \in S : <<e, d>> \notin OpToRel(<, Nat)
  BY NatLessThanWellFounded, WFMin
<1>2. \A e \in S : ~(e < d)
  BY <1>1 DEF OpToRel
<1> QED
  BY <1>2

LEMMA MinOfSome ==
  ASSUME NEW S \in SUBSET Nat, S # {}
  PROVE  Min(S) \in S /\ \A e \in S : Min(S) <= e
BY LeastOfSome DEF Min

\* The attempts of all days; the day that starts at instant d * Slots is number d + 1.
Attempts(slots) == {t \in Nat : \E d \in Nat, s \in slots : t = d * Slots + s}
AllAttempts(evening) == Attempts(Daytime \cup (IF evening THEN Evening ELSE {}))

LEMMA DayBegins ==
  ASSUME NEW time \in Nat
  PROVE  \E d \in Nat : /\ DayOf(time) = d + 1
                        /\ d * Slots \in Nat /\ d * Slots <= time /\ time < d * Slots + Slots
<1>1. Slots \in Nat /\ Slots > 0
  BY AttemptTimesAssumption
<1>2. time \div Slots \in Nat /\ time = (time \div Slots) * Slots + (time % Slots)
      /\ time % Slots \in 0..(Slots - 1)
  BY <1>1, Z3
<1> QED
  BY <1>1, <1>2 DEF DayOf

LEMMA LaterDay ==
  ASSUME NEW d \in Nat, NEW e \in Nat
  PROVE  /\ d * Slots \in Nat
         /\ (d + 1) * Slots = d * Slots + Slots
         /\ (d + 2) * Slots = d * Slots + Slots + Slots
         /\ d < e => (d + 1) * Slots <= e * Slots
<1>1. Slots \in Nat
  BY AttemptTimesAssumption
<1>2. ASSUME NEW k \in Nat, e = d + 1 + k
      PROVE  (d + 1) * Slots <= e * Slots
  <2>1. e * Slots = (d + 1) * Slots + k * Slots /\ k * Slots >= 0 /\ (d + 1) * Slots \in Nat
    BY <1>1, <1>2, Z3
  <2> QED
    BY <1>1, <2>1, Z3
<1>3. d < e => e - d - 1 \in Nat /\ e = d + 1 + (e - d - 1)
  OBVIOUS
<1> QED
  BY <1>1, <1>2, <1>3, Z3

\* NextAttempt finds the first attempt after a time of all days, although it looks at three
\* days only and counts evening retries only on the first of them.
LEMMA NextIsFirst ==
  ASSUME NEW time \in Nat, NEW evening \in BOOLEAN
  PROVE  /\ NextAttempt(time, evening) \in AllAttempts(evening)
         /\ NextAttempt(time, evening) > time
         /\ \A t \in AllAttempts(evening) : t > time => NextAttempt(time, evening) <= t
<1> DEFINE slots(n) == Daytime \cup (IF evening /\ n = 0 THEN Evening ELSE {})
           found == {t \in UNION {AttemptsOn(DayOf(time) + n, evening /\ n = 0) : n \in 0..2} : t > time}
<1>1. /\ Slots \in Nat /\ Slots > 0 /\ Daytime # {}
      /\ \A s \in Daytime \cup Evening : s \in Nat /\ s < Slots
      /\ \A s \in Daytime, e \in Evening : s < e
  BY AttemptTimesAssumption
<1>2. PICK d \in Nat : /\ DayOf(time) = d + 1
                       /\ d * Slots \in Nat /\ d * Slots <= time /\ time < d * Slots + Slots
  BY DayBegins
<1>3. \A n \in 0..2 : AttemptsOn(DayOf(time) + n, evening /\ n = 0)
                        = {(d + n) * Slots + s : s \in slots(n)}
  BY <1>2 DEF AttemptsOn
<1>4. \A t : t \in found <=> /\ t > time
                             /\ \E n \in 0..2 : \E s \in slots(n) : t = (d + n) * Slots + s
  BY <1>3
<1> HIDE DEF found
<1>5. found \in SUBSET Nat
  <2> SUFFICES ASSUME NEW n \in 0..2, NEW s \in slots(n)
               PROVE  (d + n) * Slots + s \in Nat
    BY <1>4
  <2>1. (d + n) * Slots \in Nat
    BY <1>1, LaterDay
  <2> QED
    BY <1>1, <2>1
<1>6. PICK s0 \in Daytime : TRUE
  BY <1>1
<1>7. (d + 1) * Slots + s0 \in found
  <2>1. (d + 1) * Slots + s0 > time
    BY <1>1, <1>2, LaterDay
  <2> QED
    BY <1>4, <2>1
<1>8. Min(found) \in found /\ \A t \in found : Min(found) <= t
  BY <1>5, <1>7, MinOfSome
<1>9. NextAttempt(time, evening) = Min(found)
  BY DEF NextAttempt, found
<1>10. Min(found) > time /\ Min(found) \in Nat
  BY <1>4, <1>5, <1>8
<1>11. Min(found) \in AllAttempts(evening)
  <2>1. PICK n \in 0..2 : \E s \in slots(n) : Min(found) = (d + n) * Slots + s
    BY <1>4, <1>8
  <2>2. d + n \in Nat
    OBVIOUS
  <2> QED
    BY <1>10, <2>1, <2>2 DEF AllAttempts, Attempts
<1>12. ASSUME NEW t \in AllAttempts(evening), t > time
       PROVE  Min(found) <= t
  <2>1. PICK k \in Nat, s \in Daytime \cup (IF evening THEN Evening ELSE {}) : t = k * Slots + s
    BY DEF AllAttempts, Attempts
  <2>2. t \in Nat /\ k * Slots \in Nat /\ s \in Nat /\ s < Slots
    BY <1>1, <2>1, LaterDay DEF AllAttempts, Attempts
  <2>3. CASE k < d
    BY <1>1, <1>2, <1>12, <2>1, <2>2, <2>3, LaterDay
  <2>4. CASE k = d
    BY <1>4, <1>8, <1>12, <2>1, <2>4
  <2>5. CASE k > d /\ s \in Daytime
    <3>1. CASE k = d + 1
      <4>1. t \in found
        BY <1>4, <1>12, <2>1, <2>5, <3>1
      <4> QED
        BY <1>8, <4>1
    <3>2. CASE k > d + 1
      <4>1. (d + 1) * Slots + s0 <= t
        BY <1>1, <2>1, <2>2, <3>2, LaterDay
      <4>2. Min(found) <= (d + 1) * Slots + s0 /\ (d + 1) * Slots + s0 \in Nat
        BY <1>5, <1>7, <1>8
      <4> QED
        BY <1>10, <2>2, <4>1, <4>2
    <3> QED
      BY <2>5, <3>1, <3>2
  <2>6. CASE k > d /\ s \in Evening
    <3>1. (d + 1) * Slots + s0 <= t
      BY <1>1, <2>1, <2>2, <2>6, LaterDay
    <3>2. Min(found) <= (d + 1) * Slots + s0 /\ (d + 1) * Slots + s0 \in Nat
      BY <1>5, <1>7, <1>8
    <3> QED
      BY <1>10, <2>2, <3>1, <3>2
  <2> QED
    BY <2>1, <2>3, <2>4, <2>5, <2>6
<1> QED
  BY <1>9, <1>10, <1>11, <1>12

-----------------------------------------------------------------------------
(* The upgrade: its inductive invariant *)

Subs == Mappings \cup {Grid}
EntryType == [version : {1, 2}, site : BOOLEAN, maps : SUBSET Subs, tagged : SUBSET Subs]

Whole(e) == e.site /\ e.tagged = e.maps
OldStoreGone == ~stores["entry"].exists

UpgradeTypes ==
  /\ entry \in EntryType /\ saved \in EntryType
  /\ DOMAIN stores = {"entry", "site"}

\* An entry of version 2, in memory or on disk, is whole; so is one whose upgrade has
\* begun; and the old Store is gone before the version is raised.
UpgradeOrder ==
  /\ entry.version = 2 => Whole(entry) /\ OldStoreGone
  /\ saved.version = 2 => Whole(saved) /\ OldStoreGone
  /\ upgrade # "none" => Whole(entry)
  /\ upgrade = "moved" => OldStoreGone

UpgradeInv == UpgradeTypes /\ UpgradeOrder

LEMMA WholeWhenUpgraded == UpgradeInv => UpgradedWhole
BY DEF UpgradeInv, UpgradeOrder, UpgradedWhole, Whole, OldStoreGone

LEMMA InitUpgrade == Init => UpgradeInv
<1> SUFFICES ASSUME Init PROVE UpgradeInv
  OBVIOUS
<1>1. PICK version \in {1, 2}, past \in {0, 1} :
        /\ version = 2 => past = 0
        /\ entry = [version |-> version, site |-> version = 2, maps |-> Mappings,
                    tagged |-> IF version = 2 THEN Mappings ELSE {}]
        /\ stores = [entry |-> [StoreOf(past) EXCEPT !.exists = version = 1],
                     site  |-> [NoStore EXCEPT !.exists = version = 2]]
  BY DEF Init
<1>2. entry \in EntryType /\ saved = entry /\ upgrade = "none"
  BY <1>1 DEF Init, EntryType, Subs
<1>3. DOMAIN stores = {"entry", "site"}
  BY <1>1
<1>4. entry.version = 2 => Whole(entry) /\ OldStoreGone
  <2> SUFFICES ASSUME version = 2 PROVE Whole(entry) /\ OldStoreGone
    BY <1>1
  <2>1. Whole(entry)
    BY <1>1 DEF Whole
  <2>2. stores["entry"] = [NoStore EXCEPT !.exists = version = 1]
    BY <1>1, SMT DEF StoreOf
  <2>3. (version = 1) = FALSE
    OBVIOUS
  <2>4. stores["entry"] = [NoStore EXCEPT !.exists = FALSE]
    BY <2>2, <2>3, Zenon
  <2> QED
    BY <2>1, <2>4 DEF OldStoreGone, NoStore
<1> QED
  BY <1>2, <1>3, <1>4 DEF UpgradeInv, UpgradeTypes, UpgradeOrder

-----------------------------------------------------------------------------
(* Steps that leave the entries alone *)

\* Writing the site's Store, or none, does not touch the old one.
LEMMA OldStoreKept ==
  ASSUME UpgradeInv, entry' = entry, saved' = saved, upgrade' = upgrade,
         \/ stores' = stores
         \/ \E s : stores' = [stores EXCEPT !["site"] = s]
  PROVE  UpgradeInv'
<1>1. DOMAIN stores' = {"entry", "site"} /\ stores'["entry"] = stores["entry"]
  BY DEF UpgradeInv, UpgradeTypes
<1> QED
  BY <1>1 DEF UpgradeInv, UpgradeTypes, UpgradeOrder, Whole, OldStoreGone

LEMMA SurroundingsKeep ==
  ASSUME UpgradeInv, Tick \/ Publish \/ Unload \/ UpdateSettings \/ OnTimer \/ RunNow
                     \/ UNCHANGED vars
  PROVE  UpgradeInv'
<1>1. UNCHANGED <<entry, saved, upgrade, stores>>
  BY DEF Tick, Publish, Unload, UpdateSettings, OnTimer, RunNow, loadVars, vars
<1> QED
  BY <1>1, OldStoreKept

LEMMA RunsKeep ==
  ASSUME UpgradeInv, Setup \/ StartRun \/ EndRun \/ ConvertChains
  PROVE  UpgradeInv'
<1>1. UNCHANGED <<entry, saved, upgrade>>
  BY DEF Setup, StartRun, EndRun, ConvertChains
<1>2. CASE Setup
  BY <1>1, <1>2, OldStoreKept DEF Setup
<1>3. CASE StartRun
  BY <1>1, <1>3, OldStoreKept DEF StartRun
<1>4. CASE EndRun
  BY <1>1, <1>4, OldStoreKept DEF EndRun
<1>5. CASE ConvertChains
  BY <1>1, <1>5, OldStoreKept DEF ConvertChains
<1> QED
  BY <1>2, <1>3, <1>4, <1>5

-----------------------------------------------------------------------------
(* The upgrade, the entry's changes, and what reaches the disk *)

LEMMA UpgradingKeeps ==
  ASSUME UpgradeInv, Upgrading
  PROVE  UpgradeInv'
<1>0. UpgradeTypes /\ UpgradeOrder
  BY DEF UpgradeInv
<1>1. CASE BeginUpgrade
  <2>1. entry' \in EntryType /\ Whole(entry') /\ entry'.version = 1
    BY <1>0, <1>1 DEF BeginUpgrade, UpgradeTypes, EntryType, Whole
  <2> QED
    BY <1>0, <1>1, <2>1
       DEF BeginUpgrade, UpgradeInv, UpgradeTypes, UpgradeOrder, OldStoreGone, Whole
<1>2. CASE CopyStore
  <2>1. DOMAIN stores' = {"entry", "site"} /\ stores'["entry"] = stores["entry"]
    BY <1>0, <1>2 DEF CopyStore, UpgradeTypes
  <2> QED
    BY <1>0, <1>2, <2>1
       DEF CopyStore, UpgradeInv, UpgradeTypes, UpgradeOrder, OldStoreGone, Whole
<1>3. CASE RemoveOldStore
  <2>1. DOMAIN stores' = {"entry", "site"} /\ ~stores'["entry"].exists
    BY <1>0, <1>3 DEF RemoveOldStore, UpgradeTypes, NoStore
  <2> QED
    BY <1>0, <1>3, <2>1
       DEF RemoveOldStore, UpgradeInv, UpgradeTypes, UpgradeOrder, OldStoreGone, Whole
<1>4. CASE FinishUpgrade
  <2>1. Whole(entry) /\ OldStoreGone
    BY <1>0, <1>4 DEF FinishUpgrade, UpgradeOrder
  <2>2. entry' \in EntryType /\ Whole(entry')
    BY <1>0, <1>4, <2>1 DEF FinishUpgrade, UpgradeTypes, EntryType, Whole
  <2> QED
    BY <1>0, <1>4, <2>1, <2>2
       DEF FinishUpgrade, UpgradeInv, UpgradeTypes, UpgradeOrder, OldStoreGone, Whole
<1> QED
  BY <1>1, <1>2, <1>3, <1>4 DEF Upgrading

\* Removing and replacing mappings keeps every mapping tagged with the site.
LEMMA MappingsKeep ==
  ASSUME UpgradeInv, RemoveMapping \/ ReplaceMappings
  PROVE  UpgradeInv'
<1>0. UpgradeTypes /\ UpgradeOrder
  BY DEF UpgradeInv
<1>1. entry' \in EntryType /\ (Whole(entry) => Whole(entry')) /\ entry'.version = entry.version
  <2>1. CASE RemoveMapping
    <3>1. PICK m \in entry.maps : entry' = [entry EXCEPT !.maps = @ \ {m}, !.tagged = @ \ {m}]
      BY <2>1 DEF RemoveMapping
    <3>2. entry.maps \ {m} \in SUBSET Subs /\ entry.tagged \ {m} \in SUBSET Subs
      BY <1>0 DEF UpgradeTypes, EntryType
    <3> QED
      BY <1>0, <3>1, <3>2 DEF UpgradeTypes, EntryType, Whole
  <2>2. CASE ReplaceMappings
    BY <1>0, <2>2 DEF ReplaceMappings, UpgradeTypes, EntryType, Subs, Whole
  <2> QED
    BY <2>1, <2>2
<1>2. saved' = saved /\ stores' = stores /\ upgrade' = upgrade
  BY DEF RemoveMapping, ReplaceMappings
<1> QED
  BY <1>0, <1>1, <1>2 DEF UpgradeInv, UpgradeTypes, UpgradeOrder, OldStoreGone

\* What is saved late, and what a stop goes back to.
LEMMA DiskKeeps ==
  ASSUME UpgradeInv, Persist \/ Crash
  PROVE  UpgradeInv'
<1>1. CASE Persist
  BY <1>1 DEF Persist, UpgradeInv, UpgradeTypes, UpgradeOrder, OldStoreGone, Whole
<1>2. CASE Crash
  BY <1>2 DEF Crash, UpgradeInv, UpgradeTypes, UpgradeOrder, OldStoreGone, Whole
<1> QED
  BY <1>1, <1>2

LEMMA NextUpgrade == UpgradeInv /\ [Next]_vars => UpgradeInv'
<1> SUFFICES ASSUME UpgradeInv, [Next]_vars
             PROVE  UpgradeInv'
  OBVIOUS
<1>1. CASE Tick \/ Publish \/ Unload \/ UpdateSettings \/ OnTimer \/ RunNow \/ UNCHANGED vars
  BY <1>1, SurroundingsKeep
<1>2. CASE Setup \/ StartRun \/ EndRun \/ ConvertChains
  BY <1>2, RunsKeep
<1>3. CASE Upgrading
  BY <1>3, UpgradingKeeps
<1>4. CASE RemoveMapping \/ ReplaceMappings
  BY <1>4, MappingsKeep
<1>5. CASE Persist \/ Crash
  BY <1>5, DiskKeeps
<1> QED
  BY <1>1, <1>2, <1>3, <1>4, <1>5 DEF Next, Running

\* An entry saved as upgraded is whole, for every set of mappings and every number of
\* stops: wherever the upgrade, or Home Assistant's late save of the entry, is cut off, the
\* version is raised last (async_migrate_to_sites).
THEOREM UpgradeIsWhole == Spec => []UpgradedWhole
<1>1. Init => UpgradeInv
  BY InitUpgrade
<1>2. UpgradeInv /\ [Next]_vars => UpgradeInv'
  BY NextUpgrade
<1>3. UpgradeInv => UpgradedWhole
  BY WholeWhenUpgraded
<1> QED
  BY <1>1, <1>2, <1>3, PTL DEF Spec

-----------------------------------------------------------------------------
(* Types, and what is loaded when *)

Keys == {OldKey(m) : m \in Mappings} \cup {NewKey(m) : m \in Mappings}
ChainMaps == UNION {[K -> Nat] : K \in SUBSET Keys}
StoreType == [exists : BOOLEAN, marker : Nat, lastRun : Statuses, chains : ChainMaps]
ManagerType == [loaded : BOOLEAN, mode : {"full", "recovery"}, status : Statuses, timer : Nat,
                chains : SUBSET Keys]
RunType == [trigger : {"none", "startup", "scheduled", "service"}, final : BOOLEAN, started : Nat]

AccountTypes ==
  /\ now \in 0..(Days * Slots) /\ published \in 0..Days
  /\ entry \in EntryType /\ saved \in EntryType
  /\ entry.tagged \subseteq entry.maps /\ saved.tagged \subseteq saved.maps
  /\ stores \in [{"entry", "site"} -> StoreType]
  /\ upgrade \in {"none", "move", "copied", "moved"}
  /\ manager \in ManagerType
  /\ waiting \in Seq(RunType) /\ run \in RunType
  /\ converting \in BOOLEAN /\ reload \in BOOLEAN /\ issue \in BOOLEAN /\ excused \in BOOLEAN
  /\ reached \in [Mappings \cup {"usage"} -> Nat]
  /\ left \in [Events -> Nat]

\* Runs, conversions and timers belong to a loaded entry, an upgrade to one that is not.
LoadOrder ==
  /\ manager.loaded => entry.version = 2 /\ upgrade = "none"
  /\ manager.timer # 0 => manager.loaded /\ manager.mode = "full"
  /\ waiting # <<>> \/ run # NoRun \/ converting => manager.loaded
  /\ run # NoRun => ~converting
  /\ upgrade # "none" => entry.version = 1

LoadInv == AccountTypes /\ LoadOrder

LEMMA NextAttemptType ==
  ASSUME AccountTypes, NEW mode \in {"full", "recovery"}, NEW status
  PROVE  /\ TimerFor(mode, status) \in Nat
         /\ mode = "recovery" => TimerFor(mode, status) = 0
         /\ mode = "full" => TimerFor(mode, status) > now
<1>1. now \in Nat /\ (status = "waiting") \in BOOLEAN
  BY DEF AccountTypes
<1>2. NextAttempt(now, status = "waiting") > now /\ NextAttempt(now, status = "waiting") \in Nat
  BY <1>1, NextIsFirst DEF AllAttempts, Attempts
<1> QED
  BY <1>1, <1>2 DEF TimerFor

\* The last day that is over is not after the last day of the instance.
LEMMA LastDayType ==
  ASSUME AccountTypes
  PROVE  LastDay \in 0..Days
<1>1. now \in Nat /\ now <= Days * Slots /\ Slots \in Nat /\ Slots > 0 /\ Days \in Nat
  BY AttemptTimesAssumption, AccountAssumption DEF AccountTypes
<1>2. PICK d \in Nat : DayOf(now) = d + 1 /\ d * Slots \in Nat /\ d * Slots <= now
  BY <1>1, DayBegins
<1>3. ~(Days < d)
  BY <1>1, <1>2, LaterDay
<1> QED
  BY <1>1, <1>2, <1>3 DEF LastDay

LEMMA StoresType ==
  ASSUME AccountTypes
  PROVE  /\ Store \in StoreType /\ Store = stores["site"]
         /\ \A s \in StoreType : [stores EXCEPT !["site"] = s] \in [{"entry", "site"} -> StoreType]
BY DEF AccountTypes, Store

LEMMA KeysType ==
  ASSUME NEW subs \in SUBSET Subs
  PROVE  KeysOf(subs) \subseteq Keys
BY DEF KeysOf, Keys, Subs

LEMMA NoStoreType == NoStore \in StoreType /\ DOMAIN NoStore.chains = {}
<1>1. <<>> \in [{} -> Nat]
  OBVIOUS
<1>2. <<>> \in ChainMaps
  BY <1>1 DEF ChainMaps
<1> QED
  BY <1>1, <1>2 DEF NoStore, StoreType, Statuses

LEMMA LoadInit ==
  ASSUME Init
  PROVE  LoadInv
<1>1. PICK version \in {1, 2}, past \in {0, 1} :
        /\ now = past * Slots /\ published = past
        /\ entry = [version |-> version, site |-> version = 2, maps |-> Mappings,
                    tagged |-> IF version = 2 THEN Mappings ELSE {}]
        /\ stores = [entry |-> [StoreOf(past) EXCEPT !.exists = version = 1],
                     site  |-> [NoStore EXCEPT !.exists = version = 2]]
        /\ reached = [m \in Mappings \cup {"usage"} |-> past]
  BY DEF Init
<1>2. now \in 0..(Days * Slots) /\ published \in 0..Days
  <2>1. Slots \in Nat /\ 1 * Slots = Slots /\ 0 * Slots = 0 /\ Days \in Nat /\ Days >= 1
    BY AttemptTimesAssumption, AccountAssumption
  <2>2. Slots <= Days * Slots
    BY <2>1, Z3
  <2> QED
    BY <1>1, <2>1, <2>2
<1>3. StoreOf(past) \in StoreType
  <2>1. [k \in KeysOf(Mappings) |-> past] \in ChainMaps
    BY KeysType DEF ChainMaps, Subs
  <2> QED
    BY <2>1, NoStoreType DEF StoreOf, StoreType, Statuses
<1>4. stores \in [{"entry", "site"} -> StoreType]
  <2>1. \A e \in BOOLEAN, s \in StoreType : [s EXCEPT !.exists = e] \in StoreType
    BY DEF StoreType
  <2>2. (version = 1) \in BOOLEAN /\ (version = 2) \in BOOLEAN
    OBVIOUS
  <2>3. /\ [StoreOf(past) EXCEPT !.exists = version = 1] \in StoreType
        /\ [NoStore EXCEPT !.exists = version = 2] \in StoreType
    BY <1>3, <2>1, <2>2, NoStoreType
  <2> HIDE DEF StoreOf, NoStore
  <2> QED
    BY <1>1, <2>3
<1>5. entry \in EntryType /\ entry.tagged \subseteq entry.maps /\ saved = entry
  BY <1>1 DEF Init, EntryType, Subs
<1>6. manager \in ManagerType /\ run \in RunType /\ waiting \in Seq(RunType)
  BY DEF Init, Unloaded, ManagerType, Statuses, NoRun, RunType
<1>7. /\ upgrade = "none" /\ run = NoRun /\ waiting = <<>> /\ ~converting
      /\ ~manager.loaded /\ manager.timer = 0
  BY DEF Init, Unloaded
<1>8. converting \in BOOLEAN /\ reload \in BOOLEAN /\ issue \in BOOLEAN /\ excused \in BOOLEAN
  BY Zenon DEF Init
<1>9. reached \in [Mappings \cup {"usage"} -> Nat] /\ left \in [Events -> Nat]
  <2>1. left \in [Events -> Nat]
    BY AccountAssumption DEF Init
  <2>2. past \in Nat
    OBVIOUS
  <2> QED
    BY <1>1, <2>1, <2>2
<1> QED
  BY <1>2, <1>4, <1>5, <1>6, <1>7, <1>8, <1>9 DEF LoadInv, AccountTypes, LoadOrder

\* The bounded events only count down.
LEMMA SpendTypes ==
  ASSUME AccountTypes, NEW event \in Events, Spend(event)
  PROVE  left' \in [Events -> Nat] /\ left' = [left EXCEPT ![event] = @ - 1]
BY DEF Spend, AccountTypes

LEMMA SurroundingsLoad ==
  ASSUME LoadInv, Tick \/ Publish \/ Persist
  PROVE  LoadInv'
<1>1. AccountTypes /\ LoadOrder
  BY DEF LoadInv
<1>2. CASE Tick
  <2>1. now' \in 0..(Days * Slots)
    <3>1. Days * Slots \in Nat
      BY AttemptTimesAssumption, AccountAssumption
    <3> QED
      BY <1>1, <1>2, <3>1 DEF Tick, AccountTypes
  <2>2. excused' \in BOOLEAN
    <3>1. (~manager.loaded \/ manager.mode = "recovery") \in BOOLEAN
      OBVIOUS
    <3> QED
      BY <1>1, <1>2, <3>1, Zenon DEF Tick, AccountTypes
  <2>3. UNCHANGED <<published, loadVars, manager, runVars, left>>
    BY <1>2 DEF Tick
  <2> QED
    BY <1>1, <2>1, <2>2, <2>3 DEF LoadInv, AccountTypes, LoadOrder, loadVars, runVars
<1>3. CASE Publish
  <2>1. published' \in 0..Days
    BY <1>1, <1>3, LastDayType, AccountAssumption DEF Publish, AccountTypes
  <2>2. UNCHANGED <<now, loadVars, manager, runVars, excused, left>>
    BY <1>3 DEF Publish
  <2> QED
    BY <1>1, <2>1, <2>2 DEF LoadInv, AccountTypes, LoadOrder, loadVars, runVars
<1>4. CASE Persist
  BY <1>1, <1>4 DEF Persist, LoadInv, AccountTypes, LoadOrder, runVars
<1> QED
  BY <1>2, <1>3, <1>4

LEMMA UpgradingLoad ==
  ASSUME LoadInv, Upgrading
  PROVE  LoadInv'
<1>1. AccountTypes /\ LoadOrder
  BY DEF LoadInv
<1>2. UNCHANGED <<now, published, saved, converting, reload, reached, manager, runVars, excused, left>>
  BY DEF Upgrading, BeginUpgrade, CopyStore, RemoveOldStore, FinishUpgrade
<1>3. stores' \in [{"entry", "site"} -> StoreType]
  <2>1. stores["entry"] \in StoreType
    BY <1>1 DEF AccountTypes
  <2> QED
    BY <1>1, <2>1, NoStoreType
       DEF Upgrading, BeginUpgrade, CopyStore, RemoveOldStore, FinishUpgrade, AccountTypes
<1>4. entry' \in EntryType /\ entry'.tagged \subseteq entry'.maps
  BY <1>1 DEF Upgrading, BeginUpgrade, CopyStore, RemoveOldStore, FinishUpgrade, AccountTypes,
              EntryType
<1>5. /\ upgrade' \in {"none", "move", "copied", "moved"}
      /\ ~manager.loaded /\ (upgrade' # "none" => entry'.version = 1)
  <2>1. upgrade' \in {"none", "move", "copied", "moved"}
    BY DEF Upgrading, BeginUpgrade, CopyStore, RemoveOldStore, FinishUpgrade
  <2>2. ~manager.loaded
    BY <1>1 DEF Upgrading, BeginUpgrade, CopyStore, RemoveOldStore, FinishUpgrade, LoadOrder
  <2>3. upgrade' # "none" => entry'.version = 1
    BY <1>1 DEF Upgrading, BeginUpgrade, CopyStore, RemoveOldStore, FinishUpgrade, LoadOrder,
                AccountTypes, EntryType
  <2> QED
    BY <2>1, <2>2, <2>3
<1>6. AccountTypes'
  BY <1>1, <1>2, <1>3, <1>4, <1>5 DEF AccountTypes, runVars
<1>7. LoadOrder'
  <2>1. manager' = manager /\ waiting' = waiting /\ run' = run /\ (converting' <=> converting)
    BY <1>2 DEF runVars
  <2> QED
    BY <1>1, <1>5, <2>1 DEF LoadOrder
<1> QED
  BY <1>6, <1>7 DEF LoadInv

\* A record of the manager with other fields.
LEMMA ManagerTypes ==
  ASSUME NEW m \in ManagerType
  PROVE  /\ \A status \in Statuses : [m EXCEPT !.status = status] \in ManagerType
         /\ \A timer \in Nat : [m EXCEPT !.timer = timer] \in ManagerType
         /\ \A mode \in {"full", "recovery"}, timer \in Nat :
              [m EXCEPT !.mode = mode, !.timer = timer] \in ManagerType
         /\ \A status \in Statuses, timer \in Nat :
              [m EXCEPT !.status = status, !.timer = timer] \in ManagerType
         /\ [m EXCEPT !.chains = {}] \in ManagerType
         /\ [Unloaded EXCEPT !.mode = m.mode] \in ManagerType
BY DEF ManagerType, Unloaded, Statuses

LEMMA RunTypes ==
  /\ NoRun \in RunType
  /\ \A r \in RunType, time \in Nat : [r EXCEPT !.started = time] \in RunType
  /\ Asked("startup", FALSE) \in RunType /\ Asked("service", FALSE) \in RunType
  /\ \A final \in BOOLEAN : Asked("scheduled", final) \in RunType
BY DEF NoRun, RunType, Asked

LEMMA SetupLoad ==
  ASSUME LoadInv, Setup
  PROVE  LoadInv'
<1>1. AccountTypes /\ LoadOrder
  BY DEF LoadInv
<1> DEFINE kept == {k \in DOMAIN Store.chains : k[1] \in entry.maps}
           new == [stores["site"] EXCEPT !.exists = TRUE, !.chains = [k \in kept |-> Store.chains[k]]]
<1>2. new \in StoreType
  <2>1. PICK K \in SUBSET Keys : Store.chains \in [K -> Nat]
    BY <1>1, StoresType DEF StoreType, ChainMaps
  <2>2. [k \in kept |-> Store.chains[k]] \in [kept -> Nat] /\ kept \in SUBSET Keys
    BY <2>1
  <2>3. [k \in kept |-> Store.chains[k]] \in ChainMaps
    BY <2>2 DEF ChainMaps
  <2> HIDE DEF kept
  <2> QED
    BY <1>1, <2>3, StoresType DEF StoreType
<1>3. stores' = [stores EXCEPT !["site"] = new]
  BY DEF Setup
<1> HIDE DEF new
<1>4. stores' \in [{"entry", "site"} -> StoreType]
  BY <1>1, <1>2, <1>3, StoresType
<1>5. manager' \in ManagerType /\ manager'.loaded /\ manager'.mode = manager.mode
      /\ (manager'.timer # 0 => manager'.mode = "full")
  <2>1. KeysOf(entry.maps) \subseteq Keys /\ Store.lastRun \in Statuses
        /\ manager.mode \in {"full", "recovery"}
    BY <1>1, KeysType, StoresType DEF AccountTypes, EntryType, StoreType, ManagerType
  <2>2. /\ TimerFor(manager.mode, Store.lastRun) \in Nat
        /\ manager.mode = "recovery" => TimerFor(manager.mode, Store.lastRun) = 0
    BY <1>1, <2>1, NextAttemptType
  <2>3. manager' = [loaded |-> TRUE, mode |-> manager.mode, status |-> Store.lastRun,
                    timer |-> TimerFor(manager.mode, Store.lastRun), chains |-> KeysOf(entry.maps)]
    BY DEF Setup
  <2> QED
    BY <2>1, <2>2, <2>3 DEF ManagerType
<1>6. waiting' \in Seq(RunType)
  <2>1. waiting' = <<>> \/ waiting' = <<Asked("startup", FALSE)>>
    BY DEF Setup
  <2>2. ASSUME NEW r \in RunType
        PROVE  <<r>> \in Seq(RunType)
    OBVIOUS
  <2>3. Asked("startup", FALSE) \in RunType
    BY RunTypes
  <2>4. <<Asked("startup", FALSE)>> \in Seq(RunType)
    BY <2>2, <2>3, Zenon
  <2>5. <<>> \in Seq(RunType)
    OBVIOUS
  <2> QED
    BY <2>1, <2>4, <2>5, Zenon
<1>7. /\ UNCHANGED <<now, published, entry, saved, upgrade, converting, reached, run, issue, left>>
      /\ reload' \in BOOLEAN /\ excused' \in BOOLEAN /\ upgrade = "none" /\ entry.version = 2
      /\ ~manager.loaded
  BY DEF Setup
<1>8. AccountTypes'
  BY <1>1, <1>4, <1>5, <1>6, <1>7 DEF AccountTypes
<1>9. LoadOrder'
  BY <1>1, <1>5, <1>7 DEF LoadOrder
<1> QED
  BY <1>8, <1>9 DEF LoadInv

LEMMA SettingsLoad ==
  ASSUME LoadInv, Unload \/ UpdateSettings \/ RemoveMapping
  PROVE  LoadInv'
<1>1. AccountTypes /\ LoadOrder
  BY DEF LoadInv
<1>2. left' \in [Events -> Nat]
  BY <1>1, SpendTypes DEF Unload, UpdateSettings, RemoveMapping, Events, AccountTypes
<1>3. CASE Unload
  <2>1. manager' \in ManagerType /\ ~manager'.loaded /\ manager'.timer = 0
    BY <1>1, <1>3, ManagerTypes DEF Unload, AccountTypes, Unloaded
  <2>2. /\ UNCHANGED <<now, published, loadVars, issue>> /\ ~converting
        /\ waiting' = <<>> /\ run' = NoRun /\ excused' = TRUE
    BY <1>3 DEF Unload
  <2> QED
    BY <1>1, <1>2, <2>1, <2>2, RunTypes DEF LoadInv, AccountTypes, LoadOrder, loadVars
<1>4. CASE UpdateSettings
  <2>1. PICK mode \in {"full", "recovery"} : manager' = WithMode(mode)
    BY <1>4 DEF UpdateSettings
  <2>2. manager \in ManagerType /\ TimerFor(mode, manager.status) \in Nat
        /\ (mode = "recovery" => TimerFor(mode, manager.status) = 0)
    BY <1>1, NextAttemptType DEF AccountTypes
  <2>3. manager' \in ManagerType
    BY <2>1, <2>2, ManagerTypes DEF WithMode
  <2>4. manager'.loaded = manager.loaded /\ (manager'.timer # 0 => manager'.mode = "full")
    BY <2>1, <2>2 DEF WithMode, ManagerType
  <2>5. /\ UNCHANGED <<now, published, loadVars, runVars>>
        /\ excused' = TRUE /\ manager.loaded
    BY <1>4 DEF UpdateSettings
  <2> QED
    BY <1>1, <1>2, <2>3, <2>4, <2>5 DEF LoadInv, AccountTypes, LoadOrder, loadVars, runVars
<1>5. CASE RemoveMapping
  <2>1. PICK m \in entry.maps : entry' = [entry EXCEPT !.maps = @ \ {m}, !.tagged = @ \ {m}]
    BY <1>5 DEF RemoveMapping
  <2>2. entry' \in EntryType /\ entry'.tagged \subseteq entry'.maps /\ entry'.version = entry.version
    BY <1>1, <2>1 DEF AccountTypes, EntryType
  <2>3. /\ UNCHANGED <<now, published, saved, stores, upgrade, converting, reached, manager,
                       runVars, excused>>
        /\ reload' = TRUE
    BY <1>5 DEF RemoveMapping
  <2> QED
    BY <1>1, <1>2, <2>2, <2>3 DEF LoadInv, AccountTypes, LoadOrder, runVars
<1> QED
  BY <1>3, <1>4, <1>5

LEMMA AppendType ==
  ASSUME AccountTypes, NEW r \in RunType
  PROVE  Append(waiting, r) \in Seq(RunType) /\ Append(waiting, r) # <<>>
BY DEF AccountTypes

LEMMA AskingLoads ==
  ASSUME LoadInv, OnTimer \/ RunNow
  PROVE  LoadInv'
<1>1. AccountTypes /\ LoadOrder
  BY DEF LoadInv
<1>2. manager.loaded
  BY <1>1 DEF OnTimer, RunNow, Due, LoadOrder
<1>3. left' \in [Events -> Nat]
  BY <1>1, SpendTypes DEF OnTimer, RunNow, Events, AccountTypes
<1>4. waiting' \in Seq(RunType)
  <2>1. IsFinal(manager.timer) \in BOOLEAN
    BY DEF IsFinal
  <2>2. waiting' \in {waiting, Append(waiting, Asked("scheduled", IsFinal(manager.timer))),
                      Append(waiting, Asked("service", FALSE))}
    BY DEF OnTimer, RunNow
  <2> QED
    BY <1>1, <2>1, <2>2, AppendType, RunTypes DEF AccountTypes
<1>5. /\ manager' \in ManagerType /\ manager'.loaded
      /\ (manager'.timer # 0 => manager'.mode = "full")
  <2>1. CASE OnTimer
    <3>1. /\ manager \in ManagerType /\ TimerFor(manager.mode, manager.status) \in Nat
          /\ (manager.mode = "recovery" => TimerFor(manager.mode, manager.status) = 0)
      BY <1>1, NextAttemptType DEF AccountTypes, ManagerType
    <3>2. manager' = [manager EXCEPT !.timer = TimerFor(manager.mode, manager.status)]
      BY <2>1 DEF OnTimer
    <3>3. manager' \in ManagerType
      BY <3>1, <3>2, ManagerTypes
    <3> QED
      BY <1>2, <3>1, <3>2, <3>3 DEF ManagerType
  <2>2. CASE RunNow
    BY <1>1, <1>2, <2>2 DEF RunNow, AccountTypes, LoadOrder
  <2> QED
    BY <2>1, <2>2
<1>6. UNCHANGED <<now, published, loadVars, run, excused>> /\ issue' \in BOOLEAN
  <2>1. UNCHANGED <<now, published, loadVars, run, excused>>
    BY DEF OnTimer, RunNow
  <2>2. issue' \in BOOLEAN
    BY <1>1, Zenon DEF OnTimer, RunNow, AccountTypes
  <2> QED
    BY <2>1, <2>2
<1>7. AccountTypes'
  BY <1>1, <1>3, <1>4, <1>5, <1>6 DEF AccountTypes, loadVars
<1>8. LoadOrder'
  BY <1>1, <1>2, <1>5, <1>6 DEF LoadOrder, loadVars
<1> QED
  BY <1>7, <1>8 DEF LoadInv

LEMMA StartRunLoads ==
  ASSUME LoadInv, StartRun
  PROVE  LoadInv'
<1>1. AccountTypes /\ LoadOrder
  BY DEF LoadInv
<1>2. Head(waiting) \in RunType /\ Tail(waiting) \in Seq(RunType) /\ manager.loaded /\ ~converting
  BY <1>1 DEF StartRun, AccountTypes, LoadOrder, LockFree
<1>3. run' \in RunType /\ waiting' \in Seq(RunType)
  BY <1>1, <1>2, RunTypes DEF StartRun, AccountTypes
<1>4. /\ manager' \in ManagerType /\ manager'.loaded /\ manager'.mode = manager.mode
      /\ manager'.timer = manager.timer
  <2>1. manager' = [manager EXCEPT !.status = "running"] /\ manager \in ManagerType
    BY <1>1 DEF StartRun, AccountTypes
  <2>2. manager' \in ManagerType
    BY <2>1, ManagerTypes DEF Statuses
  <2> QED
    BY <1>2, <2>1, <2>2 DEF ManagerType
<1>5. stores' \in [{"entry", "site"} -> StoreType]
  <2>1. [stores["site"] EXCEPT !.lastRun = "running"] \in StoreType
    BY <1>1, StoresType DEF StoreType, Statuses
  <2>2. stores' = [stores EXCEPT !["site"] = [stores["site"] EXCEPT !.lastRun = "running"]]
    BY DEF StartRun
  <2> QED
    BY <1>1, <2>1, <2>2, StoresType
<1>6. UNCHANGED <<now, published, entry, saved, upgrade, converting, reload, reached, issue,
                  excused, left>>
  BY DEF StartRun
<1>7. AccountTypes'
  <2>1. /\ now \in 0..(Days * Slots) /\ published \in 0..Days
        /\ entry \in EntryType /\ saved \in EntryType
        /\ entry.tagged \subseteq entry.maps /\ saved.tagged \subseteq saved.maps
        /\ upgrade \in {"none", "move", "copied", "moved"}
        /\ converting \in BOOLEAN /\ reload \in BOOLEAN /\ issue \in BOOLEAN /\ excused \in BOOLEAN
        /\ reached \in [Mappings \cup {"usage"} -> Nat]
        /\ left \in [Events -> Nat]
    BY <1>1 DEF AccountTypes
  <2> QED
    BY <1>3, <1>4, <1>5, <1>6, <2>1 DEF AccountTypes
<1>8. LoadOrder'
  BY <1>1, <1>2, <1>4, <1>6 DEF LoadOrder
<1> QED
  BY <1>7, <1>8 DEF LoadInv

\* The chains after a run: those it wrote are at the last published day.
LEMMA WrittenChains ==
  ASSUME AccountTypes, NEW wrote \in SUBSET Keys
  PROVE  LET chains == Brought(Store.chains, wrote, published) IN
         /\ chains \in ChainMaps
         /\ DOMAIN chains = wrote \cup DOMAIN Store.chains
         /\ \A k \in wrote : chains[k] = published
         /\ \A k \in DOMAIN Store.chains \ wrote : chains[k] = Store.chains[k]
<1> DEFINE chains == Brought(Store.chains, wrote, published)
<1>1. PICK K \in SUBSET Keys : Store.chains \in [K -> Nat]
  BY StoresType DEF StoreType, ChainMaps
<1>2. chains = [k \in wrote \cup K |-> IF k \in wrote THEN published ELSE Store.chains[k]]
  BY <1>1 DEF Brought
<1>3. published \in Nat
  BY DEF AccountTypes
<1> HIDE DEF chains
<1>4. chains \in [wrote \cup K -> Nat] /\ wrote \cup K \in SUBSET Keys
  BY <1>1, <1>2, <1>3
<1> QED
  BY <1>1, <1>2, <1>4 DEF ChainMaps, chains

LEMMA OutcomeType ==
  ASSUME NEW ok, NEW marker, NEW chains
  PROVE  Outcome(ok, marker, chains) \in Statuses
BY DEF Outcome, Statuses

LEMMA EndRunLoads ==
  ASSUME LoadInv, EndRun
  PROVE  LoadInv'
<1>1. AccountTypes /\ LoadOrder
  BY DEF LoadInv
<1>2. PICK ok \in BOOLEAN, marker \in Store.marker..published, wrote \in SUBSET manager.chains :
        LET whole  == ok /\ wrote = manager.chains
            chains == Brought(Store.chains, wrote, published)
            status == Outcome(ok, marker, chains) IN
        /\ whole \/ left["fail"] > 0
        /\ left' = IF whole THEN left ELSE [left EXCEPT !["fail"] = @ - 1]
        /\ manager.mode = "recovery" => marker = Store.marker
        /\ ok /\ manager.mode = "full" => marker = published
        /\ stores' = [stores EXCEPT !["site"] =
             [@ EXCEPT !.marker = marker, !.lastRun = status, !.chains = chains]]
        /\ reached' = [m \in DOMAIN reached |->
             IF m = "usage" THEN marker
             ELSE IF \E k \in wrote : MappingOf(k) = m THEN published ELSE reached[m]]
        /\ manager' = [manager EXCEPT !.status = status, !.timer = TimerAfter(status)]
        /\ issue' = (~CaughtUpWith(marker, chains) /\ (issue \/ StaysFinal(status)))
        /\ excused' = (excused \/ Disturbs(status, CaughtUpWith(marker, chains)))
  BY Zenon DEF EndRun
<1> DEFINE chains == Brought(Store.chains, wrote, published)
           status == Outcome(ok, marker, chains)
<1>3. manager.loaded /\ ~converting /\ run' = NoRun
  <2>1. run # NoRun /\ run' = NoRun
    BY DEF EndRun
  <2> QED
    BY <1>1, <2>1 DEF LoadOrder
<1>4. chains \in ChainMaps /\ status \in Statuses /\ marker \in Nat
  <2>1. wrote \in SUBSET Keys
    BY <1>1 DEF AccountTypes, ManagerType
  <2>2. Store.marker \in Nat /\ published \in Nat
    BY <1>1, StoresType DEF AccountTypes, StoreType
  <2>3. chains \in ChainMaps
    BY <1>1, <2>1, WrittenChains
  <2>4. status \in Statuses
    BY OutcomeType
  <2>5. marker \in Nat
    BY <2>2
  <2> QED
    BY <2>3, <2>4, <2>5
<1>5. stores' \in [{"entry", "site"} -> StoreType]
  <2> DEFINE new == [stores["site"] EXCEPT !.marker = marker, !.lastRun = status, !.chains = chains]
  <2>1. new \in StoreType
    <3> HIDE DEF chains, status
    <3> QED
      BY <1>1, <1>4, StoresType DEF StoreType
  <2>2. stores' = [stores EXCEPT !["site"] = new]
    BY <1>2
  <2> HIDE DEF new
  <2> QED
    BY <1>1, <2>1, <2>2, StoresType
<1>6. TimerAfter(status) \in Nat /\ (TimerAfter(status) # 0 => manager.mode = "full")
  BY <1>1, NextAttemptType DEF TimerAfter, AccountTypes, ManagerType, LoadOrder
<1>7. /\ manager' \in ManagerType /\ manager'.loaded /\ (manager'.timer # 0 => manager'.mode = "full")
  <2> HIDE DEF status
  <2>1. manager' = [manager EXCEPT !.status = status, !.timer = TimerAfter(status)]
    BY <1>2 DEF status
  <2>2. manager \in ManagerType
    BY <1>1 DEF AccountTypes
  <2>3. manager' \in ManagerType
    BY <1>4, <1>6, <2>1, <2>2, ManagerTypes
  <2> QED
    BY <1>3, <1>6, <2>1, <2>2, <2>3 DEF ManagerType
<1>8. issue' \in BOOLEAN /\ excused' \in BOOLEAN
  <2>1. issue' \in BOOLEAN
    BY <1>2, Zenon
  <2>2. excused' \in BOOLEAN
    BY <1>2, Zenon
  <2> QED
    BY <2>1, <2>2
<1>9. reached' \in [Mappings \cup {"usage"} -> Nat]
  <2>1. published \in Nat /\ reached \in [Mappings \cup {"usage"} -> Nat]
    BY <1>1 DEF AccountTypes
  <2> QED
    BY <1>2, <1>4, <2>1
<1>10. left' \in [Events -> Nat]
  <2>1. left \in [Events -> Nat] /\ "fail" \in Events
    BY <1>1 DEF AccountTypes, Events
  <2> QED
    BY <1>2, <2>1
<1>11. /\ UNCHANGED <<now, published, entry, saved, upgrade, converting, reload, waiting>>
       /\ run' \in RunType
  BY RunTypes DEF EndRun
<1>12. AccountTypes'
  <2>1. /\ now \in 0..(Days * Slots) /\ published \in 0..Days
        /\ entry \in EntryType /\ saved \in EntryType
        /\ entry.tagged \subseteq entry.maps /\ saved.tagged \subseteq saved.maps
        /\ upgrade \in {"none", "move", "copied", "moved"}
        /\ converting \in BOOLEAN /\ reload \in BOOLEAN /\ waiting \in Seq(RunType)
    BY <1>1 DEF AccountTypes
  <2> QED
    BY <1>5, <1>7, <1>8, <1>9, <1>10, <1>11, <2>1 DEF AccountTypes
<1>13. LoadOrder'
  BY <1>1, <1>3, <1>7, <1>11 DEF LoadOrder
<1> QED
  BY <1>12, <1>13 DEF LoadInv

\* The chains of a conversion: those of the mappings, under their new keys.
Moved(chains) ==
  LET moved(k) == IF k[1] \in Mappings THEN NewKey(k[1]) ELSE k IN
  [k \in {moved(o) : o \in DOMAIN chains} |->
     chains[CHOOSE o \in DOMAIN chains : moved(o) = k]]

LEMMA MovedType ==
  ASSUME NEW chains \in ChainMaps
  PROVE  Moved(chains) \in ChainMaps
<1> DEFINE moved(k) == IF k[1] \in Mappings THEN NewKey(k[1]) ELSE k
           K == {moved(o) : o \in DOMAIN chains}
<1>1. PICK D \in SUBSET Keys : chains \in [D -> Nat]
  BY DEF ChainMaps
<1>2. \A k \in Keys : moved(k) \in Keys
  BY DEF Keys, NewKey, OldKey
<1>3. K \in SUBSET Keys
  BY <1>1, <1>2
<1>4. \A k \in K : chains[CHOOSE o \in DOMAIN chains : moved(o) = k] \in Nat
  BY <1>1
<1>5. Moved(chains) \in [K -> Nat]
  BY <1>4 DEF Moved
<1> HIDE DEF K
<1> QED
  BY <1>3, <1>5 DEF ChainMaps

LEMMA ConversionLoads ==
  ASSUME LoadInv, ConvertChains \/ ReplaceMappings
  PROVE  LoadInv'
<1>1. AccountTypes /\ LoadOrder
  BY DEF LoadInv
<1>2. CASE ConvertChains
  <2>1. stores' = [stores EXCEPT !["site"] = [stores["site"] EXCEPT !.chains = Moved(Store.chains)]]
    BY <1>2 DEF ConvertChains, Moved
  <2>2. [stores["site"] EXCEPT !.chains = Moved(Store.chains)] \in StoreType
    BY <1>1, StoresType, MovedType DEF StoreType
  <2>3. stores' \in [{"entry", "site"} -> StoreType]
    BY <1>1, <2>1, <2>2, StoresType
  <2>4. manager' = [manager EXCEPT !.chains = {}] /\ manager \in ManagerType
    BY <1>1, <1>2 DEF ConvertChains, ChainsAfterConversion, AccountTypes
  <2>5. manager' \in ManagerType
    BY <2>4, ManagerTypes
  <2>6. manager'.loaded = manager.loaded /\ manager'.timer = manager.timer /\ manager'.mode = manager.mode
    BY <2>4 DEF ManagerType
  <2>7. left' \in [Events -> Nat]
    BY <1>1, <1>2, SpendTypes DEF ConvertChains, Events
  <2>8. /\ UNCHANGED <<now, published, entry, saved, upgrade, reload, reached, waiting, run, issue>>
        /\ converting' \in BOOLEAN /\ excused' \in BOOLEAN /\ run = NoRun /\ manager.loaded
    BY <1>2 DEF ConvertChains, LockFree, runVars
  <2>9. AccountTypes'
    <3>1. /\ now \in 0..(Days * Slots) /\ published \in 0..Days
          /\ entry \in EntryType /\ saved \in EntryType
          /\ entry.tagged \subseteq entry.maps /\ saved.tagged \subseteq saved.maps
          /\ upgrade \in {"none", "move", "copied", "moved"}
          /\ waiting \in Seq(RunType) /\ run \in RunType /\ reload \in BOOLEAN /\ issue \in BOOLEAN
          /\ reached \in [Mappings \cup {"usage"} -> Nat]
      BY <1>1 DEF AccountTypes
    <3> QED
      BY <2>3, <2>5, <2>7, <2>8, <3>1 DEF AccountTypes
  <2>10. LoadOrder'
    BY <1>1, <2>6, <2>8 DEF LoadOrder
  <2> QED
    BY <2>9, <2>10 DEF LoadInv
<1>3. CASE ReplaceMappings
  <2>1. entry' = [entry EXCEPT !.maps = {Grid}, !.tagged = {Grid}]
    BY <1>3 DEF ReplaceMappings
  <2>2. entry' \in EntryType /\ entry'.tagged \subseteq entry'.maps /\ entry'.version = entry.version
    BY <1>1, <2>1 DEF AccountTypes, EntryType, Subs
  <2>3. /\ UNCHANGED <<now, published, saved, stores, upgrade, reached, manager, runVars, excused, left>>
        /\ ~converting' /\ converting' \in BOOLEAN /\ reload' \in BOOLEAN
    BY <1>3 DEF ReplaceMappings
  <2> QED
    BY <1>1, <2>2, <2>3 DEF LoadInv, AccountTypes, LoadOrder, runVars
<1> QED
  BY <1>2, <1>3

LEMMA CrashLoads ==
  ASSUME LoadInv, Crash
  PROVE  LoadInv'
<1>1. AccountTypes /\ LoadOrder
  BY DEF LoadInv
<1>2. manager' \in ManagerType /\ ~manager'.loaded /\ manager'.timer = 0
  BY <1>1, ManagerTypes DEF Crash, AccountTypes, Unloaded
<1>3. left' \in [Events -> Nat]
  BY <1>1, SpendTypes DEF Crash, Events
<1>4. /\ UNCHANGED <<now, published, saved, stores, reached>>
      /\ entry' = saved /\ upgrade' = "none" /\ waiting' = <<>> /\ run' = NoRun
      /\ ~converting' /\ converting' \in BOOLEAN /\ reload' \in BOOLEAN
      /\ issue' \in BOOLEAN /\ excused' \in BOOLEAN
  BY DEF Crash
<1>5. waiting' \in Seq(RunType) /\ run' \in RunType
  BY <1>4, RunTypes
<1>6. AccountTypes'
  BY <1>1, <1>2, <1>3, <1>4, <1>5 DEF AccountTypes
<1>7. LoadOrder'
  BY <1>2, <1>4 DEF LoadOrder
<1> QED
  BY <1>6, <1>7 DEF LoadInv

LEMMA LoadStep ==
  ASSUME LoadInv, [Next]_vars
  PROVE  LoadInv'
<1>1. CASE UNCHANGED vars
  BY <1>1 DEF vars, loadVars, runVars, LoadInv, AccountTypes, LoadOrder
<1>2. CASE Next
  BY <1>2, SurroundingsLoad, UpgradingLoad, SetupLoad, SettingsLoad, AskingLoads, StartRunLoads,
     EndRunLoads, ConversionLoads, CrashLoads DEF Next, Running
<1> QED
  BY <1>1, <1>2

\* Type correctness, and with it: what runs, waits or is scheduled belongs to a loaded entry
\* of version 2, and a run and a conversion never hold the lock at once.
THEOREM AccountTypeCorrect == Spec => []TypeOK
<1>1. Init => LoadInv
  BY LoadInit
<1>2. LoadInv /\ [Next]_vars => LoadInv'
  BY LoadStep
<1>3. LoadInv => TypeOK
  <2> SUFFICES ASSUME LoadInv
               PROVE  TypeOK
    OBVIOUS
  <2>1. AccountTypes /\ LoadOrder
    BY DEF LoadInv
  <2>2. \A key \in DOMAIN stores : stores[key].lastRun \in Statuses
    BY <2>1 DEF AccountTypes, StoreType
  <2>3. /\ entry.maps \subseteq Mappings \cup {Grid} /\ entry.version \in {1, 2}
        /\ saved.version \in {1, 2} /\ manager.status \in Statuses
    BY <2>1 DEF AccountTypes, EntryType, Subs, ManagerType
  <2> QED
    BY <2>1, <2>2, <2>3 DEF TypeOK, AccountTypes, LoadOrder
<1> QED
  BY <1>1, <1>2, <1>3, PTL DEF Spec

-----------------------------------------------------------------------------
(* The timer *)

ArmedInv == LoadInv /\ ArmedForNextAttempt

\* A timer set now is set for the next attempt.
LEMMA SetTimerArms ==
  ASSUME AccountTypes, NEW status
  PROVE  /\ TimerFor("full", status) > now /\ TimerFor("full", status) \in Nat
         /\ TimerFor("full", status) <= NextAttempt(now, FALSE)
         /\ status = "waiting" => TimerFor("full", status) = NextAttempt(now, TRUE)
<1> DEFINE plain == NextAttempt(now, FALSE)
           retry == NextAttempt(now, TRUE)
           timer == TimerFor("full", status)
<1>1. now \in Nat
  BY DEF AccountTypes
<1>2. plain \in Nat /\ plain > now
  BY <1>1, NextIsFirst DEF AllAttempts, Attempts
<1>3. plain \in AllAttempts(TRUE)
  BY <1>1, NextIsFirst DEF AllAttempts, Attempts
<1>4. retry \in Nat /\ retry > now /\ retry <= plain
  BY <1>1, <1>2, <1>3, NextIsFirst DEF AllAttempts, Attempts
<1>5. ASSUME status = "waiting"
      PROVE  timer = retry
  <2>1. (status = "waiting") = TRUE
    BY <1>5
  <2> QED
    BY <2>1 DEF TimerFor
<1>6. ASSUME status # "waiting"
      PROVE  timer = plain
  <2>1. (status = "waiting") = FALSE
    BY <1>6
  <2> QED
    BY <2>1 DEF TimerFor
<1> HIDE DEF plain, retry, timer
<1>7. /\ timer > now /\ timer \in Nat /\ timer <= plain
      /\ status = "waiting" => timer = retry
  BY <1>1, <1>2, <1>4, <1>5, <1>6
<1> QED
  BY <1>7 DEF plain, retry, timer

\* While an attempt is still to come, the next one does not change with time.
LEMMA NextStaysNext ==
  ASSUME NEW time \in Nat, NEW evening \in BOOLEAN
  PROVE  /\ NextAttempt(time, evening) <= NextAttempt(time + 1, evening)
         /\ NextAttempt(time, evening) > time + 1
              => NextAttempt(time + 1, evening) = NextAttempt(time, evening)
<1> DEFINE next == NextAttempt(time, evening)
           later == NextAttempt(time + 1, evening)
<1>1. /\ next \in AllAttempts(evening) /\ next > time
      /\ \A t \in AllAttempts(evening) : t > time => next <= t
  BY NextIsFirst
<1>2. /\ later \in AllAttempts(evening) /\ later > time + 1
      /\ \A t \in AllAttempts(evening) : t > time + 1 => later <= t
  BY NextIsFirst
<1>3. next \in Nat /\ later \in Nat
  BY <1>1, <1>2 DEF AllAttempts, Attempts
<1> HIDE DEF next, later
<1>4. next <= later
  BY <1>1, <1>2, <1>3
<1>5. next > time + 1 => later = next
  BY <1>1, <1>2, <1>3, <1>4
<1> QED
  BY <1>4, <1>5 DEF next, later

\* With the same clock, a timer that is kept or set now stays armed; so does one of a manager
\* that is not loaded or does not schedule.
LEMMA StaysArmed ==
  ASSUME ArmedInv, LoadInv', now' = now,
         \/ /\ manager'.mode = manager.mode /\ manager'.timer = manager.timer
            /\ manager'.loaded => manager.loaded
            /\ manager'.status = "waiting" => manager.status = "waiting"
         \/ \E status : /\ manager'.timer = TimerFor(manager'.mode, status)
                        /\ manager'.status = "waiting" => status = "waiting"
         \/ ~manager'.loaded
  PROVE  ArmedForNextAttempt'
<1>1. AccountTypes /\ now \in Nat /\ manager.timer \in Nat /\ manager'.timer \in Nat
  BY DEF ArmedInv, LoadInv, AccountTypes, ManagerType
<1>2. CASE /\ manager'.mode = manager.mode /\ manager'.timer = manager.timer
           /\ manager'.loaded => manager.loaded
           /\ manager'.status = "waiting" => manager.status = "waiting"
  BY <1>2 DEF ArmedInv, ArmedForNextAttempt, Due
<1>3. ASSUME NEW status, manager'.timer = TimerFor(manager'.mode, status),
             manager'.status = "waiting" => status = "waiting"
      PROVE  ArmedForNextAttempt'
  <2>1. CASE manager'.mode = "full"
    <3>1. /\ manager'.timer > now /\ manager'.timer <= NextAttempt(now, FALSE)
          /\ status = "waiting" => manager'.timer = NextAttempt(now, TRUE)
      BY <1>1, <1>3, <2>1, SetTimerArms
    <3>2. manager'.timer # 0
      BY <1>1, <3>1
    <3>3. NextAttempt(now, FALSE)' = NextAttempt(now, FALSE)
      BY DEF NextAttempt, AttemptsOn, DayOf
    <3>4. NextAttempt(now, TRUE)' = NextAttempt(now, TRUE)
      BY DEF NextAttempt, AttemptsOn, DayOf
    <3> QED
      BY <1>3, <3>1, <3>2, <3>3, <3>4 DEF ArmedForNextAttempt
  <2>2. CASE manager'.mode # "full"
    BY <2>2 DEF ArmedForNextAttempt
  <2> QED
    BY <2>1, <2>2
<1>4. CASE ~manager'.loaded
  BY <1>4 DEF ArmedForNextAttempt
<1> QED
  BY <1>2, <1>3, <1>4

LEMMA TickArmed ==
  ASSUME ArmedInv, Tick
  PROVE  ArmedForNextAttempt'
<1> DEFINE plain == NextAttempt(now, FALSE)
           retry == NextAttempt(now, TRUE)
           plain2 == NextAttempt(now + 1, FALSE)
           retry2 == NextAttempt(now + 1, TRUE)
<1>1. now \in Nat /\ manager.timer \in Nat
  BY DEF ArmedInv, LoadInv, AccountTypes, ManagerType
<1>2. now' = now + 1 /\ manager' = manager
  BY DEF Tick
<1>3. ~Due
  BY DEF Tick, MayPass
<1>4. manager.loaded /\ manager.mode = "full" =>
        /\ manager.timer # 0 /\ manager.timer <= plain
        /\ manager.status = "waiting" => manager.timer = retry
  BY <1>3 DEF ArmedInv, ArmedForNextAttempt
<1>5. now + 1 \in Nat
  BY <1>1
<1>6. plain <= plain2 /\ (retry > now + 1 => retry2 = retry)
  BY <1>1, NextStaysNext
<1>7. plain \in Nat /\ plain2 \in Nat
  BY <1>1, <1>5, NextIsFirst DEF AllAttempts, Attempts
<1>8. NextAttempt(now, FALSE)' = plain2 /\ NextAttempt(now, TRUE)' = retry2
  BY <1>2 DEF NextAttempt, AttemptsOn, DayOf
<1>9. Due' <=> manager.timer # 0 /\ manager.timer <= now + 1
  BY <1>2 DEF Due
<1> HIDE DEF plain, retry, plain2, retry2
<1>10. manager.loaded /\ manager.mode = "full" =>
         /\ manager.timer # 0
         /\ ~(manager.timer <= now + 1) => manager.timer <= plain2
         /\ ~(manager.timer <= now + 1) /\ manager.status = "waiting" => manager.timer = retry2
  BY <1>1, <1>4, <1>6, <1>7
<1> QED
  BY <1>2, <1>8, <1>9, <1>10 DEF ArmedForNextAttempt, plain2, retry2

LEMMA ArmedNext ==
  ASSUME ArmedInv, [Next]_vars
  PROVE  ArmedInv'
<1>1. LoadInv' /\ AccountTypes /\ manager \in ManagerType
  BY LoadStep DEF ArmedInv, LoadInv, AccountTypes
<1>2. CASE Tick
  BY <1>1, <1>2, TickArmed DEF ArmedInv
<1>3. CASE Publish \/ Persist \/ Upgrading \/ RemoveMapping \/ ReplaceMappings \/ RunNow \/ UNCHANGED vars
  <2>1. now' = now /\ manager' = manager
    BY <1>3 DEF Publish, Persist, Upgrading, BeginUpgrade, CopyStore, RemoveOldStore, FinishUpgrade,
                RemoveMapping, ReplaceMappings, RunNow, vars
  <2> QED
    BY <1>1, <2>1, StaysArmed DEF ArmedInv
<1>4. CASE Setup
  <2>1. /\ now' = now /\ manager'.mode = manager.mode
        /\ manager'.timer = TimerFor(manager.mode, Store.lastRun) /\ manager'.status = Store.lastRun
    BY <1>4 DEF Setup
  <2> QED
    BY <1>1, <2>1, StaysArmed DEF ArmedInv
<1>5. CASE Unload \/ Crash
  <2>1. now' = now /\ ~manager'.loaded
    BY <1>1, <1>5 DEF Unload, Crash, Unloaded
  <2> QED
    BY <1>1, <2>1, StaysArmed DEF ArmedInv
<1>6. CASE UpdateSettings
  <2>1. PICK mode : manager' = WithMode(mode)
    BY <1>6 DEF UpdateSettings
  <2>2. /\ now' = now /\ manager'.mode = mode /\ manager'.status = manager.status
        /\ manager'.timer = TimerFor(mode, manager.status)
    BY <1>1, <1>6, <2>1 DEF UpdateSettings, WithMode, ManagerType
  <2> QED
    BY <1>1, <2>2, StaysArmed DEF ArmedInv
<1>7. CASE OnTimer
  <2>1. /\ now' = now /\ manager'.mode = manager.mode /\ manager'.status = manager.status
        /\ manager'.timer = TimerFor(manager.mode, manager.status)
    BY <1>1, <1>7 DEF OnTimer, ManagerType
  <2> QED
    BY <1>1, <2>1, StaysArmed DEF ArmedInv
<1>8. CASE StartRun
  <2>1. /\ now' = now /\ manager'.mode = manager.mode /\ manager'.status = "running"
        /\ manager'.timer = manager.timer /\ manager'.loaded = manager.loaded
    BY <1>1, <1>8 DEF StartRun, ManagerType
  <2> QED
    BY <1>1, <2>1, StaysArmed DEF ArmedInv
<1>9. CASE EndRun
  <2>1. \E status : manager' = [manager EXCEPT !.status = status, !.timer = TimerAfter(status)]
    BY <1>9, Zenon DEF EndRun
  <2>2. PICK status : manager' = [manager EXCEPT !.status = status, !.timer = TimerAfter(status)]
    BY <2>1
  <2>3. /\ manager'.mode = manager.mode /\ manager'.status = status
        /\ manager'.timer = TimerAfter(status) /\ manager'.loaded = manager.loaded
    BY <1>1, <2>2 DEF ManagerType
  <2>4. now' = now
    BY <1>9 DEF EndRun
  <2>5. CASE manager.timer = 0
    <3>1. ~(manager.loaded /\ manager.mode = "full")
      BY <2>5 DEF ArmedInv, ArmedForNextAttempt
    <3> QED
      BY <1>1, <2>3, <3>1 DEF ArmedInv, ArmedForNextAttempt
  <2>6. CASE manager.timer # 0
    BY <1>1, <2>3, <2>4, <2>6, StaysArmed DEF ArmedInv, TimerAfter
  <2> QED
    BY <2>5, <2>6
<1>10. CASE ConvertChains
  <2>1. /\ now' = now /\ manager'.mode = manager.mode /\ manager'.status = manager.status
        /\ manager'.timer = manager.timer /\ manager'.loaded = manager.loaded
    BY <1>1, <1>10 DEF ConvertChains, ManagerType
  <2> QED
    BY <1>1, <2>1, StaysArmed DEF ArmedInv
<1> QED
  BY <1>2, <1>3, <1>4, <1>5, <1>6, <1>7, <1>8, <1>9, <1>10 DEF Next, Running

\* The timer of a loaded entry that schedules is never forgotten and never late: no daytime
\* attempt comes before it, and while the last run waits for data it is the very next attempt,
\* evening retries included.  Setup, the timer, settings, and the end of a run all set it, in
\* any order (_schedule_next, _on_timer, _reschedule).
THEOREM TimerIsArmed == Spec => []ArmedForNextAttempt
<1>1. Init => ArmedInv
  <2> SUFFICES ASSUME Init
               PROVE  ArmedInv
    OBVIOUS
  <2>1. ~manager.loaded
    BY DEF Init, Unloaded
  <2> QED
    BY <2>1, LoadInit DEF ArmedInv, ArmedForNextAttempt
<1>2. ArmedInv /\ [Next]_vars => ArmedInv'
  BY ArmedNext
<1>3. ArmedInv => ArmedForNextAttempt
  BY DEF ArmedInv
<1> QED
  BY <1>1, <1>2, <1>3, PTL DEF Spec
-----------------------------------------------------------------------------
(* What was imported stays in the site's Store *)

\* The Store that holds the history, and a mapping's chain in it: at the mapping's key, or
\* already at its new one while a conversion is under way.
Holder == IF stores["site"].exists THEN stores["site"] ELSE stores["entry"]
InUse(m) == m \in entry.maps \/ Grid \in entry.maps
Place(m) == IF converting THEN NewKey(m) ELSE KeyOf(m)

\* No stop can undo a removal: a behaviour stops Home Assistant or removes mappings.
Exclusive == left["crash"] = 0 \/ left["remove"] = 0

StoreThere ==
  /\ stores["site"].exists \/ stores["entry"].exists
  /\ entry.version = 2 \/ saved.version = 2 \/ upgrade \in {"copied", "moved"}
       \/ Grid \in entry.maps => stores["site"].exists

Shaped(maps) == maps \subseteq Mappings \/ maps = {Grid}
MapsAlike ==
  /\ Shaped(entry.maps) /\ Shaped(saved.maps)
  /\ Grid \in saved.maps => Grid \in entry.maps
  /\ left["crash"] > 0 => /\ entry.maps \in {Mappings, {Grid}}
                          /\ saved.maps \in {Mappings, {Grid}}

RunChains ==
  /\ converting => entry.maps = Mappings /\ manager.chains = {}
  /\ manager.loaded => \A k \in manager.chains : k = KeyOf(MappingOf(k))

KeptChains ==
  /\ Holder.marker = reached["usage"]
  /\ \A m \in Mappings : InUse(m) /\ reached[m] # 0 =>
       Place(m) \in DOMAIN Holder.chains /\ Holder.chains[Place(m)] = reached[m]
  /\ Grid \notin entry.maps /\ ~converting => \A k \in DOMAIN Holder.chains : k[1] # Grid

KeptInv == LoadInv /\ Exclusive /\ StoreThere /\ MapsAlike /\ RunChains /\ KeptChains

\* The keys of a mapping's chain, and back.
LEMMA KeyFacts ==
  ASSUME NEW m \in Mappings
  PROVE  /\ m # Grid /\ m # "usage" /\ OldKey(m)[1] = m /\ NewKey(m)[1] = Grid
         /\ MappingOf(OldKey(m)) = m /\ MappingOf(NewKey(m)) = m
BY AccountAssumption DEF OldKey, NewKey, MappingOf

LEMMA KeysOfUse ==
  ASSUME NEW m \in Mappings, KeyOf(m) \in KeysOf(entry.maps)
  PROVE  InUse(m)
<1>1. CASE Grid \in entry.maps
  BY <1>1 DEF InUse
<1>2. CASE Grid \notin entry.maps
  <2>1. OldKey(m) \in {OldKey(n) : n \in entry.maps \ {Grid}}
    BY <1>2 DEF KeyOf, KeysOf
  <2>2. PICK n \in entry.maps : OldKey(m) = OldKey(n)
    BY <2>1
  <2> QED
    BY <2>2 DEF OldKey, InUse
<1> QED
  BY <1>1, <1>2

\* The keys of an entry's mappings are the ones its mappings have.
LEMMA KeysOfEntry ==
  ASSUME Shaped(entry.maps)
  PROVE  \A k \in KeysOf(entry.maps) : k = KeyOf(MappingOf(k))
<1>1. CASE entry.maps = {Grid}
  BY <1>1, KeyFacts DEF KeysOf, KeyOf
<1>2. CASE entry.maps \subseteq Mappings
  <2>1. Grid \notin entry.maps
    BY <1>2, AccountAssumption
  <2> QED
    BY <1>2, <2>1, KeyFacts DEF KeysOf, KeyOf
<1> QED
  BY <1>1, <1>2 DEF Shaped

LEMMA InitKept ==
  ASSUME Init, \A b \in Budgets : b["crash"] = 0 \/ b["remove"] = 0
  PROVE  KeptInv
<1>1. PICK version \in {1, 2}, past \in {0, 1} :
        /\ version = 2 => past = 0
        /\ entry = [version |-> version, site |-> version = 2, maps |-> Mappings,
                    tagged |-> IF version = 2 THEN Mappings ELSE {}]
        /\ stores = [entry |-> [StoreOf(past) EXCEPT !.exists = version = 1],
                     site  |-> [NoStore EXCEPT !.exists = version = 2]]
        /\ reached = [m \in Mappings \cup {"usage"} |-> past]
  BY DEF Init
<1>2. /\ saved = entry /\ upgrade = "none" /\ ~manager.loaded /\ ~converting /\ left \in Budgets
      /\ entry.maps = Mappings /\ entry.version = version /\ Grid \notin Mappings
  BY <1>1, AccountAssumption DEF Init, Unloaded
<1>3. Exclusive
  BY <1>2 DEF Exclusive
<1>4. /\ version = 1 => stores["entry"].exists /\ ~stores["site"].exists
      /\ version = 2 => stores["site"].exists /\ stores["site"].marker = 0
                        /\ stores["site"].chains = <<>>
  <2>1. CASE version = 1
    <3>1. (version = 1) = TRUE /\ (version = 2) = FALSE
      BY <2>1
    <3>2. stores["entry"] = [StoreOf(past) EXCEPT !.exists = TRUE]
          /\ stores["site"] = [NoStore EXCEPT !.exists = FALSE]
      BY <1>1, <3>1, Zenon
    <3> QED
      BY <2>1, <3>2 DEF StoreOf, NoStore
  <2>2. CASE version = 2
    <3>1. (version = 2) = TRUE
      BY <2>2
    <3>2. stores["site"] = [NoStore EXCEPT !.exists = TRUE]
      BY <1>1, <3>1, Zenon
    <3> QED
      BY <2>2, <3>2 DEF NoStore
  <2> QED
    BY <2>1, <2>2
<1>5. StoreThere
  BY <1>1, <1>2, <1>4 DEF StoreThere
<1>6. MapsAlike /\ RunChains
  BY <1>2 DEF MapsAlike, Shaped, RunChains
<1>7. KeptChains
  <2>1. \A m \in Mappings : Place(m) = OldKey(m) /\ reached[m] = past
    BY <1>1, <1>2 DEF Place, KeyOf
  <2>2. "usage" \in DOMAIN reached /\ reached["usage"] = past
    BY <1>1
  <2>3. CASE past = 0
    <3>1. Holder.marker = 0 /\ DOMAIN Holder.chains = {}
      <4>1. CASE version = 2
        BY <1>4, <4>1 DEF Holder
      <4>2. CASE version = 1
        <5>1. Holder = [NoStore EXCEPT !.exists = version = 1]
          BY <1>1, <1>4, <2>3, <4>2, Zenon DEF Holder, StoreOf
        <5> QED
          BY <5>1 DEF NoStore
      <4> QED
        BY <4>1, <4>2
    <3> QED
      BY <2>1, <2>2, <2>3, <3>1 DEF KeptChains
  <2>4. CASE past = 1
    <3>1. version = 1
      BY <1>1, <2>4
    <3>2. Holder = [StoreOf(past) EXCEPT !.exists = version = 1]
      BY <1>1, <1>4, <3>1, Zenon DEF Holder
    <3>3. Holder.marker = 1 /\ Holder.chains = [k \in KeysOf(Mappings) |-> 1]
      BY <2>4, <3>2 DEF StoreOf
    <3>4. KeysOf(Mappings) = {OldKey(m) : m \in Mappings}
      BY <1>2 DEF KeysOf
    <3> QED
      BY <1>2, <2>1, <2>2, <2>4, <3>3, <3>4, KeyFacts DEF KeptChains
  <2> QED
    BY <2>3, <2>4
<1> QED
  BY <1>3, <1>5, <1>6, <1>7, LoadInit DEF KeptInv

\* The bounded events only run out.
LEMMA EventsRunOut ==
  ASSUME LoadInv, [Next]_vars
  PROVE  \A event \in Events : left'[event] \in Nat /\ left'[event] <= left[event]
<1>1. left \in [Events -> Nat] /\ left' \in [Events -> Nat]
  BY LoadStep DEF LoadInv, AccountTypes
<1>2. left' = left \/ \E e \in Events : left[e] > 0 /\ left' = [left EXCEPT ![e] = @ - 1]
  <2>1. CASE Tick \/ Publish \/ Persist \/ Upgrading \/ Setup \/ OnTimer \/ StartRun
             \/ ReplaceMappings \/ UNCHANGED vars
    BY <2>1 DEF Tick, Publish, Persist, Upgrading, BeginUpgrade, CopyStore, RemoveOldStore,
                FinishUpgrade, Setup, OnTimer, StartRun, ReplaceMappings, vars
  <2>2. CASE Unload \/ UpdateSettings \/ RemoveMapping \/ RunNow \/ ConvertChains \/ Crash
    BY <2>2 DEF Unload, UpdateSettings, RemoveMapping, RunNow, ConvertChains, Crash, Spend, Events
  <2>3. CASE EndRun
    <3>1. PICK whole \in BOOLEAN : /\ whole \/ left["fail"] > 0
                                   /\ left' = IF whole THEN left ELSE [left EXCEPT !["fail"] = @ - 1]
      <4>1. PICK ok \in BOOLEAN, wrote \in SUBSET manager.chains :
              LET whole == ok /\ wrote = manager.chains IN
              /\ whole \/ left["fail"] > 0
              /\ left' = IF whole THEN left ELSE [left EXCEPT !["fail"] = @ - 1]
        BY <2>3 DEF EndRun
      <4> QED
        BY <4>1
    <3> QED
      BY <3>1 DEF Events
  <2> QED
    BY <2>1, <2>2, <2>3 DEF Next, Running
<1> QED
  BY <1>1, <1>2

LEMMA ExclusiveNext ==
  ASSUME KeptInv, [Next]_vars
  PROVE  /\ Exclusive'
         /\ left'["crash"] > 0 => left["crash"] > 0 /\ left["remove"] = 0
<1>1. /\ left'["crash"] \in Nat /\ left'["crash"] <= left["crash"]
      /\ left'["remove"] \in Nat /\ left'["remove"] <= left["remove"]
  BY EventsRunOut DEF KeptInv, Events
<1>2. left["crash"] \in Nat /\ left["remove"] \in Nat
  BY DEF KeptInv, LoadInv, AccountTypes, Events
<1> QED
  BY <1>1, <1>2 DEF KeptInv, Exclusive

\* What a run leaves in the site's Store and in the history: the chains that it wrote are at
\* the last published day, the others where they were.
StoreAfter(marker, status, wrote) ==
  [stores["site"] EXCEPT !.marker = marker, !.lastRun = status,
                         !.chains = Brought(Store.chains, wrote, published)]
ReachedAfter(marker, wrote) ==
  [m \in DOMAIN reached |->
     IF m = "usage" THEN marker
     ELSE IF \E k \in wrote : MappingOf(k) = m THEN published ELSE reached[m]]

LEMMA RunWrites ==
  ASSUME EndRun
  PROVE  \E marker, status : \E wrote \in SUBSET manager.chains :
           /\ stores' = [stores EXCEPT !["site"] = StoreAfter(marker, status, wrote)]
           /\ reached' = ReachedAfter(marker, wrote)
<1>1. PICK ok \in BOOLEAN, marker \in Store.marker..published, wrote \in SUBSET manager.chains :
        LET whole  == ok /\ wrote = manager.chains
            chains == Brought(Store.chains, wrote, published)
            status == Outcome(ok, marker, chains) IN
        /\ whole \/ left["fail"] > 0
        /\ left' = IF whole THEN left ELSE [left EXCEPT !["fail"] = @ - 1]
        /\ manager.mode = "recovery" => marker = Store.marker
        /\ ok /\ manager.mode = "full" => marker = published
        /\ stores' = [stores EXCEPT !["site"] =
             [@ EXCEPT !.marker = marker, !.lastRun = status, !.chains = chains]]
        /\ reached' = [m \in DOMAIN reached |->
             IF m = "usage" THEN marker
             ELSE IF \E k \in wrote : MappingOf(k) = m THEN published ELSE reached[m]]
        /\ manager' = [manager EXCEPT !.status = status, !.timer = TimerAfter(status)]
        /\ issue' = (~CaughtUpWith(marker, chains) /\ (issue \/ StaysFinal(status)))
        /\ excused' = (excused \/ Disturbs(status, CaughtUpWith(marker, chains)))
  BY Zenon DEF EndRun
<1> DEFINE status == Outcome(ok, marker, Brought(Store.chains, wrote, published))
<1>2. /\ stores' = [stores EXCEPT !["site"] = StoreAfter(marker, status, wrote)]
      /\ reached' = ReachedAfter(marker, wrote)
  BY <1>1 DEF StoreAfter, ReachedAfter
<1> HIDE DEF status
<1> QED
  BY <1>2, Zenon

\* Which stores there are only changes in an upgrade and at a setup.
LEMMA StoreThereNext ==
  ASSUME KeptInv, [Next]_vars
  PROVE  StoreThere' /\ (stores["site"].exists => stores'["site"].exists)
<1>1. /\ AccountTypes /\ LoadOrder /\ StoreThere /\ stores \in [{"entry", "site"} -> StoreType]
      /\ entry \in EntryType /\ saved \in EntryType /\ MapsAlike
  BY DEF KeptInv, LoadInv, AccountTypes
<1>2. CASE /\ stores' = stores \/ \E s : /\ stores' = [stores EXCEPT !["site"] = s]
                                         /\ s.exists = stores["site"].exists \/ s.exists = TRUE
           /\ entry'.version = entry.version /\ saved' = saved /\ upgrade' = upgrade
           /\ Grid \in entry'.maps => Grid \in entry.maps
  <2>1. /\ stores'["entry"] = stores["entry"]
        /\ stores'["site"].exists = stores["site"].exists \/ stores'["site"].exists = TRUE
    BY <1>1, <1>2
  <2>2. stores["site"].exists \in BOOLEAN /\ stores["entry"].exists \in BOOLEAN
    BY <1>1 DEF StoreType
  <2> QED
    BY <1>1, <1>2, <2>1, <2>2, Zenon DEF StoreThere
<1>3. CASE Tick \/ Publish \/ Unload \/ UpdateSettings \/ OnTimer \/ RunNow \/ UNCHANGED vars
  <2>1. UNCHANGED <<stores, entry, saved, upgrade>>
    BY <1>3 DEF Tick, Publish, Unload, UpdateSettings, OnTimer, RunNow, loadVars, vars
  <2> QED
    BY <1>2, <2>1
<1>4. CASE RemoveMapping
  <2>1. PICK m \in entry.maps : entry' = [entry EXCEPT !.maps = @ \ {m}, !.tagged = @ \ {m}]
    BY <1>4 DEF RemoveMapping
  <2>2. entry'.version = entry.version /\ entry'.maps = entry.maps \ {m}
    BY <1>1, <2>1 DEF EntryType
  <2> QED
    BY <1>2, <1>4, <2>2 DEF RemoveMapping
<1>5. CASE Setup
  <2>1. PICK c : stores' = [stores EXCEPT !["site"] = [stores["site"] EXCEPT !.exists = TRUE, !.chains = c]]
    BY <1>5 DEF Setup
  <2>2. [stores["site"] EXCEPT !.exists = TRUE, !.chains = c].exists = TRUE
    BY <1>1 DEF StoreType
  <2> QED
    BY <1>2, <1>5, <2>1, <2>2 DEF Setup
<1>6. CASE StartRun
  <2>1. stores' = [stores EXCEPT !["site"] = [stores["site"] EXCEPT !.lastRun = "running"]]
    BY <1>6 DEF StartRun
  <2>2. [stores["site"] EXCEPT !.lastRun = "running"].exists = stores["site"].exists
    BY <1>1 DEF StoreType
  <2> QED
    BY <1>2, <1>6, <2>1, <2>2 DEF StartRun
<1>7. CASE EndRun
  <2>1. PICK marker, status, wrote : stores' = [stores EXCEPT !["site"] = StoreAfter(marker, status, wrote)]
    BY <1>7, RunWrites
  <2>2. StoreAfter(marker, status, wrote).exists = stores["site"].exists
    BY <1>1 DEF StoreAfter, StoreType
  <2> QED
    BY <1>2, <1>7, <2>1, <2>2 DEF EndRun
<1>8. CASE ConvertChains
  <2>1. stores' = [stores EXCEPT !["site"] = [stores["site"] EXCEPT !.chains = Moved(Store.chains)]]
    BY <1>8 DEF ConvertChains, Moved
  <2>2. [stores["site"] EXCEPT !.chains = Moved(Store.chains)].exists = stores["site"].exists
    BY <1>1 DEF StoreType
  <2> QED
    BY <1>2, <1>8, <2>1, <2>2 DEF ConvertChains
<1>9. CASE ReplaceMappings
  <2>1. stores["site"].exists
    BY <1>1, <1>9 DEF ReplaceMappings, LoadOrder, StoreThere
  <2> QED
    BY <2>1, <1>9 DEF ReplaceMappings, StoreThere
<1>10. CASE Persist
  BY <1>1, <1>10 DEF Persist, StoreThere
<1>11. CASE Crash
  BY <1>1, <1>11 DEF Crash, StoreThere, MapsAlike
<1>12. CASE Upgrading
  <2>1. CASE BeginUpgrade
    <3>1. entry'.version = entry.version /\ entry'.maps = entry.maps
      BY <1>1, <2>1 DEF BeginUpgrade, EntryType
    <3> QED
      BY <1>1, <2>1, <3>1 DEF BeginUpgrade, StoreThere
  <2>2. CASE CopyStore
    <3>1. stores'["site"].exists /\ UNCHANGED <<entry, saved>>
      BY <1>1, <2>2 DEF CopyStore, StoreThere
    <3> QED
      BY <3>1 DEF StoreThere
  <2>3. CASE RemoveOldStore
    <3>1. stores'["site"].exists /\ UNCHANGED <<entry, saved>>
      BY <1>1, <2>3 DEF RemoveOldStore, StoreThere
    <3> QED
      BY <3>1 DEF StoreThere
  <2>4. CASE FinishUpgrade
    <3>1. stores["site"].exists
      BY <1>1, <2>4 DEF FinishUpgrade, StoreThere
    <3> QED
      BY <3>1, <2>4 DEF FinishUpgrade, StoreThere
  <2> QED
    BY <1>12, <2>1, <2>2, <2>3, <2>4 DEF Upgrading
<1> QED
  BY <1>3, <1>4, <1>5, <1>6, <1>7, <1>8, <1>9, <1>10, <1>11, <1>12 DEF Next, Running

LEMMA MapsAlikeNext ==
  ASSUME KeptInv, [Next]_vars
  PROVE  MapsAlike'
<1>1. /\ MapsAlike /\ entry \in EntryType /\ saved \in EntryType /\ RunChains
      /\ left'["crash"] > 0 => left["crash"] > 0 /\ left["remove"] = 0
  BY ExclusiveNext DEF KeptInv, LoadInv, AccountTypes
<1>2. CASE entry'.maps = entry.maps /\ saved'.maps = saved.maps
  BY <1>1, <1>2 DEF MapsAlike, Shaped
<1>3. CASE Persist \/ Crash
  BY <1>1, <1>3 DEF Persist, Crash, MapsAlike, Shaped
<1>4. CASE RemoveMapping
  <2>1. PICK m \in entry.maps \ {Grid} :
          entry' = [entry EXCEPT !.maps = @ \ {m}, !.tagged = @ \ {m}]
    BY <1>4 DEF RemoveMapping
  <2>2. entry'.maps = entry.maps \ {m} /\ saved' = saved /\ left["remove"] > 0
    BY <1>1, <1>4, <2>1 DEF RemoveMapping, EntryType, Spend
  <2>3. entry.maps \subseteq Mappings /\ Grid \notin entry.maps
    BY <1>1, <2>1, AccountAssumption DEF MapsAlike, Shaped
  <2>4. ~(left'["crash"] > 0)
    BY <1>1, <2>2
  <2> QED
    BY <1>1, <2>2, <2>3, <2>4 DEF MapsAlike, Shaped
<1>5. CASE ReplaceMappings
  <2>1. entry'.maps = {Grid} /\ saved' = saved
    BY <1>1, <1>5 DEF ReplaceMappings, EntryType
  <2> QED
    BY <1>1, <2>1 DEF MapsAlike, Shaped
<1>6. CASE BeginUpgrade \/ FinishUpgrade
  <2>1. entry'.maps = entry.maps /\ saved' = saved
    BY <1>1, <1>6 DEF BeginUpgrade, FinishUpgrade, EntryType
  <2> QED
    BY <1>2, <2>1
<1>7. CASE Tick \/ Publish \/ Unload \/ UpdateSettings \/ OnTimer \/ RunNow \/ Setup \/ StartRun
           \/ EndRun \/ ConvertChains \/ CopyStore \/ RemoveOldStore \/ UNCHANGED vars
  <2>1. UNCHANGED <<entry, saved>>
    BY <1>7 DEF Tick, Publish, Unload, UpdateSettings, OnTimer, RunNow, Setup, StartRun, EndRun,
                ConvertChains, CopyStore, RemoveOldStore, loadVars, vars
  <2> QED
    BY <1>2, <2>1
<1> QED
  BY <1>3, <1>4, <1>5, <1>6, <1>7 DEF Next, Running, Upgrading

LEMMA RunChainsNext ==
  ASSUME KeptInv, [Next]_vars
  PROVE  RunChains'
<1>1. /\ RunChains /\ MapsAlike /\ LoadOrder /\ entry \in EntryType /\ manager \in ManagerType
      /\ LoadInv' /\ MapsAlike'
  BY LoadStep, MapsAlikeNext DEF KeptInv, LoadInv, AccountTypes
<1>2. CASE ~manager'.loaded
  BY <1>1, <1>2 DEF RunChains, LoadInv, LoadOrder
<1>3. CASE /\ manager'.chains = manager.chains /\ manager'.loaded = manager.loaded
           /\ entry' = entry /\ converting' = converting
  <2>1. \A m : KeyOf(m)' = KeyOf(m)
    BY <1>3 DEF KeyOf
  <2>2. \A k \in manager.chains : KeyOf(MappingOf(k))' = KeyOf(MappingOf(k))
    BY <1>3 DEF KeyOf
  <2> QED
    BY <1>1, <1>3, <2>2 DEF RunChains
<1>4. CASE Tick \/ Publish \/ Persist \/ CopyStore \/ RemoveOldStore \/ RunNow \/ UNCHANGED vars
  <2>1. UNCHANGED <<manager, entry, converting>>
    BY <1>4 DEF Tick, Publish, Persist, CopyStore, RemoveOldStore, RunNow, loadVars, vars
  <2> QED
    BY <1>3, <2>1
<1>5. CASE UpdateSettings \/ OnTimer \/ StartRun
  <2>1. UNCHANGED <<entry, converting>>
    BY <1>5 DEF UpdateSettings, OnTimer, StartRun, loadVars
  <2>2. manager'.chains = manager.chains /\ manager'.loaded = manager.loaded
    BY <1>1, <1>5 DEF UpdateSettings, WithMode, OnTimer, StartRun, ManagerType
  <2> QED
    BY <1>3, <2>1, <2>2
<1>6. CASE EndRun
  <2>1. UNCHANGED <<entry, converting>>
    BY <1>6 DEF EndRun
  <2>2. PICK status : manager' = [manager EXCEPT !.status = status, !.timer = TimerAfter(status)]
    BY <1>6, Zenon DEF EndRun
  <2>3. manager'.chains = manager.chains /\ manager'.loaded = manager.loaded
    BY <1>1, <2>2 DEF ManagerType
  <2> QED
    BY <1>3, <2>1, <2>3
<1>7. CASE BeginUpgrade \/ FinishUpgrade \/ Unload \/ Crash
  <2>1. ~manager'.loaded
    BY <1>1, <1>7 DEF BeginUpgrade, FinishUpgrade, Unload, Crash, Unloaded, LoadOrder
  <2> QED
    BY <1>2, <2>1
<1>8. CASE Setup
  <2>1. manager'.chains = KeysOf(entry.maps) /\ entry' = entry /\ ~converting'
    BY <1>1, <1>8 DEF Setup, LoadOrder
  <2>2. \A k \in KeysOf(entry.maps) : k = KeyOf(MappingOf(k))
    BY <1>1, KeysOfEntry DEF MapsAlike
  <2>3. \A k \in KeysOf(entry.maps) : KeyOf(MappingOf(k))' = KeyOf(MappingOf(k))
    BY <2>1 DEF KeyOf
  <2> QED
    BY <2>1, <2>2, <2>3 DEF RunChains
<1>9. CASE RemoveMapping
  <2>1. PICK m \in entry.maps \ {Grid} :
          entry' = [entry EXCEPT !.maps = @ \ {m}, !.tagged = @ \ {m}]
    BY <1>9 DEF RemoveMapping
  <2>2. manager' = manager /\ ~converting' /\ (Grid \in entry'.maps <=> Grid \in entry.maps)
    BY <1>1, <1>9, <2>1 DEF RemoveMapping, EntryType
  <2>3. \A k \in manager.chains : KeyOf(MappingOf(k))' = KeyOf(MappingOf(k))
    BY <2>2 DEF KeyOf
  <2> QED
    BY <1>1, <2>2, <2>3 DEF RunChains
<1>10. CASE ConvertChains
  <2>1. manager'.chains = {} /\ entry' = entry /\ entry.maps = Mappings
    BY <1>1, <1>10 DEF ConvertChains, ChainsAfterConversion, Convertible, ManagerType
  <2> QED
    BY <2>1 DEF RunChains
<1>11. CASE ReplaceMappings
  <2>1. manager'.chains = {} /\ ~converting'
    BY <1>1, <1>11 DEF ReplaceMappings, RunChains
  <2> QED
    BY <2>1 DEF RunChains
<1> QED
  BY <1>4, <1>5, <1>6, <1>7, <1>8, <1>9, <1>10, <1>11 DEF Next, Running, Upgrading

\* While the Store that holds the history keeps its marker and chains, and no mapping comes
\* into use, what was imported is still there.
LEMMA ChainsStay ==
  ASSUME KeptChains, reached' = reached, converting' = converting,
         Holder'.marker = Holder.marker, Holder'.chains = Holder.chains,
         Grid \in entry'.maps <=> Grid \in entry.maps, entry'.maps \subseteq entry.maps
  PROVE  KeptChains'
<1>1. \A m : Place(m)' = Place(m) /\ (InUse(m)' => InUse(m))
  BY DEF Place, KeyOf, InUse
<1> QED
  BY <1>1 DEF KeptChains

\* Writing the chains of a loaded entry: what it wrote is the new history.
LEMMA RunKeeps ==
  ASSUME KeptInv, EndRun
  PROVE  KeptChains'
<1>1. /\ KeptChains /\ RunChains /\ manager.loaded /\ ~converting /\ stores["site"].exists
      /\ stores \in [{"entry", "site"} -> StoreType] /\ manager \in ManagerType
      /\ reached \in [Mappings \cup {"usage"} -> Nat] /\ AccountTypes /\ MapsAlike
  BY DEF KeptInv, LoadInv, AccountTypes, LoadOrder, StoreThere, EndRun
<1>2. PICK marker, status : \E wrote \in SUBSET manager.chains :
        /\ stores' = [stores EXCEPT !["site"] = StoreAfter(marker, status, wrote)]
        /\ reached' = ReachedAfter(marker, wrote)
  BY RunWrites
<1>3. PICK wrote \in SUBSET manager.chains :
        /\ stores' = [stores EXCEPT !["site"] = StoreAfter(marker, status, wrote)]
        /\ reached' = ReachedAfter(marker, wrote)
  BY <1>2
<1>4. wrote \in SUBSET Keys
  BY <1>1 DEF ManagerType
<1> DEFINE chains == Brought(Store.chains, wrote, published)
<1>5. /\ DOMAIN chains = wrote \cup DOMAIN Store.chains
      /\ \A k \in wrote : chains[k] = published
      /\ \A k \in DOMAIN Store.chains \ wrote : chains[k] = Store.chains[k]
  BY <1>1, <1>4, WrittenChains
<1> HIDE DEF chains
<1>6. Holder = stores["site"] /\ Holder.chains = Store.chains
  BY <1>1 DEF Holder, Store
<1>7. Holder'.marker = marker /\ Holder'.chains = chains
  <2>1. StoreAfter(marker, status, wrote).exists = TRUE
        /\ StoreAfter(marker, status, wrote).marker = marker
        /\ StoreAfter(marker, status, wrote).chains = chains
    BY <1>1 DEF StoreAfter, StoreType, chains
  <2>2. stores'["site"] = StoreAfter(marker, status, wrote)
    BY <1>1, <1>3
  <2> QED
    BY <2>1, <2>2 DEF Holder
<1>8. /\ reached'["usage"] = marker
      /\ \A m \in Mappings : reached'[m] =
           IF \E k \in wrote : MappingOf(k) = m THEN published ELSE reached[m]
  BY <1>1, <1>3, KeyFacts DEF ReachedAfter
<1>9. entry' = entry /\ ~converting' /\ ~converting
  BY <1>1 DEF EndRun
<1>10. \A m : Place(m) = KeyOf(m) /\ Place(m)' = KeyOf(m) /\ InUse(m)' = InUse(m)
  BY <1>9 DEF Place, KeyOf, InUse
<1>11. \A k \in wrote : k = KeyOf(MappingOf(k))
  BY <1>1 DEF RunChains
<1>12. ASSUME NEW m \in Mappings, InUse(m), reached'[m] # 0
       PROVE  KeyOf(m) \in DOMAIN chains /\ chains[KeyOf(m)] = reached'[m]
  <2>1. CASE \E k \in wrote : MappingOf(k) = m
    <3>1. KeyOf(m) \in wrote
      BY <1>11, <2>1
    <3> QED
      BY <1>5, <1>8, <2>1, <3>1
  <2>2. CASE ~\E k \in wrote : MappingOf(k) = m
    <3>1. MappingOf(KeyOf(m)) = m
      BY KeyFacts DEF KeyOf
    <3>2. KeyOf(m) \notin wrote
      BY <2>2, <3>1
    <3>3. reached'[m] = reached[m]
      BY <1>8, <2>2
    <3>4. KeyOf(m) \in DOMAIN Store.chains /\ Store.chains[KeyOf(m)] = reached[m]
      BY <1>1, <1>6, <1>10, <1>12, <3>3 DEF KeptChains
    <3> QED
      BY <1>5, <3>2, <3>3, <3>4
  <2> QED
    BY <2>1, <2>2
<1>13. ASSUME Grid \notin entry.maps, NEW k \in DOMAIN chains
       PROVE  k[1] # Grid
  <2>1. CASE k \in wrote
    <3>1. k = OldKey(MappingOf(k)) /\ k \in Keys
      BY <1>4, <1>11, <1>13, <2>1 DEF KeyOf
    <3>2. PICK m \in Mappings : k = OldKey(m) \/ k = NewKey(m)
      BY <3>1 DEF Keys
    <3>3. MappingOf(k) = m
      BY <3>2, KeyFacts
    <3> QED
      BY <3>1, <3>3, KeyFacts
  <2>2. CASE k \in DOMAIN Store.chains
    BY <1>1, <1>6, <1>9, <1>13, <2>2 DEF KeptChains
  <2> QED
    BY <1>5, <1>13, <2>1, <2>2
<1> QED
  BY <1>7, <1>8, <1>9, <1>10, <1>12, <1>13 DEF KeptChains

\* A setup only forgets the chains of mappings that are no longer there.
LEMMA SetupKeeps ==
  ASSUME KeptInv, Setup
  PROVE  KeptChains'
<1>1. /\ KeptChains /\ ~manager.loaded /\ ~converting /\ stores["site"].exists
      /\ stores \in [{"entry", "site"} -> StoreType] /\ MapsAlike
  BY DEF KeptInv, LoadInv, AccountTypes, LoadOrder, StoreThere, Setup
<1> DEFINE kept == {k \in DOMAIN Store.chains : k[1] \in entry.maps}
           new == [stores["site"] EXCEPT !.exists = TRUE, !.chains = [k \in kept |-> Store.chains[k]]]
<1>2. stores' = [stores EXCEPT !["site"] = new]
  BY DEF Setup
<1>3. new.exists = TRUE /\ new.marker = Store.marker /\ new.chains = [k \in kept |-> Store.chains[k]]
  BY <1>1 DEF Store, StoreType
<1> HIDE DEF new
<1>4. stores'["site"] = new
  BY <1>1, <1>2
<1>5. /\ Holder = Store /\ Holder'.marker = Store.marker
      /\ Holder'.chains = [k \in kept |-> Store.chains[k]]
  BY <1>1, <1>3, <1>4 DEF Holder, Store
<1>6. entry' = entry /\ ~converting' /\ reached' = reached
  BY <1>1 DEF Setup
<1>7. \A m : Place(m) = KeyOf(m) /\ Place(m)' = KeyOf(m) /\ InUse(m)' = InUse(m)
  BY <1>1, <1>6 DEF Place, KeyOf, InUse
<1>8. \A m \in Mappings : InUse(m) => KeyOf(m)[1] \in entry.maps
  BY KeyFacts DEF InUse, KeyOf
<1> QED
  BY <1>1, <1>5, <1>6, <1>7, <1>8 DEF KeptChains

\* A conversion moves each mapping's chain to its new key, and no two of them to the same one.
LEMMA ConversionKeeps ==
  ASSUME KeptInv, ConvertChains
  PROVE  KeptChains'
<1>1. /\ KeptChains /\ manager.loaded /\ ~converting /\ stores["site"].exists
      /\ stores \in [{"entry", "site"} -> StoreType] /\ entry.maps = Mappings /\ AccountTypes
      /\ Grid \notin Mappings
  BY AccountAssumption DEF KeptInv, LoadInv, AccountTypes, LoadOrder, StoreThere, ConvertChains,
     LockFree, Convertible
<1>2. stores' = [stores EXCEPT !["site"] = [stores["site"] EXCEPT !.chains = Moved(Store.chains)]]
  BY DEF ConvertChains, Moved
<1>3. stores'["site"].exists /\ stores'["site"].marker = Store.marker
      /\ stores'["site"].chains = Moved(Store.chains)
  BY <1>1, <1>2 DEF Store, StoreType
<1>4. Holder = Store /\ Holder'.marker = Store.marker /\ Holder'.chains = Moved(Store.chains)
  BY <1>1, <1>3 DEF Holder, Store
<1>5. entry' = entry /\ converting' /\ reached' = reached
  BY DEF ConvertChains
<1>6. PICK K \in SUBSET Keys : Store.chains \in [K -> Nat]
  BY <1>1, StoresType DEF StoreType, ChainMaps
<1>7. \A o \in K : \E n \in Mappings : o = OldKey(n)
  <2>1. \A o \in K : o[1] # Grid
    BY <1>1, <1>4, <1>6 DEF KeptChains
  <2> QED
    BY <1>6, <2>1, KeyFacts DEF Keys
<1> DEFINE moved(k) == IF k[1] \in Mappings THEN NewKey(k[1]) ELSE k
<1>8. \A o \in K, m \in Mappings : moved(o) = NewKey(m) <=> o = OldKey(m)
  <2> SUFFICES ASSUME NEW o \in K, NEW m \in Mappings
               PROVE  moved(o) = NewKey(m) <=> o = OldKey(m)
    OBVIOUS
  <2>1. PICK n \in Mappings : o = OldKey(n)
    BY <1>7
  <2>2. moved(o) = NewKey(n)
    BY <2>1, KeyFacts
  <2> QED
    BY <2>1, <2>2 DEF NewKey, OldKey
<1>9. \A m \in Mappings : OldKey(m) \in K =>
        NewKey(m) \in DOMAIN Moved(Store.chains)
        /\ Moved(Store.chains)[NewKey(m)] = Store.chains[OldKey(m)]
  <2> SUFFICES ASSUME NEW m \in Mappings, OldKey(m) \in K
               PROVE  NewKey(m) \in DOMAIN Moved(Store.chains)
                      /\ Moved(Store.chains)[NewKey(m)] = Store.chains[OldKey(m)]
    OBVIOUS
  <2>1. moved(OldKey(m)) = NewKey(m)
    BY <1>8
  <2>2. (CHOOSE o \in K : moved(o) = NewKey(m)) = OldKey(m)
    <3>1. \A o \in K : moved(o) = NewKey(m) <=> o = OldKey(m)
      BY <1>8
    <3> HIDE DEF moved
    <3> QED
      BY <3>1
  <2>3. DOMAIN Store.chains = K
    BY <1>6
  <2>4. Moved(Store.chains) =
          [k \in {moved(o) : o \in K} |-> Store.chains[CHOOSE o \in K : moved(o) = k]]
    BY <2>3 DEF Moved
  <2> HIDE DEF moved
  <2>5. NewKey(m) \in {moved(o) : o \in K}
    BY <2>1
  <2> QED
    BY <2>2, <2>4, <2>5
<1>10. \A m \in Mappings : /\ InUse(m) /\ Place(m) = OldKey(m) /\ Place(m)' = NewKey(m)
  BY <1>1, <1>5 DEF InUse, Place, KeyOf
<1>11. \A m \in Mappings : reached[m] # 0 =>
         NewKey(m) \in DOMAIN Holder'.chains /\ Holder'.chains[NewKey(m)] = reached[m]
  BY <1>1, <1>4, <1>6, <1>9, <1>10 DEF KeptChains
<1>12. Holder'.marker = reached["usage"]
  BY <1>1, <1>4 DEF KeptChains
<1> QED
  BY <1>5, <1>10, <1>11, <1>12 DEF KeptChains

\* After a stop the entry on disk finds its chains: those it had are the ones in memory, or
\* there were none yet under new keys.
LEMMA CrashKeeps ==
  ASSUME KeptInv, Crash
  PROVE  KeptChains'
<1>1. /\ KeptChains /\ MapsAlike /\ StoreThere /\ RunChains /\ LoadOrder
      /\ left["crash"] > 0 /\ ~Split /\ entry' = saved /\ ~converting' /\ reached' = reached
      /\ stores' = stores
  BY DEF KeptInv, LoadInv, Crash, Spend
<1>2. Holder' = Holder
  BY <1>1 DEF Holder
<1>3. /\ entry.maps \in {Mappings, {Grid}} /\ saved.maps \in {Mappings, {Grid}}
      /\ Grid \notin Mappings
  BY <1>1, AccountAssumption DEF MapsAlike
<1>4. CASE Grid \in saved.maps
  <2>1. entry.maps = {Grid} /\ saved.maps = {Grid} /\ ~converting
    BY <1>1, <1>3, <1>4 DEF MapsAlike, RunChains
  <2>2. \A m : Place(m)' = Place(m) /\ InUse(m)' = InUse(m)
    BY <1>1, <2>1 DEF Place, KeyOf, InUse
  <2> QED
    BY <1>1, <1>2, <2>1, <2>2 DEF KeptChains
<1>5. CASE Grid \notin saved.maps /\ (Grid \in entry.maps \/ converting)
  <2>1. stores["site"].exists
    BY <1>1, <1>5 DEF StoreThere, LoadOrder
  <2>2. Holder = Store
    BY <2>1 DEF Holder, Store
  <2>3. \A k \in DOMAIN Store.chains : k[1] # Grid
    BY <1>1, <1>5 DEF Split
  <2>4. \A m \in Mappings : InUse(m) /\ Place(m) = NewKey(m)
    BY <1>1, <1>3, <1>5 DEF InUse, Place, KeyOf, RunChains
  <2>5. \A m \in Mappings : reached[m] = 0
    BY <1>1, <2>2, <2>3, <2>4, KeyFacts DEF KeptChains
  <2> QED
    BY <1>1, <1>2, <2>2, <2>3, <2>5 DEF KeptChains
<1>6. CASE Grid \notin entry.maps /\ ~converting
  <2>1. entry.maps = saved.maps
    BY <1>1, <1>3, <1>6 DEF MapsAlike
  <2>2. \A m : Place(m)' = Place(m) /\ InUse(m)' = InUse(m)
    BY <1>1, <1>6, <2>1 DEF Place, KeyOf, InUse
  <2> QED
    BY <1>1, <1>2, <1>6, <2>1, <2>2 DEF KeptChains
<1> QED
  BY <1>4, <1>5, <1>6

LEMMA KeptChainsNext ==
  ASSUME KeptInv, [Next]_vars
  PROVE  KeptChains'
<1>1. /\ KeptChains /\ StoreThere /\ MapsAlike /\ RunChains /\ LoadOrder
      /\ entry \in EntryType /\ stores \in [{"entry", "site"} -> StoreType]
  BY DEF KeptInv, LoadInv, AccountTypes
<1>2. CASE Tick \/ Publish \/ Persist \/ Unload \/ UpdateSettings \/ OnTimer \/ RunNow
           \/ UNCHANGED vars
  <2>1. UNCHANGED <<entry, stores, reached, converting>>
    BY <1>2 DEF Tick, Publish, Persist, Unload, UpdateSettings, OnTimer, RunNow, loadVars, vars
  <2>2. Holder' = Holder
    BY <2>1 DEF Holder
  <2> QED
    BY <1>1, <2>1, <2>2, ChainsStay
<1>3. CASE BeginUpgrade \/ FinishUpgrade
  <2>1. UNCHANGED <<stores, reached, converting>> /\ entry'.maps = entry.maps
    BY <1>1, <1>3 DEF BeginUpgrade, FinishUpgrade, EntryType
  <2>2. Holder' = Holder
    BY <2>1 DEF Holder
  <2> QED
    BY <1>1, <2>1, <2>2, ChainsStay
<1>4. CASE CopyStore
  <2>1. UNCHANGED <<entry, reached, converting>>
    BY <1>4 DEF CopyStore
  <2>2. CASE stores["site"].exists
    <3>1. stores' = stores
      BY <1>4, <2>2 DEF CopyStore
    <3>2. Holder' = Holder
      BY <3>1 DEF Holder
    <3> QED
      BY <1>1, <2>1, <3>2, ChainsStay
  <2>3. CASE ~stores["site"].exists
    <3>1. stores["entry"].exists /\ stores'["site"] = stores["entry"]
      BY <1>1, <1>4, <2>3 DEF CopyStore, StoreThere
    <3>2. Holder' = Holder
      BY <2>3, <3>1 DEF Holder
    <3> QED
      BY <1>1, <2>1, <3>2, ChainsStay
  <2> QED
    BY <2>2, <2>3
<1>5. CASE RemoveOldStore
  <2>1. stores["site"].exists /\ stores'["site"] = stores["site"]
        /\ UNCHANGED <<entry, reached, converting>>
    BY <1>1, <1>5 DEF RemoveOldStore, StoreThere
  <2>2. Holder' = Holder
    BY <2>1 DEF Holder
  <2> QED
    BY <1>1, <2>1, <2>2, ChainsStay
<1>6. CASE StartRun
  <2>1. stores' = [stores EXCEPT !["site"] = [stores["site"] EXCEPT !.lastRun = "running"]]
        /\ UNCHANGED <<entry, reached, converting>> /\ stores["site"].exists
    BY <1>1, <1>6 DEF StartRun, StoreThere, LoadOrder
  <2>2. /\ stores'["site"].exists /\ stores'["site"].marker = stores["site"].marker
        /\ stores'["site"].chains = stores["site"].chains
    BY <1>1, <2>1 DEF StoreType
  <2>3. Holder'.marker = Holder.marker /\ Holder'.chains = Holder.chains
    BY <2>1, <2>2 DEF Holder
  <2> QED
    BY <1>1, <2>1, <2>3, ChainsStay
<1>7. CASE RemoveMapping
  <2>1. PICK m \in entry.maps \ {Grid} :
          entry' = [entry EXCEPT !.maps = @ \ {m}, !.tagged = @ \ {m}]
    BY <1>7 DEF RemoveMapping
  <2>2. entry'.maps = entry.maps \ {m} /\ UNCHANGED <<stores, reached, converting>>
    BY <1>1, <1>7, <2>1 DEF RemoveMapping, EntryType
  <2>3. Holder' = Holder
    BY <2>2 DEF Holder
  <2> QED
    BY <1>1, <2>1, <2>2, <2>3, ChainsStay
<1>8. CASE ReplaceMappings
  <2>1. /\ entry'.maps = {Grid} /\ ~converting' /\ converting /\ entry.maps = Mappings
        /\ UNCHANGED <<stores, reached>>
    BY <1>1, <1>8 DEF ReplaceMappings, EntryType, RunChains
  <2>2. Holder' = Holder
    BY <2>1 DEF Holder
  <2>3. \A m \in Mappings : Place(m)' = Place(m) /\ InUse(m)
    BY <2>1 DEF Place, KeyOf, InUse
  <2> QED
    BY <1>1, <2>1, <2>2, <2>3 DEF KeptChains
<1> QED
  BY <1>2, <1>3, <1>4, <1>5, <1>6, <1>7, <1>8, SetupKeeps, RunKeeps, ConversionKeeps, CrashKeeps
     DEF Next, Running, Upgrading

\* Whatever was imported is what the loaded site's Store says, for every set of mappings and
\* every length of the behaviour: upgrade, move of the Store, conversion, reloads and stops
\* lose none of it (async_move_store, async_rename_chains, async_forget_chain).  A behaviour
\* may stop Home Assistant or remove mappings, any number of times: a stop that undoes a
\* removal not saved yet brings a mapping back whose chain a reload has forgotten.
THEOREM NothingImportedIsLost ==
  ASSUME \A b \in Budgets : b["crash"] = 0 \/ b["remove"] = 0
  PROVE  Spec => []KeptThrough
<1>1. Init => KeptInv
  BY InitKept
<1>2. KeptInv /\ [Next]_vars => KeptInv'
  BY LoadStep, ExclusiveNext, StoreThereNext, MapsAlikeNext, RunChainsNext, KeptChainsNext
     DEF KeptInv
<1>3. KeptInv => KeptThrough
  <2> SUFFICES ASSUME KeptInv, manager.loaded, ~converting
               PROVE  /\ Store.marker = reached["usage"]
                      /\ \A m \in Mappings :
                           KeyOf(m) \in KeysOf(entry.maps) /\ reached[m] # 0 =>
                             KeyOf(m) \in DOMAIN Store.chains /\ Store.chains[KeyOf(m)] = reached[m]
    BY DEF KeptThrough
  <2>1. Holder = Store
    BY DEF KeptInv, LoadInv, LoadOrder, StoreThere, Holder, Store
  <2>2. \A m \in Mappings : Place(m) = KeyOf(m)
    BY DEF Place
  <2> QED
    BY <2>1, <2>2, KeysOfUse DEF KeptInv, KeptChains
<1> QED
  BY <1>1, <1>2, <1>3, PTL DEF Spec

-----------------------------------------------------------------------------
(* The attempts of one day *)

Attempted(day) == AttemptsOn(day, TRUE)
LastAttempt == Max(Attempted(DayOf(now)))

\* A bounded set of naturals that is not empty has a greatest element.
LEMMA MaxOfSome ==
  ASSUME NEW S \in SUBSET Nat, S # {}, NEW b \in Nat, \A e \in S : e <= b
  PROVE  Max(S) \in S /\ \A e \in S : e <= Max(S)
<1> DEFINE below == {b - e : e \in S}
<1>1. below \in SUBSET Nat /\ below # {}
  <2>1. \A e \in S : b - e \in Nat
    OBVIOUS
  <2>2. PICK e \in S : TRUE
    OBVIOUS
  <2>3. b - e \in below
    OBVIOUS
  <2> QED
    BY <2>1, <2>3, Zenon
<1>2. PICK d \in below : \A e \in below : d <= e
  BY <1>1, LeastOfSome
<1>3. PICK m \in S : d = b - m
  BY <1>2
<1>4. \A e \in S : e <= m
  <2> SUFFICES ASSUME NEW e \in S
               PROVE  e <= m
    OBVIOUS
  <2>1. b - e \in below
    OBVIOUS
  <2>2. d <= b - e /\ e \in Nat /\ m \in Nat
    BY <1>2, <2>1
  <2> QED
    BY <1>3, <2>2
<1>5. \A e \in S : m >= e
  BY <1>4
<1>6. Max(S) \in S /\ \A e \in S : Max(S) >= e
  BY <1>5 DEF Max
<1> QED
  BY <1>6

\* The attempts of day d + 1 lie within it, and are attempts; which is the last of them all,
\* and the last before the evening.
LEMMA AttemptsOfDay ==
  ASSUME NEW d \in Nat
  PROVE  /\ Attempted(d + 1) = {d * Slots + s : s \in Daytime \cup Evening}
         /\ AttemptsOn(d + 1, FALSE) = {d * Slots + s : s \in Daytime}
         /\ d * Slots \in Nat
         /\ \A a \in Attempted(d + 1) : a \in Nat /\ d * Slots <= a /\ a < d * Slots + Slots
         /\ Attempted(d + 1) \subseteq AllAttempts(TRUE)
         /\ AttemptsOn(d + 1, FALSE) \subseteq AllAttempts(FALSE) \cap Attempted(d + 1)
         /\ Max(Attempted(d + 1)) \in Attempted(d + 1)
         /\ \A a \in Attempted(d + 1) : a <= Max(Attempted(d + 1))
         /\ LastDaytime(d + 1) \in AttemptsOn(d + 1, FALSE)
         /\ \A a \in AttemptsOn(d + 1, FALSE) : a <= LastDaytime(d + 1)
<1>1. /\ Slots \in Nat /\ Slots > 0 /\ Daytime # {}
      /\ \A s \in Daytime \cup Evening : s \in Nat /\ s < Slots
  BY AttemptTimesAssumption
<1>2. d * Slots \in Nat /\ d + 1 - 1 = d
  BY LaterDay
<1>3. /\ Attempted(d + 1) = {d * Slots + s : s \in Daytime \cup Evening}
      /\ AttemptsOn(d + 1, FALSE) = {d * Slots + s : s \in Daytime}
  BY <1>2 DEF Attempted, AttemptsOn
<1>4. \A a \in Attempted(d + 1) : a \in Nat /\ d * Slots <= a /\ a < d * Slots + Slots
  BY <1>1, <1>2, <1>3
<1>5. Attempted(d + 1) \subseteq AllAttempts(TRUE)
  BY <1>3, <1>4 DEF AllAttempts, Attempts
<1>6. AttemptsOn(d + 1, FALSE) \subseteq AllAttempts(FALSE) \cap Attempted(d + 1)
  <2>1. AttemptsOn(d + 1, FALSE) \subseteq Attempted(d + 1)
    BY <1>3
  <2> QED
    BY <1>3, <1>4, <2>1 DEF AllAttempts, Attempts
<1>7. AttemptsOn(d + 1, FALSE) # {} /\ Attempted(d + 1) # {}
  <2>1. PICK s \in Daytime : TRUE
    BY <1>1
  <2>2. d * Slots + s \in AttemptsOn(d + 1, FALSE)
    BY <1>3
  <2> QED
    BY <1>6, <2>2
<1>8. d * Slots + Slots \in Nat /\ \A a \in Attempted(d + 1) : a <= d * Slots + Slots
  BY <1>1, <1>2, <1>4
<1>9. Attempted(d + 1) \in SUBSET Nat /\ AttemptsOn(d + 1, FALSE) \in SUBSET Nat
  BY <1>4, <1>6
<1>10. /\ Max(Attempted(d + 1)) \in Attempted(d + 1)
       /\ \A a \in Attempted(d + 1) : a <= Max(Attempted(d + 1))
  BY <1>7, <1>8, <1>9, MaxOfSome
<1>11. /\ LastDaytime(d + 1) \in AttemptsOn(d + 1, FALSE)
       /\ \A a \in AttemptsOn(d + 1, FALSE) : a <= LastDaytime(d + 1)
  <2>1. \A a \in AttemptsOn(d + 1, FALSE) : a <= d * Slots + Slots
    BY <1>6, <1>8
  <2> QED
    BY <1>7, <1>8, <1>9, <2>1, MaxOfSome DEF LastDaytime
<1> QED
  BY <1>2, <1>3, <1>4, <1>5, <1>6, <1>10, <1>11

\* A time belongs to one day only.
LEMMA DayIs ==
  ASSUME NEW time \in Nat, NEW d \in Nat, d * Slots <= time, time < d * Slots + Slots
  PROVE  DayOf(time) = d + 1
<1>1. Slots \in Nat /\ d * Slots \in Nat
  BY LaterDay, AttemptTimesAssumption
<1>2. PICK e \in Nat : /\ DayOf(time) = e + 1
                       /\ e * Slots \in Nat /\ e * Slots <= time /\ time < e * Slots + Slots
  BY DayBegins
<1>3. ~(d < e) /\ ~(e < d)
  BY <1>1, <1>2, LaterDay
<1> QED
  BY <1>2, <1>3

\* An attempt that is still to come today is not passed over.
LEMMA NextIsToday ==
  ASSUME NEW time \in Nat, NEW evening \in BOOLEAN,
         NEW a \in AttemptsOn(DayOf(time), evening), a > time
  PROVE  NextAttempt(time, evening) <= a
<1>1. PICK d \in Nat : DayOf(time) = d + 1
  BY DayBegins
<1>2. a \in AllAttempts(evening)
  <2>1. CASE evening = TRUE
    BY <1>1, <2>1, AttemptsOfDay DEF Attempted
  <2>2. CASE evening = FALSE
    BY <1>1, <2>2, AttemptsOfDay
  <2> QED
    BY <2>1, <2>2
<1> QED
  BY <1>2, NextIsFirst

\* An attempt either is the last of its day, and then it is final, or leaves one to come
\* that the timer is set for, or that no run started until now lasts to.
LEMMA AtAttempt ==
  ASSUME NEW time \in AllAttempts(TRUE), NEW evening \in BOOLEAN
  PROVE  \/ Max(Attempted(DayOf(time))) <= time /\ IsFinal(time)
         \/ Max(Attempted(DayOf(time))) > time + 1
         \/ NextAttempt(time, evening) <= Max(Attempted(DayOf(time)))
<1> DEFINE last == Max(Attempted(DayOf(time)))
<1>1. PICK d \in Nat, s \in Daytime \cup Evening : time = d * Slots + s /\ time \in Nat
  BY DEF AllAttempts, Attempts
<1>2. /\ d * Slots \in Nat /\ s \in Nat /\ s < Slots
      /\ \A x \in Daytime \cup Evening, e \in Evening : x < e => x + 1 < e
      /\ \A x \in Daytime \cup Evening : x \in Nat
  BY AttemptTimesAssumption, LaterDay
<1>3. DayOf(time) = d + 1
  <2>1. d * Slots <= time /\ time < d * Slots + Slots
    BY <1>1, <1>2, AttemptTimesAssumption
  <2> QED
    BY <1>1, <2>1, DayIs
<1>4. PICK e \in Daytime \cup Evening : last = d * Slots + e
  <2>1. Max(Attempted(d + 1)) \in {d * Slots + x : x \in Daytime \cup Evening}
    BY AttemptsOfDay, Zenon
  <2> QED
    BY <1>3, <2>1, Zenon
<1>5. e \in Nat /\ last \in Nat
  BY <1>2, <1>4
<1>6. CASE last <= time
  BY <1>6 DEF IsFinal, Attempted
<1>7. CASE last > time /\ e \in Evening
  <2>1. s < e
    BY <1>1, <1>2, <1>4, <1>5, <1>7
  <2>2. s + 1 < e
    BY <1>2, <1>7, <2>1
  <2>3. last > time + 1
    BY <1>1, <1>2, <1>4, <1>5, <2>2
  <2> QED
    BY <2>3
<1>8. CASE last > time /\ e \in Daytime
  <2>1. last \in AttemptsOn(DayOf(time), FALSE)
    BY <1>3, <1>4, <1>8, AttemptsOfDay
  <2>2. last \in AttemptsOn(DayOf(time), evening)
    <3>1. CASE evening = TRUE
      BY <1>3, <3>1, AttemptsOfDay DEF Attempted
    <3>2. CASE evening = FALSE
      BY <2>1, <3>2
    <3> QED
      BY <3>1, <3>2
  <2> HIDE DEF last
  <2>3. NextAttempt(time, evening) <= last
    BY <1>1, <1>8, <2>2, NextIsToday
  <2> QED
    BY <2>3 DEF last
<1> QED
  BY <1>1, <1>4, <1>5, <1>6, <1>7, <1>8

\* From one instant to the next: the day goes on, or the next one begins.
LEMMA DayGoesOn ==
  ASSUME NEW time \in Nat
  PROVE  \/ (time + 1) % Slots # 0 /\ DayOf(time + 1) = DayOf(time)
         \/ /\ (time + 1) % Slots = 0 /\ DayOf(time + 1) = DayOf(time) + 1
            /\ time + 1 = DayOf(time) * Slots
<1>1. Slots \in Nat /\ Slots > 0
  BY AttemptTimesAssumption
<1>2. PICK d \in Nat : /\ DayOf(time) = d + 1
                       /\ d * Slots \in Nat /\ d * Slots <= time /\ time < d * Slots + Slots
  BY DayBegins
<1>3. /\ (time + 1) \div Slots \in Nat
      /\ time + 1 = ((time + 1) \div Slots) * Slots + ((time + 1) % Slots)
      /\ (time + 1) % Slots \in 0..(Slots - 1)
  BY <1>1, Z3
<1>4. (d + 1) * Slots = d * Slots + Slots
  BY LaterDay
<1>5. CASE time + 1 < d * Slots + Slots
  <2>1. DayOf(time + 1) = d + 1
    BY <1>2, <1>5, DayIs
  <2>2. (time + 1) \div Slots = d
    BY <1>2, <1>3, <2>1 DEF DayOf
  <2>3. (time + 1) % Slots # 0
    BY <1>2, <1>3, <2>2
  <2> QED
    BY <1>2, <2>1, <2>3
<1>6. CASE time + 1 = d * Slots + Slots
  <2>1. DayOf(time + 1) = d + 2
    <3>1. d + 1 \in Nat /\ (d + 1) * Slots <= time + 1 /\ time + 1 < (d + 1) * Slots + Slots
      BY <1>1, <1>2, <1>4, <1>6
    <3>2. DayOf(time + 1) = (d + 1) + 1
      BY <3>1, DayIs
    <3> QED
      BY <3>2
  <2>2. (time + 1) \div Slots = d + 1
    BY <1>2, <1>3, <2>1 DEF DayOf
  <2>3. (time + 1) % Slots = 0
    BY <1>1, <1>2, <1>3, <1>4, <1>6, <2>2
  <2> QED
    BY <1>2, <1>4, <1>6, <2>1, <2>3
<1> QED
  BY <1>1, <1>2, <1>5, <1>6

-----------------------------------------------------------------------------
(* The report at the end of a day: what is on time *)

\* The timer is never behind; a run ends within two instants; nothing waits without a reason.
AnyAttempt == AllAttempts(TRUE)
TimerOnTime(timer) == timer # 0 => timer >= now /\ timer \in AnyAttempt
RunOnTime(r) == r # NoRun => r.started <= now /\ now <= r.started + 1
Reasoned(queue) == \A i \in DOMAIN queue : queue[i].trigger # "none"
OnTime == TimerOnTime(manager.timer) /\ RunOnTime(run) /\ Reasoned(waiting)

\* Nothing is imported that is not published, and nothing published before its day is over.
NotAhead ==
  /\ published <= LastDay
  /\ stores["entry"].marker <= published /\ stores["site"].marker <= published

LEMMA TimerForTimes ==
  ASSUME AccountTypes, NEW mode, NEW status
  PROVE  TimerFor(mode, status) # 0 =>
           TimerFor(mode, status) > now /\ TimerFor(mode, status) \in AnyAttempt
<1> DEFINE evening == (status = "waiting")
<1>1. now \in Nat /\ evening \in BOOLEAN
  BY DEF AccountTypes
<1> HIDE DEF evening
<1>2. NextAttempt(now, evening) \in AllAttempts(evening) /\ NextAttempt(now, evening) > now
  BY <1>1, NextIsFirst
<1>3. AllAttempts(evening) \subseteq AllAttempts(TRUE)
  BY <1>1 DEF AllAttempts, Attempts
<1> QED
  BY <1>2, <1>3 DEF TimerFor, evening, AnyAttempt

\* A run that ends: what it leaves, whichever way it went.
LEMMA RunLeaves ==
  ASSUME EndRun
  PROVE  \E marker \in Store.marker..published, wrote \in SUBSET manager.chains : \E status :
           LET chains == Brought(Store.chains, wrote, published) IN
           /\ stores' = [stores EXCEPT !["site"] =
                [@ EXCEPT !.marker = marker, !.lastRun = status, !.chains = chains]]
           /\ manager' = [manager EXCEPT !.status = status, !.timer = TimerAfter(status)]
           /\ issue' = (~CaughtUpWith(marker, chains) /\ (issue \/ StaysFinal(status)))
           /\ excused' = (excused \/ Disturbs(status, CaughtUpWith(marker, chains)))
<1>1. PICK ok \in BOOLEAN, marker \in Store.marker..published, wrote \in SUBSET manager.chains :
        LET whole  == ok /\ wrote = manager.chains
            chains == Brought(Store.chains, wrote, published)
            status == Outcome(ok, marker, chains) IN
        /\ whole \/ left["fail"] > 0
        /\ left' = IF whole THEN left ELSE [left EXCEPT !["fail"] = @ - 1]
        /\ manager.mode = "recovery" => marker = Store.marker
        /\ ok /\ manager.mode = "full" => marker = published
        /\ stores' = [stores EXCEPT !["site"] =
             [@ EXCEPT !.marker = marker, !.lastRun = status, !.chains = chains]]
        /\ reached' = [m \in DOMAIN reached |->
             IF m = "usage" THEN marker
             ELSE IF \E k \in wrote : MappingOf(k) = m THEN published ELSE reached[m]]
        /\ manager' = [manager EXCEPT !.status = status, !.timer = TimerAfter(status)]
        /\ issue' = (~CaughtUpWith(marker, chains) /\ (issue \/ StaysFinal(status)))
        /\ excused' = (excused \/ Disturbs(status, CaughtUpWith(marker, chains)))
  BY Zenon DEF EndRun
<1> QED
  BY <1>1, Zenon

LEMMA OnTimeKept ==
  ASSUME TimerOnTime(manager.timer)', RunOnTime(run)', Reasoned(waiting)'
  PROVE  OnTime'
BY DEF OnTime

\* A timer set now is on time.
LEMMA SetOnTime ==
  ASSUME AccountTypes, now' = now, NEW mode, NEW status, manager'.timer = TimerFor(mode, status)
  PROVE  TimerOnTime(manager.timer)'
<1>1. now \in Nat
  BY DEF AccountTypes
<1>2. AllAttempts(TRUE) \subseteq Nat
  BY DEF AllAttempts, Attempts
<1>3. manager'.timer # 0 => manager'.timer > now /\ manager'.timer \in AnyAttempt
  <2>1. TimerFor(mode, status) # 0 =>
          TimerFor(mode, status) > now /\ TimerFor(mode, status) \in AnyAttempt
    BY TimerForTimes
  <2> QED
    BY <2>1
<1>4. AnyAttempt \subseteq Nat
  BY <1>2 DEF AnyAttempt
<1>5. manager'.timer # 0 => manager'.timer >= now' /\ manager'.timer \in AnyAttempt
  <2> SUFFICES ASSUME manager'.timer # 0
               PROVE  manager'.timer >= now' /\ manager'.timer \in AnyAttempt
    OBVIOUS
  <2>1. manager'.timer > now /\ manager'.timer \in AnyAttempt
    BY <1>3
  <2>2. manager'.timer \in Nat
    BY <1>4, <2>1
  <2>3. \A a, b \in Nat : a > b => a >= b
    OBVIOUS
  <2>4. manager'.timer >= now
    BY <1>1, <2>1, <2>2, <2>3
  <2> QED
    BY <2>1, <2>4
<1>6. (manager.timer # 0 => manager.timer >= now /\ manager.timer \in AnyAttempt)'
  BY <1>5, Zenon
<1> QED
  BY <1>6, Zenon DEF TimerOnTime

LEMMA OnTimeNext ==
  ASSUME LoadInv, OnTime, [Next]_vars
  PROVE  OnTime'
<1>1. LoadInv' /\ AccountTypes /\ AccountTypes' /\ LoadOrder /\ manager \in ManagerType
  BY LoadStep DEF LoadInv, AccountTypes
<1>2. now \in Nat /\ manager.timer \in Nat /\ run.started \in Nat /\ waiting \in Seq(RunType)
  BY <1>1 DEF AccountTypes, ManagerType, RunType
<1>3. CASE Tick
  <2>1. now' = now + 1 /\ UNCHANGED <<manager, waiting, run>>
    BY <1>3 DEF Tick, runVars
  <2>2. (manager.timer # 0 => manager.timer > now) /\ (run # NoRun => run.started = now)
    BY <1>2, <1>3 DEF Tick, MayPass, Due
  <2> QED
    BY <1>2, <2>1, <2>2 DEF OnTime, TimerOnTime, RunOnTime, Reasoned
<1>4. CASE UNCHANGED <<now, manager, waiting, run>>
  BY <1>4 DEF OnTime, TimerOnTime, RunOnTime, Reasoned
<1>5. CASE Setup
  <2>1. /\ now' = now /\ run' = run
        /\ manager'.timer = TimerFor(manager.mode, Store.lastRun)
        /\ waiting' = <<Asked("startup", FALSE)>> \/ waiting' = <<>>
    BY <1>5 DEF Setup
  <2>2. Reasoned(waiting)'
    BY <2>1 DEF Reasoned, Asked
  <2> QED
    BY <1>1, <1>2, <2>1, <2>2, SetOnTime DEF OnTime, RunOnTime, Reasoned
<1>6. CASE Unload \/ Crash
  BY <1>2, <1>6 DEF Unload, Crash, Unloaded, NoRun, OnTime, TimerOnTime, RunOnTime, Reasoned
<1>7. CASE UpdateSettings
  <2>1. PICK mode : manager' = WithMode(mode)
    BY <1>7 DEF UpdateSettings
  <2>2. manager'.timer = TimerFor(mode, manager.status)
    BY <1>1, <2>1 DEF WithMode, ManagerType
  <2>3. UNCHANGED <<now, waiting, run>>
    BY <1>7 DEF UpdateSettings, runVars
  <2> QED
    BY <1>1, <1>2, <2>2, <2>3, SetOnTime DEF OnTime, RunOnTime, Reasoned
<1>8. ASSUME NEW r \in RunType, r.trigger # "none", waiting' = Append(waiting, r)
      PROVE  Reasoned(waiting)'
  BY <1>2, <1>8 DEF OnTime, TimerOnTime, RunOnTime, Reasoned
<1>9. CASE OnTimer
  <2>1. now' = now /\ run' = run /\ manager'.timer = TimerFor(manager.mode, manager.status)
    BY <1>1, <1>9 DEF OnTimer, ManagerType
  <2>2. waiting' = waiting \/ waiting' = Append(waiting, Asked("scheduled", IsFinal(manager.timer)))
    BY <1>9 DEF OnTimer
  <2>3. Asked("scheduled", IsFinal(manager.timer)) \in RunType
    BY DEF Asked, RunType, IsFinal
  <2>4. Reasoned(waiting)'
    BY <1>8, <2>2, <2>3 DEF OnTime, Reasoned, Asked
  <2> QED
    BY <1>1, <1>2, <2>1, <2>4, SetOnTime DEF OnTime, RunOnTime, Reasoned
<1>10. CASE RunNow
  <2>1. UNCHANGED <<now, manager, run>> /\ waiting' = Append(waiting, Asked("service", FALSE))
    BY <1>10 DEF RunNow
  <2>2. Asked("service", FALSE) \in RunType
    BY DEF Asked, RunType
  <2>3. Reasoned(waiting)'
    BY <1>8, <2>1, <2>2 DEF Reasoned, Asked
  <2> QED
    BY <2>1, <2>3 DEF OnTime, TimerOnTime, RunOnTime, Reasoned
<1>11. CASE StartRun
  <2>1. /\ now' = now /\ waiting' = Tail(waiting) /\ waiting # <<>>
        /\ manager'.timer = manager.timer /\ run'.started = now
    BY <1>1, <1>2, <1>11 DEF StartRun, ManagerType, RunType
  <2>2. Reasoned(waiting)'
    BY <1>2, <2>1 DEF OnTime, TimerOnTime, RunOnTime, Reasoned
  <2> QED
    BY <1>2, <2>1, <2>2 DEF OnTime, TimerOnTime, RunOnTime, Reasoned
<1>12. CASE EndRun
  <2>1. \E status : manager' = [manager EXCEPT !.status = status, !.timer = TimerAfter(status)]
    BY <1>12, RunLeaves
  <2>2. PICK status : manager' = [manager EXCEPT !.status = status, !.timer = TimerAfter(status)]
    BY <2>1
  <2>3. manager'.timer = 0 \/ manager'.timer = TimerFor(manager.mode, status)
    BY <1>1, <2>2 DEF ManagerType, TimerAfter
  <2>4. now' = now /\ waiting' = waiting /\ run' = NoRun
    BY <1>12 DEF EndRun
  <2>5. TimerOnTime(manager.timer)'
    BY <1>1, <2>3, <2>4, SetOnTime DEF TimerOnTime
  <2> QED
    BY <2>4, <2>5 DEF OnTime, RunOnTime, Reasoned
<1>13. CASE ConvertChains
  <2>1. manager'.timer = manager.timer /\ UNCHANGED <<now, waiting, run>>
    BY <1>1, <1>13 DEF ConvertChains, ManagerType, runVars
  <2> QED
    BY <2>1 DEF OnTime, TimerOnTime, RunOnTime, Reasoned
<1>14. CASE Publish \/ Persist \/ Upgrading \/ RemoveMapping \/ ReplaceMappings \/ UNCHANGED vars
  BY <1>4, <1>14 DEF Publish, Persist, Upgrading, BeginUpgrade, CopyStore, RemoveOldStore,
                     FinishUpgrade, RemoveMapping, ReplaceMappings, runVars, vars
<1> QED
  BY <1>3, <1>5, <1>6, <1>7, <1>9, <1>10, <1>11, <1>12, <1>13, <1>14 DEF Next, Running

LEMMA NotAheadNext ==
  ASSUME LoadInv, NotAhead, [Next]_vars
  PROVE  NotAhead'
<1>1. LoadInv' /\ AccountTypes /\ AccountTypes'
  BY LoadStep DEF LoadInv
<1>2. /\ published \in Nat /\ now \in Nat /\ stores \in [{"entry", "site"} -> StoreType]
      /\ Store = stores["site"]
      /\ stores["site"].marker \in Nat /\ stores["entry"].marker \in Nat /\ LastDay \in Int
  BY <1>1, LastDayType DEF AccountTypes, StoreType, Store
<1>3. CASE Tick
  <2>1. now' = now + 1 /\ UNCHANGED <<published, stores>>
    BY <1>3 DEF Tick, loadVars
  <2>2. DayOf(now + 1) = DayOf(now) \/ DayOf(now + 1) = DayOf(now) + 1
    BY <1>2, DayGoesOn
  <2>3. DayOf(now)' = DayOf(now + 1) /\ DayOf(now) \in Int
    <3>1. \E d \in Nat : DayOf(now) = d + 1
      BY <1>2, DayBegins
    <3> QED
      BY <2>1, <3>1 DEF DayOf
  <2>4. LastDay' >= LastDay /\ LastDay' \in Int
    BY <2>2, <2>3 DEF LastDay
  <2> QED
    BY <1>2, <2>1, <2>4 DEF NotAhead
<1>4. CASE Publish
  <2>1. published < LastDay /\ published' = published + 1 /\ UNCHANGED <<now, stores>>
    BY <1>4 DEF Publish, loadVars
  <2>2. LastDay' = LastDay
    BY <2>1 DEF LastDay, DayOf
  <2> QED
    BY <1>2, <2>1, <2>2 DEF NotAhead
<1>5. ASSUME UNCHANGED <<now, published>>,
             stores'["entry"].marker <= published, stores'["site"].marker <= published
      PROVE  NotAhead'
  <2>1. LastDay' = LastDay
    BY <1>5 DEF LastDay, DayOf
  <2> QED
    BY <1>5, <2>1 DEF NotAhead
<1>6. CASE UNCHANGED <<now, published, stores>>
  BY <1>5, <1>6 DEF NotAhead
<1>7. CASE CopyStore
  <2>1. stores'["site"].marker \in {stores["site"].marker, stores["entry"].marker}
    BY <1>2, <1>7 DEF CopyStore
  <2>2. stores'["entry"] = stores["entry"] /\ UNCHANGED <<now, published>>
    BY <1>2, <1>7 DEF CopyStore
  <2> QED
    BY <1>2, <1>5, <2>1, <2>2 DEF NotAhead
<1>8. CASE RemoveOldStore
  <2>1. stores'["site"] = stores["site"] /\ stores'["entry"].marker = 0 /\ UNCHANGED <<now, published>>
    BY <1>2, <1>8 DEF RemoveOldStore, NoStore
  <2> QED
    BY <1>2, <1>5, <2>1 DEF NotAhead
<1>9. CASE Setup \/ StartRun \/ ConvertChains
  <2>1. /\ stores'["entry"] = stores["entry"] /\ stores'["site"].marker = stores["site"].marker
        /\ UNCHANGED <<now, published>>
    <3>1. CASE Setup
      BY <1>2, <3>1 DEF Setup, StoreType
    <3>2. CASE StartRun
      BY <1>2, <3>2 DEF StartRun, StoreType
    <3>3. CASE ConvertChains
      BY <1>2, <3>3 DEF ConvertChains, StoreType
    <3> QED
      BY <1>9, <3>1, <3>2, <3>3
  <2> QED
    BY <1>5, <2>1 DEF NotAhead
<1>10. CASE EndRun
  <2>1. \E marker \in Store.marker..published : \E status, chains :
          stores' = [stores EXCEPT !["site"] =
            [@ EXCEPT !.marker = marker, !.lastRun = status, !.chains = chains]]
    BY <1>10, RunLeaves, Zenon
  <2>2. stores'["entry"] = stores["entry"] /\ stores'["site"].marker \in Store.marker..published
    BY <1>2, <2>1 DEF StoreType
  <2>3. UNCHANGED <<now, published>>
    BY <1>10 DEF EndRun
  <2> QED
    BY <1>2, <1>5, <2>2, <2>3 DEF NotAhead
<1>11. CASE Persist \/ BeginUpgrade \/ FinishUpgrade \/ Unload \/ UpdateSettings \/ RemoveMapping
             \/ OnTimer \/ RunNow \/ ReplaceMappings \/ Crash \/ UNCHANGED vars
  BY <1>6, <1>11 DEF Persist, BeginUpgrade, FinishUpgrade, Unload, UpdateSettings, RemoveMapping,
                     OnTimer, RunNow, ReplaceMappings, Crash, loadVars, vars
<1> QED
  BY <1>3, <1>4, <1>7, <1>8, <1>9, <1>10, <1>11 DEF Next, Running, Upgrading

-----------------------------------------------------------------------------
(* The report at the end of a day: who is still to give it *)

\* On an undisturbed day that the import is behind, and that no issue says so, the report is
\* still to come: from an attempt of today that the timer is set for; from a run under way or
\* waiting that ends before the last one; or from a final one, queued or under way.
At == IF run = NoRun THEN now ELSE run.started
Busy == run # NoRun \/ waiting # <<>>
FinalWaits == \E i \in DOMAIN waiting : waiting[i].final
Covered ==
  \/ manager.timer <= LastAttempt
  \/ Busy /\ At + 1 < LastAttempt
  \/ FinalWaits /\ LastAttempt <= now
  \/ run # NoRun /\ run.final /\ LastAttempt <= run.started

Reported ==
  ~excused =>
    /\ manager.loaded /\ manager.mode = "full"
    /\ issue => ~CaughtUp
    /\ ~issue /\ ~CaughtUp => Covered

ReportInv == ArmedInv /\ OnTime /\ NotAhead /\ Reported

LEMMA ReportTypes ==
  ASSUME LoadInv
  PROVE  /\ AccountTypes /\ LoadOrder /\ now \in Nat /\ published \in Nat
         /\ manager \in ManagerType /\ manager.timer \in Nat /\ manager.chains \subseteq Keys
         /\ run \in RunType /\ run.started \in Nat /\ run.final \in BOOLEAN
         /\ waiting \in Seq(RunType) /\ Store = stores["site"] /\ Store \in StoreType
         /\ Store.marker \in Nat /\ LastDay \in Int
         /\ stores \in [{"entry", "site"} -> StoreType]
<1>1. AccountTypes /\ LoadOrder
  BY DEF LoadInv
<1>2. manager \in ManagerType /\ run \in RunType /\ waiting \in Seq(RunType) /\ published \in Nat /\ now \in Nat
      /\ stores \in [{"entry", "site"} -> StoreType]
  BY <1>1 DEF AccountTypes
<1>3. Store = stores["site"] /\ Store \in StoreType
  BY <1>2 DEF Store
<1>4. LastDay \in Int
  BY <1>1, LastDayType
<1> QED
  BY <1>1, <1>2, <1>3, <1>4 DEF ManagerType, RunType, StoreType

\* The last attempt of today.
LEMMA LastToday ==
  ASSUME now \in Nat
  PROVE  \E d \in Nat :
           /\ DayOf(now) = d + 1 /\ LastAttempt = Max(Attempted(d + 1))
           /\ d * Slots \in Nat /\ d * Slots <= now /\ now < d * Slots + Slots
           /\ LastAttempt \in AttemptsOn(DayOf(now), TRUE) /\ LastAttempt \in Nat
           /\ d * Slots <= LastAttempt /\ LastAttempt < d * Slots + Slots
           /\ \A a \in Attempted(DayOf(now)) : a <= LastAttempt
           /\ LastDaytime(DayOf(now)) <= LastAttempt
           /\ LastDaytime(DayOf(now)) \in AttemptsOn(DayOf(now), FALSE)
<1>1. PICK d \in Nat : /\ DayOf(now) = d + 1 /\ d * Slots \in Nat
                       /\ d * Slots <= now /\ now < d * Slots + Slots
  BY DayBegins
<1>2. LastAttempt = Max(Attempted(d + 1))
  BY <1>1 DEF LastAttempt
<1>3. /\ LastAttempt \in Attempted(d + 1) /\ \A a \in Attempted(d + 1) : a <= LastAttempt
      /\ LastAttempt \in Nat /\ d * Slots <= LastAttempt /\ LastAttempt < d * Slots + Slots
  BY <1>2, AttemptsOfDay
<1>4. /\ LastDaytime(d + 1) \in AttemptsOn(d + 1, FALSE)
      /\ LastDaytime(d + 1) \in Attempted(d + 1)
  BY AttemptsOfDay
<1>5. LastDaytime(d + 1) <= LastAttempt
  BY <1>3, <1>4
<1>6. LastAttempt \in AttemptsOn(d + 1, TRUE)
  BY <1>3 DEF Attempted
<1>7. /\ LastAttempt \in AttemptsOn(DayOf(now), TRUE)
      /\ \A a \in Attempted(DayOf(now)) : a <= LastAttempt
      /\ LastDaytime(DayOf(now)) <= LastAttempt
      /\ LastDaytime(DayOf(now)) \in AttemptsOn(DayOf(now), FALSE)
  BY <1>1, <1>3, <1>4, <1>5, <1>6, Zenon
<1> QED
  BY <1>1, <1>2, <1>3, <1>7

\* What does not touch the imports, the chains or the mode leaves the import behind or not.
LEMMA BehindStays ==
  ASSUME now' = now, manager'.mode = manager.mode, manager'.chains = manager.chains,
         stores'["site"].marker = stores["site"].marker,
         stores'["site"].chains = stores["site"].chains
  PROVE  CaughtUp' <=> CaughtUp
<1>1. LastDay' = LastDay
  BY DEF LastDay, DayOf
<1> QED
  BY <1>1 DEF CaughtUp, CaughtUpWith, ReachedBy, Store

LEMMA DayStays ==
  ASSUME now' = now
  PROVE  LastAttempt' = LastAttempt
BY DEF LastAttempt, Attempted, AttemptsOn, DayOf

\* Steps that change neither the issue, nor the imports: they must leave the report to come.
LEMMA ReportStays ==
  ASSUME Reported, excused' = excused, issue' = issue, now' = now,
         manager'.loaded = manager.loaded, manager'.mode = manager.mode,
         manager'.chains = manager.chains,
         stores'["site"].marker = stores["site"].marker,
         stores'["site"].chains = stores["site"].chains,
         ~excused /\ Covered => Covered'
  PROVE  Reported'
BY BehindStays DEF Reported

LEMMA StartRunReports ==
  ASSUME ReportInv, StartRun
  PROVE  Reported'
<1>1. LoadInv /\ Reported /\ OnTime
  BY DEF ReportInv, ArmedInv
<1>2. /\ now \in Nat /\ waiting \in Seq(RunType) /\ manager \in ManagerType
      /\ stores \in [{"entry", "site"} -> StoreType]
  BY <1>1, ReportTypes
<1>3. /\ run = NoRun /\ waiting # <<>> /\ waiting' = Tail(waiting) /\ now' = now
      /\ run' = [Head(waiting) EXCEPT !.started = now]
      /\ excused' = excused /\ issue' = issue
  BY DEF StartRun, LockFree
<1>4. /\ run'.started = now /\ run'.final = waiting[1].final /\ run'.trigger # "none"
      /\ 1 \in DOMAIN waiting
  BY <1>1, <1>2, <1>3 DEF RunType, OnTime, Reasoned
<1>5. run' # NoRun
  BY <1>4 DEF NoRun
<1>6. /\ manager'.loaded = manager.loaded /\ manager'.mode = manager.mode
      /\ manager'.chains = manager.chains /\ manager'.timer = manager.timer
      /\ stores'["site"].marker = stores["site"].marker
      /\ stores'["site"].chains = stores["site"].chains
  BY <1>2 DEF StartRun, ManagerType, StoreType
<1>7. LastAttempt' = LastAttempt
  BY <1>3, DayStays
<1>8. ASSUME Covered
      PROVE  Covered'
  <2>1. CASE manager.timer <= LastAttempt
    BY <1>6, <1>7, <2>1 DEF Covered
  <2>2. CASE Busy /\ At + 1 < LastAttempt
    BY <1>3, <1>4, <1>5, <1>7, <2>2 DEF Covered, At, Busy
  <2>3. CASE FinalWaits /\ LastAttempt <= now
    <3>1. PICK i \in DOMAIN waiting : waiting[i].final
      BY <2>3 DEF FinalWaits
    <3>2. CASE i = 1
      BY <1>4, <1>5, <1>7, <2>3, <3>1, <3>2 DEF Covered
    <3>3. CASE i # 1
      <4>1. i - 1 \in DOMAIN waiting' /\ waiting'[i - 1] = waiting[i]
        BY <1>2, <1>3, <3>3
      <4>2. FinalWaits'
        BY <3>1, <4>1 DEF FinalWaits
      <4> QED
        BY <1>3, <1>7, <2>3, <4>2 DEF Covered
    <3> QED
      BY <3>2, <3>3
  <2>4. CASE run # NoRun /\ run.final /\ LastAttempt <= run.started
    BY <1>3, <2>4
  <2> QED
    BY <1>8, <2>1, <2>2, <2>3, <2>4 DEF Covered
<1> QED
  BY <1>1, <1>3, <1>6, <1>8, ReportStays

LEMMA AppendKeeps ==
  ASSUME NEW queue \in Seq(RunType), NEW r \in RunType
  PROVE  /\ Append(queue, r) # <<>>
         /\ \A i \in DOMAIN queue : i \in DOMAIN Append(queue, r) /\ Append(queue, r)[i] = queue[i]
OBVIOUS

\* Asking for one more run leaves the report to come.
LEMMA RunNowReports ==
  ASSUME ReportInv, RunNow
  PROVE  Reported'
<1>1. Reported /\ waiting \in Seq(RunType)
  BY ReportTypes DEF ReportInv, ArmedInv
<1>2. /\ UNCHANGED <<now, manager, run, issue, excused, stores>>
      /\ waiting' = Append(waiting, Asked("service", FALSE))
  BY DEF RunNow, loadVars
<1>3. LastAttempt' = LastAttempt
  BY <1>2, DayStays
<1>4. waiting' # <<>> /\ (FinalWaits => FinalWaits')
  <2>1. Asked("service", FALSE) \in RunType
    BY DEF Asked, RunType
  <2>2. \A i \in DOMAIN waiting : i \in DOMAIN waiting' /\ waiting'[i] = waiting[i]
    BY <1>1, <1>2, <2>1, AppendKeeps
  <2>3. waiting' # <<>>
    BY <1>1, <1>2, <2>1, AppendKeeps
  <2> QED
    BY <2>2, <2>3 DEF FinalWaits
<1>5. Covered => Covered'
  BY <1>2, <1>3, <1>4 DEF Covered, At, Busy
<1> QED
  BY <1>1, <1>2, <1>5, ReportStays

\* The timer that fires at the last attempt of the day asks for a final run; before, it is
\* set for one of today, or the run it asks for ends before the last one.
LEMMA OnTimerReports ==
  ASSUME ReportInv, OnTimer
  PROVE  Reported'
<1>1. LoadInv /\ Reported /\ OnTime
  BY DEF ReportInv, ArmedInv
<1>2. /\ now \in Nat /\ waiting \in Seq(RunType) /\ manager \in ManagerType
      /\ manager.timer \in Nat /\ run.started \in Nat
  BY <1>1, ReportTypes
<1>3. /\ UNCHANGED <<now, run, excused, stores>>
      /\ manager'.loaded = manager.loaded /\ manager'.mode = manager.mode
      /\ manager'.chains = manager.chains
      /\ manager'.timer = TimerFor(manager.mode, manager.status)
  BY <1>2 DEF OnTimer, ManagerType, loadVars
<1>4. CaughtUp' <=> CaughtUp
  BY <1>3, BehindStays
<1>5. CASE CaughtUp
  <2>1. issue' = FALSE
    BY <1>5 DEF OnTimer
  <2> QED
    BY <1>1, <1>3, <1>4, <1>5, <2>1 DEF Reported
<1>6. CASE ~CaughtUp /\ ~excused
  <2>1. /\ waiting' = Append(waiting, Asked("scheduled", IsFinal(manager.timer)))
        /\ issue' = issue
    BY <1>6 DEF OnTimer
  <2>2. manager.timer = now /\ now \in AllAttempts(TRUE)
    <3>1. manager.timer # 0 /\ manager.timer <= now
      BY DEF OnTimer, Due
    <3>2. manager.timer >= now /\ manager.timer \in AnyAttempt
      BY <1>1, <3>1 DEF OnTime, TimerOnTime
    <3>3. manager.timer = now
      BY <1>2, <3>1, <3>2
    <3> QED
      BY <3>2, <3>3, Zenon DEF AnyAttempt
  <2> DEFINE evening == (manager.status = "waiting")
  <2>3. evening \in BOOLEAN
    OBVIOUS
  <2>4. manager.mode = "full"
    BY <1>1, <1>6 DEF Reported
  <2>5. manager'.timer = NextAttempt(now, evening)
    BY <1>3, <2>4 DEF TimerFor
  <2> HIDE DEF evening
  <2>6. PICK d \in Nat : LastAttempt = Max(Attempted(d + 1)) /\ DayOf(now) = d + 1 /\ LastAttempt \in Nat
    BY <1>2, LastToday
  <2>7. LastAttempt = Max(Attempted(DayOf(now)))
    BY <2>6
  <2>8. \/ LastAttempt <= now /\ IsFinal(now)
        \/ LastAttempt > now + 1
        \/ NextAttempt(now, evening) <= LastAttempt
    BY <2>2, <2>3, <2>7, AtAttempt
  <2>9. LastAttempt' = LastAttempt /\ waiting' # <<>>
    BY <1>2, <1>3, <2>1, DayStays
  <2>10. CASE LastAttempt <= now /\ IsFinal(now)
    <3>1. /\ Len(waiting) + 1 \in DOMAIN waiting'
          /\ waiting'[Len(waiting) + 1] = Asked("scheduled", IsFinal(manager.timer))
      BY <1>2, <2>1
    <3>2. FinalWaits'
      BY <2>2, <2>10, <3>1 DEF FinalWaits, Asked
    <3> QED
      BY <1>1, <1>3, <1>4, <1>6, <2>1, <2>9, <2>10, <3>2 DEF Reported, Covered
  <2>11. CASE LastAttempt > now + 1
    <3>1. At' = At /\ At <= now /\ At \in Nat
      BY <1>1, <1>2, <1>3 DEF At, OnTime, RunOnTime
    <3>2. At' + 1 < LastAttempt'
      BY <1>2, <2>6, <2>9, <2>11, <3>1
    <3> QED
      BY <1>1, <1>3, <1>4, <1>6, <2>1, <2>9, <3>2 DEF Reported, Covered, Busy
  <2>12. CASE NextAttempt(now, evening) <= LastAttempt
    BY <1>1, <1>3, <1>4, <1>6, <2>1, <2>5, <2>9, <2>12 DEF Reported, Covered
  <2> QED
    BY <2>8, <2>10, <2>11, <2>12
<1> QED
  BY <1>3, <1>5, <1>6 DEF Reported

\* A run that ends behind sets the timer for an attempt of today, leaves a final run waiting,
\* or gives the report itself; what else may be is what disturbs the reports of a day.
LEMMA EndRunReports ==
  ASSUME ReportInv, EndRun
  PROVE  Reported'
<1>1. LoadInv /\ ArmedForNextAttempt /\ OnTime /\ NotAhead /\ Reported
  BY DEF ReportInv, ArmedInv
<1>2. /\ now \in Nat /\ manager \in ManagerType /\ manager.timer \in Nat
      /\ run.started \in Nat /\ run.final \in BOOLEAN /\ published \in Nat
      /\ Store = stores["site"] /\ Store.marker \in Nat /\ LastDay \in Int
      /\ stores \in [{"entry", "site"} -> StoreType]
  BY <1>1, ReportTypes
<1>3. PICK marker \in Store.marker..published, wrote \in SUBSET manager.chains : \E status :
        LET chains == Brought(Store.chains, wrote, published) IN
        /\ stores' = [stores EXCEPT !["site"] =
             [@ EXCEPT !.marker = marker, !.lastRun = status, !.chains = chains]]
        /\ manager' = [manager EXCEPT !.status = status, !.timer = TimerAfter(status)]
        /\ issue' = (~CaughtUpWith(marker, chains) /\ (issue \/ StaysFinal(status)))
        /\ excused' = (excused \/ Disturbs(status, CaughtUpWith(marker, chains)))
  BY RunLeaves
<1>4. PICK status :
        LET chains == Brought(Store.chains, wrote, published) IN
        /\ stores' = [stores EXCEPT !["site"] =
             [@ EXCEPT !.marker = marker, !.lastRun = status, !.chains = chains]]
        /\ manager' = [manager EXCEPT !.status = status, !.timer = TimerAfter(status)]
        /\ issue' = (~CaughtUpWith(marker, chains) /\ (issue \/ StaysFinal(status)))
        /\ excused' = (excused \/ Disturbs(status, CaughtUpWith(marker, chains)))
  BY <1>3
<1> DEFINE chains == Brought(Store.chains, wrote, published)
           caughtUp == CaughtUpWith(marker, chains)
<1>5. /\ stores'["site"].marker = marker /\ stores'["site"].chains = chains
      /\ manager'.loaded = manager.loaded /\ manager'.mode = manager.mode
      /\ manager'.chains = manager.chains /\ manager'.timer = TimerAfter(status)
  BY <1>2, <1>4 DEF ManagerType, StoreType
<1>6. /\ issue' <=> ~caughtUp /\ (issue \/ StaysFinal(status))
      /\ excused' <=> excused \/ Disturbs(status, caughtUp)
  BY <1>4
<1>7. run # NoRun /\ run' = NoRun /\ now' = now /\ waiting' = waiting
  BY DEF EndRun
<1>8. CaughtUp' <=> caughtUp
  <2>1. LastDay' = LastDay /\ Store' = stores'["site"]
    BY <1>7 DEF LastDay, DayOf, Store
  <2> HIDE DEF chains
  <2> QED
    BY <1>5, <2>1 DEF CaughtUp, CaughtUpWith, ReachedBy
<1>9. marker \in Nat /\ Store.marker <= marker /\ marker <= published
  BY <1>2
\* A run loses nothing that was imported before it.
<1>10. CaughtUp /\ manager.mode = "full" => caughtUp
  <2> SUFFICES ASSUME CaughtUp, manager.mode = "full"
               PROVE  marker >= LastDay /\ ReachedBy(manager.chains, chains)
    BY DEF CaughtUpWith
  <2>1. Store.marker >= LastDay /\ ReachedBy(manager.chains, Store.chains)
    BY DEF CaughtUp, CaughtUpWith
  <2>2. marker >= LastDay /\ published >= LastDay
    BY <1>2, <1>9, <2>1
  <2>3. ASSUME NEW k \in manager.chains
        PROVE  k \in DOMAIN chains /\ chains[k] >= LastDay
    <3>1. k \in DOMAIN Store.chains /\ Store.chains[k] >= LastDay
      BY <2>1 DEF ReachedBy
    <3>2. k \in DOMAIN chains /\ chains[k] = IF k \in wrote THEN published ELSE Store.chains[k]
      BY <3>1 DEF Brought
    <3> QED
      BY <2>2, <3>1, <3>2
  <2> HIDE DEF chains
  <2> QED
    BY <2>2, <2>3 DEF ReachedBy
<1> HIDE DEF caughtUp, chains
<1>11. LastAttempt' = LastAttempt
  BY <1>7, DayStays
<1> SUFFICES ASSUME ~excused', ~issue', ~caughtUp
             PROVE  manager.mode = "full" /\ Covered'
  <2>1. ~excused' => manager'.loaded /\ manager'.mode = "full"
    BY <1>1, <1>5, <1>6 DEF Reported
  <2>2. issue' => ~CaughtUp'
    BY <1>6, <1>8
  <2> QED
    BY <1>8, <2>1, <2>2 DEF Reported
<1>12. /\ ~excused /\ ~Due /\ manager.loaded /\ manager.mode = "full"
       /\ status = "waiting" \/ run.final \/ ~(now >= LastDaytime(DayOf(run.started)))
  BY <1>1, <1>6 DEF Reported, Disturbs
<1>13. ~issue /\ ~StaysFinal(status) /\ Covered
  BY <1>1, <1>6, <1>10, <1>12 DEF Reported
<1>14. manager.timer > now /\ manager.timer # 0
  BY <1>1, <1>2, <1>12 DEF ArmedForNextAttempt, Due
<1>15. run.started <= now /\ now <= run.started + 1
  BY <1>1, <1>7 DEF OnTime, RunOnTime
<1>16. PICK d \in Nat :
           /\ DayOf(now) = d + 1
           /\ d * Slots \in Nat /\ d * Slots <= now /\ now < d * Slots + Slots
           /\ LastAttempt \in AttemptsOn(DayOf(now), TRUE) /\ LastAttempt \in Nat
           /\ d * Slots <= LastAttempt /\ LastAttempt < d * Slots + Slots
           /\ \A a \in Attempted(DayOf(now)) : a <= LastAttempt
           /\ LastDaytime(DayOf(now)) <= LastAttempt
           /\ LastDaytime(DayOf(now)) \in AttemptsOn(DayOf(now), FALSE)
  BY <1>2, LastToday
<1>17. CASE status = "waiting"
  <2>1. manager'.timer = NextAttempt(now, TRUE)
    <3>1. (status = "waiting") = TRUE
      BY <1>17
    <3> QED
      BY <1>5, <1>12, <1>14, <3>1 DEF TimerAfter, TimerFor
  <2>2. CASE LastAttempt > now
    <3>1. NextAttempt(now, TRUE) <= LastAttempt
      BY <1>2, <1>16, <2>2, NextIsToday
    <3> QED
      BY <1>11, <1>12, <2>1, <3>1 DEF Covered
  <2>3. CASE LastAttempt <= now
    <3>1. CASE manager.timer <= LastAttempt
      BY <1>2, <1>14, <1>16, <2>3, <3>1
    <3>2. CASE Busy /\ At + 1 < LastAttempt
      BY <1>2, <1>7, <1>15, <1>16, <2>3, <3>2 DEF At
    <3>3. CASE FinalWaits /\ LastAttempt <= now
      BY <1>7, <1>11, <1>12, <3>3 DEF Covered, FinalWaits
    <3>4. CASE run.final /\ LastAttempt <= run.started
      <4>1. DayOf(run.started) = DayOf(now)
        <5>1. d * Slots <= run.started /\ run.started < d * Slots + Slots
          BY <1>2, <1>15, <1>16, <3>4, AttemptTimesAssumption
        <5> QED
          BY <1>2, <1>16, <5>1, DayIs
      <4>2. ~EveningRetryAfter(run.started)
        <5> SUFFICES ASSUME NEW t \in AttemptsOn(DayOf(now), TRUE), t > run.started
                     PROVE  FALSE
          BY <4>1 DEF EveningRetryAfter
        <5>1. t <= LastAttempt /\ t \in Nat
          <6>1. t \in Attempted(d + 1)
            BY <1>16 DEF Attempted
          <6>2. t \in Nat
            BY <6>1, AttemptsOfDay
          <6> QED
            BY <1>16, <6>1, <6>2
        <5> QED
          BY <1>2, <1>16, <3>4, <5>1
      <4> QED
        BY <1>13, <3>4, <4>2 DEF StaysFinal
    <3> QED
      BY <1>13, <3>1, <3>2, <3>3, <3>4 DEF Covered
  <2> QED
    BY <1>2, <1>16, <2>2, <2>3
<1>18. CASE status # "waiting"
  <2>1. ~run.final /\ ~(now >= LastDaytime(DayOf(run.started)))
    BY <1>12, <1>13, <1>18 DEF StaysFinal
  <2>2. manager'.timer = NextAttempt(now, FALSE)
    <3>1. (status = "waiting") = FALSE
      BY <1>18
    <3> QED
      BY <1>5, <1>12, <1>14, <3>1 DEF TimerAfter, TimerFor
  <2>3. LastDaytime(DayOf(run.started)) > now /\ DayOf(run.started) = DayOf(now)
    <3>1. PICK e \in Nat : DayOf(run.started) = e + 1 /\ e * Slots \in Nat /\ e * Slots <= run.started
      BY <1>2, DayBegins
    <3>2. LastDaytime(e + 1) \in Nat /\ LastDaytime(e + 1) < e * Slots + Slots
      <4>1. LastDaytime(e + 1) \in Attempted(e + 1)
        BY AttemptsOfDay
      <4> QED
        BY <4>1, AttemptsOfDay
    <3>3. now < LastDaytime(e + 1)
      BY <1>2, <2>1, <3>1, <3>2
    <3>4. e * Slots <= now /\ now < e * Slots + Slots
      BY <1>2, <1>15, <3>1, <3>2, <3>3, AttemptTimesAssumption
    <3>5. DayOf(now) = e + 1
      BY <1>2, <3>4, DayIs
    <3> QED
      BY <3>1, <3>2, <3>3, <3>5
  <2>4. LastDaytime(DayOf(now)) > now
    BY <2>3
  <2>5. NextAttempt(now, FALSE) <= LastDaytime(DayOf(now))
    BY <1>2, <1>16, <2>4, NextIsToday
  <2>6. NextAttempt(now, FALSE) \in Nat /\ LastDaytime(DayOf(now)) \in Nat
    <3>1. LastDaytime(d + 1) \in Attempted(d + 1)
      BY AttemptsOfDay
    <3> QED
      BY <1>2, <1>16, <3>1, AttemptsOfDay, NextIsFirst DEF AllAttempts, Attempts
  <2>7. NextAttempt(now, FALSE) <= LastAttempt
    <3> DEFINE next == NextAttempt(now, FALSE)
               daytime == LastDaytime(DayOf(now))
    <3>1. next \in Nat /\ daytime \in Nat /\ next <= daytime /\ daytime <= LastAttempt
      BY <1>16, <2>5, <2>6
    <3> HIDE DEF next, daytime
    <3>2. next <= LastAttempt
      BY <1>16, <3>1
    <3> QED
      BY <3>2 DEF next
  <2> QED
    BY <1>11, <1>12, <2>2, <2>7 DEF Covered
<1> QED
  BY <1>17, <1>18

\* Within a day nothing is lost with time; at midnight the timer stands for the first attempt.
LEMMA TickReports ==
  ASSUME ReportInv, Tick
  PROVE  Reported'
<1>1. LoadInv /\ ArmedForNextAttempt /\ OnTime /\ NotAhead /\ Reported
  BY DEF ReportInv, ArmedInv
<1>2. /\ now \in Nat /\ manager \in ManagerType /\ manager.timer \in Nat /\ published \in Nat
      /\ run.started \in Nat /\ Store = stores["site"] /\ Store.marker \in Nat /\ LastDay \in Int
  BY <1>1, ReportTypes
<1>3. /\ now' = now + 1 /\ UNCHANGED <<manager, stores, run, waiting, issue>>
      /\ ~Due /\ (run = NoRun => waiting = <<>>)
      /\ excused' = IF (now + 1) % Slots = 0 THEN ~manager.loaded \/ manager.mode = "recovery"
                    ELSE excused
  BY DEF Tick, MayPass, loadVars, runVars
<1>4. now + 1 \in Nat
  BY <1>2
<1>5. CASE (now + 1) % Slots # 0 /\ DayOf(now + 1) = DayOf(now)
  <2>1. LastAttempt' = LastAttempt /\ LastDay' = LastDay /\ excused' = excused
    BY <1>3, <1>5 DEF LastAttempt, Attempted, AttemptsOn, LastDay, DayOf
  <2>2. CaughtUp' <=> CaughtUp
    BY <1>3, <2>1 DEF CaughtUp, CaughtUpWith, ReachedBy, Store
  <2>3. LastAttempt \in Nat
    BY <1>2, LastToday
  <2>4. Covered => Covered'
    BY <1>2, <1>3, <2>1, <2>3 DEF Covered, Busy, At, FinalWaits
  <2> QED
    BY <1>1, <1>3, <2>1, <2>2, <2>4 DEF Reported
<1>6. CASE (now + 1) % Slots = 0 /\ DayOf(now + 1) = DayOf(now) + 1
                                 /\ now + 1 = DayOf(now) * Slots
  <2> SUFFICES ASSUME ~excused'
               PROVE  Reported'
    BY DEF Reported
  <2>1. manager.loaded /\ manager.mode = "full"
    BY <1>2, <1>3, <1>6 DEF ManagerType
  <2>2. PICK d \in Nat : DayOf(now) = d + 1
    BY <1>2, DayBegins
  <2>3. d + 1 \in Nat /\ now + 1 = (d + 1) * Slots /\ DayOf(now + 1) = (d + 1) + 1
    BY <1>6, <2>2
  <2>4. ~CaughtUp'
    <3>1. LastDay' = LastDay + 1
      <4>1. DayOf(now)' = DayOf(now + 1)
        BY <1>3 DEF DayOf
      <4> QED
        BY <1>6, <2>2, <4>1 DEF LastDay
    <3>2. Store.marker < LastDay + 1
      BY <1>1, <1>2 DEF NotAhead
    <3>3. ~(Store.marker >= LastDay')
      BY <1>2, <3>1, <3>2
    <3> QED
      BY <1>3, <2>1, <3>3 DEF CaughtUp, CaughtUpWith, Store
  <2>5. manager.timer <= NextAttempt(now, FALSE)
    BY <1>1, <1>3, <2>1 DEF ArmedForNextAttempt
  <2>6. LastAttempt' = Max(Attempted((d + 1) + 1))
    <3>1. DayOf(now)' = DayOf(now + 1)
      BY <1>3 DEF DayOf
    <3>2. DayOf(now)' = (d + 1) + 1
      BY <2>3, <3>1
    <3> QED
      BY <3>2 DEF LastAttempt, Attempted, AttemptsOn
  <2>7. NextAttempt(now, FALSE) <= LastAttempt'
    <3> DEFINE first == LastDaytime((d + 1) + 1)
               last == Max(Attempted((d + 1) + 1))
               next == NextAttempt(now, FALSE)
    <3>1. /\ first \in AllAttempts(FALSE) /\ first \in Attempted((d + 1) + 1)
          /\ first <= Max(Attempted((d + 1) + 1)) /\ Max(Attempted((d + 1) + 1)) \in Attempted((d + 1) + 1)
          /\ \A a \in Attempted((d + 1) + 1) : a \in Nat /\ (d + 1) * Slots <= a
      BY <2>3, AttemptsOfDay
    <3> HIDE DEF first
    <3>2. first > now /\ first \in Nat
      BY <1>2, <2>3, <3>1
    <3>3. NextAttempt(now, FALSE) <= first
      BY <1>2, <3>1, <3>2, NextIsFirst
    <3>4. NextAttempt(now, FALSE) \in Nat
      BY <1>2, NextIsFirst DEF AllAttempts, Attempts
    <3>5. next \in Nat /\ last \in Nat /\ next <= first /\ first <= last
      BY <3>1, <3>3, <3>4
    <3> HIDE DEF next, last
    <3>6. next <= last
      BY <3>2, <3>5
    <3> QED
      BY <2>6, <3>6, Zenon DEF next, last
  <2>8. manager'.timer <= LastAttempt'
    <3>1. NextAttempt(now, FALSE) \in Nat
      BY <1>2, NextIsFirst DEF AllAttempts, Attempts
    <3>2. LastAttempt' \in Nat
      BY <2>3, <2>6, AttemptsOfDay
    <3> DEFINE next == NextAttempt(now, FALSE)
    <3>3. next \in Nat /\ manager.timer <= next /\ next <= LastAttempt'
      BY <2>5, <2>7, <3>1
    <3> HIDE DEF next
    <3> QED
      BY <1>2, <1>3, <3>2, <3>3
  <2> QED
    BY <1>3, <2>1, <2>4, <2>8 DEF Reported, Covered
<1> QED
  BY <1>2, <1>5, <1>6, DayGoesOn

LEMMA ReportNext ==
  ASSUME ReportInv, [Next]_vars
  PROVE  ReportInv'
<1>1. ArmedInv /\ LoadInv /\ LoadOrder /\ OnTime /\ NotAhead /\ Reported
  BY DEF ReportInv, ArmedInv, LoadInv
<1>2. ArmedInv' /\ OnTime' /\ NotAhead'
  BY <1>1, ArmedNext, OnTimeNext, NotAheadNext
<1>3. CASE UNCHANGED <<now, manager, stores, waiting, run, issue, excused>>
  <2>1. Covered => Covered'
    BY <1>3, DayStays DEF Covered, Busy, At, FinalWaits
  <2>2. /\ excused' = excused /\ issue' = issue /\ now' = now
        /\ manager' = manager /\ stores' = stores
    BY <1>3
  <2> QED
    BY <1>1, <1>2, <2>1, <2>2, ReportStays DEF ReportInv
<1>4. CASE Setup \/ Unload \/ UpdateSettings \/ ConvertChains \/ Crash
  <2>1. excused' = TRUE
    BY <1>4 DEF Setup, Unload, UpdateSettings, ConvertChains, Crash
  <2> QED
    BY <1>2, <2>1, Zenon DEF Reported, ReportInv
<1>5. CASE Upgrading
  <2>1. ~manager.loaded /\ excused' = excused
    BY <1>1, <1>5 DEF Upgrading, BeginUpgrade, CopyStore, RemoveOldStore, FinishUpgrade, LoadOrder
  <2>2. excused
    BY <1>1, <2>1 DEF Reported
  <2>3. ~~excused'
    BY <2>1, <2>2
  <2> QED
    BY <1>2, <2>3, Zenon DEF Reported, ReportInv
<1>6. CASE Publish \/ Persist \/ RemoveMapping \/ ReplaceMappings \/ UNCHANGED vars
  BY <1>3, <1>6 DEF Publish, Persist, RemoveMapping, ReplaceMappings, loadVars, runVars, vars
<1> QED
  BY <1>1, <1>2, <1>4, <1>5, <1>6, TickReports, OnTimerReports, RunNowReports, StartRunReports,
     EndRunReports DEF Next, Running, ReportInv

LEMMA ReportInit ==
  ASSUME Init
  PROVE  ReportInv
<1>1. LoadInv /\ excused = TRUE /\ run = NoRun /\ waiting = <<>> /\ ~manager.loaded /\ manager.timer = 0
  BY LoadInit DEF Init, Unloaded
<1>2. PICK version \in {1, 2}, past \in {0, 1} :
        /\ now = past * Slots /\ published = past
        /\ stores = [entry |-> [StoreOf(past) EXCEPT !.exists = version = 1],
                     site  |-> [NoStore EXCEPT !.exists = version = 2]]
  BY DEF Init
<1>3. LastDay = past
  <2>1. past * Slots <= past * Slots /\ past * Slots < past * Slots + Slots /\ past * Slots \in Nat
    BY AttemptTimesAssumption, LaterDay
  <2>2. DayOf(now) = past + 1
    BY <1>2, <2>1, DayIs
  <2> QED
    BY <2>2 DEF LastDay
<1>4. stores["entry"].marker = past /\ stores["site"].marker = 0
  BY <1>2 DEF StoreOf, NoStore
<1> QED
  BY <1>1, <1>2, <1>3, <1>4
     DEF ReportInv, ArmedInv, ArmedForNextAttempt, OnTime, TimerOnTime, RunOnTime, Reasoned,
         NotAhead, Reported

\* After the last attempt of an undisturbed day, with no run under way, the "behind" issue is
\* there exactly when the import is behind: whatever runs were asked for or queued in between,
\* and however they ended, the final attempt of the daytime, its hand-over to the evening
\* retries or the last of these has given the report (async_run, _on_timer, _reschedule,
\* _update_behind_issue).
THEOREM BehindIsAlwaysReported == Spec => []BehindIsReported
<1>1. Init => ReportInv
  BY ReportInit
<1>2. ReportInv /\ [Next]_vars => ReportInv'
  BY ReportNext
<1>3. ReportInv => BehindIsReported
  <2> SUFFICES ASSUME ReportInv, DayOver, ~excused, manager.loaded, run = NoRun, waiting = <<>>
               PROVE  issue <=> ~CaughtUp
    BY DEF BehindIsReported
  <2>1. LoadInv /\ ArmedForNextAttempt /\ OnTime /\ Reported
    BY DEF ReportInv, ArmedInv
  <2>2. now \in Nat /\ manager.timer \in Nat
    BY <2>1, ReportTypes
  <2>3. PICK d \in Nat :
           /\ DayOf(now) = d + 1 /\ LastAttempt = Max(Attempted(d + 1)) /\ LastAttempt \in Nat
    BY <2>2, LastToday
  <2>4. LastAttempt < now
    <3>1. PICK s \in Daytime \cup Evening : LastAttempt = d * Slots + s
      <4>1. LastAttempt \in {d * Slots + s : s \in Daytime \cup Evening}
        BY <2>3, AttemptsOfDay, Zenon
      <4> QED
        BY <4>1
    <3>2. /\ Slots \in Nat /\ Slots > 0 /\ Daytime # {} /\ Daytime \cup Evening \in SUBSET Nat
          /\ \A x \in Daytime \cup Evening : x <= Slots
      BY AttemptTimesAssumption
    <3>3. s <= Max(Daytime \cup Evening) /\ Max(Daytime \cup Evening) \in Daytime \cup Evening
      BY <3>2, MaxOfSome
    <3>4. now = d * Slots + (now % Slots) /\ now % Slots \in Nat /\ d * Slots \in Nat
      <4>1. now = (now \div Slots) * Slots + (now % Slots) /\ now % Slots \in Nat /\ now \div Slots \in Nat
        BY <2>2, <3>2, Z3
      <4>2. now \div Slots = d
        BY <2>3, <4>1 DEF DayOf
      <4> QED
        BY <4>1, <4>2, LaterDay
    <3>5. now % Slots > Max(Daytime \cup Evening)
      BY DEF DayOver
    <3> QED
      BY <3>1, <3>2, <3>3, <3>4, <3>5
  <2>5. ~Covered
    <3>1. manager.timer >= now
      BY <2>1 DEF Reported, ArmedForNextAttempt, OnTime, TimerOnTime
    <3>2. ~FinalWaits /\ ~Busy
      BY DEF FinalWaits, Busy
    <3> QED
      BY <2>2, <2>3, <2>4, <3>1, <3>2 DEF Covered
  <2> QED
    BY <2>1, <2>5 DEF Reported
<1> QED
  BY <1>1, <1>2, <1>3, PTL DEF Spec
=============================================================================
