------------------------- MODULE AccountProperties -------------------------
(***************************************************************************)
(* What must hold of an account's entry over upgrades, setups, reloads,    *)
(* conversions, stops and the attempts of several days.                    *)
(***************************************************************************)
EXTENDS Account

\* A loaded entry that schedules always has its timer set for the next attempt: no daytime
\* attempt lies before it, and no evening retry while the last run, with no other one under
\* way, is waiting for data (_schedule_next, _on_timer, _reschedule).
ArmedForNextAttempt ==
  manager.loaded /\ manager.mode = "full" =>
    /\ manager.timer # 0
    /\ ~Due => manager.timer <= NextAttempt(now, FALSE)
    /\ ~Due /\ manager.status = "waiting" => manager.timer = NextAttempt(now, TRUE)

\* After the last attempt of an undisturbed day, the "behind" issue is there exactly when
\* the import is behind: neither the hand-over of the final attempt to the evening retries
\* nor the order of queued runs may lose it or leave it (async_run, _update_behind_issue).
DayOver == (now % Slots) > Max(Daytime \cup Evening)
BehindIsReported ==
  DayOver /\ ~excused /\ manager.loaded /\ run = NoRun /\ waiting = <<>> =>
    (issue <=> ~CaughtUp)

\* What was imported is what the loaded site's Store says, for the usage chain and each
\* mapping's chain: upgrade, move of the Store, conversion, reload and stops lose none of
\* it (async_move_store, async_rename_chains, async_forget_chain).
KeptThrough ==
  manager.loaded /\ ~converting =>
    /\ Store.marker = reached["usage"]
    /\ \A m \in Mappings :
         KeyOf(m) \in KeysOf(entry.maps) /\ reached[m] # 0 =>
           KeyOf(m) \in DOMAIN Store.chains /\ Store.chains[KeyOf(m)] = reached[m]

\* An entry saved as upgraded is upgraded in every part, so no later setup has anything
\* left to repair: its site, its mappings' site and its Store (async_migrate_to_sites).
UpgradedWhole ==
  saved.version = 2 => saved.site /\ saved.tagged = saved.maps /\ ~stores["entry"].exists

\* A run cut off by a stop or a reload is not the last word: another one ends
\* (needs_startup_run).
Interrupted == Store.lastRun = "running" /\ run = NoRun
InterruptedRunsAgain == Interrupted ~> Store.lastRun # "running"
=============================================================================
