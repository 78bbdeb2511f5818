---------------------------- MODULE HarvestWindows ----------------------------
(***************************************************************************)
(* Daily harvests of one source.  arXiv and HEPData are asked for what has *)
(* changed since the day before the run, or since two days before, and APS *)
(* for what was published since the day before.  A run is not made up for  *)
(* when its day is over (catchup=False), so what a window of days can miss *)
(* is a matter of its length.                                              *)
(*                                                                         *)
(* Sources, under src/workflows/: dags/literature/arxiv_harvest.py and     *)
(* aps_harvest.py, dags/data/data_harvest.py, plugins/include/utils/       *)
(* harvests.py.  A set that cannot be listed and an article that cannot be *)
(* built or posted are articles that fail.                                 *)
(***************************************************************************)
EXTENDS Naturals

CONSTANTS
  Preprint,     \* what is harvested
  LastDay       \* bound on the days

ASSUME DaysAssumption == LastDay \in Nat \ {0}

VARIABLES
  origin,       \* the source that is harvested
  today,
  changed,      \* the day on which each of them was last changed, 0 before it is out
  listed,       \* the day by which the source lists it
  nameless,     \* articles of APS that have no DOI
  waiting,      \* those whose last change was not loaded
  fetched,      \* those that the run of today has fetched, as they still are
  running,      \* the day of the run that is under way, 0 if there is none
  begun,        \* days whose run has begun
  ended,        \* days whose run has loaded what it could
  reported      \* those of which a failure was reported since their last change

windowVars == <<origin, today, changed, listed, nameless, waiting, fetched, running,
                begun, ended, reported>>

Day == 1..LastDay
Origin == {"arxiv", "aps", "hepdata"}

WindowsTypeOK ==
  /\ origin \in Origin /\ today \in Day
  /\ changed \in [Preprint -> Day \cup {0}] /\ listed \in [Preprint -> Day \cup {0}]
  /\ nameless \cup waiting \cup fetched \cup reported \subseteq Preprint
  /\ running \in Day \cup {0} /\ begun \subseteq Day /\ ended \subseteq Day

WindowsInit ==
  /\ origin \in Origin /\ today = 1
  /\ changed = [p \in Preprint |-> 0] /\ listed = changed
  /\ nameless = {} /\ waiting = {} /\ fetched = {}
  /\ running = 0 /\ begun = {} /\ ended = {} /\ reported = {}

\* A preprint comes out or changes.  Its stamp is a day, and has no time.  That
\* of an article of APS is its publication, whatever changes later.
ChangePreprint(p) ==
  /\ changed' = [changed EXCEPT ![p] = today]
  /\ listed' = [listed EXCEPT ![p] = IF origin = "aps" /\ @ # 0 THEN @ ELSE today]
  /\ waiting' = waiting \cup {p}
  /\ fetched' = fetched \ {p} /\ reported' = reported \ {p}
  /\ \/ nameless' = nameless \ {p}
     \/ origin = "aps" /\ nameless' = nameless \cup {p}
  /\ UNCHANGED <<origin, today, running, begun, ended>>

\* Also while nothing runs at all: then no run is made for the day.
NextDay ==
  /\ today < LastDay /\ today' = today + 1
  /\ UNCHANGED <<origin, changed, listed, nameless, waiting, fetched, running, begun, ended, reported>>

\* fetch_records_oaipmh, fetch_articles and collect_ids: everything from a day on.
Back == IF origin = "hepdata" THEN 2 ELSE 1
OwnDay(d) == {p \in Preprint : listed[p] >= d} \* mutant: from the day of the run
Since(d) == {p \in Preprint : listed[p] # 0 /\ listed[p] + Back >= d}
FetchChanged ==
  /\ running = 0 /\ today \notin begun
  /\ running' = today /\ begun' = begun \cup {today}
  /\ fetched' = Since(today)
  /\ UNCHANGED <<origin, today, changed, listed, nameless, waiting, ended, reported>>

\* build_records and load_records: what fails is kept for check_failures, but an
\* article without a DOI is passed over.
LoadFetched ==
  /\ running # 0
  /\ \E failed \in SUBSET (fetched \ nameless) :
       /\ waiting' = waiting \ (fetched \ (failed \cup nameless))
       /\ reported' = reported \cup failed
  /\ ended' = ended \cup {running}
  /\ running' = 0 /\ fetched' = {}
  /\ UNCHANGED <<origin, today, changed, listed, nameless, begun>>

\* The run dies, after it has loaded some of them.
RunDies ==
  /\ running # 0
  /\ \E loaded \in SUBSET (fetched \ nameless) : waiting' = waiting \ loaded
  /\ running' = 0 /\ fetched' = {}
  /\ UNCHANGED <<origin, today, changed, listed, nameless, begun, ended, reported>>

WindowsNext ==
  \/ NextDay \/ FetchChanged \/ LoadFetched \/ RunDies
  \/ \E p \in Preprint : ChangePreprint(p)

WindowsSpec == WindowsInit /\ [][WindowsNext]_windowVars

\* A change that was neither loaded nor reported was made after the last run that
\* ended and whose window its stamp is in: a run of any later day of that window
\* has it, so that it takes as many bad days as the window is long to miss one
\* (one day for arXiv).  This leaves out articles of APS that have no DOI; and
\* what changes in one after its publication has no later day in any window.
ChangesAreLoaded ==
  \A p \in waiting \ (reported \cup nameless) :
    \A d \in Day : changed[p] < d /\ d <= listed[p] + Back => d \notin ended
=============================================================================
