----------------------------- MODULE DebugRetention -----------------------------
(***************************************************************************)
(* Debug data of a workspace: with --debug-retention the lanes of a        *)
(* capture write diagnostics, the preview lane keeps its latest windows,   *)
(* and both ask LocalStorageAdapter.prune_debug after every decode to keep *)
(* the workspace within a size and an age (adapters/local_storage.py,      *)
(* corrected_preview.py).  Files have one size.                            *)
(***************************************************************************)
EXTENDS Naturals, FiniteSets, Sequences

CONSTANTS
    Sessions, Active,   \* numbers in the order of their directories; the one being captured
    ByteCap, MaxAge,    \* DebugRetentionPolicy
    Windows,            \* native_retention_windows
    MaxWindows, MaxTime, MaxPins   \* bounds

\* A session is named after the time it starts, and the captured one is the last
\* to have started (application/capture.py:141).
ASSUME DebugAssumption ==
    /\ Sessions \subseteq Nat /\ IsFiniteSet(Sessions)
    /\ Active \in Sessions /\ \A s \in Sessions : s <= Active
    /\ {ByteCap, MaxAge, Windows} \subseteq Nat \ {0}
    /\ {MaxWindows, MaxTime, MaxPins} \subseteq Nat

DebugLanes == {"preview", "commit"}

\* The file that the commit lane appends to, after the windows in its directory.
Trace == MaxWindows + 1

VARIABLES
    debugFiles,   \* of each: session, name, time of its last write
    pins,         \* sessions with a .pin.json
    now,
    lanePc,
    windows,      \* _native_paths: the windows the preview lane retains
    written,      \* windows so far
    prune,        \* the sweep that holds _debug_lock
    pinned        \* pins set or removed so far

debugVars == <<debugFiles, pins, now, lanePc, windows, written, prune, pinned>>

NoPrune == [pc |-> "free", pins |-> {}, candidates |-> {}, scanned |-> {}, spared |-> {}, cutoff |-> 0]

DebugInit ==
    /\ now = MaxAge
    /\ \E times \in [Sessions \ {Active} -> [1..2 -> 0..1]] :
         debugFiles = {[session |-> s, name |-> n, time |-> times[s][n]] : s \in Sessions \ {Active}, n \in 1..2}
    /\ pins \in SUBSET (Sessions \ {Active})
    /\ lanePc = [l \in DebugLanes |-> "idle"]
    /\ windows = << >> /\ written = 0
    /\ prune = NoPrune
    /\ pinned = 0

-----------------------------------------------------------------------------

Tick ==
    /\ now < MaxAge + MaxTime
    /\ now' = now + 1
    /\ UNCHANGED <<debugFiles, pins, lanePc, windows, written, prune, pinned>>

\* pin_debug takes no lock.
Pin ==
    /\ pinned < MaxPins
    /\ \E s \in Sessions : pins' = IF s \in pins THEN pins \ {s} ELSE pins \cup {s}
    /\ pinned' = pinned + 1
    /\ UNCHANGED <<debugFiles, now, lanePc, windows, written, prune>>

Own(name) == [session |-> Active, name |-> name, time |-> now]
Named(name) == {f \in debugFiles : f.session = Active /\ f.name = name}

LaneGoes(l, pc) == lanePc' = [lanePc EXCEPT ![l] = pc]

\* _persist_native: the window is written and retained.
PersistWindow ==
    /\ lanePc["preview"] = "idle" /\ written < MaxWindows
    /\ written' = written + 1
    /\ debugFiles' = debugFiles \cup {Own(written + 1)}
    /\ windows' = Append(windows, written + 1)
    /\ LaneGoes("preview", "evict")
    /\ UNCHANGED <<pins, now, prune, pinned>>

\* The oldest window goes when there are too many; without the file the unlink
\* raises, and the lane has failed.
EvictWindow ==
    /\ lanePc["preview"] = "evict"
    /\ IF Len(windows) <= Windows
       THEN LaneGoes("preview", "prune") /\ UNCHANGED <<debugFiles, windows>>
       ELSE /\ windows' = Tail(windows)
            /\ debugFiles' = debugFiles \ Named(Head(windows))
            /\ LaneGoes("preview", IF Named(Head(windows)) = {} THEN "failed" ELSE "evict")
    /\ UNCHANGED <<pins, now, written, prune, pinned>>

\* The commit lane appends a line about its decode.
RecordDecode ==
    /\ lanePc["commit"] = "idle"
    /\ debugFiles' = (debugFiles \ Named(Trace)) \cup {Own(Trace)}
    /\ LaneGoes("commit", "prune")
    /\ UNCHANGED <<pins, now, windows, written, prune, pinned>>

\* prune_debug, once no other sweep is at work: _debug_sessions reads the pins.
BeginPrune(l) ==
    /\ lanePc[l] = "prune" /\ prune.pc = "free"
    /\ prune' = [NoPrune EXCEPT !.pc = "scan", !.pins = pins,
                                !.cutoff = IF now > MaxAge THEN now - MaxAge ELSE 0]
    /\ LaneGoes(l, "pruning")
    /\ UNCHANGED <<debugFiles, pins, now, windows, written, pinned>>

ByPath(f, g) == f.session < g.session \/ (f.session = g.session /\ f.name < g.name)

\* Mutant: files by their paths alone.
OlderByPath(f, g) == ByPath(f, g)

\* By time, then by path.
Older(f, g) == f.time < g.time \/ (f.time = g.time /\ ByPath(f, g))

\* What expired is removed during the scan; the rest of what is not pinned may
\* have to go for the size.
ScanFiles ==
    /\ prune.pc = "scan"
    /\ LET loose   == {f \in debugFiles : f.session \notin prune.pins}
           expired == {f \in loose : f.time < prune.cutoff}
       IN  /\ debugFiles' = debugFiles \ expired
           /\ prune' = [prune EXCEPT !.pc = "delete",
                                     !.candidates = loose \ expired,
                                     !.scanned = loose \ expired,
                                     !.spared = debugFiles \ loose]
    /\ UNCHANGED <<pins, now, lanePc, windows, written, pinned>>

SamePath(f, g) == f.session = g.session /\ f.name = g.name

\* The oldest candidate is removed, where it still is, until the rest fits.
RemoveOldest ==
    /\ prune.pc = "delete"
    /\ IF Cardinality(prune.candidates) > ByteCap
       THEN \E f \in prune.candidates :
              /\ \A g \in prune.candidates \ {f} : Older(f, g)
              /\ debugFiles' = {g \in debugFiles : ~ SamePath(f, g)}
              /\ prune' = [prune EXCEPT !.candidates = @ \ {f}]
       ELSE prune' = [prune EXCEPT !.pc = "done"] /\ UNCHANGED debugFiles
    /\ UNCHANGED <<pins, now, lanePc, windows, written, pinned>>

EndPrune(l) ==
    /\ lanePc[l] = "pruning" /\ prune.pc = "done"
    /\ prune' = NoPrune
    /\ LaneGoes(l, "idle")
    /\ UNCHANGED <<debugFiles, pins, now, windows, written, pinned>>

DebugNext ==
    \/ Tick \/ Pin \/ PersistWindow \/ EvictWindow \/ RecordDecode \/ ScanFiles \/ RemoveOldest
    \/ \E l \in DebugLanes : BeginPrune(l) \/ EndPrune(l)

DebugSpec == DebugInit /\ [][DebugNext]_debugVars

-----------------------------------------------------------------------------
(* Properties.                                                             *)

\* The file of that path, which a lane may have written again since.
Still(f) == \E g \in debugFiles : SamePath(f, g)

\* When a sweep ends, what is left of what it saw fits the size, is not expired,
\* and is no older than whatever it removed for the size; of the sessions that were
\* pinned when it began only the captured one may have lost a file, to its own
\* lane; although the lanes write, append and evict during the sweep
\* (local_storage.py:673-721).
DebugIsBounded ==
    prune.pc = "done" =>
        LET kept == prune.scanned \cap debugFiles
        IN  /\ Cardinality(kept) <= ByteCap
            /\ \A f \in kept : f.time >= prune.cutoff
            /\ \A f \in kept, g \in prune.scanned : g.session # Active /\ ~ Still(g) => g.time <= f.time
            /\ \A f \in prune.spared : f.session # Active => Still(f)

================================================================================
