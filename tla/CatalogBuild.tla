---------------------------- MODULE CatalogBuild ----------------------------
(***************************************************************************)
(* The Nautilus catalog of one instrument, built from its raw month files: a  *)
(* marker file keeps the hash of the raw files a complete build was made from. *)
(* A build purges, writes file by file and sets the marker last; raw files may  *)
(* be replaced and the process may die at any point.                            *)
(***************************************************************************)
EXTENDS Integers, FiniteSets

CONSTANTS
    Builders,               \* processes that call build_catalog_for_symbol
    Files,                  \* raw month files
    MaxWrites,              \* replacements of raw files
    MaxCrashes, MaxBuilds

VARIABLES
    raw,                    \* version of each raw file, 0 while it does not exist
    catalog,                \* the bars written: pairs of a file and its version
    marker,                 \* the stored source hash
    build,                  \* each builder: [pc, hash, todo]
    used,                   \* [crashes, builds]
    overlap                 \* two builds have run at once

vars == <<raw, catalog, marker, build, used, overlap>>

None == [f \in Files |-> 0]      \* no marker: a build has at least one raw file
Idle == [pc |-> "idle", hash |-> None, todo |-> {}]
Raw == {f \in Files : raw[f] # 0}
Bars == {<<f, raw[f]>> : f \in Raw}

\* _compute_raw_source_hash samples path, size, mtime and edges: a new version, a new hash.
SourceHash == raw

-----------------------------------------------------------------------------
\* Mutant: the marker of the previous build survives a forced one.
ForcedKeepsMarker(b) == /\ build' = [build EXCEPT ![b] = [pc |-> "purge", hash |-> SourceHash, todo |-> Raw]]
                        /\ UNCHANGED marker
Forced(b) ==
    /\ marker' = None
    /\ build' = [build EXCEPT ![b] = [pc |-> "purge", hash |-> SourceHash, todo |-> Raw]]

\* Without a raw file the call fails. A marker with the same hash and some bars ends it;
\* any other bars are purged, and an empty catalog is written straight away.
Begin(b) ==
    /\ build[b] = Idle /\ Raw # {}
    /\ used.builds < MaxBuilds /\ used' = [used EXCEPT !.builds = @ + 1]
    /\ overlap' = (overlap \/ \E c \in Builders : build[c] # Idle)
    /\ \/ Forced(b)
       \/ /\ UNCHANGED marker
          /\ IF marker = SourceHash /\ catalog # {}
             THEN UNCHANGED build
             ELSE build' = [build EXCEPT ![b] =
                    [pc |-> IF (marker # None /\ marker # SourceHash) \/ catalog # {}
                            THEN "purge" ELSE "write",
                     hash |-> SourceHash, todo |-> Raw]]
    /\ UNCHANGED <<raw, catalog>>

\* The bar directory is emptied file by file.
Purge(b) ==
    /\ build[b].pc = "purge"
    /\ \/ \E c \in catalog : catalog' = catalog \ {c} /\ UNCHANGED build
       \/ catalog = {} /\ build' = [build EXCEPT ![b].pc = "write"] /\ UNCHANGED catalog
    /\ UNCHANGED <<raw, marker, used, overlap>>

\* Each raw file is read when its turn comes.
WriteData(b) ==
    /\ build[b].pc = "write"
    /\ \E f \in build[b].todo :
         /\ catalog' = catalog \cup {<<f, raw[f]>>}
         /\ build' = [build EXCEPT ![b].todo = @ \ {f}]
    /\ UNCHANGED <<raw, marker, used, overlap>>

\* Mutant: the hash is taken when the build ends.
HashAtEnd(b) == SourceHash
HashOf(b) == build[b].hash

SetMarker(b) ==
    /\ build[b].pc = "write" /\ build[b].todo = {}
    /\ marker' = HashOf(b) /\ build' = [build EXCEPT ![b] = Idle]
    /\ UNCHANGED <<raw, catalog, used, overlap>>

-----------------------------------------------------------------------------
\* atomic_write_parquet replaces a month file.
WriteRaw(f) ==
    /\ raw[f] < MaxWrites /\ raw' = [raw EXCEPT ![f] = @ + 1]
    /\ UNCHANGED <<catalog, marker, build, used, overlap>>

Crash(b) ==
    /\ build[b] # Idle /\ build' = [build EXCEPT ![b] = Idle]
    /\ used.crashes < MaxCrashes /\ used' = [used EXCEPT !.crashes = @ + 1]
    /\ UNCHANGED <<raw, catalog, marker, overlap>>

Init ==
    /\ raw \in [Files -> {0, 1}] /\ catalog = {} /\ marker = None
    /\ build = [b \in Builders |-> Idle]
    /\ used = [crashes |-> 0, builds |-> 0] /\ overlap = FALSE

Next ==
    \/ \E b \in Builders : Begin(b) \/ Purge(b) \/ WriteData(b) \/ SetMarker(b) \/ Crash(b)
    \/ \E f \in Files : WriteRaw(f)

Spec == Init /\ [][Next]_vars

-----------------------------------------------------------------------------
TypeOK ==
    /\ raw \in [Files -> 0..MaxWrites] /\ catalog \subseteq Files \X (1..MaxWrites)
    /\ marker \in [Files -> 0..MaxWrites] /\ overlap \in BOOLEAN

\* A backtest trusts the marker: when it names the raw files as they are now, the catalog
\* holds all their bars and no others, whatever died or was replaced on the way, as long
\* as builds did not overlap.
MarkerIsTrue == (~overlap /\ marker = SourceHash) => catalog = Bars

\* Does not hold: nothing excludes two builds, and one purges what the other has marked.
MarkerIsTrueAlways == (marker = SourceHash /\ \A b \in Builders : build[b] = Idle) => catalog = Bars

-----------------------------------------------------------------------------
(* Why the marker can be trusted.                                           *)

Below(g, h) == \A f \in Files : g[f] <= h[f]

Busy(b) == build[b].pc # "idle"

\* The files that a build has found when it began.
Found(b) == {f \in Files : build[b].hash[f] # 0}

BuildsAreTyped ==
    /\ raw \in [Files -> Nat] /\ marker \in [Files -> Nat] /\ overlap \in BOOLEAN
    /\ build \in [Builders -> [pc : {"idle", "purge", "write"}, hash : [Files -> Nat],
                               todo : SUBSET Files]]
    /\ \A b \in Builders : ~Busy(b) => build[b] = Idle

\* Versions only grow, so a hash that differs from the raw files once does so for ever.
VersionsGrow ==
    /\ Below(marker, raw)
    /\ \A b \in Builders : Busy(b) => Below(build[b].hash, raw)

\* A build that goes on has left a marker older than its own hash, and what it has written
\* is what it has ticked off, unless a raw file was replaced meanwhile.
Building(b) ==
    /\ Below(marker, build[b].hash) /\ marker # build[b].hash
    /\ build[b].pc = "purge" => build[b].todo = Found(b)
    /\ build[b].pc = "write" /\ build[b].hash = raw =>
         build[b].todo \subseteq Raw /\ catalog = {<<f, raw[f]>> : f \in Raw \ build[b].todo}

MarkerIsAlone ==
    ~overlap => /\ \A b, c \in Builders : Busy(b) /\ Busy(c) => b = c
                /\ marker = raw => catalog = Bars
                /\ \A b \in Builders : Busy(b) => Building(b)

\* The inductive invariant.
SoundMarker == BuildsAreTyped /\ VersionsGrow /\ MarkerIsAlone

\* And what the types take on top of it: a build writes the files that exist.
TodoExists == \A b \in Builders : \A f \in build[b].todo : raw[f] # 0
=============================================================================
